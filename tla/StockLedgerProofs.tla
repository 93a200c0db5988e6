--------------------------- MODULE StockLedgerProofs ---------------------------
(***************************************************************************)
(* Proofs about StockLedger.                                               *)
(***************************************************************************)
EXTENDS StockLedger, Sums, SequenceTheorems

-----------------------------------------------------------------------------
(* The sums of the specification as sums of functions.                     *)
DeltaOf(m, k) == [i \in DOMAIN m.items |-> ItemDelta(m.direction, m.items[i], k)]

LEMMA DeltaSum ==
    ASSUME NEW m, NEW k
    PROVE  Delta(m, k) = SumOver(DeltaOf(m, k), DOMAIN m.items)
<1> DEFINE S == DOMAIN m.items
           F == DeltaOf(m, k)
           e(i) == ItemDelta(m.direction, m.items[i], k)
           P(g) == g = [s \in SUBSET S |-> IF s = {} THEN 0 ELSE e(Choice(s)) + g[s \ {Choice(s)}]]
<1>1. Delta(m, k) = (CHOOSE g : P(g))[S]
  BY Zenon DEF Delta, MapThenSumSet, MapThenFoldSet, Choice
<1>2. ASSUME NEW s \in SUBSET S, s # {} PROVE F[Choice(s)] = e(Choice(s))
  BY <1>2, ChoiceIn DEF DeltaOf
<1> HIDE DEF S, F, e
<1>3. \A g : P(g) <=> IsSum(g, F, S)
  BY <1>2 DEF IsSum, Partial
<1> QED BY Zenon, <1>1, <1>3, SumIsChosen DEF F, S

ViewItemDelta(m, i, k) ==
    IF m.items[i].sku # k[1] THEN 0
    ELSE (IF m.items[i].to = k[2] /\ m.direction \in {"in", "transfer"}
          THEN m.items[i].quantity ELSE 0)
         - (IF m.items[i].from = k[2] /\ m.direction \in {"out", "transfer"}
            THEN m.items[i].quantity ELSE 0)
ViewDeltaOf(m, k) == [i \in DOMAIN m.items |-> ViewItemDelta(m, i, k)]

LEMMA ViewDeltaSum ==
    ASSUME NEW m, NEW k
    PROVE  ViewDelta(m, k) = SumOver(ViewDeltaOf(m, k), DOMAIN m.items)
<1> DEFINE S == DOMAIN m.items
           F == ViewDeltaOf(m, k)
           e(i) == ViewItemDelta(m, i, k)
           P(g) == g = [s \in SUBSET S |-> IF s = {} THEN 0 ELSE e(Choice(s)) + g[s \ {Choice(s)}]]
<1>1. ViewDelta(m, k) = (CHOOSE g : P(g))[S]
  BY Zenon DEF ViewDelta, MapThenSumSet, MapThenFoldSet, Choice, ViewItemDelta
<1>2. ASSUME NEW s \in SUBSET S, s # {} PROVE F[Choice(s)] = e(Choice(s))
  BY <1>2, ChoiceIn DEF ViewDeltaOf
<1> HIDE DEF S, F, e
<1>3. \A g : P(g) <=> IsSum(g, F, S)
  BY <1>2 DEF IsSum, Partial
<1> QED BY Zenon, <1>1, <1>3, SumIsChosen DEF F, S

QuantityOf(items, k) == [i \in TakenFrom(items, k) |-> items[i].quantity]

LEMMA RequiredSum ==
    ASSUME NEW items, NEW k
    PROVE  Required(items, k) = SumOver(QuantityOf(items, k), TakenFrom(items, k))
<1> DEFINE S == TakenFrom(items, k)
           F == QuantityOf(items, k)
           e(i) == items[i].quantity
           P(g) == g = [s \in SUBSET S |-> IF s = {} THEN 0 ELSE e(Choice(s)) + g[s \ {Choice(s)}]]
<1>1. Required(items, k) = (CHOOSE g : P(g))[S]
  BY Zenon DEF Required, MapThenSumSet, MapThenFoldSet, Choice
<1>2. ASSUME NEW s \in SUBSET S, s # {} PROVE F[Choice(s)] = e(Choice(s))
  BY <1>2, ChoiceIn DEF QuantityOf
<1> HIDE DEF S, F, e
<1>3. \A g : P(g) <=> IsSum(g, F, S)
  BY <1>2 DEF IsSum, Partial
<1> QED BY Zenon, <1>1, <1>3, SumIsChosen DEF F, S

(* Sums over movements.                                                    *)
DeltasOf(rows, k) == [m \in DOMAIN rows |-> Delta(rows[m], k)]

LEMMA MovementsSum ==
    ASSUME NEW rows, NEW k, NEW S \in SUBSET DOMAIN rows
    PROVE  MapThenSumSet(LAMBDA m : Delta(rows[m], k), S) = SumOver(DeltasOf(rows, k), S)
<1> DEFINE F == DeltasOf(rows, k)
           e(m) == Delta(rows[m], k)
           P(g) == g = [s \in SUBSET S |-> IF s = {} THEN 0 ELSE e(Choice(s)) + g[s \ {Choice(s)}]]
<1>1. MapThenSumSet(LAMBDA m : Delta(rows[m], k), S) = (CHOOSE g : P(g))[S]
  BY Zenon DEF MapThenSumSet, MapThenFoldSet, Choice
<1>2. ASSUME NEW s \in SUBSET S, s # {} PROVE F[Choice(s)] = e(Choice(s))
  BY <1>2, ChoiceIn DEF DeltasOf
<1> HIDE DEF F, e
<1>3. \A g : P(g) <=> IsSum(g, F, S)
  BY <1>2 DEF IsSum, Partial
<1> QED BY Zenon, <1>1, <1>3, SumIsChosen DEF F

ViewDeltasOf(rows, k) == [m \in DOMAIN rows |-> ViewDelta(rows[m], k)]

LEMMA ViewMovementsSum ==
    ASSUME NEW rows, NEW k, NEW S \in SUBSET DOMAIN rows
    PROVE  MapThenSumSet(LAMBDA m : ViewDelta(rows[m], k), S)
             = SumOver(ViewDeltasOf(rows, k), S)
<1> DEFINE F == ViewDeltasOf(rows, k)
           e(m) == ViewDelta(rows[m], k)
           P(g) == g = [s \in SUBSET S |-> IF s = {} THEN 0 ELSE e(Choice(s)) + g[s \ {Choice(s)}]]
<1>1. MapThenSumSet(LAMBDA m : ViewDelta(rows[m], k), S) = (CHOOSE g : P(g))[S]
  BY Zenon DEF MapThenSumSet, MapThenFoldSet, Choice
<1>2. ASSUME NEW s \in SUBSET S, s # {} PROVE F[Choice(s)] = e(Choice(s))
  BY <1>2, ChoiceIn DEF ViewDeltasOf
<1> HIDE DEF F, e
<1>3. \A g : P(g) <=> IsSum(g, F, S)
  BY <1>2 DEF IsSum, Partial
<1> QED BY Zenon, <1>1, <1>3, SumIsChosen DEF F

LEMMA StockSum ==
    ASSUME NEW rows, NEW k
    PROVE  StockIn(rows, k) = SumOver(DeltasOf(rows, k), ConfirmedIn(rows))
<1>1. ConfirmedIn(rows) \in SUBSET DOMAIN rows
  BY DEF ConfirmedIn
<1> QED BY Zenon, <1>1, MovementsSum DEF StockIn

-----------------------------------------------------------------------------
(* What a movement does to the stock of a key.                             *)
LEMMA RowShape ==
    ASSUME NEW m \in MovementRow
    PROVE  /\ m.items \in Seq(Item) /\ IsFiniteSet(DOMAIN m.items)
           /\ \A i \in DOMAIN m.items : m.items[i] \in Item
<1>1. m.items \in Seq(Item)
  BY DEF MovementRow
<1> DEFINE n == Len(m.items)
<1>2. DOMAIN m.items = 1 .. n /\ n \in Nat
      /\ \A i \in DOMAIN m.items : m.items[i] \in Item
  BY <1>1
<1> HIDE DEF n
<1>3. IsFiniteSet(1 .. n)
  BY <1>2, FS_Interval
<1> QED BY <1>1, <1>2, <1>3

LEMMA ItemFacts ==
    ASSUME NEW m \in MovementRow, NEW k \in Keys, NEW i \in DOMAIN m.items
    PROVE  LET d == ItemDelta(m.direction, m.items[i], k) IN
           /\ d \in Int /\ ViewItemDelta(m, i, k) = d
           /\ m.direction = "in" => d >= 0
           /\ i \in TakenFrom(m.items, k) => d + m.items[i].quantity >= 0
           /\ i \notin TakenFrom(m.items, k) => d >= 0
<1> DEFINE item == m.items[i]
           d == ItemDelta(m.direction, item, k)
<1>1. item \in Item /\ item.quantity \in Nat
  BY RowShape DEF Item
<1>2. m.direction \in {"in", "out", "transfer"}
  BY DEF MovementRow
<1>3. m.direction = "transfer" => item.from # item.to
  BY DEF MovementRow
<1>4. i \in TakenFrom(m.items, k) <=> item.sku = k[1] /\ item.from = k[2]
  BY DEF TakenFrom
<1>5. ViewItemDelta(m, i, k) =
        IF item.sku # k[1] THEN 0
        ELSE (IF item.to = k[2] /\ m.direction \in {"in", "transfer"}
              THEN item.quantity ELSE 0)
             - (IF item.from = k[2] /\ m.direction \in {"out", "transfer"}
                THEN item.quantity ELSE 0)
  BY DEF ViewItemDelta
<1>6. d = IF item.sku # k[1] THEN 0
          ELSE CASE m.direction = "in" /\ item.to = k[2] -> item.quantity
                 [] m.direction = "out" /\ item.from = k[2] -> -item.quantity
                 [] m.direction = "transfer" /\ item.to = k[2] -> item.quantity
                 [] m.direction = "transfer" /\ item.from = k[2] -> -item.quantity
                 [] OTHER -> 0
  BY DEF ItemDelta
<1> HIDE DEF item, d
<1>7. d \in Int /\ ViewItemDelta(m, i, k) = d
  BY <1>1, <1>2, <1>3, <1>5, <1>6
<1>8. m.direction = "in" => d >= 0
  BY <1>1, <1>6
<1>9. i \in TakenFrom(m.items, k) => d + item.quantity >= 0
  BY <1>1, <1>2, <1>3, <1>6
<1>10. i \notin TakenFrom(m.items, k) => d >= 0
  BY <1>1, <1>2, <1>4, <1>6
<1> QED BY <1>7, <1>8, <1>9, <1>10 DEF d, item

LEMMA DeltaFacts ==
    ASSUME NEW m \in MovementRow, NEW k \in Keys
    PROVE  /\ Delta(m, k) \in Int /\ Required(m.items, k) \in Int
           /\ ViewDelta(m, k) = Delta(m, k)
           /\ m.direction = "in" => Delta(m, k) >= 0
           /\ Delta(m, k) + Required(m.items, k) >= 0
           /\ k \notin SourceKeys(m.items) => Delta(m, k) >= 0
<1> DEFINE S == DOMAIN m.items
           T == TakenFrom(m.items, k)
           F == DeltaOf(m, k)
           G == QuantityOf(m.items, k)
<1>1. IsFiniteSet(S) /\ T \in SUBSET S /\ IsFiniteSet(T)
  BY RowShape, FS_Subset DEF TakenFrom
<1>2. \A i \in S : F[i] \in Int /\ ViewDeltaOf(m, k)[i] = F[i]
  BY ItemFacts DEF DeltaOf, ViewDeltaOf
<1>3. m.direction = "in" => \A i \in S : F[i] \in Nat
  BY ItemFacts DEF DeltaOf
<1>4. \A i \in T : G[i] \in Int /\ G[i] = m.items[i].quantity
  BY <1>1, RowShape DEF QuantityOf, Item
<1>5. \A i \in T : F[i] + G[i] >= 0
  BY <1>1, <1>4, ItemFacts DEF DeltaOf
<1>6. \A i \in S \ T : F[i] >= 0
  BY ItemFacts DEF DeltaOf
<1>7. Delta(m, k) = SumOver(F, S) /\ Required(m.items, k) = SumOver(G, T)
  BY DeltaSum, RequiredSum
<1>8. ViewDelta(m, k) = SumOver(ViewDeltaOf(m, k), S)
  BY ViewDeltaSum
<1>9. k \notin SourceKeys(m.items) => T = {}
  BY DEF SourceKeys
<1> HIDE DEF S, T, F, G
<1>10. Delta(m, k) \in Int /\ Required(m.items, k) \in Int
  BY <1>1, <1>2, <1>4, <1>7, SumType
<1>11. ViewDelta(m, k) = Delta(m, k)
  BY <1>1, <1>2, <1>7, <1>8, SumSame
<1>12. m.direction = "in" => Delta(m, k) >= 0
  BY <1>1, <1>3, <1>7, SumNat
<1>13. Delta(m, k) + Required(m.items, k) >= 0
  BY <1>1, <1>2, <1>4, <1>5, <1>6, <1>7, SumBound
<1>14. k \notin SourceKeys(m.items) => Delta(m, k) >= 0
  BY <1>7, <1>9, <1>10, <1>13, SumEmpty
<1> QED BY <1>10, <1>11, <1>12, <1>13, <1>14

LEMMA MovementsFinite == IsFiniteSet(Movements) /\ Movements \subseteq Nat
<1> DEFINE n == Len(Existing) + MaxRequests
<1>1. n \in Nat
  BY ExistingMovements, StockConstants
<1> HIDE DEF n
<1>2. IsFiniteSet(1 .. n) /\ 1 .. n \subseteq Nat
  BY <1>1, FS_Interval
<1> QED BY <1>2 DEF Movements, n

(* Rows of inventory_movements, and the stock after one of them changes.   *)
LEMMA StockType ==
    ASSUME NEW rows \in [Movements -> MovementRow], NEW k \in Keys
    PROVE  /\ StockIn(rows, k) \in Int
           /\ IsFiniteSet(ConfirmedIn(rows)) /\ ConfirmedIn(rows) \subseteq Movements
           /\ \A m \in Movements : DeltasOf(rows, k)[m] = Delta(rows[m], k)
                                   /\ DeltasOf(rows, k)[m] \in Int
<1>1. IsFiniteSet(ConfirmedIn(rows)) /\ ConfirmedIn(rows) \subseteq Movements
  BY MovementsFinite, FS_Subset DEF ConfirmedIn
<1>2. \A m \in Movements : DeltasOf(rows, k)[m] = Delta(rows[m], k)
                           /\ DeltasOf(rows, k)[m] \in Int
  BY DeltaFacts DEF DeltasOf
<1>3. SumOver(DeltasOf(rows, k), ConfirmedIn(rows)) \in Int
  BY <1>1, <1>2, SumType
<1> QED BY <1>1, <1>2, <1>3, StockSum

LEMMA StockAfterConfirming ==
    ASSUME NEW rows \in [Movements -> MovementRow], NEW m \in Movements,
           NEW row \in MovementRow, NEW k \in Keys,
           rows[m].status # "confirmed", row.status = "confirmed"
    PROVE  StockIn([rows EXCEPT ![m] = row], k) = StockIn(rows, k) + Delta(row, k)
<1> DEFINE next == [rows EXCEPT ![m] = row]
           C == ConfirmedIn(rows)
           F == DeltasOf(rows, k)
           G == DeltasOf(next, k)
<1>1. next \in [Movements -> MovementRow] /\ next[m] = row
      /\ \A n \in Movements : n # m => next[n] = rows[n]
  OBVIOUS
<1> HIDE DEF next
<1>2. ConfirmedIn(next) = C \union {m} /\ m \notin C
  BY <1>1 DEF ConfirmedIn
<1>3. IsFiniteSet(C) /\ C \subseteq Movements
      /\ \A n \in C \union {m} : G[n] \in Int
  BY <1>1, StockType
<1>4. \A n \in C : F[n] = G[n]
  BY <1>1, <1>2, <1>3, StockType
<1>5. StockIn(next, k) = SumOver(G, C \union {m}) /\ StockIn(rows, k) = SumOver(F, C)
  BY <1>2, StockSum
<1>6. G[m] = Delta(row, k) /\ StockIn(rows, k) \in Int /\ G[m] \in Int
  BY <1>1, StockType
<1> HIDE DEF C, F, G
<1>7. SumOver(G, C \union {m}) = G[m] + SumOver(G, C)
  BY <1>2, <1>3, SumAdd
<1>8. SumOver(G, C) = SumOver(F, C)
  BY <1>3, <1>4, SumSame
<1>9. StockIn(next, k) = StockIn(rows, k) + Delta(row, k)
  BY <1>5, <1>6, <1>7, <1>8
<1> QED BY <1>9 DEF next

LEMMA StockUnchanged ==
    ASSUME NEW rows \in [Movements -> MovementRow], NEW m \in Movements,
           NEW row \in MovementRow, NEW k \in Keys,
           rows[m].status # "confirmed", row.status # "confirmed"
    PROVE  StockIn([rows EXCEPT ![m] = row], k) = StockIn(rows, k)
<1> DEFINE next == [rows EXCEPT ![m] = row]
           C == ConfirmedIn(rows)
           F == DeltasOf(rows, k)
           G == DeltasOf(next, k)
<1>1. next \in [Movements -> MovementRow] /\ next[m] = row
      /\ \A n \in Movements : n # m => next[n] = rows[n]
  OBVIOUS
<1> HIDE DEF next
<1>2. ConfirmedIn(next) = C /\ m \notin C
  BY <1>1 DEF ConfirmedIn
<1>3. IsFiniteSet(C) /\ C \subseteq Movements
  BY StockType
<1>4. \A n \in C : F[n] = G[n]
  BY <1>1, <1>2, <1>3, StockType
<1>5. StockIn(next, k) = SumOver(G, C) /\ StockIn(rows, k) = SumOver(F, C)
  BY <1>2, StockSum
<1> HIDE DEF C, F, G
<1>8. SumOver(F, C) = SumOver(G, C)
  BY <1>3, <1>4, SumSame
<1>9. StockIn(next, k) = StockIn(rows, k)
  BY <1>5, <1>8
<1> QED BY <1>9 DEF next

(* The query of the view and the helper agree, whatever the movements are. *)
LEMMA ViewIsStock ==
    ASSUME movement \in [Movements -> MovementRow], NEW k \in Keys
    PROVE  ViewOnHand(k) = OnHand(k) /\ OnHand(k) \in Int
<1> DEFINE C == ConfirmedIn(movement)
           F == DeltasOf(movement, k)
           G == ViewDeltasOf(movement, k)
<1>1. IsFiniteSet(C) /\ C \subseteq Movements /\ StockIn(movement, k) \in Int
  BY StockType
<1>2. \A m \in C : F[m] = G[m]
  BY <1>1, DeltaFacts DEF DeltasOf, ViewDeltasOf
<1>3. ViewOnHand(k) = SumOver(G, C)
  BY Zenon, <1>1, ViewMovementsSum DEF ViewOnHand, Confirmed, ConfirmedIn
<1>4. OnHand(k) = SumOver(F, C) /\ OnHand(k) \in Int
  BY <1>1, StockSum DEF OnHand
<1> HIDE DEF C, F, G
<1> QED BY <1>1, <1>2, <1>3, <1>4, SumSame

-----------------------------------------------------------------------------
(* The adjustment movements of an opname: each variant that differs has    *)
(* one item.  Its place is the number of smaller variants, plus one.       *)
Rank(skus, s) == Cardinality({t \in skus : t < s})

LEMMA Ranks ==
    ASSUME NEW S \in SUBSET Nat, IsFiniteSet(S)
    PROVE  /\ Cardinality(S) \in Nat
           /\ \A s \in S : Rank(S, s) \in 0 .. Cardinality(S) - 1
           /\ \A s, t \in S : s # t => Rank(S, s) # Rank(S, t)
           /\ \A i \in 0 .. Cardinality(S) - 1 : \E s \in S : Rank(S, s) = i
<1> DEFINE n == Cardinality(S)
           below(s) == {t \in S : t < s}
           f == [s \in S |-> Rank(S, s)]
<1>1. n \in Nat
  BY FS_CardinalityType
<1>2. ASSUME NEW s \in S PROVE Rank(S, s) \in 0 .. n - 1
  <2>1. below(s) \in SUBSET S /\ s \notin below(s)
    OBVIOUS
  <2>2. IsFiniteSet(below(s)) /\ Cardinality(below(s)) <= n /\ Cardinality(below(s)) # n
    BY <2>1, FS_Subset
  <2>3. Cardinality(below(s)) \in Nat
    BY <2>2, FS_CardinalityType
  <2> HIDE DEF n
  <2>4. Cardinality(below(s)) \in 0 .. n - 1
    BY <1>1, <2>2, <2>3
  <2> QED BY <2>4 DEF Rank
<1>3. ASSUME NEW s \in S, NEW t \in S, s < t PROVE Rank(S, s) # Rank(S, t)
  <2>0. \A u \in S : u \in Nat
    OBVIOUS
  <2>4. \A u \in S : u < s => u < t
    BY <1>3, <2>0
  <2>5. below(s) \in SUBSET below(t)
    BY <2>4
  <2>6. ~ (s < s)
    BY <2>0
  <2>1. below(s) \in SUBSET below(t) /\ s \in below(t) /\ s \notin below(s)
    BY <1>3, <2>5, <2>6
  <2>2. IsFiniteSet(below(t))
    BY FS_Subset
  <2> HIDE DEF below
  <2>3. Cardinality(below(s)) # Cardinality(below(t))
    BY <2>1, <2>2, FS_Subset
  <2> QED BY <2>3 DEF Rank, below
<1>4. ASSUME NEW s \in S, NEW t \in S, s # t PROVE Rank(S, s) # Rank(S, t)
  <2>1. s \in Nat /\ t \in Nat
    OBVIOUS
  <2>2. CASE s < t
    BY <1>3, <2>2
  <2>3. CASE t < s
    BY <1>3, <2>3
  <2> QED BY <1>4, <2>1, <2>2, <2>3
<1>5. f \in Injection(S, 0 .. n - 1)
  BY <1>2, <1>4 DEF Injection, IsInjective
<1>6. IsFiniteSet(0 .. n - 1) /\ Cardinality(0 .. n - 1) = n
  <2> HIDE DEF n
  <2>1. n - 1 \in Int
    BY <1>1
  <2>2. IsFiniteSet(0 .. n - 1)
        /\ Cardinality(0 .. n - 1) = IF 0 > n - 1 THEN 0 ELSE (n - 1) - 0 + 1
    BY <2>1, FS_Interval
  <2> QED BY <1>1, <2>2
<1>7. f \in Surjection(S, 0 .. n - 1)
  BY <1>5, <1>6, FS_Injection
<1>8. \A i \in 0 .. n - 1 : \E s \in S : Rank(S, s) = i
  BY <1>7 DEF Surjection
<1> QED BY <1>1, <1>2, <1>4, <1>8

(* One item per variant, with the absolute difference.                     *)
OneItemEach(items, o, skus, from, to) ==
    /\ items \in Seq(Item)
    /\ \A i \in DOMAIN items :
         /\ items[i].sku \in skus /\ items[i].from = from /\ items[i].to = to
         /\ items[i].quantity = IF Difference(o, items[i].sku) < 0
                                THEN -Difference(o, items[i].sku)
                                ELSE Difference(o, items[i].sku)
    /\ \A i, j \in DOMAIN items : items[i].sku = items[j].sku => i = j
    /\ \A s \in skus : \E i \in DOMAIN items : items[i].sku = s

LEMMA ItemsOfOpname ==
    ASSUME NEW o, NEW skus \in SUBSET Skus,
           NEW from \in Warehouses \union {None}, NEW to \in Warehouses \union {None},
           \A s \in skus : Difference(o, s) \in Int /\ Difference(o, s) # 0
    PROVE  OneItemEach(ItemsFor(o, skus, from, to), o, skus, from, to)
<1> DEFINE n == Cardinality(skus)
           skuAt(i) == CHOOSE s \in skus : Rank(skus, s) = i - 1
           size(s) == IF Difference(o, s) < 0 THEN -Difference(o, s) ELSE Difference(o, s)
           items == ItemsFor(o, skus, from, to)
<1>1. skus \in SUBSET Nat /\ IsFiniteSet(skus)
  BY StockConstants, FS_Subset
<1>2. /\ n \in Nat
      /\ \A s \in skus : Rank(skus, s) \in 0 .. n - 1
      /\ \A s, t \in skus : s # t => Rank(skus, s) # Rank(skus, t)
      /\ \A i \in 0 .. n - 1 : \E s \in skus : Rank(skus, s) = i
  BY <1>1, Ranks
<1>3. items = [i \in 1 .. n |-> [sku |-> skuAt(i), from |-> from, to |-> to,
                                 quantity |-> size(skuAt(i))]]
  BY DEF ItemsFor, Rank
<1> HIDE DEF n, items
<1>4. ASSUME NEW i \in 1 .. n
      PROVE  skuAt(i) \in skus /\ Rank(skus, skuAt(i)) = i - 1
  <2>1. i - 1 \in 0 .. n - 1
    BY <1>2
  <2>2. \E s \in skus : Rank(skus, s) = i - 1
    BY <1>2, <2>1
  <2> QED BY Zenon, <2>2
<1> HIDE DEF skuAt
<1>5. \A s \in skus : size(s) \in Nat \ {0}
  OBVIOUS
<1> HIDE DEF size
<1>6. ASSUME NEW i \in 1 .. n
      PROVE  /\ items[i] \in Item /\ items[i].sku = skuAt(i)
             /\ items[i].from = from /\ items[i].to = to
             /\ items[i].quantity = size(skuAt(i))
  BY <1>3, <1>4, <1>5 DEF Item
<1>7. items \in Seq(Item) /\ DOMAIN items = 1 .. n
  BY <1>2, <1>3, <1>6
<1>8. ASSUME NEW i \in 1 .. n, NEW j \in 1 .. n, items[i].sku = items[j].sku PROVE i = j
  <2>1. i - 1 = j - 1
    BY <1>4, <1>6, <1>8
  <2> QED BY <1>2, <2>1
<1>9. ASSUME NEW s \in skus PROVE \E i \in 1 .. n : items[i].sku = s
  <2> DEFINE i == Rank(skus, s) + 1
  <2>1. i \in 1 .. n /\ i - 1 = Rank(skus, s)
    BY <1>2
  <2> HIDE DEF i
  <2>2. skuAt(i) = s
    BY <1>2, <1>4, <2>1
  <2> QED BY <1>6, <2>1, <2>2
<1>10. \A i \in 1 .. n : items[i].quantity = size(items[i].sku)
  BY <1>6
<1>12. \A i \in DOMAIN items :
         /\ items[i].sku \in skus /\ items[i].from = from /\ items[i].to = to
         /\ items[i].quantity = size(items[i].sku)
  BY <1>4, <1>6, <1>7, <1>10
<1>11. OneItemEach(items, o, skus, from, to)
  BY <1>7, <1>8, <1>9, <1>12 DEF OneItemEach, size
<1> QED BY <1>11 DEF items

(* A completed opname's rows.                                              *)
LEMMA DifferencesOfOpname ==
    ASSUME NEW o, IsOpname(o), o.status = "completed"
    PROVE  /\ o.warehouse \in Warehouses
           /\ DOMAIN o.actual \in SUBSET Skus
           /\ \A s \in DOMAIN o.actual : Difference(o, s) \in Int
           /\ Surplus(o) = {s \in DOMAIN o.actual : Difference(o, s) > 0}
           /\ Shortage(o) = {s \in DOMAIN o.actual : Difference(o, s) < 0}
<1>1. PICK skus \in SUBSET Skus : o.system \in [skus -> Int]
  BY DEF IsOpname, IsCount
<1>2. o.actual \in [DOMAIN o.system -> 0 .. MaxCount] /\ o.warehouse \in Warehouses
  BY DEF IsOpname
<1>3. o.actual \in [skus -> 0 .. MaxCount]
  BY <1>1, <1>2
<1>4. \A s \in skus : o.actual[s] \in Int /\ o.system[s] \in Int
  BY <1>1, <1>3, StockConstants
<1>5. \A s \in DOMAIN o.actual : Difference(o, s) \in Int
  BY <1>3, <1>4 DEF Difference
<1> QED BY <1>2, <1>3, <1>5 DEF Surplus, Shortage

(* What one adjustment movement does to the stock of a counted variant.    *)
LEMMA AdjustmentDelta ==
    ASSUME NEW o, NEW skus \in SUBSET Skus, NEW m \in MovementRow,
           o.warehouse \in Warehouses, NEW from, NEW to,
           OneItemEach(m.items, o, skus, from, to),
           \A s \in skus : Difference(o, s) \in Int,
           \/ /\ m.direction = "in" /\ to = o.warehouse
              /\ \A s \in skus : Difference(o, s) > 0
           \/ /\ m.direction = "out" /\ from = o.warehouse
              /\ \A s \in skus : Difference(o, s) < 0
    PROVE  \A s \in Skus :
             Delta(m, <<s, o.warehouse>>) = IF s \in skus THEN Difference(o, s) ELSE 0
<1> TAKE s \in Skus
<1> DEFINE k == <<s, o.warehouse>>
           S == DOMAIN m.items
           F == DeltaOf(m, k)
<1>1. k \in Keys /\ k[1] = s /\ k[2] = o.warehouse
  BY DEF Keys
<1>2. IsFiniteSet(S)
  BY RowShape
<1>3. \A i \in S : F[i] = IF m.items[i].sku = s THEN Difference(o, s) ELSE 0
  <2> TAKE i \in S
  <2>0. F[i] = ItemDelta(m.direction, m.items[i], k)
    BY DEF DeltaOf
  <2>1. m.items[i].sku \in skus /\ m.items[i].from = from /\ m.items[i].to = to
    BY DEF OneItemEach
  <2>2. CASE m.items[i].sku # s
    BY <1>1, <2>0, <2>2 DEF ItemDelta
  <2>3. CASE m.items[i].sku = s
    <3>1. m.items[i].quantity = IF Difference(o, s) < 0 THEN -Difference(o, s)
                                ELSE Difference(o, s)
      BY <2>3 DEF OneItemEach
    <3> DEFINE d == Difference(o, s)  item == m.items[i]
    <3>2. d \in Int
      BY <2>1, <2>3
    <3>3. ItemDelta(m.direction, item, k) =
            CASE m.direction = "in" /\ item.to = o.warehouse -> item.quantity
              [] m.direction = "out" /\ item.from = o.warehouse -> -item.quantity
              [] m.direction = "transfer" /\ item.to = o.warehouse -> item.quantity
              [] m.direction = "transfer" /\ item.from = o.warehouse -> -item.quantity
              [] OTHER -> 0
      BY <1>1, <2>3 DEF ItemDelta
    <3>4. CASE m.direction = "in" /\ to = o.warehouse /\ d > 0
      <4>1. ItemDelta(m.direction, item, k) = item.quantity
        BY <2>1, <3>3, <3>4
      <4> QED BY <2>0, <2>3, <3>1, <3>2, <3>4, <4>1
    <3>5. CASE m.direction = "out" /\ from = o.warehouse /\ d < 0
      <4>1. ItemDelta(m.direction, item, k) = -item.quantity
        BY <2>1, <3>3, <3>5
      <4> QED BY <2>0, <2>3, <3>1, <3>2, <3>5, <4>1
    <3> QED BY <2>1, <2>3, <3>4, <3>5
  <2> QED BY <2>2, <2>3
<1>4. Delta(m, k) = SumOver(F, S)
  BY DeltaSum
<1>5. CASE s \in skus
  <2>1. PICK i \in S : m.items[i].sku = s
    BY <1>5 DEF OneItemEach
  <2>2. \A j \in S \ {i} : F[j] = 0
    BY <1>3, <2>1 DEF OneItemEach
  <2>3. F[i] = Difference(o, s) /\ F[i] \in Int
    BY <1>3, <1>5, <2>1
  <2> HIDE DEF F, S
  <2>4. SumOver(F, S) = F[i]
    BY <1>2, <2>1, <2>2, <2>3, SumSingle
  <2> QED BY <1>4, <1>5, <2>3, <2>4
<1>6. CASE s \notin skus
  <2>0. \A j \in S : m.items[j].sku \in skus
    BY DEF OneItemEach
  <2>1. \A j \in S : F[j] = 0
    BY <1>3, <1>6, <2>0
  <2> HIDE DEF F, S
  <2>2. SumOver(F, S) = 0
    BY <1>2, <2>1, SumZero
  <2> QED BY <1>4, <1>6, <2>2
<1> QED BY <1>5, <1>6

LEMMA MovementIsRow ==
    ASSUME NEW status \in {"draft", "confirmed"}, NEW payload, NEW source \in References \union {None},
           payload.direction \in {"in", "out", "transfer"}, payload.items \in Seq(Item),
           source # None => status = "confirmed",
           payload.direction = "transfer" =>
             \A i \in DOMAIN payload.items : payload.items[i].from # payload.items[i].to
    PROVE  LET m == Movement(status, payload, source) IN
           /\ m \in MovementRow /\ m.status = status /\ m.source = source
           /\ m.direction = payload.direction /\ m.items = payload.items
BY DEF Movement, MovementRow

LEMMA OneSidedMovements ==
    ASSUME NEW o, IsOpname(o), o.status = "completed", NEW ref \in References
    PROVE  /\ SurplusMovement(o, ref) \in MovementRow
           /\ ShortageMovement(o, ref) \in MovementRow
           /\ SurplusMovement(o, ref).status = "confirmed"
           /\ ShortageMovement(o, ref).status = "confirmed"
           /\ SurplusMovement(o, ref).source = ref /\ ShortageMovement(o, ref).source = ref
           /\ SurplusMovement(o, ref).direction = "in"
           /\ ShortageMovement(o, ref).direction = "out"
           /\ OneItemEach(SurplusMovement(o, ref).items, o, Surplus(o), None, o.warehouse)
           /\ OneItemEach(ShortageMovement(o, ref).items, o, Shortage(o), o.warehouse, None)
<1> DEFINE up == ItemsFor(o, Surplus(o), None, o.warehouse)
           down == ItemsFor(o, Shortage(o), o.warehouse, None)
<1>1. /\ o.warehouse \in Warehouses \union {None} /\ None \in Warehouses \union {None}
      /\ Surplus(o) \in SUBSET Skus /\ Shortage(o) \in SUBSET Skus
      /\ \A s \in Surplus(o) : Difference(o, s) \in Int /\ Difference(o, s) # 0
      /\ \A s \in Shortage(o) : Difference(o, s) \in Int /\ Difference(o, s) # 0
  BY DifferencesOfOpname
<1>2. OneItemEach(up, o, Surplus(o), None, o.warehouse)
  BY <1>1, ItemsOfOpname
<1>3. OneItemEach(down, o, Shortage(o), o.warehouse, None)
  BY <1>1, ItemsOfOpname
<1>4. up \in Seq(Item) /\ down \in Seq(Item)
  BY <1>2, <1>3 DEF OneItemEach
<1> HIDE DEF up, down
<1> DEFINE pUp == [direction |-> "in", items |-> up]
           pDown == [direction |-> "out", items |-> down]
<1>5. SurplusMovement(o, ref) = Movement("confirmed", pUp, ref)
      /\ ShortageMovement(o, ref) = Movement("confirmed", pDown, ref)
  BY DEF SurplusMovement, ShortageMovement, up, down
<1>6. pUp.direction = "in" /\ pUp.items = up /\ pDown.direction = "out" /\ pDown.items = down
  OBVIOUS
<1> HIDE DEF pUp, pDown
<1>7. LET m == Movement("confirmed", pUp, ref) IN
      m \in MovementRow /\ m.status = "confirmed" /\ m.source = ref
      /\ m.direction = "in" /\ m.items = up
  BY <1>4, <1>6, MovementIsRow
<1>8. LET m == Movement("confirmed", pDown, ref) IN
      m \in MovementRow /\ m.status = "confirmed" /\ m.source = ref
      /\ m.direction = "out" /\ m.items = down
  BY <1>4, <1>6, MovementIsRow
<1> QED BY <1>2, <1>3, <1>5, <1>7, <1>8

(* When an opname has one adjustment movement, it moves each variant by    *)
(* its difference; when it has none, there is no difference.               *)
LEMMA AdjustmentFacts ==
    ASSUME NEW o, IsOpname(o), o.status = "completed", NEW ref \in References
    PROVE  LET adds == Adjustments(o, ref)  m == adds[1] IN
           /\ adds \in Seq(MovementRow)
           /\ adds = <<>> => \A s \in DOMAIN o.actual : Difference(o, s) = 0
           /\ Len(adds) = 1 =>
                /\ m \in MovementRow /\ m.status = "confirmed" /\ m.source = ref
                /\ \A s \in DOMAIN o.actual :
                     Delta(m, <<s, o.warehouse>>) = Difference(o, s)
                /\ m.direction # "in" =>
                     Shortage(o) # {} /\ m = ShortageMovement(o, ref)
<1> DEFINE up == SurplusMovement(o, ref)
           down == ShortageMovement(o, ref)
           adds == Adjustments(o, ref)
<1>1. /\ up \in MovementRow /\ down \in MovementRow
      /\ up.status = "confirmed" /\ down.status = "confirmed"
      /\ up.source = ref /\ down.source = ref
      /\ up.direction = "in" /\ down.direction = "out"
      /\ OneItemEach(up.items, o, Surplus(o), None, o.warehouse)
      /\ OneItemEach(down.items, o, Shortage(o), o.warehouse, None)
  BY OneSidedMovements
<1>2. adds = (IF Surplus(o) = {} THEN <<>> ELSE <<up>>)
               \o (IF Shortage(o) = {} THEN <<>> ELSE <<down>>)
  BY DEF Adjustments
<1>3. /\ o.warehouse \in Warehouses /\ DOMAIN o.actual \in SUBSET Skus
      /\ Surplus(o) \in SUBSET Skus /\ Shortage(o) \in SUBSET Skus
      /\ \A s \in DOMAIN o.actual : Difference(o, s) \in Int
      /\ Surplus(o) = {s \in DOMAIN o.actual : Difference(o, s) > 0}
      /\ Shortage(o) = {s \in DOMAIN o.actual : Difference(o, s) < 0}
  BY DifferencesOfOpname
<1>4. \A s \in DOMAIN o.actual : s \notin Surplus(o) /\ s \notin Shortage(o) =>
                                   Difference(o, s) = 0
  BY <1>3
<1>5. \A s \in Skus : Delta(up, <<s, o.warehouse>>) =
                        IF s \in Surplus(o) THEN Difference(o, s) ELSE 0
  <2>1. \A s \in Surplus(o) : Difference(o, s) \in Int /\ Difference(o, s) > 0
    BY <1>3
  <2> DEFINE skus == Surplus(o)
  <2>2. /\ skus \in SUBSET Skus /\ \A s \in skus : Difference(o, s) \in Int
        /\ OneItemEach(up.items, o, skus, None, o.warehouse)
        /\ up.direction = "in" /\ \A s \in skus : Difference(o, s) > 0
    BY <1>1, <1>3, <2>1
  <2> HIDE DEF up, skus
  <2>3. \A s \in Skus : Delta(up, <<s, o.warehouse>>) =
                           IF s \in skus THEN Difference(o, s) ELSE 0
    BY <1>1, <1>3, <2>2, AdjustmentDelta
  <2> QED BY <2>3 DEF skus
<1>6. \A s \in Skus : Delta(down, <<s, o.warehouse>>) =
                        IF s \in Shortage(o) THEN Difference(o, s) ELSE 0
  <2>1. \A s \in Shortage(o) : Difference(o, s) \in Int /\ Difference(o, s) < 0
    BY <1>3
  <2> DEFINE skus == Shortage(o)
  <2>2. /\ skus \in SUBSET Skus /\ \A s \in skus : Difference(o, s) \in Int
        /\ OneItemEach(down.items, o, skus, o.warehouse, None)
        /\ down.direction = "out" /\ \A s \in skus : Difference(o, s) < 0
    BY <1>1, <1>3, <2>1
  <2> HIDE DEF down, skus
  <2>3. \A s \in Skus : Delta(down, <<s, o.warehouse>>) =
                           IF s \in skus THEN Difference(o, s) ELSE 0
    BY <1>1, <1>3, <2>2, AdjustmentDelta
  <2> QED BY <2>3 DEF skus
<1> HIDE DEF up, down, adds
<1>7. CASE Surplus(o) = {} /\ Shortage(o) = {}
  <2>1. adds = <<>>
    BY <1>2, <1>7
  <2> QED BY <1>4, <1>7, <2>1 DEF adds
<1>8. CASE Surplus(o) # {} /\ Shortage(o) = {}
  <2>1. adds = <<up>>
    BY <1>2, <1>8
  <2>2. adds \in Seq(MovementRow) /\ adds # <<>> /\ adds[1] = up
    BY <1>1, <2>1
  <2>3. \A s \in DOMAIN o.actual : Delta(up, <<s, o.warehouse>>) = Difference(o, s)
    BY <1>3, <1>4, <1>5, <1>8
  <2> QED BY <1>1, <2>2, <2>3 DEF adds
<1>9. CASE Surplus(o) = {} /\ Shortage(o) # {}
  <2>1. adds = <<down>>
    BY <1>2, <1>9
  <2>2. adds \in Seq(MovementRow) /\ adds # <<>> /\ adds[1] = down
    BY <1>1, <2>1
  <2>3. \A s \in DOMAIN o.actual : Delta(down, <<s, o.warehouse>>) = Difference(o, s)
    BY <1>3, <1>4, <1>6, <1>9
  <2> QED BY <1>1, <1>9, <2>2, <2>3 DEF adds, down
<1>10. CASE Surplus(o) # {} /\ Shortage(o) # {}
  <2>1. adds = <<up>> \o <<down>>
    BY <1>2, <1>10
  <2>2. adds \in Seq(MovementRow) /\ Len(adds) = 2 /\ adds # <<>>
    BY <1>1, <2>1
  <2> QED BY <2>2 DEF adds
<1> QED BY <1>7, <1>8, <1>9, <1>10

LEMMA AdjustedKeys ==
    ASSUME NEW o, IsOpname(o), o.status = "completed", NEW ref \in References
    PROVE  /\ {<<s, o.warehouse>> : s \in Surplus(o) \union Shortage(o)} \in SUBSET Keys
           /\ SourceKeys(ShortageMovement(o, ref).items)
                \subseteq {<<s, o.warehouse>> : s \in Surplus(o) \union Shortage(o)}
           /\ ShortageMovement(o, ref).items \in Seq(Item)
<1>1. o.warehouse \in Warehouses /\ Surplus(o) \in SUBSET Skus /\ Shortage(o) \in SUBSET Skus
  BY DifferencesOfOpname
<1> DEFINE items == ShortageMovement(o, ref).items
<1>2. items \in Seq(Item)
      /\ \A i \in DOMAIN items : items[i].sku \in Shortage(o) /\ items[i].from = o.warehouse
  BY OneSidedMovements DEF OneItemEach
<1> HIDE DEF items
<1>3. ASSUME NEW k \in SourceKeys(items)
      PROVE  k \in {<<s, o.warehouse>> : s \in Surplus(o) \union Shortage(o)}
  <2>1. PICK i \in DOMAIN items : items[i].sku = k[1] /\ items[i].from = k[2]
    BY DEF SourceKeys, TakenFrom
  <2>2. k = <<k[1], k[2]>>
    BY DEF SourceKeys, Keys
  <2> QED BY <1>2, <2>1, <2>2
<1> QED BY <1>1, <1>2, <1>3 DEF Keys, items

-----------------------------------------------------------------------------
(* Locks and the sequences of ids.                                         *)
LEMMA AcquireExclusive ==
    ASSUME LocksExclusive, locks \in [Requests -> SUBSET Lockable],
           NEW r \in Requests, NEW x \in Lockable, Acquire(r, x)
    PROVE  /\ locks' = [locks EXCEPT ![r] = locks[r] \union {x}]
           /\ locks' \in [Requests -> SUBSET Lockable]
           /\ LocksExclusive'
<1>1. x # ViewShare => x \in Conflicts(x)
  BY DEF Conflicts
<1>2. \A q \in Requests \ {r} : x # ViewShare => x \notin locks[q]
  BY <1>1 DEF Acquire, Free
<1>3. locks' = [locks EXCEPT ![r] = locks[r] \union {x}]
  BY DEF Acquire
<1>4. locks' \in [Requests -> SUBSET Lockable]
  BY <1>3
<1>5. ASSUME NEW p \in Requests, NEW q \in Requests, p # q
      PROVE  locks'[p] \intersect locks'[q] \subseteq {ViewShare}
  <2>1. CASE p = r
    BY <1>2, <1>3, <1>5, <2>1 DEF LocksExclusive
  <2>2. CASE q = r
    BY <1>2, <1>3, <1>5, <2>2 DEF LocksExclusive
  <2>3. CASE p # r /\ q # r
    BY <1>3, <1>5, <2>3 DEF LocksExclusive
  <2> QED BY <2>1, <2>2, <2>3
<1> QED BY <1>3, <1>4, <1>5 DEF LocksExclusive

LEMMA ReleaseExclusive ==
    ASSUME LocksExclusive, locks \in [Requests -> SUBSET Lockable],
           NEW r \in Requests, locks' = [locks EXCEPT ![r] = {}]
    PROVE  locks' \in [Requests -> SUBSET Lockable] /\ LocksExclusive'
BY DEF LocksExclusive

LEMMA LockNames ==
    /\ \A m \in Movements : MovementLock(m) \in Lockable /\ MovementLock(m) # ViewShare
    /\ \A o \in Opnames : OpnameLock(o) \in Lockable /\ OpnameLock(o) # ViewShare
    /\ \A k \in Keys : KeyLock(k) \in Lockable /\ KeyLock(k) # ViewShare
    /\ \A ref \in References : SourceLock(ref) \in Lockable /\ SourceLock(ref) # ViewShare
    /\ \A d \in Documents : DocumentLock(d.ref) \in Lockable
    /\ ViewLock \in Lockable /\ ViewShare \in Lockable
BY DEF Lockable, MovementLock, OpnameLock, KeyLock, SourceLock, DocumentLock,
       ViewLock, ViewShare, References

LEMMA LeastOf ==
    ASSUME NEW S \in SUBSET Nat, S # {}
    PROVE  Min(S) \in S
<1>1. \E n \in S : \A m \in S : n <= m
  BY LeastNatural
<1> QED BY <1>1 DEF Min

LEMMA FreshIds ==
    /\ FreshMovements # {} =>
         FreshMovement \in Movements /\ movement[FreshMovement].status = "none"
    /\ FreshOpnames # {} =>
         /\ Min(FreshOpnames) \in Opnames /\ opname[Min(FreshOpnames)].status = "none"
         /\ \A q \in Requests : tx[q].op = "opname" => tx[q].id # Min(FreshOpnames)
<1>0. Opnames \in SUBSET Nat
  BY StockConstants DEF Opnames
<1>1. FreshMovements \in SUBSET Nat /\ FreshOpnames \in SUBSET Nat
  BY <1>0, MovementsFinite DEF FreshMovements, FreshOpnames
<1>2. ASSUME FreshMovements # {} PROVE FreshMovement \in FreshMovements
  BY <1>1, <1>2, LeastOf DEF FreshMovement
<1>3. ASSUME FreshOpnames # {} PROVE Min(FreshOpnames) \in FreshOpnames
  BY <1>1, <1>3, LeastOf
<1>4. \A m \in FreshMovements : m \in Movements /\ movement[m].status = "none"
  BY DEF FreshMovements
<1>5. \A o \in FreshOpnames :
        /\ o \in Opnames /\ opname[o].status = "none"
        /\ \A q \in Requests : tx[q].op = "opname" => tx[q].id # o
  BY DEF FreshOpnames
<1> QED BY <1>2, <1>3, <1>4, <1>5

-----------------------------------------------------------------------------
(* What another request may do without disturbing q.                       *)
LEMMA RequestKept ==
    ASSUME Shapes, NEW q \in Requests, RequestInv(q),
           pc'[q] = pc[q], tx'[q] = tx[q], locks'[q] = locks[q],
           tx[q].op = "confirm" /\ Locked(q) => movement'[tx[q].id] = movement[tx[q].id],
           tx[q].op \in {"document", "complete"} /\ Inserted(q) =>
             (Posted(tx[q].ref)' => Posted(tx[q].ref)),
           tx[q].op = "complete" /\ Locked(q) => opname'[tx[q].id] = opname[tx[q].id],
           tx[q].op = "opname" /\ pc[q] = "commit" =>
             /\ opname'[tx[q].id] = opname[tx[q].id]
             /\ \A p \in Requests \ {q} :
                  tx'[p].op = "opname" /\ pc'[p] = "commit" => tx'[p].id # tx[q].id,
           \A k \in Keys : KeyLock(k) \in locks[q] =>
             /\ OnHand(k) \in Int /\ OnHand(k)' \in Int
             /\ OnHand(k)' >= OnHand(k)
    PROVE  RequestInv(q)'
<1>0. OpOfStep(q) /\ Arguments(q) /\ RowsHeld(q) /\ SourceHeld(q) /\ Checked(q)
  BY DEF RequestInv
<1>1. OpOfStep(q)'
  BY <1>0 DEF OpOfStep
<1>2. (Locked(q)' <=> Locked(q)) /\ (Writing(q)' <=> Writing(q))
      /\ (Inserted(q)' <=> Inserted(q)) /\ (Posts(q)' <=> Posts(q))
  BY DEF Locked, Writing, Inserted, Posts
<1>3. Arguments(q)'
  <2> DEFINE t == tx[q]
  <2>1. Arguments(q)' <=> Arguments(q)
    BY Zenon, <1>2 DEF Arguments
  <2> QED BY <1>0, <2>1
<1>4. RowsHeld(q)'
  BY <1>0, <1>2 DEF RowsHeld
<1>5. SourceHeld(q)'
  BY <1>0, <1>2 DEF SourceHeld
<1>6. Checked(q)'
  <2>1. Takes(q)' => Takes(q)
    BY <1>2 DEF Takes, Pending
  <2>2. Takes(q) => Pending(q)' = Pending(q)
    BY DEF Takes, Pending
  <2>3. Takes(q)' /\ Writing(q)' => tx'[q].keys = {}
    BY <1>0, <1>2, <2>1 DEF Checked
  <2>4. ASSUME Takes(q)', NEW k \in SourceKeys(Pending(q)'.items)
        PROVE  /\ k \in tx'[q].keys \/ KeyLock(k) \in locks'[q]
               /\ Writing(q)' \/ (pc'[q] = "insert" /\ tx'[q].keys = {}) =>
                    OnHand(k)' >= Required(Pending(q)'.items, k)
    <3>1. Takes(q) /\ Pending(q)' = Pending(q) /\ k \in SourceKeys(Pending(q).items)
      BY <2>1, <2>2, <2>4
    <3>2. k \in tx[q].keys \/ KeyLock(k) \in locks[q]
      BY <1>0, <3>1 DEF Checked
    <3>3. ASSUME Writing(q) \/ (pc[q] = "insert" /\ tx[q].keys = {})
          PROVE  OnHand(k)' >= Required(Pending(q).items, k)
      <4>1. KeyLock(k) \in locks[q] /\ k \in Keys
        BY <1>0, <3>1, <3>2, <3>3 DEF Checked, SourceKeys
      <4>2. OnHand(k) >= Required(Pending(q).items, k)
        BY <1>0, <3>1, <3>3 DEF Checked
      <4>3. Pending(q) \in MovementRow
        BY <1>0, <3>1 DEF Shapes, IsTransaction, TransactionOf, Pending, Takes, Posts,
                          Arguments
      <4>4. Required(Pending(q).items, k) \in Int
        BY <4>1, <4>3, DeltaFacts
      <4>5. OnHand(k) \in Int /\ OnHand(k)' \in Int /\ OnHand(k)' >= OnHand(k)
        BY <4>1
      <4> QED BY <4>2, <4>4, <4>5
    <3> QED BY <1>2, <3>1, <3>2, <3>3
  <2> QED BY <2>3, <2>4 DEF Checked
<1> QED BY <1>1, <1>3, <1>4, <1>5, <1>6 DEF RequestInv

(* A step of r that writes no table keeps the invariant if it keeps r's    *)
(* part of it.                                                             *)
LEMMA LocalStep ==
    ASSUME IInv, NEW r \in Requests, NEW step \in Steps, NEW t, IsTransaction(t),
           NEW held \in SUBSET Lockable,
           begun' \in 0 .. MaxRequests,
           movement' = movement, opname' = opname, summary' \in [Keys -> Int],
           pc' = [pc EXCEPT ![r] = step], tx' = [tx EXCEPT ![r] = t],
           locks' = [locks EXCEPT ![r] = held], LocksExclusive',
           RequestInv(r)'
    PROVE  IInv'
<1>1. Shapes /\ TablesInv /\ \A q \in Requests : RequestInv(q)
  BY DEF IInv
<1>2. /\ pc'[r] = step /\ tx'[r] = t /\ locks'[r] = held
      /\ \A q \in Requests \ {r} :
           pc'[q] = pc[q] /\ tx'[q] = tx[q] /\ locks'[q] = locks[q]
  BY <1>1 DEF Shapes
<1>3. Shapes'
  <2>1. pc' \in [Requests -> Steps] /\ locks' \in [Requests -> SUBSET Lockable]
    BY <1>1 DEF Shapes
  <2>2. tx' = [q \in Requests |-> tx'[q]]
    BY <1>1 DEF Shapes
  <2>3. \A q \in Requests : IsTransaction(tx'[q])
    BY <1>1, <1>2 DEF Shapes
  <2>4. \A q \in Requests : IsTransaction(tx[q])'
    BY <2>3 DEF IsTransaction, TransactionOf
  <2> QED BY <1>1, <2>1, <2>2, <2>4 DEF Shapes, IsOpname, IsCount, OpnameOf
<1>4. TablesInv'
  BY <1>1 DEF TablesInv, SourceUnique, CompletedOnly, Posted, OpnameAdjustsDifference, OnHand
<1>5. ASSUME NEW q \in Requests PROVE RequestInv(q)'
  <2>1. CASE q = r
    BY <2>1
  <2>2. CASE q # r
    <3>1. RequestInv(q) /\ pc'[q] = pc[q] /\ tx'[q] = tx[q] /\ locks'[q] = locks[q]
      BY <1>1, <1>2, <2>2
    <3>2. Posted(tx[q].ref)' => Posted(tx[q].ref)
      BY <3>1 DEF Posted
    <3>3. \A k \in Keys : OnHand(k) \in Int /\ OnHand(k)' = OnHand(k)
      BY <1>1, ViewIsStock DEF Shapes, OnHand
    <3>4. tx[q].op = "opname" /\ pc[q] = "commit" =>
            \A p \in Requests \ {q} :
              tx'[p].op = "opname" /\ pc'[p] = "commit" => tx'[p].id # tx[q].id
      <4> SUFFICES ASSUME tx[q].op = "opname", pc[q] = "commit", NEW p \in Requests \ {q},
                          tx'[p].op = "opname", pc'[p] = "commit"
                   PROVE  tx'[p].id # tx[q].id
        OBVIOUS
      <4>1. CASE p = r
        BY <2>2, <3>1, <4>1 DEF RequestInv, RowsHeld
      <4>2. CASE p # r
        BY <1>2, <3>1, <4>2 DEF RequestInv, RowsHeld
      <4> QED BY <4>1, <4>2
    <3> QED BY <1>1, <3>1, <3>2, <3>3, <3>4, RequestKept
  <2> QED BY <2>1, <2>2
<1> QED BY <1>3, <1>4, <1>5 DEF IInv

LEMMA NoTxFacts ==
    IsTransaction(NoTx) /\ NoTx.op = "none" /\ NoTx.adds = <<>> /\ NoTx.keys = {}
BY DEF IsTransaction, TransactionOf, NoTx

LEMMA EndedRequest ==
    ASSUME NEW r \in Requests, pc'[r] = "idle", tx'[r] = NoTx, locks'[r] = {}
    PROVE  RequestInv(r)'
<1>1. OpOfStep(r)'
  BY DEF OpOfStep
<1>2. Arguments(r)' /\ RowsHeld(r)' /\ SourceHeld(r)'
  BY NoTxFacts DEF Arguments, RowsHeld, SourceHeld
<1>3. Checked(r)'
  BY NoTxFacts DEF Checked, Takes, Locked, Writing
<1> QED BY <1>1, <1>2, <1>3 DEF RequestInv

LEMMA RollbackStep ==
    ASSUME IInv, NEW r \in Requests, Rollback(r)
    PROVE  IInv'
<1>1. Shapes /\ LocksExclusive
  BY DEF IInv
<1>2. /\ begun' = begun /\ movement' = movement /\ opname' = opname /\ summary' = summary
      /\ pc' = [pc EXCEPT ![r] = "idle"] /\ tx' = [tx EXCEPT ![r] = NoTx]
      /\ locks' = [locks EXCEPT ![r] = {}]
  BY DEF Rollback, Goto
<1>3. LocksExclusive' /\ begun' \in 0 .. MaxRequests /\ summary' \in [Keys -> Int]
  BY <1>1, <1>2, ReleaseExclusive DEF Shapes
<1>4. pc'[r] = "idle" /\ tx'[r] = NoTx /\ locks'[r] = {}
  BY <1>1, <1>2 DEF Shapes
<1>5. RequestInv(r)'
  BY <1>4, EndedRequest
<1>6. "idle" \in Steps /\ {} \in SUBSET Lockable
  BY DEF Steps
<1> QED BY <1>2, <1>3, <1>5, <1>6, NoTxFacts, LocalStep

(* What a handler knows when it begins.                                    *)
Beginning(t) ==
    /\ t.op = "confirm" => t.id \in Movements /\ t.adds = <<>>
    /\ t.op = "cancel" => t.id \in Movements
    /\ t.op = "cancelOpname" => t.id \in Opnames
    /\ t.op = "document" =>
         /\ Len(t.adds) = 1 /\ t.adds[1].status = "confirmed" /\ t.adds[1].items = t.items
         /\ t.adds[1].source = t.ref /\ t.ref \in {d.ref : d \in Documents}
    /\ t.op = "complete" =>
         /\ t.id \in Opnames /\ t.ref = OpnameRef(t.id) /\ t.adds = <<>>
         /\ IsOpname(t.opname) /\ t.opname.status = "completed"
    /\ t.op = "opname" => t.adds = <<>> /\ t.warehouse \in Warehouses

LEMMA BeginStep ==
    ASSUME IInv, NEW r \in Requests, NEW t, IsTransaction(t),
           t.op \in {"confirm", "cancel", "document", "opname", "complete", "cancelOpname"},
           Begin(r, t.op, t), Beginning(t)
    PROVE  IInv'
<1>1. Shapes /\ LocksExclusive /\ OpOfStep(r)
  BY DEF IInv, RequestInv
<1>2. /\ pc[r] = "idle" /\ begun' = begun + 1 /\ begun < MaxRequests
      /\ movement' = movement /\ opname' = opname /\ summary' = summary
      /\ pc' = [pc EXCEPT ![r] = t.op] /\ tx' = [tx EXCEPT ![r] = t] /\ locks' = locks
  BY DEF Begin, Goto
<1>3. locks[r] = {} /\ locks' = [locks EXCEPT ![r] = {}]
  BY <1>1, <1>2 DEF Shapes, OpOfStep
<1>9. begun' \in 0 .. MaxRequests
  <2>1. begun \in 0 .. MaxRequests /\ MaxRequests \in Nat
    BY <1>1, StockConstants DEF Shapes
  <2> QED BY <1>2, <2>1
<1>4. LocksExclusive' /\ summary' \in [Keys -> Int]
  BY <1>1, <1>2, <1>3, ReleaseExclusive DEF Shapes
<1>5. pc'[r] = t.op /\ tx'[r] = t /\ locks'[r] = {}
  BY <1>1, <1>2, <1>3 DEF Shapes
<1>6. ~ Locked(r)' /\ ~ Writing(r)' /\ ~ Inserted(r)' /\ pc'[r] \notin {"commit", "idle"}
  BY <1>5 DEF Locked, Writing, Inserted
<1>7. RequestInv(r)'
  <2>1. OpOfStep(r)'
    BY <1>5 DEF OpOfStep
  <2>2. Arguments(r)'
    <3> SUFFICES /\ t.op = "confirm" => t.id \in Movements /\ t.adds = <<>>
                 /\ t.op = "cancel" => t.id \in Movements
                 /\ t.op = "cancelOpname" => t.id \in Opnames
                 /\ t.op = "document" =>
                      /\ Len(t.adds) = 1
                      /\ t.adds[1].status = "confirmed" /\ t.adds[1].items = t.items
                      /\ t.adds[1].source = t.ref /\ t.ref \in {d.ref : d \in Documents}
                 /\ t.op = "complete" =>
                      /\ t.id \in Opnames /\ t.ref = OpnameRef(t.id)
                      /\ IsOpname(t.opname) /\ t.opname.status = "completed"
                      /\ t.adds = <<>>
                 /\ t.op = "opname" => t.adds = <<>> /\ t.warehouse \in Warehouses
      BY <1>5, <1>6 DEF Arguments, IsOpname, IsCount, OpnameOf
    <3> QED BY DEF Beginning
  <2>3. RowsHeld(r)'
    BY <1>5, <1>6 DEF RowsHeld
  <2>4. SourceHeld(r)'
    BY <1>5, <1>6 DEF SourceHeld
  <2>5. Checked(r)'
    BY <1>5, <1>6 DEF Checked, Takes
  <2> QED BY <2>1, <2>2, <2>3, <2>4, <2>5 DEF RequestInv
<1>8. t.op \in Steps /\ {} \in SUBSET Lockable
  BY DEF Steps
<1> QED BY <1>2, <1>3, <1>4, <1>7, <1>8, <1>9, LocalStep

LEMMA BeginConfirmStep ==
    ASSUME IInv, NEW r \in Requests, BeginConfirm(r)
    PROVE  IInv'
<1>1. PICK m \in Movements : Begin(r, "confirm", [NoTx EXCEPT !.op = "confirm", !.id = m])
  BY DEF BeginConfirm
<1> DEFINE t == [NoTx EXCEPT !.op = "confirm", !.id = m]
<1>2. IsTransaction(t) /\ t.op = "confirm" /\ t.id = m /\ t.adds = <<>>
  BY NoTxFacts, MovementsFinite DEF IsTransaction, TransactionOf
<1>3. Begin(r, t.op, t)
  BY <1>1, <1>2
<1> HIDE DEF t
<1>4. Beginning(t)
  BY <1>2 DEF Beginning
<1> QED BY <1>2, <1>3, <1>4, BeginStep

LEMMA BeginCancelStep ==
    ASSUME IInv, NEW r \in Requests, BeginCancel(r)
    PROVE  IInv'
<1>1. PICK m \in Movements : Begin(r, "cancel", [NoTx EXCEPT !.op = "cancel", !.id = m])
  BY DEF BeginCancel
<1> DEFINE t == [NoTx EXCEPT !.op = "cancel", !.id = m]
<1>2. IsTransaction(t) /\ t.op = "cancel" /\ t.id = m
  BY NoTxFacts, MovementsFinite DEF IsTransaction, TransactionOf
<1>3. Begin(r, t.op, t)
  BY <1>1, <1>2
<1> HIDE DEF t
<1>4. Beginning(t)
  BY <1>2 DEF Beginning
<1> QED BY <1>2, <1>3, <1>4, BeginStep

LEMMA BeginDocumentStep ==
    ASSUME IInv, NEW r \in Requests, BeginDocument(r)
    PROVE  IInv'
<1>1. PICK d \in Documents :
        Begin(r, "document",
              [NoTx EXCEPT !.op = "document", !.ref = d.ref, !.items = d.items,
                           !.adds = <<Movement("confirmed", d, d.ref)>>])
  BY DEF BeginDocument
<1> DEFINE m == Movement("confirmed", d, d.ref)
           t == [NoTx EXCEPT !.op = "document", !.ref = d.ref, !.items = d.items,
                             !.adds = <<m>>]
<1>2. d.direction \in {"in", "out"} /\ d.items \in Seq(Item) /\ d.ref \in References
  BY StockConstants DEF References
<1>3. m \in MovementRow /\ m.status = "confirmed" /\ m.source = d.ref /\ m.items = d.items
  BY <1>2, MovementIsRow
<1>4. Begin(r, "document", t)
  BY <1>1
<1> HIDE DEF m
<1>5. <<m>> \in Seq(MovementRow) /\ Len(<<m>>) = 1 /\ <<m>>[1] = m
  BY <1>3
<1>6. IsTransaction(t) /\ t.op = "document" /\ t.ref = d.ref /\ t.items = d.items
      /\ t.adds = <<m>>
  BY <1>2, <1>5, NoTxFacts DEF IsTransaction, TransactionOf
<1> HIDE DEF t
<1>7. Beginning(t)
  BY <1>3, <1>5, <1>6 DEF Beginning
<1> QED BY <1>4, <1>6, <1>7, BeginStep

LEMMA BeginOpnameStep ==
    ASSUME IInv, NEW r \in Requests, BeginOpname(r)
    PROVE  IInv'
<1>1. PICK w \in Warehouses :
        Begin(r, "opname", [NoTx EXCEPT !.op = "opname", !.warehouse = w])
  BY DEF BeginOpname
<1> DEFINE t == [NoTx EXCEPT !.op = "opname", !.warehouse = w]
<1>2. IsTransaction(t) /\ t.op = "opname" /\ t.warehouse = w /\ t.adds = <<>>
  BY NoTxFacts DEF IsTransaction, TransactionOf
<1>3. Begin(r, t.op, t)
  BY <1>1, <1>2
<1> HIDE DEF t
<1>4. Beginning(t)
  BY <1>2 DEF Beginning
<1> QED BY <1>2, <1>3, <1>4, BeginStep

LEMMA BeginCompleteStep ==
    ASSUME IInv, NEW r \in Requests, BeginComplete(r)
    PROVE  IInv'
<1>1. PICK o \in Opnames : opname[o].status # "none" /\
        \E actual \in [DOMAIN opname[o].system -> 0 .. MaxCount] :
           Begin(r, "complete",
                 [NoTx EXCEPT !.op = "complete", !.id = o, !.ref = OpnameRef(o),
                              !.opname = [opname[o] EXCEPT !.status = "completed",
                                                           !.actual = actual]])
  BY DEF BeginComplete
<1>2. PICK actual \in [DOMAIN opname[o].system -> 0 .. MaxCount] :
           Begin(r, "complete",
                 [NoTx EXCEPT !.op = "complete", !.id = o, !.ref = OpnameRef(o),
                              !.opname = [opname[o] EXCEPT !.status = "completed",
                                                           !.actual = actual]])
  BY <1>1
<1> DEFINE old == opname[o]
           row == [old EXCEPT !.status = "completed", !.actual = actual]
           t == [NoTx EXCEPT !.op = "complete", !.id = o, !.ref = OpnameRef(o),
                             !.opname = row]
<1>3. IsOpname(old) /\ old.status # "none" /\ actual \in [DOMAIN old.system -> 0 .. MaxCount]
  BY <1>1, <1>2 DEF IInv, Shapes
<1>4. Begin(r, "complete", t)
  BY <1>2
<1> HIDE DEF old
<1>5. row \in OpnameOf(old.system, actual) /\ row.status = "completed"
      /\ row.system = old.system /\ row.actual = actual /\ row.warehouse \in Warehouses
  BY <1>3 DEF IsOpname, OpnameOf
<1>6. IsCount(actual)
  <2>1. PICK skus \in SUBSET Skus : old.system \in [skus -> Int]
    BY <1>3 DEF IsOpname, IsCount
  <2>2. actual \in [skus -> 0 .. MaxCount]
    BY <1>3, <2>1
  <2>3. 0 .. MaxCount \subseteq Int
    BY StockConstants
  <2> QED BY <2>2, <2>3 DEF IsCount
<1>7. IsCount(old.system)
  BY <1>3 DEF IsOpname
<1> HIDE DEF row
<1>8. IsOpname(row)
  BY <1>3, <1>5, <1>6, <1>7 DEF IsOpname
<1>9. o \in Nat /\ OpnameRef(o) \in References
  BY StockConstants DEF Opnames, References
<1>10. IsTransaction(t) /\ t.op = "complete" /\ t.id = o /\ t.ref = OpnameRef(o)
       /\ t.adds = <<>> /\ t.opname = row
  BY <1>9, NoTxFacts DEF IsTransaction, TransactionOf
<1> HIDE DEF t
<1>11. Beginning(t)
  BY <1>5, <1>8, <1>10 DEF Beginning
<1> QED BY <1>4, <1>10, <1>11, BeginStep

LEMMA BeginCancelOpnameStep ==
    ASSUME IInv, NEW r \in Requests, BeginCancelOpname(r)
    PROVE  IInv'
<1>1. PICK o \in Opnames :
        Begin(r, "cancelOpname", [NoTx EXCEPT !.op = "cancelOpname", !.id = o])
  BY DEF BeginCancelOpname
<1> DEFINE t == [NoTx EXCEPT !.op = "cancelOpname", !.id = o]
<1>2. o \in Nat
  BY StockConstants DEF Opnames
<1>3. IsTransaction(t) /\ t.op = "cancelOpname" /\ t.id = o
  BY <1>2, NoTxFacts DEF IsTransaction, TransactionOf
<1>4. Begin(r, t.op, t)
  BY <1>1, <1>3
<1> HIDE DEF t
<1>5. Beginning(t)
  BY <1>3 DEF Beginning
<1> QED BY <1>3, <1>4, <1>5, BeginStep

(* What r knows in the middle of a transaction.                            *)
LEMMA Middle ==
    ASSUME IInv, NEW r \in Requests
    PROVE  /\ Shapes /\ LocksExclusive /\ IsTransaction(tx[r])
           /\ locks \in [Requests -> SUBSET Lockable]
           /\ OpOfStep(r) /\ Arguments(r) /\ RowsHeld(r) /\ SourceHeld(r) /\ Checked(r)
BY DEF IInv, RequestInv, Shapes

LEMMA ConfirmLockMovementStep ==
    ASSUME IInv, NEW r \in Requests, ConfirmLockMovement(r)
    PROVE  IInv'
<1> DEFINE m == tx[r].id
           row == movement[m]
           x == MovementLock(m)
           keys == IF row.direction = "in" THEN {} ELSE SourceKeys(row.items)
           t == [tx[r] EXCEPT !.items = row.items, !.keys = keys]
           step == IF row.direction = "in" THEN "refresh" ELSE "lockKeys"
           held == locks[r] \union {x}
<1>1. CASE row.status # "draft"
  BY <1>1, RollbackStep DEF ConfirmLockMovement
<1>2. CASE row.status = "draft"
  <2>1. /\ pc[r] = "confirm" /\ Acquire(r, x)
        /\ tx' = [tx EXCEPT ![r].items = row.items, ![r].keys = keys]
        /\ pc' = [pc EXCEPT ![r] = step]
        /\ begun' = begun /\ movement' = movement /\ opname' = opname /\ summary' = summary
    BY <1>2 DEF ConfirmLockMovement, Goto
  <2>2. tx' = [tx EXCEPT ![r] = t]
    BY Zenon, <2>1
  <2>3. /\ Shapes /\ LocksExclusive /\ IsTransaction(tx[r]) /\ OpOfStep(r) /\ Arguments(r)
        /\ locks \in [Requests -> SUBSET Lockable]
    BY Middle
  <2>4. tx[r].op = "confirm" /\ m \in Movements /\ tx[r].adds = <<>>
    BY <2>1, <2>3 DEF OpOfStep, Arguments
  <2>5. x \in Lockable
    BY <2>4, LockNames
  <2>6. locks' = [locks EXCEPT ![r] = held] /\ LocksExclusive' /\ held \in SUBSET Lockable
    BY <2>1, <2>3, <2>5, AcquireExclusive
  <2>7. row \in MovementRow
    BY <2>3, <2>4 DEF Shapes
  <2>8. row.items \in Seq(Item) /\ keys \in SUBSET Keys
    BY <2>7, RowShape DEF SourceKeys
  <2> HIDE DEF row, keys
  <2>9. IsTransaction(t) /\ t.op = "confirm" /\ t.id = m /\ t.adds = <<>>
        /\ t.items = row.items /\ t.keys = keys
    BY <2>3, <2>4, <2>8 DEF IsTransaction, TransactionOf
  <2> HIDE DEF t, held, step
  <2>10. pc'[r] = step /\ tx'[r] = t /\ locks'[r] = held /\ movement' = movement
    BY <2>1, <2>2, <2>3, <2>6 DEF Shapes
  <2>11. step \in {"refresh", "lockKeys"} /\ (step = "refresh" <=> row.direction = "in")
    BY DEF step
  <2>12. RequestInv(r)'
    <3>1. OpOfStep(r)'
      BY <2>9, <2>10, <2>11 DEF OpOfStep
    <3>2. Arguments(r)'
      BY <2>4, <2>9, <2>10 DEF Arguments
    <3>3. RowsHeld(r)'
      BY <1>2, <2>9, <2>10 DEF RowsHeld, held, x, row
    <3>4. SourceHeld(r)'
      BY <2>9, <2>10 DEF SourceHeld
    <3>5. Checked(r)'
      <4>1. Pending(r)' = row
        BY <2>9, <2>10 DEF Pending, row
      <4>2. Writing(r)' => row.direction = "in"
        BY <2>10, <2>11 DEF Writing
      <4>3. Takes(r)' => row.direction # "in"
        BY <4>1 DEF Takes
      <4>4. tx'[r].keys = keys /\ pc'[r] # "insert"
        BY <2>9, <2>10, <2>11
      <4>5. row.direction = "in" => keys = {}
        BY DEF keys
      <4>6. row.direction # "in" => keys = SourceKeys(row.items)
        BY DEF keys
      <4> QED BY <4>1, <4>2, <4>3, <4>4, <4>5, <4>6 DEF Checked
    <3> QED BY <3>1, <3>2, <3>3, <3>4, <3>5 DEF RequestInv
  <2>13. step \in Steps /\ begun' \in 0 .. MaxRequests /\ summary' \in [Keys -> Int]
    BY <2>1, <2>3, <2>11 DEF Steps, Shapes
  <2> QED BY <2>1, <2>2, <2>6, <2>9, <2>12, <2>13, LocalStep
<1> QED BY <1>1, <1>2

LEMMA LockKeyStep ==
    ASSUME IInv, NEW r \in Requests, LockKey(r)
    PROVE  IInv'
<1>1. PICK k \in NextKeys(tx[r].keys) :
        Acquire(r, KeyLock(k)) /\ tx' = [tx EXCEPT ![r].keys = @ \ {k}]
  BY DEF LockKey
<1> DEFINE t == [tx[r] EXCEPT !.keys = tx[r].keys \ {k}]
           held == locks[r] \union {KeyLock(k)}
<1>2. pc[r] = "lockKeys"
      /\ begun' = begun /\ movement' = movement /\ opname' = opname /\ summary' = summary
      /\ pc' = pc
  BY DEF LockKey
<1>3. tx' = [tx EXCEPT ![r] = t]
  BY Zenon, <1>1
<1>4. /\ Shapes /\ LocksExclusive /\ IsTransaction(tx[r])
      /\ OpOfStep(r) /\ Arguments(r) /\ RowsHeld(r) /\ SourceHeld(r) /\ Checked(r)
      /\ locks \in [Requests -> SUBSET Lockable]
  BY Middle
<1>5. k \in tx[r].keys /\ tx[r].keys \in SUBSET Keys
  BY <1>4 DEF NextKeys, IsTransaction, TransactionOf
<1>6. KeyLock(k) \in Lockable
  BY <1>5, LockNames
<1>7. locks' = [locks EXCEPT ![r] = held] /\ LocksExclusive' /\ held \in SUBSET Lockable
  BY <1>1, <1>4, <1>6, AcquireExclusive
<1>8. /\ IsTransaction(t) /\ t.op = tx[r].op /\ t.id = tx[r].id /\ t.adds = tx[r].adds
      /\ t.items = tx[r].items /\ t.ref = tx[r].ref /\ t.opname = tx[r].opname
      /\ t.warehouse = tx[r].warehouse /\ t.keys = tx[r].keys \ {k}
  BY <1>4, <1>5 DEF IsTransaction, TransactionOf
<1> HIDE DEF t
<1>9. pc'[r] = "lockKeys" /\ tx'[r] = t /\ locks'[r] = held /\ movement' = movement
      /\ opname' = opname
  BY <1>2, <1>3, <1>4, <1>7 DEF Shapes
<1> HIDE DEF held
<1>10. Locked(r) /\ Locked(r)' /\ ~ Writing(r) /\ ~ Writing(r)'
  BY <1>2, <1>9 DEF Locked, Writing
<1>11. locks[r] \subseteq held /\ KeyLock(k) \in held
       /\ \A ref : SourceLock(ref) \in held => SourceLock(ref) \in locks[r]
  BY DEF held, SourceLock, KeyLock
<1>12. RequestInv(r)'
  <2>1. OpOfStep(r)'
    BY <1>2, <1>4, <1>8, <1>9 DEF OpOfStep
  <2>2. Arguments(r)'
    BY <1>4, <1>8, <1>9, <1>10 DEF Arguments, IsOpname, IsCount, OpnameOf
  <2>3. RowsHeld(r)'
    BY <1>2, <1>4, <1>8, <1>9, <1>10, <1>11 DEF RowsHeld
  <2>4. SourceHeld(r)'
    BY <1>4, <1>8, <1>9, <1>10, <1>11 DEF SourceHeld, Inserted, Posted
  <2>5. Checked(r)'
    <3>1. (Takes(r)' => Takes(r)) /\ (Takes(r) => Pending(r)' = Pending(r))
      BY <1>8, <1>9, <1>10 DEF Takes, Posts, Pending
    <3> QED BY <1>4, <1>8, <1>9, <1>10, <1>11, <3>1 DEF Checked
  <2> QED BY <2>1, <2>2, <2>3, <2>4, <2>5 DEF RequestInv
<1>13. "lockKeys" \in Steps /\ begun' \in 0 .. MaxRequests /\ summary' \in [Keys -> Int]
  BY <1>2, <1>4 DEF Steps, Shapes
<1>14. pc' = [pc EXCEPT ![r] = "lockKeys"]
  BY <1>2, <1>4 DEF Shapes
<1> QED BY <1>2, <1>3, <1>7, <1>8, <1>12, <1>13, <1>14, LocalStep

(* The items whose stock is checked are those that leave.                  *)
LEMMA CheckedItems ==
    ASSUME IInv, NEW r \in Requests, Takes(r)
    PROVE  Pending(r).items = tx[r].items /\ Pending(r) \in MovementRow
<1>1. /\ Shapes /\ IsTransaction(tx[r]) /\ Arguments(r) /\ RowsHeld(r) /\ OpOfStep(r)
  BY Middle
<1>2. Locked(r) /\ Posts(r) /\ Pending(r).direction # "in"
  BY DEF Takes
<1>3. CASE tx[r].op = "confirm"
  BY <1>1, <1>2, <1>3 DEF RowsHeld, Pending, Arguments, Shapes
<1>4. CASE tx[r].op # "confirm"
  <2>1. Len(tx[r].adds) = 1 /\ Pending(r) = tx[r].adds[1] /\ tx[r].adds \in Seq(MovementRow)
    BY <1>1, <1>2, <1>4 DEF Posts, Pending, IsTransaction, TransactionOf
  <2>6. Pending(r) \in MovementRow
    BY <2>1
  <2>2. tx[r].op \in {"document", "complete", "opname"}
    BY <1>1, <1>2, <1>4 DEF OpOfStep, Locked, Writing
  <2>3. CASE tx[r].op = "document"
    BY <1>1, <2>1, <2>3, <2>6 DEF Arguments
  <2>4. CASE tx[r].op = "complete"
    <3> DEFINE o == tx[r].opname  ref == tx[r].ref
    <3>1. /\ IsOpname(o) /\ o.status = "completed" /\ tx[r].adds = Adjustments(o, ref)
          /\ tx[r].items = IF Shortage(o) = {} THEN <<>> ELSE ShortageMovement(o, ref).items
          /\ ref \in References
      BY <1>1, <1>2, <2>4 DEF Arguments, References
    <3> HIDE DEF o, ref
    <3>2. Shortage(o) # {} /\ tx[r].adds[1] = ShortageMovement(o, ref)
      BY <1>2, <2>1, <3>1, AdjustmentFacts
    <3>3. Pending(r).items = ShortageMovement(o, ref).items
      BY <2>1, <3>2
    <3>4. tx[r].items = ShortageMovement(o, ref).items
      BY <3>1, <3>2
    <3> QED BY <2>6, <3>3, <3>4
  <2>5. CASE tx[r].op = "opname"
    BY <1>1, <2>1, <2>5 DEF Arguments
  <2> QED BY <2>2, <2>3, <2>4, <2>5
<1> QED BY <1>3, <1>4

LEMMA CheckStockStep ==
    ASSUME IInv, NEW r \in Requests, CheckStock(r)
    PROVE  IInv'
<1> DEFINE enough == \A k \in SourceKeys(tx[r].items) : OnHand(k) >= Required(tx[r].items, k)
           step == IF tx[r].op = "confirm" \/ Inserted(r) THEN "refresh" ELSE "insert"
<1>1. CASE ~ enough
  BY <1>1, RollbackStep DEF CheckStock
<1>2. CASE enough
  <2>1. /\ pc[r] = "lockKeys" /\ tx[r].keys = {} /\ pc' = [pc EXCEPT ![r] = step]
        /\ begun' = begun /\ movement' = movement /\ opname' = opname /\ summary' = summary
        /\ tx' = tx /\ locks' = locks
    BY <1>2 DEF CheckStock, Goto
  <2>2. /\ Shapes /\ LocksExclusive /\ IsTransaction(tx[r])
        /\ OpOfStep(r) /\ Arguments(r) /\ RowsHeld(r) /\ SourceHeld(r) /\ Checked(r)
        /\ locks \in [Requests -> SUBSET Lockable]
    BY Middle
  <2>3. tx' = [tx EXCEPT ![r] = tx[r]] /\ locks' = [locks EXCEPT ![r] = locks[r]]
        /\ locks[r] \in SUBSET Lockable
    BY <2>1, <2>2 DEF Shapes
  <2>4. LocksExclusive'
    BY <2>1, <2>2 DEF LocksExclusive
  <2> HIDE DEF enough
  <2>5. step \in {"refresh", "insert"}
        /\ (step = "refresh" <=> tx[r].op = "confirm" \/ Inserted(r))
    OBVIOUS
  <2> HIDE DEF step
  <2>6. pc'[r] = step /\ tx'[r] = tx[r] /\ locks'[r] = locks[r]
    BY <2>1, <2>2 DEF Shapes
  <2>7. Locked(r) /\ Locked(r)' /\ (Inserted(r)' <=> Inserted(r)) /\ ~ Writing(r)
        /\ (Writing(r)' <=> step = "refresh")
    BY <2>1, <2>5, <2>6 DEF Locked, Writing, Inserted
  <2>8. RequestInv(r)'
    <3>1. OpOfStep(r)'
      BY <2>1, <2>2, <2>5, <2>6 DEF OpOfStep
    <3>2. Arguments(r)'
      BY <2>2, <2>5, <2>6, <2>7 DEF Arguments, IsOpname, IsCount, OpnameOf
    <3>3. RowsHeld(r)'
      BY <2>1, <2>2, <2>5, <2>6, <2>7 DEF RowsHeld
    <3>4. SourceHeld(r)'
      BY <2>1, <2>2, <2>5, <2>6, <2>7 DEF SourceHeld, Posted
    <3>5. Checked(r)'
      <4>1. (Takes(r)' => Takes(r)) /\ (Takes(r) => Pending(r)' = Pending(r))
        BY <2>1, <2>6, <2>7 DEF Takes, Posts, Pending
      <4>2. Takes(r) => \A k \in SourceKeys(Pending(r).items) :
                          OnHand(k) >= Required(Pending(r).items, k)
        BY <1>2, CheckedItems DEF enough
      <4>3. \A k : OnHand(k)' = OnHand(k)
        BY <2>1 DEF OnHand
      <4> QED BY <2>1, <2>2, <2>6, <4>1, <4>2, <4>3 DEF Checked
    <3> QED BY <3>1, <3>2, <3>3, <3>4, <3>5 DEF RequestInv
  <2>9. step \in Steps /\ begun' \in 0 .. MaxRequests /\ summary' \in [Keys -> Int]
    BY <2>1, <2>2, <2>5 DEF Steps, Shapes
  <2> QED BY <2>1, <2>2, <2>3, <2>4, <2>8, <2>9, LocalStep
<1> QED BY <1>1, <1>2

LEMMA LockDocumentStep ==
    ASSUME IInv, NEW r \in Requests, LockDocument(r)
    PROVE  IInv'
<1> DEFINE ref == tx[r].ref
           incoming == tx[r].adds[1].direction = "in"
           x == DocumentLock(ref)
           keys == IF incoming THEN {} ELSE SourceKeys(tx[r].items)
           t == [tx[r] EXCEPT !.keys = keys]
           step == IF incoming \/ ref[1] = "delivery_order" THEN "insert" ELSE "lockKeys"
           held == locks[r] \union {x}
<1>1. CASE Posted(ref) /\ ref[1] # "work_order"
  BY <1>1, RollbackStep DEF LockDocument
<1>2. CASE ~ (Posted(ref) /\ ref[1] # "work_order")
  <2>1. /\ pc[r] = "document" /\ Acquire(r, x)
        /\ tx' = [tx EXCEPT ![r].keys = keys] /\ pc' = [pc EXCEPT ![r] = step]
        /\ begun' = begun /\ movement' = movement /\ opname' = opname /\ summary' = summary
    BY <1>2 DEF LockDocument, Goto
  <2>2. tx' = [tx EXCEPT ![r] = t]
    BY Zenon, <2>1
  <2>3. /\ Shapes /\ LocksExclusive /\ IsTransaction(tx[r])
        /\ OpOfStep(r) /\ Arguments(r) /\ SourceHeld(r)
        /\ locks \in [Requests -> SUBSET Lockable]
    BY Middle
  <2>4. tx[r].op = "document" /\ ref \in {d.ref : d \in Documents}
        /\ Len(tx[r].adds) = 1 /\ tx[r].adds[1].status = "confirmed"
        /\ tx[r].adds[1].items = tx[r].items /\ tx[r].adds[1].source = ref
    BY <2>1, <2>3 DEF OpOfStep, Arguments
  <2>5. x \in Lockable
    BY <2>4, LockNames
  <2>6. locks' = [locks EXCEPT ![r] = held] /\ LocksExclusive' /\ held \in SUBSET Lockable
    BY <2>1, <2>3, <2>5, AcquireExclusive
  <2>7. keys \in SUBSET Keys
    BY DEF SourceKeys
  <2>8. (incoming => keys = {}) /\ (~ incoming => keys = SourceKeys(tx[r].items))
    OBVIOUS
  <2> HIDE DEF keys
  <2>9. /\ IsTransaction(t) /\ t.op = tx[r].op /\ t.adds = tx[r].adds
        /\ t.items = tx[r].items /\ t.ref = ref /\ t.keys = keys
    BY <2>3, <2>7 DEF IsTransaction, TransactionOf
  <2> HIDE DEF t
  <2>10. step \in {"insert", "lockKeys"}
    OBVIOUS
  <2> HIDE DEF step
  <2>11. ~ Inserted(r)
    BY <2>1, <2>3, <2>4 DEF SourceHeld, Locked, Writing
  <2>12. ~ (SourceLock(ref) \in held)
    BY <2>11 DEF Inserted, SourceLock, DocumentLock
  <2> HIDE DEF held
  <2>13. pc'[r] = step /\ tx'[r] = t /\ locks'[r] = held
    BY <2>1, <2>2, <2>3, <2>6 DEF Shapes
  <2>14. ~ Writing(r)' /\ ~ Inserted(r)'
    BY <2>9, <2>10, <2>12, <2>13 DEF Writing, Inserted
  <2>15. RequestInv(r)'
    <3>1. OpOfStep(r)'
      BY <2>4, <2>9, <2>10, <2>13 DEF OpOfStep
    <3>2. Arguments(r)'
      BY <2>4, <2>9, <2>13 DEF Arguments
    <3>3. RowsHeld(r)'
      BY <2>4, <2>9, <2>13 DEF RowsHeld
    <3>4. SourceHeld(r)'
      BY <2>14 DEF SourceHeld
    <3>5. Checked(r)'
      <4>1. Pending(r)' = tx[r].adds[1]
        BY <2>4, <2>9, <2>13 DEF Pending
      <4>2. Takes(r)' => keys = SourceKeys(tx[r].items)
        BY <2>8, <4>1 DEF Takes
      <4> QED BY <2>4, <2>9, <2>13, <2>14, <4>1, <4>2 DEF Checked
    <3> QED BY <3>1, <3>2, <3>3, <3>4, <3>5 DEF RequestInv
  <2>16. step \in Steps /\ begun' \in 0 .. MaxRequests /\ summary' \in [Keys -> Int]
    BY <2>1, <2>3, <2>10 DEF Steps, Shapes
  <2> QED BY <2>1, <2>2, <2>6, <2>9, <2>15, <2>16, LocalStep
<1> QED BY <1>1, <1>2

LEMMA InsertMovementsStep ==
    ASSUME IInv, NEW r \in Requests, InsertMovements(r)
    PROVE  IInv'
<1> DEFINE t == tx[r]
           x == SourceLock(t.ref)
           step == IF t.keys = {} THEN "refresh" ELSE "lockKeys"
           held == locks[r] \union {x}
<1>1. CASE ReferenceTaken(r)
  BY <1>1, RollbackStep DEF InsertMovements
<1>2. CASE ~ ReferenceTaken(r)
  <2>1. /\ pc[r] = "insert" /\ Acquire(r, x) /\ pc' = [pc EXCEPT ![r] = step]
        /\ begun' = begun /\ movement' = movement /\ opname' = opname /\ summary' = summary
        /\ tx' = tx
    BY <1>2 DEF InsertMovements, Goto
  <2>2. /\ Shapes /\ LocksExclusive /\ IsTransaction(t)
        /\ OpOfStep(r) /\ Arguments(r) /\ RowsHeld(r) /\ SourceHeld(r) /\ Checked(r)
        /\ locks \in [Requests -> SUBSET Lockable]
    BY Middle
  <2>3. tx' = [tx EXCEPT ![r] = t]
    BY <2>1, <2>2 DEF Shapes
  <2>4. t.op \in {"document", "complete"} /\ t.ref \in References
    BY <2>1, <2>2 DEF OpOfStep, Arguments, References
  <2>5. ~ Posted(t.ref) /\ Len(t.adds) <= 1
    <3>1. Len(t.adds) \in Nat
      BY <2>2 DEF IsTransaction, TransactionOf
    <3> QED BY <1>2, <3>1 DEF ReferenceTaken
  <2>6. x \in Lockable
    BY <2>4, LockNames
  <2>7. locks' = [locks EXCEPT ![r] = held] /\ LocksExclusive' /\ held \in SUBSET Lockable
    BY <2>1, <2>2, <2>6, AcquireExclusive
  <2>8. step \in {"refresh", "lockKeys"} /\ (step = "refresh" <=> t.keys = {})
    OBVIOUS
  <2> HIDE DEF step
  <2>9. pc'[r] = step /\ tx'[r] = t /\ locks'[r] = held
    BY <2>1, <2>2, <2>7 DEF Shapes
  <2>10. locks[r] \subseteq held /\ SourceLock(t.ref) \in held
    OBVIOUS
  <2> HIDE DEF held, x
  <2>11. Locked(r) /\ Locked(r)' /\ Inserted(r)' /\ ~ Writing(r)
         /\ (Writing(r)' <=> step = "refresh")
    BY <2>1, <2>8, <2>9, <2>10 DEF Locked, Writing, Inserted
  <2>12. RequestInv(r)'
    <3>1. OpOfStep(r)'
      BY <2>4, <2>8, <2>9 DEF OpOfStep
    <3>2. Arguments(r)'
      BY <2>2, <2>8, <2>9, <2>11 DEF Arguments, IsOpname, IsCount, OpnameOf
    <3>3. RowsHeld(r)'
      BY <2>1, <2>2, <2>8, <2>9, <2>10, <2>11 DEF RowsHeld
    <3>4. SourceHeld(r)'
      BY <2>1, <2>5, <2>9, <2>11 DEF SourceHeld, Posted
    <3>5. Checked(r)'
      <4>1. (Takes(r)' => Takes(r)) /\ (Takes(r) => Pending(r)' = Pending(r))
        BY <2>1, <2>9, <2>11 DEF Takes, Posts, Pending
      <4>2. \A k : OnHand(k)' = OnHand(k)
        BY <2>1 DEF OnHand
      <4> QED BY <2>1, <2>2, <2>8, <2>9, <2>10, <2>11, <4>1, <4>2 DEF Checked
    <3> QED BY <3>1, <3>2, <3>3, <3>4, <3>5 DEF RequestInv
  <2>13. step \in Steps /\ begun' \in 0 .. MaxRequests /\ summary' \in [Keys -> Int]
    BY <2>1, <2>2, <2>8 DEF Steps, Shapes
  <2> QED BY <2>1, <2>2, <2>3, <2>7, <2>12, <2>13, LocalStep
<1> QED BY <1>1, <1>2

LEMMA CreateOpnameStep ==
    ASSUME IInv, NEW r \in Requests, CreateOpname(r)
    PROVE  IInv'
<1> DEFINE w == tx[r].warehouse
           stocked == {s \in Skus : summary[<<s, w>>] > 0}
           system == [s \in stocked |-> summary[<<s, w>>]]
           none == <<>>
           row == [status |-> "counting", warehouse |-> w, system |-> system, actual |-> none]
           id == Min(FreshOpnames)
           t == [tx[r] EXCEPT !.id = id, !.opname = row]
           held == locks[r] \union {ViewShare}
<1>1. /\ pc[r] = "opname" /\ FreshOpnames # {} /\ Acquire(r, ViewShare)
      /\ tx' = [tx EXCEPT ![r].id = id, ![r].opname = row]
      /\ pc' = [pc EXCEPT ![r] = "commit"]
      /\ begun' = begun /\ movement' = movement /\ opname' = opname /\ summary' = summary
  BY DEF CreateOpname, Goto
<1>2. tx' = [tx EXCEPT ![r] = t]
  BY Zenon, <1>1
<1>3. /\ Shapes /\ LocksExclusive /\ IsTransaction(tx[r])
      /\ OpOfStep(r) /\ Arguments(r) /\ SourceHeld(r)
      /\ locks \in [Requests -> SUBSET Lockable]
  BY Middle
<1>4. tx[r].op = "opname" /\ tx[r].adds = <<>> /\ w \in Warehouses
  BY <1>1, <1>3 DEF OpOfStep, Arguments
<1>5. locks' = [locks EXCEPT ![r] = held] /\ LocksExclusive' /\ held \in SUBSET Lockable
  BY <1>1, <1>3, LockNames, AcquireExclusive
<1>6. IsCount(system)
  <2>1. \A s \in stocked : <<s, w>> \in Keys
    BY <1>4 DEF Keys
  <2>2. \A s \in stocked : summary[<<s, w>>] \in Int
    BY <1>3, <2>1 DEF Shapes
  <2>3. stocked \in SUBSET Skus
    OBVIOUS
  <2> HIDE DEF stocked
  <2>4. system \in [stocked -> Int]
    BY <2>2
  <2> QED BY <2>3, <2>4 DEF IsCount
<1>7. IsCount(none)
  <2>1. none \in [{} -> Int]
    OBVIOUS
  <2> QED BY <2>1 DEF IsCount
<1> HIDE DEF system, none, held
<1>8. row \in OpnameOf(system, none) /\ row.system = system /\ row.actual = none
      /\ row.status = "counting" /\ row.warehouse = w
  BY <1>4 DEF OpnameOf
<1> HIDE DEF row
<1>9. IsOpname(row)
  BY <1>4, <1>6, <1>7, <1>8 DEF IsOpname
<1>10. id \in Opnames /\ opname[id].status = "none"
       /\ \A q \in Requests : tx[q].op = "opname" => tx[q].id # id
  BY <1>1, FreshIds
<1>11. id \in Nat
  BY <1>10, StockConstants DEF Opnames
<1> HIDE DEF id
<1>12. t \in TransactionOf(row) /\ t.op = "opname" /\ t.id = id /\ t.opname = row
       /\ t.adds = <<>> /\ t.warehouse = w
  BY <1>3, <1>4, <1>11 DEF IsTransaction, TransactionOf
<1>13. IsTransaction(t)
  BY <1>12 DEF IsTransaction
<1> HIDE DEF t
<1>14. pc'[r] = "commit" /\ tx'[r] = t /\ locks'[r] = held
       /\ \A q \in Requests \ {r} : tx'[q] = tx[q]
  BY <1>1, <1>2, <1>3, <1>5 DEF Shapes
<1>15. RequestInv(r)'
  <2>1. OpOfStep(r)'
    BY <1>12, <1>14 DEF OpOfStep
  <2>2. Arguments(r)'
    <3>1. IsOpname(t.opname) /\ t.opname.status = "counting" /\ t.id \in Opnames
      BY <1>8, <1>9, <1>10, <1>12
    <3> QED BY <1>4, <1>12, <1>14, <3>1 DEF Arguments, IsOpname, IsCount, OpnameOf
  <2>3. RowsHeld(r)'
    BY <1>1, <1>10, <1>12, <1>14 DEF RowsHeld
  <2>4. SourceHeld(r)'
    BY <1>12, <1>14 DEF SourceHeld
  <2>5. Checked(r)'
    <3>1. tx'[r].op # "confirm" /\ Len(tx'[r].adds) = 0
      BY <1>12, <1>14
    <3> QED BY <3>1 DEF Checked, Takes, Posts
  <2> QED BY <2>1, <2>2, <2>3, <2>4, <2>5 DEF RequestInv
<1>16. "commit" \in Steps /\ begun' \in 0 .. MaxRequests /\ summary' \in [Keys -> Int]
  BY <1>1, <1>3 DEF Steps, Shapes
<1> QED BY <1>1, <1>2, <1>5, <1>13, <1>15, <1>16, LocalStep

LEMMA CompleteLockOpnameStep ==
    ASSUME IInv, NEW r \in Requests, CompleteLockOpname(r)
    PROVE  IInv'
<1> DEFINE o == tx[r].opname
           id == tx[r].id
           ref == tx[r].ref
           x == OpnameLock(id)
           adds == Adjustments(o, ref)
           items == IF Shortage(o) = {} THEN <<>> ELSE ShortageMovement(o, ref).items
           keys == {<<s, o.warehouse>> : s \in Surplus(o) \union Shortage(o)}
           t == [tx[r] EXCEPT !.adds = adds, !.items = items, !.keys = keys]
           step == IF Surplus(o) \union Shortage(o) = {} THEN "refresh" ELSE "lockKeys"
           held == locks[r] \union {x}
<1>1. CASE opname[id].status # "counting"
  BY <1>1, RollbackStep DEF CompleteLockOpname
<1>2. CASE opname[id].status = "counting"
  <2>1. /\ pc[r] = "complete" /\ Acquire(r, x)
        /\ tx' = [tx EXCEPT ![r].adds = adds, ![r].items = items, ![r].keys = keys]
        /\ pc' = [pc EXCEPT ![r] = step]
        /\ begun' = begun /\ movement' = movement /\ opname' = opname /\ summary' = summary
    BY <1>2 DEF CompleteLockOpname, Goto
  <2>2. tx' = [tx EXCEPT ![r] = t]
    BY Zenon, <2>1
  <2>3. /\ Shapes /\ LocksExclusive /\ IsTransaction(tx[r])
        /\ OpOfStep(r) /\ Arguments(r) /\ SourceHeld(r)
        /\ locks \in [Requests -> SUBSET Lockable]
    BY Middle
  <2>4. tx[r].op = "complete" /\ id \in Opnames /\ ref = OpnameRef(id)
        /\ IsOpname(o) /\ o.status = "completed" /\ ref \in References
    BY <2>1, <2>3 DEF OpOfStep, Arguments, References
  <2>5. x \in Lockable
    BY <2>4, LockNames
  <2>6. locks' = [locks EXCEPT ![r] = held] /\ LocksExclusive' /\ held \in SUBSET Lockable
    BY <2>1, <2>3, <2>5, AcquireExclusive
  <2>7. adds \in Seq(MovementRow)
    BY <2>4, AdjustmentFacts
  <2>8. keys \in SUBSET Keys /\ ShortageMovement(o, ref).items \in Seq(Item)
        /\ SourceKeys(ShortageMovement(o, ref).items) \subseteq keys
    BY <2>4, AdjustedKeys
  <2>9. items \in Seq(Item)
    BY <2>8
  <2>10. /\ Len(adds) = 1 /\ adds[1].direction # "in" =>
              Shortage(o) # {} /\ adds[1] = ShortageMovement(o, ref)
    BY <2>4, AdjustmentFacts
  <2>11. Surplus(o) \union Shortage(o) = {} => adds = <<>>
    <3> SUFFICES ASSUME Surplus(o) = {}, Shortage(o) = {} PROVE adds = <<>>
      OBVIOUS
    <3>1. adds = <<>> \o <<>>
      BY DEF Adjustments
    <3> QED BY <3>1
  <2> DEFINE u == tx[r]
  <2>12. u.opname = o /\ u.id = id /\ u.ref = ref /\ u.op = "complete" /\ IsTransaction(u)
    BY <2>3, <2>4
  <2>13. items = IF Shortage(o) = {} THEN <<>> ELSE ShortageMovement(o, ref).items
    OBVIOUS
  <2>30. adds = Adjustments(o, ref)
    OBVIOUS
  <2>14. step \in {"refresh", "lockKeys"}
         /\ (step = "refresh" => Surplus(o) \union Shortage(o) = {})
    OBVIOUS
  <2>15. SourceLock(ref) \in held => Inserted(r)
    BY DEF Inserted, SourceLock, OpnameLock
  <2>16. ~ Inserted(r)
    BY <2>1, <2>3, <2>4 DEF SourceHeld, Locked, Writing
  <2>17. x \in held
    OBVIOUS
  <2> HIDE DEF adds, items, keys, step, held
  <2>18. /\ IsTransaction(t) /\ t.op = "complete" /\ t.id = id /\ t.ref = ref
         /\ t.opname = o /\ t.adds = adds /\ t.items = items /\ t.keys = keys
    BY <2>7, <2>8, <2>9, <2>12 DEF IsTransaction, TransactionOf
  <2> HIDE DEF t
  <2>19. pc'[r] = step /\ tx'[r] = t /\ locks'[r] = held
    BY <2>1, <2>2, <2>3, <2>6 DEF Shapes
  <2> HIDE DEF u, o, id, ref
  <2>20. Locked(r)' /\ ~ Inserted(r)' /\ (Writing(r)' => step = "refresh")
    BY <2>14, <2>15, <2>16, <2>18, <2>19 DEF Locked, Writing, Inserted
  <2>21. RequestInv(r)'
    <3>1. OpOfStep(r)'
      BY <2>14, <2>18, <2>19 DEF OpOfStep
    <3>2. Arguments(r)'
      <4>1. /\ IsOpname(t.opname) /\ t.opname.status = "completed" /\ t.id \in Opnames
            /\ t.ref = OpnameRef(t.id) /\ t.adds = Adjustments(t.opname, t.ref)
            /\ t.items = IF Shortage(t.opname) = {} THEN <<>>
                         ELSE ShortageMovement(t.opname, t.ref).items
        BY <2>4, <2>13, <2>18, <2>30
      <4> QED BY <2>18, <2>19, <2>20, <4>1 DEF Arguments, IsOpname, IsCount, OpnameOf
    <3>3. RowsHeld(r)'
      BY <1>2, <2>1, <2>17, <2>18, <2>19 DEF RowsHeld
    <3>4. SourceHeld(r)'
      <4>1. Writing(r)' => Len(tx'[r].adds) = 0
        BY <2>11, <2>14, <2>18, <2>19, <2>20
      <4> QED BY <2>20, <4>1 DEF SourceHeld
    <3>5. Checked(r)'
      <4>1. Posts(r)' => Len(adds) = 1 /\ Pending(r)' = adds[1]
        BY <2>18, <2>19 DEF Posts, Pending
      <4>2. Takes(r)' => /\ Len(adds) = 1 /\ Pending(r)' = adds[1] /\ Shortage(o) # {}
                         /\ adds[1] = ShortageMovement(o, ref)
        BY <2>10, <4>1 DEF Takes
      <4>3. Takes(r)' => SourceKeys(Pending(r)'.items) \subseteq keys
        BY <2>8, <4>2
      <4>4. Takes(r)' => ~ Writing(r)' /\ pc'[r] # "insert"
        BY <2>14, <2>19, <2>20, <4>2
      <4> QED BY <2>18, <2>19, <4>3, <4>4 DEF Checked
    <3> QED BY <3>1, <3>2, <3>3, <3>4, <3>5 DEF RequestInv
  <2>22. step \in Steps /\ begun' \in 0 .. MaxRequests /\ summary' \in [Keys -> Int]
    BY <2>1, <2>3, <2>14 DEF Steps, Shapes
  <2> QED BY <2>1, <2>2, <2>6, <2>18, <2>21, <2>22, LocalStep
<1> QED BY <1>1, <1>2

AddedBy(adds, k) == MapThenSumSet(LAMBDA i : ViewDelta(adds[i], k), DOMAIN adds)

LEMMA OwnDeltaType ==
    ASSUME IInv, NEW r \in Requests, pc[r] = "refresh", NEW k \in Keys
    PROVE  OwnDelta(r, k) \in Int
<1>1. Shapes /\ IsTransaction(tx[r]) /\ OpOfStep(r) /\ Arguments(r)
  BY Middle
<1>2. CASE tx[r].op = "confirm"
  <2>1. movement[tx[r].id] \in MovementRow
    BY <1>1, <1>2 DEF Arguments, Shapes
  <2> QED BY <1>2, <2>1, DeltaFacts DEF OwnDelta
<1>3. CASE tx[r].op # "confirm"
  <2> DEFINE adds == tx[r].adds
             n == Len(adds)
             F == ViewDeltasOf(adds, k)
  <2>1. adds \in Seq(MovementRow)
    BY <1>1 DEF IsTransaction, TransactionOf
  <2>2. OwnDelta(r, k) = AddedBy(adds, k)
    BY <1>3 DEF OwnDelta, AddedBy
  <2> HIDE DEF adds
  <2>3. DOMAIN adds = 1 .. n /\ n \in Nat /\ \A i \in DOMAIN adds : adds[i] \in MovementRow
    BY <2>1
  <2> HIDE DEF n
  <2>4. AddedBy(adds, k) = SumOver(F, DOMAIN adds)
    BY Zenon, ViewMovementsSum DEF AddedBy
  <2>5. \A i \in DOMAIN adds : F[i] \in Int
    BY <2>3, DeltaFacts DEF ViewDeltasOf
  <2>6. IsFiniteSet(DOMAIN adds)
    BY <2>3, FS_Interval
  <2> HIDE DEF F
  <2> QED BY <2>2, <2>4, <2>5, <2>6, SumType
<1> QED BY <1>2, <1>3

(* Steps that only move on keep r's part of the invariant.                 *)
LEMMA RefreshSteps ==
    ASSUME IInv, NEW r \in Requests, NEW t, NEW held \in SUBSET Lockable,
           NEW step \in {"refreshLock", "commit"},
           pc[r] = IF step = "refreshLock" THEN "refresh" ELSE "refreshLock",
           begun' = begun, movement' = movement, opname' = opname, summary' = summary,
           pc' = [pc EXCEPT ![r] = step], tx' = [tx EXCEPT ![r] = t],
           locks' = [locks EXCEPT ![r] = held], LocksExclusive',
           IsTransaction(t), t.op = tx[r].op, t.id = tx[r].id, t.ref = tx[r].ref,
           t.items = tx[r].items, t.adds = tx[r].adds, t.keys = tx[r].keys,
           t.opname = tx[r].opname, t.warehouse = tx[r].warehouse,
           locks[r] \subseteq held,
           \A ref : SourceLock(ref) \in held => SourceLock(ref) \in locks[r]
    PROVE  IInv'
<1>1. /\ Shapes /\ LocksExclusive /\ IsTransaction(tx[r])
      /\ OpOfStep(r) /\ Arguments(r) /\ RowsHeld(r) /\ SourceHeld(r) /\ Checked(r)
  BY Middle
<1>2. pc'[r] = step /\ tx'[r] = t /\ locks'[r] = held
  BY <1>1 DEF Shapes
<1>3. tx[r].op \in {"confirm", "document", "complete"}
  BY <1>1 DEF OpOfStep
<1>4. Locked(r) /\ Locked(r)' /\ Writing(r) /\ Writing(r)' /\ (Inserted(r)' <=> Inserted(r))
  BY <1>2 DEF Locked, Writing, Inserted
<1>5. RequestInv(r)'
  <2>1. OpOfStep(r)'
    BY <1>2, <1>3 DEF OpOfStep
  <2>2. Arguments(r)'
    <3>1. tx[r].op = "complete" =>
            /\ t.id \in Opnames /\ t.ref = OpnameRef(t.id)
            /\ IsOpname(t.opname) /\ t.opname.status = "completed"
            /\ t.adds = Adjustments(t.opname, t.ref)
            /\ t.items = IF Shortage(t.opname) = {} THEN <<>>
                         ELSE ShortageMovement(t.opname, t.ref).items
      BY <1>1, <1>4 DEF Arguments
    <3>2. tx[r].op = "document" =>
            /\ Len(t.adds) = 1 /\ t.adds[1].status = "confirmed" /\ t.adds[1].items = t.items
            /\ t.adds[1].source = t.ref /\ t.ref \in {d.ref : d \in Documents}
      BY <1>1 DEF Arguments
    <3>3. tx[r].op = "confirm" => t.id \in Movements /\ t.adds = <<>>
      BY <1>1 DEF Arguments
    <3> QED BY <1>2, <1>3, <1>4, <3>1, <3>2, <3>3 DEF Arguments, IsOpname, IsCount, OpnameOf
  <2>3. RowsHeld(r)'
    BY <1>1, <1>2, <1>3, <1>4 DEF RowsHeld
  <2>4. SourceHeld(r)'
    BY <1>1, <1>2, <1>4 DEF SourceHeld, Posted
  <2>5. Checked(r)'
    <3>1. (Takes(r)' => Takes(r)) /\ (Takes(r) => Pending(r)' = Pending(r))
      BY <1>2, <1>4 DEF Takes, Posts, Pending
    <3>2. \A k : OnHand(k)' = OnHand(k)
      BY DEF OnHand
    <3> QED BY <1>1, <1>2, <1>4, <3>1, <3>2 DEF Checked
  <2> QED BY <2>1, <2>2, <2>3, <2>4, <2>5 DEF RequestInv
<1>6. step \in Steps /\ begun' \in 0 .. MaxRequests /\ summary' \in [Keys -> Int]
  BY <1>1 DEF Steps, Shapes
<1> QED BY <1>5, <1>6, LocalStep

LEMMA RefreshSnapshotStep ==
    ASSUME IInv, NEW r \in Requests, RefreshSnapshot(r)
    PROVE  IInv'
<1> DEFINE snapshot == [k \in Keys |-> ViewOnHand(k) + OwnDelta(r, k)]
           t == [tx[r] EXCEPT !.snapshot = snapshot]
<1>1. /\ pc[r] = "refresh" /\ tx' = [tx EXCEPT ![r].snapshot = snapshot]
      /\ pc' = [pc EXCEPT ![r] = "refreshLock"] /\ locks' = locks
      /\ begun' = begun /\ movement' = movement /\ opname' = opname /\ summary' = summary
  BY DEF RefreshSnapshot, Goto
<1>2. tx' = [tx EXCEPT ![r] = t]
  BY Zenon, <1>1
<1>3. Shapes /\ LocksExclusive /\ IsTransaction(tx[r])
      /\ locks \in [Requests -> SUBSET Lockable]
  BY Middle
<1>4. \A k \in Keys : ViewOnHand(k) \in Int /\ OwnDelta(r, k) \in Int
  BY <1>1, <1>3, ViewIsStock, OwnDeltaType DEF Shapes
<1>5. snapshot \in [Keys -> Int]
  BY <1>4
<1> HIDE DEF snapshot
<1>6. /\ IsTransaction(t) /\ t.op = tx[r].op /\ t.id = tx[r].id /\ t.ref = tx[r].ref
      /\ t.items = tx[r].items /\ t.adds = tx[r].adds /\ t.keys = tx[r].keys
      /\ t.opname = tx[r].opname /\ t.warehouse = tx[r].warehouse
  BY <1>3, <1>5 DEF IsTransaction, TransactionOf
<1> HIDE DEF t
<1>7. locks' = [locks EXCEPT ![r] = locks[r]] /\ LocksExclusive'
      /\ locks[r] \in SUBSET Lockable
  BY <1>1, <1>3 DEF LocksExclusive
<1> QED BY <1>1, <1>2, <1>6, <1>7, RefreshSteps

LEMMA RefreshLockStep ==
    ASSUME IInv, NEW r \in Requests, RefreshLock(r)
    PROVE  IInv'
<1> DEFINE held == locks[r] \union {ViewLock}
<1>1. /\ pc[r] = "refreshLock" /\ Acquire(r, ViewLock)
      /\ pc' = [pc EXCEPT ![r] = "commit"] /\ tx' = tx
      /\ begun' = begun /\ movement' = movement /\ opname' = opname /\ summary' = summary
  BY DEF RefreshLock, Goto
<1>2. Shapes /\ LocksExclusive /\ IsTransaction(tx[r])
      /\ locks \in [Requests -> SUBSET Lockable]
  BY Middle
<1>3. locks' = [locks EXCEPT ![r] = held] /\ LocksExclusive' /\ held \in SUBSET Lockable
  BY <1>1, <1>2, LockNames, AcquireExclusive
<1>4. tx' = [tx EXCEPT ![r] = tx[r]]
  BY <1>1, <1>2 DEF Shapes
<1>5. locks[r] \subseteq held
      /\ \A ref : SourceLock(ref) \in held => SourceLock(ref) \in locks[r]
  BY DEF SourceLock, ViewLock
<1> HIDE DEF held
<1> QED BY <1>1, <1>2, <1>3, <1>4, <1>5, RefreshSteps

-----------------------------------------------------------------------------
(* Steps that write a table.  First, what one changed row of               *)
(* inventory_movements does.                                               *)
LEMMA PostedSum ==
    ASSUME NEW rows \in [Movements -> MovementRow], NEW ref, NEW k \in Keys
    PROVE  LET S == {m \in ConfirmedIn(rows) : rows[m].source = ref} IN
           /\ PostedIn(rows, ref, k) = SumOver(DeltasOf(rows, k), S)
           /\ IsFiniteSet(S) /\ S \subseteq Movements
<1> DEFINE S == {m \in ConfirmedIn(rows) : rows[m].source = ref}
<1>1. IsFiniteSet(ConfirmedIn(rows)) /\ ConfirmedIn(rows) \subseteq Movements
  BY StockType
<1>2. IsFiniteSet(S) /\ S \in SUBSET DOMAIN rows
  BY <1>1, FS_Subset
<1>3. PostedIn(rows, ref, k) = MapThenSumSet(LAMBDA m : Delta(rows[m], k), S)
  BY Zenon DEF PostedIn
<1> HIDE DEF S
<1>4. PostedIn(rows, ref, k) = SumOver(DeltasOf(rows, k), S)
  BY Zenon, <1>2, <1>3, MovementsSum
<1> QED BY <1>2, <1>4 DEF S

LEMMA RowChange ==
    ASSUME movement \in [Movements -> MovementRow], NEW m \in Movements,
           NEW row \in MovementRow, movement' = [movement EXCEPT ![m] = row],
           movement[m].status \notin Final
    PROVE  /\ movement' \in [Movements -> MovementRow]
           /\ movement[m].source = None
           /\ \A k \in Keys :
                OnHand(k)' = IF row.status = "confirmed" THEN OnHand(k) + Delta(row, k)
                             ELSE OnHand(k)
           /\ \A ref \in References : Posted(ref)' <=> Posted(ref) \/ row.source = ref
           /\ SourceUnique /\ (row.source # None => ~ Posted(row.source)) => SourceUnique'
           /\ \A ref \in References, k \in Keys :
                /\ row.source # ref =>
                     PostedIn(movement', ref, k) = PostedIn(movement, ref, k)
                /\ row.source = ref /\ ~ Posted(ref) =>
                     PostedIn(movement', ref, k) = Delta(row, k)
<1>1. movement' \in [Movements -> MovementRow] /\ movement'[m] = row
      /\ \A n \in Movements : n # m => movement'[n] = movement[n]
  OBVIOUS
<1>2. movement[m].status # "confirmed" /\ movement[m].source = None
  BY DEF MovementRow, Final
<1>3. None \notin References
  BY StockConstants
<1>4. ASSUME NEW k \in Keys
      PROVE  OnHand(k)' = IF row.status = "confirmed" THEN OnHand(k) + Delta(row, k)
                          ELSE OnHand(k)
  BY <1>2, StockAfterConfirming, StockUnchanged DEF OnHand
<1>5. \A ref \in References : Posted(ref)' <=> Posted(ref) \/ row.source = ref
  BY <1>1, <1>2, <1>3 DEF Posted
<1>6. ASSUME SourceUnique, row.source # None => ~ Posted(row.source)
      PROVE  SourceUnique'
  <2> SUFFICES ASSUME NEW n1 \in Movements, NEW n2 \in Movements, n1 # n2,
                      movement'[n1].source # None,
                      movement'[n1].source = movement'[n2].source
               PROVE  FALSE
    BY DEF SourceUnique
  <2>1. CASE n1 # m /\ n2 # m
    BY <1>1, <1>6, <2>1 DEF SourceUnique
  <2>2. CASE n1 = m
    BY <1>1, <1>6, <2>2 DEF Posted
  <2>3. CASE n2 = m
    BY <1>1, <1>6, <2>3 DEF Posted
  <2> QED BY <2>1, <2>2, <2>3
<1>7. ASSUME NEW ref \in References, NEW k \in Keys
      PROVE  /\ row.source # ref =>
                  PostedIn(movement', ref, k) = PostedIn(movement, ref, k)
             /\ row.source = ref /\ ~ Posted(ref) =>
                  PostedIn(movement', ref, k) = Delta(row, k)
  <2> DEFINE S == {n \in ConfirmedIn(movement) : movement[n].source = ref}
             T == {n \in ConfirmedIn(movement') : movement'[n].source = ref}
             F == DeltasOf(movement, k)
             G == DeltasOf(movement', k)
  <2>1. PostedIn(movement, ref, k) = SumOver(F, S) /\ IsFiniteSet(S) /\ S \subseteq Movements
    BY PostedSum
  <2>2. PostedIn(movement', ref, k) = SumOver(G, T) /\ IsFiniteSet(T) /\ T \subseteq Movements
    <3> DEFINE rows == movement'
               U == {n \in ConfirmedIn(rows) : rows[n].source = ref}
    <3>1. rows \in [Movements -> MovementRow]
      BY <1>1
    <3> HIDE DEF rows
    <3>2. PostedIn(rows, ref, k) = SumOver(DeltasOf(rows, k), U)
          /\ IsFiniteSet(U) /\ U \subseteq Movements
      BY <3>1, PostedSum
    <3> QED BY <3>2 DEF rows
  <2>3. \A n \in Movements : n # m => G[n] = F[n]
    BY <1>1 DEF DeltasOf
  <2>4. G[m] = Delta(row, k) /\ G[m] \in Int
    BY <1>1, StockType
  <2>5. CASE row.source # ref
    <3>1. T = S /\ m \notin S
      BY <1>1, <1>2, <2>5 DEF ConfirmedIn
    <3> HIDE DEF S, T, F, G
    <3>2. \A n \in S : F[n] = G[n]
      BY <2>1, <2>3, <3>1
    <3>3. SumOver(F, S) = SumOver(G, S)
      BY <2>1, <3>2, SumSame
    <3> QED BY <2>1, <2>2, <2>5, <3>1, <3>3
  <2>6. CASE row.source = ref /\ ~ Posted(ref)
    <3>1. row.status = "confirmed"
      BY <1>3, <2>6 DEF MovementRow
    <3>2. T = {m}
      BY <1>1, <1>2, <2>6, <3>1 DEF ConfirmedIn, Posted
    <3> HIDE DEF S, T, F, G
    <3>3. \A y \in T \ {m} : G[y] = 0
      BY <3>2
    <3>4. SumOver(G, T) = G[m]
      BY <2>2, <2>4, <3>2, <3>3, SumSingle
    <3> QED BY <2>2, <2>4, <2>6, <3>4
  <2> QED BY <2>5, <2>6
<1> QED BY <1>1, <1>2, <1>4, <1>5, <1>6, <1>7

LEMMA FreeMeans ==
    ASSUME NEW r \in Requests, NEW x, x # ViewShare, Free(r, x)
    PROVE  \A q \in Requests \ {r} : x \notin locks[q]
<1>1. x \in Conflicts(x)
  BY DEF Conflicts
<1> QED BY <1>1 DEF Free

(* Opnames and their movements stay as they are.                           *)
LEMMA AdjustmentsKept ==
    ASSUME Shapes, TablesInv, opname' = opname,
           \A k \in Keys : OnHand(k)' = OnHand(k),
           \A ref \in References : Posted(ref)' <=> Posted(ref),
           SourceUnique',
           \A ref \in References, k \in Keys :
             PostedIn(movement', ref, k) = PostedIn(movement, ref, k)
    PROVE  TablesInv'
<1>1. \A o \in Opnames : OpnameRef(o) \in References
  BY DEF References
<1>2. CompletedOnly'
  BY <1>1 DEF TablesInv, CompletedOnly
<1>3. OpnameAdjustsDifference'
  <2> SUFFICES ASSUME NEW o \in Opnames, opname[o].status = "completed",
                      NEW s \in DOMAIN opname[o].actual
               PROVE  Difference(opname[o], s) =
                        PostedIn(movement', OpnameRef(o), <<s, opname[o].warehouse>>)
    BY DEF OpnameAdjustsDifference
  <2>1. <<s, opname[o].warehouse>> \in Keys
    BY DifferencesOfOpname DEF Shapes, Keys
  <2> QED BY <1>1, <2>1 DEF TablesInv, OpnameAdjustsDifference
<1> QED BY <1>2, <1>3 DEF TablesInv

LEMMA CreateMovementStep ==
    ASSUME IInv, NEW r \in Requests, CreateMovement(r)
    PROVE  IInv'
<1>1. Shapes /\ LocksExclusive /\ TablesInv /\ \A q \in Requests : RequestInv(q)
  BY DEF IInv
<1>2. PICK payload \in Templates :
        /\ ValidItems(payload)
        /\ movement' = [movement EXCEPT ![FreshMovement] = Movement("draft", payload, None)]
  BY DEF CreateMovement
<1> DEFINE m == FreshMovement
           row == Movement("draft", payload, None)
<1>3. /\ begun' = begun + 1 /\ begun < MaxRequests /\ FreshMovements # {}
      /\ opname' = opname /\ summary' = summary /\ pc' = pc /\ tx' = tx /\ locks' = locks
  BY DEF CreateMovement
<1>4. m \in Movements /\ movement[m].status = "none"
  BY <1>3, FreshIds
<1>5. row \in MovementRow /\ row.status = "draft" /\ row.source = None
  <2>1. payload.direction \in {"in", "out", "transfer"} /\ payload.items \in Seq(Item)
    BY StockConstants
  <2>2. payload.direction = "transfer" =>
          \A i \in DOMAIN payload.items : payload.items[i].from # payload.items[i].to
    BY <1>2 DEF ValidItems
  <2> QED BY <2>1, <2>2, MovementIsRow
<1> HIDE DEF m, row
<1>6. movement' = [movement EXCEPT ![m] = row] /\ movement[m].status \notin Final
      /\ movement \in [Movements -> MovementRow]
  BY <1>1, <1>2, <1>4 DEF m, row, Final, Shapes
<1>7. /\ movement' \in [Movements -> MovementRow]
      /\ \A k \in Keys : OnHand(k)' = OnHand(k)
      /\ \A ref \in References : Posted(ref)' <=> Posted(ref)
      /\ SourceUnique'
      /\ \A ref \in References, k \in Keys :
           PostedIn(movement', ref, k) = PostedIn(movement, ref, k)
  <2>1. None \notin References
    BY StockConstants
  <2> QED BY <1>1, <1>4, <1>5, <1>6, <2>1, RowChange DEF TablesInv
<1>8. Shapes'
  <2>1. begun' \in 0 .. MaxRequests
    <3>1. begun \in 0 .. MaxRequests /\ MaxRequests \in Nat
      BY <1>1, StockConstants DEF Shapes
    <3> QED BY <1>3, <3>1
  <2> QED BY <1>1, <1>3, <1>7, <2>1 DEF Shapes, IsOpname, IsCount, OpnameOf, IsTransaction,
                                        TransactionOf
<1>9. LocksExclusive'
  BY <1>1, <1>3 DEF LocksExclusive
<1>10. TablesInv'
  BY <1>1, <1>3, <1>7, AdjustmentsKept DEF TablesInv
<1>11. ASSUME NEW q \in Requests PROVE RequestInv(q)'
  <2>1. tx[q].op = "confirm" /\ Locked(q) => movement'[tx[q].id] = movement[tx[q].id]
    <3>1. tx[q].op = "confirm" /\ Locked(q) => movement[tx[q].id].status = "draft"
      BY <1>1 DEF RequestInv, RowsHeld
    <3> QED BY <1>4, <1>6, <3>1
  <2>2. tx[q].op \in {"document", "complete"} =>
          (Posted(tx[q].ref)' => Posted(tx[q].ref))
    <3>1. tx[q].op \in {"document", "complete"} => tx[q].ref \in References
      BY <1>1 DEF RequestInv, Arguments, References
    <3> QED BY <1>3, <1>7, <3>1 DEF Posted
  <2>3. tx[q].op = "opname" /\ pc[q] = "commit" =>
          \A p \in Requests \ {q} :
            tx'[p].op = "opname" /\ pc'[p] = "commit" => tx'[p].id # tx[q].id
    BY <1>1, <1>3 DEF RequestInv, RowsHeld
  <2>4. \A k \in Keys : OnHand(k) \in Int /\ OnHand(k)' \in Int /\ OnHand(k)' >= OnHand(k)
    BY <1>6, <1>7, ViewIsStock
  <2> QED BY <1>1, <1>3, <2>1, <2>2, <2>3, <2>4, RequestKept
<1> QED BY <1>8, <1>9, <1>10, <1>11 DEF IInv

LEMMA CancelMovementStep ==
    ASSUME IInv, NEW r \in Requests, CancelMovement(r)
    PROVE  IInv'
<1> DEFINE m == tx[r].id
           row == [movement[m] EXCEPT !.status = "cancelled"]
<1>1. /\ Shapes /\ LocksExclusive /\ TablesInv /\ OpOfStep(r) /\ Arguments(r)
      /\ \A q \in Requests : RequestInv(q)
  BY DEF IInv, RequestInv
<1>2. /\ pc[r] = "cancel" /\ Free(r, MovementLock(m))
      /\ movement' = IF movement[m].status \in {"confirmed", "cancelled"} THEN movement
                     ELSE [movement EXCEPT ![m].status = "cancelled"]
      /\ pc' = [pc EXCEPT ![r] = "idle"] /\ tx' = [tx EXCEPT ![r] = NoTx]
      /\ begun' = begun /\ opname' = opname /\ summary' = summary /\ locks' = locks
  BY DEF CancelMovement, Goto
<1>3. m \in Movements /\ locks[r] = {}
  BY <1>1, <1>2 DEF OpOfStep, Arguments
<1>4. locks' = [locks EXCEPT ![r] = {}] /\ LocksExclusive' /\ {} \in SUBSET Lockable
  BY <1>1, <1>2, <1>3 DEF LocksExclusive, Shapes
<1>5. /\ pc'[r] = "idle" /\ tx'[r] = NoTx /\ locks'[r] = {}
      /\ \A q \in Requests \ {r} :
           pc'[q] = pc[q] /\ tx'[q] = tx[q] /\ locks'[q] = locks[q]
  BY <1>1, <1>2, <1>3 DEF Shapes
<1>6. RequestInv(r)'
  BY <1>5, EndedRequest
<1>7. CASE movement' = movement
  BY <1>1, <1>2, <1>4, <1>6, <1>7, NoTxFacts, LocalStep DEF Shapes, Steps
<1>8. CASE movement' # movement
  <2>1. movement' = [movement EXCEPT ![m] = row]
        /\ movement[m].status \notin {"confirmed", "cancelled"}
    BY Zenon, <1>2, <1>8
  <2>2. movement \in [Movements -> MovementRow]
    BY <1>1 DEF Shapes
  <2>3. movement[m].status \notin Final /\ movement[m].source = None
    BY <1>3, <2>1, <2>2 DEF Final, MovementRow
  <2>4. row \in MovementRow /\ row.status = "cancelled" /\ row.source = None
    <3> DEFINE old == movement[m]
    <3>1. old \in MovementRow /\ old.source = None
      BY <1>3, <2>2, <2>3
    <3> HIDE DEF old
    <3>2. [old EXCEPT !.status = "cancelled"] \in MovementRow
          /\ [old EXCEPT !.status = "cancelled"].status = "cancelled"
          /\ [old EXCEPT !.status = "cancelled"].source = None
      BY <3>1 DEF MovementRow
    <3> QED BY <3>2 DEF old
  <2> HIDE DEF row
  <2>5. /\ movement' \in [Movements -> MovementRow]
        /\ \A k \in Keys : OnHand(k)' = OnHand(k)
        /\ \A ref \in References : Posted(ref)' <=> Posted(ref)
        /\ SourceUnique'
        /\ \A ref \in References, k \in Keys :
             PostedIn(movement', ref, k) = PostedIn(movement, ref, k)
    <3>1. None \notin References
      BY StockConstants
    <3> QED BY <1>1, <1>3, <2>1, <2>2, <2>3, <2>4, <3>1, RowChange DEF TablesInv
  <2>6. Shapes'
    <3>1. tx' = [q \in Requests |-> tx'[q]]
      BY <1>1, <1>2 DEF Shapes
    <3>2. \A q \in Requests : IsTransaction(tx'[q])
      BY <1>1, <1>5, NoTxFacts DEF Shapes
    <3>3. pc' \in [Requests -> Steps]
      BY <1>1, <1>2 DEF Shapes, Steps
    <3> QED BY <1>1, <1>2, <2>5, <3>1, <3>2, <3>3
            DEF Shapes, IsOpname, IsCount, OpnameOf, IsTransaction, TransactionOf
  <2>7. TablesInv'
    BY <1>1, <1>2, <2>5, AdjustmentsKept
  <2>8. ASSUME NEW q \in Requests \ {r} PROVE RequestInv(q)'
    <3>1. tx[q].op = "confirm" /\ Locked(q) => movement'[tx[q].id] = movement[tx[q].id]
      <4>1. tx[q].op = "confirm" /\ Locked(q) => MovementLock(tx[q].id) \in locks[q]
        BY <1>1 DEF RequestInv, RowsHeld
      <4>2. MovementLock(m) \notin locks[q]
        BY <1>2, <1>3, LockNames, FreeMeans
      <4> QED BY <2>1, <2>2, <4>1, <4>2
    <3>2. tx[q].op \in {"document", "complete"} =>
            (Posted(tx[q].ref)' => Posted(tx[q].ref))
      <4>1. tx[q].op \in {"document", "complete"} => tx[q].ref \in References
        BY <1>1 DEF RequestInv, Arguments, References
      <4> QED BY <1>5, <2>5, <4>1 DEF Posted
    <3>3. tx[q].op = "opname" /\ pc[q] = "commit" =>
            \A p \in Requests \ {q} :
              tx'[p].op = "opname" /\ pc'[p] = "commit" => tx'[p].id # tx[q].id
      BY <1>1, <1>5, NoTxFacts DEF RequestInv, RowsHeld
    <3>4. \A k \in Keys : OnHand(k) \in Int /\ OnHand(k)' \in Int /\ OnHand(k)' >= OnHand(k)
      BY <2>2, <2>5, ViewIsStock
    <3>5. RequestInv(q) /\ pc'[q] = pc[q] /\ tx'[q] = tx[q] /\ locks'[q] = locks[q]
      BY <1>1, <1>5
    <3> QED BY <1>1, <1>2, <3>1, <3>2, <3>3, <3>4, <3>5, RequestKept
  <2> QED BY <1>4, <1>6, <2>6, <2>7, <2>8 DEF IInv
<1> QED BY <1>7, <1>8

LEMMA CancelOpnameStep ==
    ASSUME IInv, NEW r \in Requests, CancelOpname(r)
    PROVE  IInv'
<1> DEFINE o == tx[r].id
           row == [opname[o] EXCEPT !.status = "cancelled"]
<1>1. /\ Shapes /\ LocksExclusive /\ TablesInv /\ OpOfStep(r) /\ Arguments(r)
      /\ \A q \in Requests : RequestInv(q)
  BY DEF IInv, RequestInv
<1>2. /\ pc[r] = "cancelOpname" /\ Free(r, OpnameLock(o))
      /\ opname' = IF opname[o].status = "counting"
                   THEN [opname EXCEPT ![o].status = "cancelled"] ELSE opname
      /\ pc' = [pc EXCEPT ![r] = "idle"] /\ tx' = [tx EXCEPT ![r] = NoTx]
      /\ begun' = begun /\ movement' = movement /\ summary' = summary /\ locks' = locks
  BY DEF CancelOpname, Goto
<1>3. o \in Opnames /\ locks[r] = {}
  BY <1>1, <1>2 DEF OpOfStep, Arguments
<1>4. locks' = [locks EXCEPT ![r] = {}] /\ LocksExclusive' /\ {} \in SUBSET Lockable
  BY <1>1, <1>2, <1>3 DEF LocksExclusive, Shapes
<1>5. /\ pc'[r] = "idle" /\ tx'[r] = NoTx /\ locks'[r] = {}
      /\ \A q \in Requests \ {r} :
           pc'[q] = pc[q] /\ tx'[q] = tx[q] /\ locks'[q] = locks[q]
  BY <1>1, <1>2, <1>3 DEF Shapes
<1>6. RequestInv(r)'
  BY <1>5, EndedRequest
<1>7. CASE opname' = opname
  BY <1>1, <1>2, <1>4, <1>6, <1>7, NoTxFacts, LocalStep DEF Shapes, Steps
<1>8. CASE opname' # opname
  <2>1. opname' = [opname EXCEPT ![o] = row] /\ opname[o].status = "counting"
    BY Zenon, <1>2, <1>8
  <2>2. IsOpname(row) /\ row.status = "cancelled"
    <3> DEFINE old == opname[o]
               new == [old EXCEPT !.status = "cancelled"]
    <3>1. IsOpname(old) /\ old.status = "counting"
      BY <1>1, <1>3, <2>1 DEF Shapes
    <3> HIDE DEF old
    <3>2. new \in OpnameOf(old.system, old.actual) /\ new.status = "cancelled"
          /\ new.system = old.system /\ new.actual = old.actual
          /\ new.warehouse \in Warehouses
      BY <3>1 DEF IsOpname, OpnameOf
    <3>3. IsCount(old.system) /\ IsCount(old.actual)
      BY <3>1 DEF IsOpname
    <3> HIDE DEF new
    <3>4. IsOpname(new)
      BY <3>2, <3>3 DEF IsOpname
    <3> QED BY <3>2, <3>4 DEF old, new
  <2> HIDE DEF row
  <2>3. opname = [i \in Opnames |-> opname[i]]
    BY <1>1 DEF Shapes
  <2>4. opname'[o] = row /\ (\A i \in Opnames : i # o => opname'[i] = opname[i])
        /\ opname' = [i \in Opnames |-> opname'[i]]
    BY <1>3, <2>1, <2>3
  <2>5. Shapes'
    <3>1. tx' = [q \in Requests |-> tx'[q]]
      BY <1>1, <1>2 DEF Shapes
    <3>2. \A q \in Requests : IsTransaction(tx'[q])
      BY <1>1, <1>5, NoTxFacts DEF Shapes
    <3>3. pc' \in [Requests -> Steps]
      BY <1>1, <1>2 DEF Shapes, Steps
    <3>4. \A i \in Opnames : IsOpname(opname'[i])
      BY <1>1, <2>2, <2>4 DEF Shapes
    <3> QED BY <1>1, <1>2, <2>4, <3>1, <3>2, <3>3, <3>4
            DEF Shapes, IsOpname, IsCount, OpnameOf, IsTransaction, TransactionOf
  <2>6. TablesInv'
    <3>1. (\A k \in Keys : OnHand(k)' >= 0) /\ SourceUnique'
      BY <1>1, <1>2 DEF TablesInv, OnHand, SourceUnique
    <3>2. CompletedOnly'
      BY <1>1, <1>2, <2>1, <2>4 DEF TablesInv, CompletedOnly, Posted
    <3>3. OpnameAdjustsDifference'
      BY <1>1, <1>2, <2>2, <2>4 DEF TablesInv, OpnameAdjustsDifference
    <3> QED BY <3>1, <3>2, <3>3 DEF TablesInv
  <2>7. ASSUME NEW q \in Requests \ {r} PROVE RequestInv(q)'
    <3>1. tx[q].op = "complete" /\ Locked(q) => opname'[tx[q].id] = opname[tx[q].id]
      <4>1. tx[q].op = "complete" /\ Locked(q) =>
              OpnameLock(tx[q].id) \in locks[q] /\ tx[q].id \in Opnames
        BY <1>1 DEF RequestInv, RowsHeld, Arguments
      <4>2. OpnameLock(o) \notin locks[q]
        BY <1>2, <1>3, LockNames, FreeMeans
      <4> QED BY <2>4, <4>1, <4>2
    <3>2. Posted(tx[q].ref)' => Posted(tx[q].ref)
      BY <1>2, <1>5 DEF Posted
    <3>3. tx[q].op = "opname" /\ pc[q] = "commit" =>
            /\ opname'[tx[q].id] = opname[tx[q].id]
            /\ \A p \in Requests \ {q} :
                 tx'[p].op = "opname" /\ pc'[p] = "commit" => tx'[p].id # tx[q].id
      <4>1. tx[q].op = "opname" /\ pc[q] = "commit" =>
              opname[tx[q].id].status = "none" /\ tx[q].id \in Opnames
        BY <1>1 DEF RequestInv, RowsHeld, Arguments
      <4>2. tx[q].op = "opname" /\ pc[q] = "commit" => opname'[tx[q].id] = opname[tx[q].id]
        BY <2>1, <2>4, <4>1
      <4> QED BY <1>1, <1>5, <4>2, NoTxFacts DEF RequestInv, RowsHeld
    <3>4. \A k \in Keys : OnHand(k) \in Int /\ OnHand(k)' = OnHand(k)
      BY <1>1, <1>2, ViewIsStock DEF OnHand, Shapes
    <3>5. RequestInv(q) /\ pc'[q] = pc[q] /\ tx'[q] = tx[q] /\ locks'[q] = locks[q]
      BY <1>1, <1>5
    <3> QED BY <1>1, <1>2, <3>1, <3>2, <3>3, <3>4, <3>5, RequestKept
  <2> QED BY <1>4, <1>6, <2>5, <2>6, <2>7 DEF IInv
<1> QED BY <1>7, <1>8
(* What a request writes when it commits: a movement, for which it has     *)
(* held the lock of the draft or the entry of the source.                  *)
LEMMA CommittedRow ==
    ASSUME IInv, NEW r \in Requests, Commit(r), Posts(r)
    PROVE  \E m \in Movements, row \in MovementRow :
             /\ movement' = [movement EXCEPT ![m] = row]
             /\ movement[m].status \notin Final /\ row.status = "confirmed"
             /\ row.items = Pending(r).items /\ row.direction = Pending(r).direction
             /\ IF tx[r].op = "confirm"
                THEN m = tx[r].id /\ row.source = None
                ELSE /\ movement[m].status = "none" /\ row = tx[r].adds[1]
                     /\ row.source = tx[r].ref /\ Inserted(r)
                     /\ tx[r].op \in {"document", "complete"}
<1>1. /\ Shapes /\ IsTransaction(tx[r]) /\ OpOfStep(r) /\ Arguments(r) /\ RowsHeld(r)
      /\ SourceHeld(r)
  BY Middle
<1>2. /\ pc[r] = "commit" /\ Writing(r) /\ Locked(r)
      /\ Len(tx[r].adds) = 1 => FreshMovements # {}
      /\ movement' =
           CASE tx[r].op = "confirm" -> [movement EXCEPT ![tx[r].id].status = "confirmed"]
             [] Len(tx[r].adds) = 1 -> [movement EXCEPT ![FreshMovement] = tx[r].adds[1]]
             [] OTHER -> movement
  BY DEF Commit, Writing, Locked
<1>3. movement \in [Movements -> MovementRow]
  BY <1>1 DEF Shapes
<1>4. CASE tx[r].op = "confirm"
  <2> DEFINE m == tx[r].id
             old == movement[m]
             row == [old EXCEPT !.status = "confirmed"]
  <2>1. m \in Movements /\ old.status = "draft" /\ Len(tx[r].adds) # 1
    BY <1>1, <1>2, <1>4 DEF Arguments, RowsHeld
  <2>7. movement' = [movement EXCEPT ![tx[r].id].status = "confirmed"]
    BY <1>2, <1>4, <2>1
  <2>2. movement' = [movement EXCEPT ![m] = row]
    BY Zenon, <2>7
  <2>3. old \in MovementRow
    BY <1>3, <2>1
  <2>4. Pending(r) = old
    BY <1>4 DEF Pending
  <2> HIDE DEF old
  <2>5. row \in MovementRow /\ row.status = "confirmed" /\ row.source = None
        /\ row.items = old.items /\ row.direction = old.direction
    BY <2>1, <2>3 DEF MovementRow
  <2>6. movement[m].status \notin Final
    BY <2>1 DEF Final, old
  <2> HIDE DEF row
  <2> QED BY <1>4, <2>1, <2>2, <2>4, <2>5, <2>6
<1>5. CASE tx[r].op # "confirm"
  <2> DEFINE m == FreshMovement
             row == tx[r].adds[1]
  <2>1. Len(tx[r].adds) = 1 /\ Pending(r) = row
    BY <1>5 DEF Posts, Pending
  <2>2. movement' = [movement EXCEPT ![m] = row]
    BY <1>2, <1>5, <2>1
  <2>3. m \in Movements /\ movement[m].status = "none"
    BY <1>2, <2>1, FreshIds
  <2>4. tx[r].op \in {"document", "complete"}
    <3>1. tx[r].op \in {"document", "complete", "opname"}
      BY <1>1, <1>2, <1>5 DEF OpOfStep
    <3>2. tx[r].op = "opname" => Len(tx[r].adds) = 0
      BY <1>1 DEF Arguments
    <3> QED BY <2>1, <3>1, <3>2
  <2>5. tx[r].adds \in Seq(MovementRow)
    BY <1>1 DEF IsTransaction, TransactionOf
  <2>6. row \in MovementRow
    BY <2>1, <2>5
  <2>7. row.status = "confirmed" /\ row.source = tx[r].ref
    <3>1. CASE tx[r].op = "document"
      BY <1>1, <3>1 DEF Arguments
    <3>2. CASE tx[r].op = "complete"
      <4>1. /\ IsOpname(tx[r].opname) /\ tx[r].opname.status = "completed"
            /\ tx[r].ref \in References
            /\ tx[r].adds = Adjustments(tx[r].opname, tx[r].ref)
        BY <1>1, <1>2, <3>2 DEF Arguments, References
      <4> QED BY <2>1, <4>1, AdjustmentFacts
    <3> QED BY <2>4, <3>1, <3>2
  <2>8. Inserted(r)
    BY <1>1, <1>2, <2>1, <2>4 DEF SourceHeld
  <2>9. movement[m].status \notin Final
    BY <2>3 DEF Final
  <2> HIDE DEF m, row
  <2> QED BY <1>5, <2>1, <2>2, <2>3, <2>4, <2>6, <2>7, <2>8, <2>9 DEF row
<1> QED BY <1>4, <1>5

LEMMA NothingPosted ==
    ASSUME IInv, NEW r \in Requests, Commit(r), ~ Posts(r)
    PROVE  /\ movement' = movement /\ tx[r].op \in {"complete", "opname"}
           /\ tx[r].op = "complete" => tx[r].adds = <<>>
<1>1. /\ Shapes /\ IsTransaction(tx[r]) /\ OpOfStep(r) /\ Arguments(r) /\ SourceHeld(r)
  BY Middle
<1>2. pc[r] = "commit" /\ Writing(r) /\ tx[r].op # "confirm" /\ Len(tx[r].adds) # 1
  BY DEF Commit, Writing, Posts
<1>3. movement' = movement
  BY <1>2 DEF Commit
<1>4. tx[r].op \in {"complete", "opname"}
  BY <1>1, <1>2 DEF OpOfStep, Arguments
<1>5. ASSUME tx[r].op = "complete" PROVE tx[r].adds = <<>>
  <2>1. tx[r].adds \in Seq(MovementRow)
    BY <1>1 DEF IsTransaction, TransactionOf
  <2>2. Len(tx[r].adds) = 0 \/ Len(tx[r].adds) <= 1
    BY <1>1, <1>2, <1>5 DEF SourceHeld
  <2>3. Len(tx[r].adds) \in Nat
    BY <2>1
  <2> DEFINE n == Len(tx[r].adds)
  <2>7. n \in Nat /\ n # 1 /\ (n = 0 \/ n <= 1)
    BY <1>2, <2>2, <2>3
  <2> HIDE DEF n
  <2>8. n = 0
    BY <2>7
  <2>4. Len(tx[r].adds) = 0
    BY <2>8 DEF n
  <2> DEFINE adds == tx[r].adds
  <2>5. adds \in Seq(MovementRow) /\ Len(adds) = 0
    BY <2>1, <2>4
  <2> HIDE DEF adds
  <2>6. adds = <<>>
    BY <2>5, EmptySeq
  <2> QED BY <2>6 DEF adds
<1> QED BY <1>3, <1>4, <1>5

(* A commit takes stock only from keys that its request has locked, and    *)
(* never more than was there.                                              *)
LEMMA CommittedStock ==
    ASSUME IInv, NEW r \in Requests, Commit(r), NEW k \in Keys
    PROVE  /\ OnHand(k) \in Int /\ OnHand(k)' \in Int /\ OnHand(k)' >= 0
           /\ KeyLock(k) \notin locks[r] => OnHand(k)' >= OnHand(k)
<1>1. Shapes /\ TablesInv /\ Checked(r) /\ movement \in [Movements -> MovementRow]
  BY Middle DEF IInv, Shapes
<1>2. OnHand(k) \in Int /\ OnHand(k) >= 0
  BY <1>1, ViewIsStock DEF TablesInv
<1>3. pc[r] = "commit" /\ Writing(r) /\ Locked(r)
  BY DEF Commit, Writing, Locked
<1>4. CASE ~ Posts(r)
  BY <1>2, <1>4, NothingPosted DEF OnHand
<1>5. CASE Posts(r)
  <2>1. PICK m \in Movements, row \in MovementRow :
          /\ movement' = [movement EXCEPT ![m] = row]
          /\ movement[m].status \notin Final /\ row.status = "confirmed"
          /\ row.items = Pending(r).items /\ row.direction = Pending(r).direction
    BY <1>5, CommittedRow
  <2>2. OnHand(k)' = OnHand(k) + Delta(row, k)
    BY <1>1, <2>1, RowChange
  <2>3. /\ Delta(row, k) \in Int /\ Required(row.items, k) \in Int
        /\ row.direction = "in" => Delta(row, k) >= 0
        /\ Delta(row, k) + Required(row.items, k) >= 0
        /\ k \notin SourceKeys(row.items) => Delta(row, k) >= 0
    BY DeltaFacts
  <2>4. CASE row.direction = "in" \/ k \notin SourceKeys(row.items)
    <3>1. Delta(row, k) >= 0
      BY <2>3, <2>4
    <3> QED BY <1>2, <2>2, <2>3, <3>1
  <2>5. CASE row.direction # "in" /\ k \in SourceKeys(row.items)
    <3>1. Takes(r)
      BY <1>3, <1>5, <2>1, <2>5 DEF Takes
    <3>2. k \in SourceKeys(Pending(r).items) /\ tx[r].keys = {}
      BY <1>1, <1>3, <2>1, <2>5, <3>1 DEF Checked
    <3>3. KeyLock(k) \in locks[r] /\ OnHand(k) >= Required(row.items, k)
      BY <1>1, <1>3, <2>1, <3>1, <3>2 DEF Checked
    <3> QED BY <1>2, <2>2, <2>3, <3>3
  <2> QED BY <2>4, <2>5
<1> QED BY <1>4, <1>5

LEMMA CommittedOpname ==
    ASSUME IInv, NEW r \in Requests, Commit(r)
    PROVE  /\ \A o \in Opnames : IsOpname(opname'[o])
           /\ opname' = [o \in Opnames |-> opname'[o]]
           /\ tx[r].op \in {"confirm", "document"} => opname' = opname
           /\ tx[r].op \in {"complete", "opname"} =>
                /\ tx[r].id \in Opnames /\ opname'[tx[r].id] = tx[r].opname
                /\ \A o \in Opnames : o # tx[r].id => opname'[o] = opname[o]
           /\ tx[r].op = "complete" =>
                /\ tx[r].ref = OpnameRef(tx[r].id) /\ tx[r].opname.status = "completed"
                /\ opname[tx[r].id].status = "counting"
           /\ tx[r].op = "opname" =>
                tx[r].opname.status = "counting" /\ opname[tx[r].id].status = "none"
<1> DEFINE id == tx[r].id
           row == tx[r].opname
<1>1. /\ Shapes /\ OpOfStep(r) /\ Arguments(r) /\ RowsHeld(r)
  BY Middle
<1>2. pc[r] = "commit" /\ Locked(r)
      /\ opname' = IF tx[r].op \in {"opname", "complete"}
                   THEN [opname EXCEPT ![id] = row] ELSE opname
  BY DEF Commit, Locked, Writing
<1>3. opname = [o \in Opnames |-> opname[o]] /\ \A o \in Opnames : IsOpname(opname[o])
  BY <1>1 DEF Shapes
<1>4. CASE tx[r].op \in {"confirm", "document"}
  BY <1>2, <1>3, <1>4
<1>5. CASE tx[r].op = "complete"
  <2>1. id \in Opnames /\ tx[r].ref = OpnameRef(id) /\ IsOpname(row)
        /\ row.status = "completed" /\ opname[id].status = "counting"
    BY <1>1, <1>2, <1>5 DEF Arguments, RowsHeld
  <2> HIDE DEF row, id
  <2>2. opname' = [opname EXCEPT ![id] = row]
    BY <1>2, <1>5
  <2>3. /\ opname'[id] = row /\ \A o \in Opnames : o # id => opname'[o] = opname[o]
        /\ opname' = [o \in Opnames |-> opname'[o]]
    BY <1>3, <2>1, <2>2
  <2>4. \A o \in Opnames : IsOpname(opname'[o])
    BY <1>3, <2>1, <2>3
  <2> QED BY <1>5, <2>1, <2>3, <2>4 DEF id, row
<1>6. CASE tx[r].op = "opname"
  <2>1. id \in Opnames /\ IsOpname(row) /\ row.status = "counting"
        /\ opname[id].status = "none"
    BY <1>1, <1>2, <1>6 DEF Arguments, RowsHeld
  <2> HIDE DEF row, id
  <2>2. opname' = [opname EXCEPT ![id] = row]
    BY <1>2, <1>6
  <2>3. /\ opname'[id] = row /\ \A o \in Opnames : o # id => opname'[o] = opname[o]
        /\ opname' = [o \in Opnames |-> opname'[o]]
    BY <1>3, <2>1, <2>2
  <2>4. \A o \in Opnames : IsOpname(opname'[o])
    BY <1>3, <2>1, <2>3
  <2> QED BY <1>6, <2>1, <2>3, <2>4 DEF id, row
<1>7. tx[r].op \in {"confirm", "document", "complete", "opname"}
  BY <1>1, <1>2 DEF OpOfStep
<1> QED BY <1>4, <1>5, <1>6, <1>7

LEMMA NoneOfNothing ==
    ASSUME movement \in [Movements -> MovementRow], NEW ref, NEW k \in Keys, ~ Posted(ref)
    PROVE  PostedIn(movement, ref, k) = 0
<1> DEFINE S == {m \in ConfirmedIn(movement) : movement[m].source = ref}
<1>1. PostedIn(movement, ref, k) = SumOver(DeltasOf(movement, k), S) /\ S \subseteq Movements
  BY PostedSum
<1>2. S = {}
  BY <1>1 DEF Posted
<1> HIDE DEF S
<1> QED BY <1>1, <1>2, SumEmpty

(* The source of the movement a commit writes has no other, and it is the  *)
(* source of an opname only when the commit completes that opname.         *)
LEMMA CommittedSource ==
    ASSUME IInv, NEW r \in Requests, Commit(r), Posts(r)
    PROVE  \E m \in Movements, row \in MovementRow :
             /\ movement' = [movement EXCEPT ![m] = row]
             /\ movement[m].status \notin Final
             /\ row.source # None => ~ Posted(row.source) /\ row.source = tx[r].ref
                                     /\ Inserted(r)
             /\ tx[r].op = "complete" => row.source = tx[r].ref /\ row = tx[r].adds[1]
             /\ \A o \in Opnames :
                  row.source = OpnameRef(o) => tx[r].op = "complete" /\ o = tx[r].id
<1>1. /\ Shapes /\ OpOfStep(r) /\ Arguments(r) /\ SourceHeld(r)
  BY Middle
<1>2. PICK m \in Movements, row \in MovementRow :
        /\ movement' = [movement EXCEPT ![m] = row]
        /\ movement[m].status \notin Final
        /\ IF tx[r].op = "confirm" THEN row.source = None
           ELSE /\ row = tx[r].adds[1] /\ row.source = tx[r].ref /\ Inserted(r)
                /\ tx[r].op \in {"document", "complete"}
  BY CommittedRow
<1>3. row.source # None => ~ Posted(row.source) /\ row.source = tx[r].ref /\ Inserted(r)
  BY <1>1, <1>2 DEF SourceHeld
<1>4. ASSUME NEW o \in Opnames, row.source = OpnameRef(o)
      PROVE  tx[r].op = "complete" /\ o = tx[r].id
  <2>1. row.source # None
    BY <1>4, StockConstants DEF References
  <2>2. tx[r].op \in {"document", "complete"} /\ tx[r].ref = OpnameRef(o)
    BY <1>2, <1>4, <2>1
  <2>3. tx[r].op # "document"
    BY <1>1, <2>2, StockConstants DEF Arguments
  <2>4. tx[r].ref = OpnameRef(tx[r].id)
    BY <1>1, <2>2, <2>3 DEF Arguments
  <2> QED BY <2>2, <2>3, <2>4 DEF OpnameRef
<1> QED BY <1>2, <1>3, <1>4

LEMMA CommittedTables ==
    ASSUME IInv, NEW r \in Requests, Commit(r)
    PROVE  /\ movement' \in [Movements -> MovementRow]
           /\ SourceUnique' /\ CompletedOnly' /\ OpnameAdjustsDifference'
<1>1. /\ Shapes /\ TablesInv /\ OpOfStep(r) /\ Arguments(r)
      /\ movement \in [Movements -> MovementRow]
  BY Middle DEF IInv, Shapes
<1>2. pc[r] = "commit" /\ Locked(r)
      /\ tx[r].op \in {"confirm", "document", "complete", "opname"}
  BY <1>1 DEF Commit, Locked, Writing, OpOfStep
<1>3. \A o \in Opnames : OpnameRef(o) \in References
  BY DEF References
<1>4. /\ tx[r].op \in {"confirm", "document"} => opname' = opname
      /\ tx[r].op \in {"complete", "opname"} =>
           /\ tx[r].id \in Opnames /\ opname'[tx[r].id] = tx[r].opname
           /\ \A o \in Opnames : o # tx[r].id => opname'[o] = opname[o]
      /\ tx[r].op = "complete" =>
           /\ tx[r].ref = OpnameRef(tx[r].id) /\ tx[r].opname.status = "completed"
           /\ opname[tx[r].id].status = "counting"
      /\ tx[r].op = "opname" => tx[r].opname.status = "counting"
                                /\ opname[tx[r].id].status = "none"
  BY CommittedOpname
(* What this commit does to the movements of an opname.                    *)
<1>5. /\ movement' \in [Movements -> MovementRow] /\ SourceUnique'
      /\ \A o \in Opnames :
           ~ (tx[r].op = "complete" /\ o = tx[r].id) =>
             /\ Posted(OpnameRef(o))' <=> Posted(OpnameRef(o))
             /\ \A k \in Keys : PostedIn(movement', OpnameRef(o), k) =
                                  PostedIn(movement, OpnameRef(o), k)
      /\ tx[r].op = "complete" =>
           \A s \in DOMAIN tx[r].opname.actual :
             Difference(tx[r].opname, s) =
               PostedIn(movement', tx[r].ref, <<s, tx[r].opname.warehouse>>)
  <2>0. tx[r].op = "complete" =>
          /\ IsOpname(tx[r].opname) /\ tx[r].opname.status = "completed"
          /\ tx[r].ref \in References /\ tx[r].adds = Adjustments(tx[r].opname, tx[r].ref)
          /\ tx[r].opname.warehouse \in Warehouses
          /\ \A s \in DOMAIN tx[r].opname.actual : <<s, tx[r].opname.warehouse>> \in Keys
    <3> SUFFICES ASSUME tx[r].op = "complete"
                 PROVE  /\ IsOpname(tx[r].opname) /\ tx[r].opname.status = "completed"
                        /\ tx[r].ref \in References
                        /\ tx[r].adds = Adjustments(tx[r].opname, tx[r].ref)
                        /\ tx[r].opname.warehouse \in Warehouses
                        /\ \A s \in DOMAIN tx[r].opname.actual :
                             <<s, tx[r].opname.warehouse>> \in Keys
      OBVIOUS
    <3>1. /\ IsOpname(tx[r].opname) /\ tx[r].opname.status = "completed"
          /\ tx[r].ref \in References /\ tx[r].adds = Adjustments(tx[r].opname, tx[r].ref)
      BY <1>1, <1>2, <1>3 DEF Arguments
    <3>2. tx[r].opname.warehouse \in Warehouses /\ DOMAIN tx[r].opname.actual \in SUBSET Skus
      BY <3>1, DifferencesOfOpname
    <3> QED BY <3>1, <3>2 DEF Keys
  <2>1. CASE ~ Posts(r)
    <3>1. movement' = movement /\ (tx[r].op = "complete" => tx[r].adds = <<>>)
      BY <2>1, NothingPosted
    <3>2. SourceUnique'
      BY <1>1, <3>1 DEF TablesInv, SourceUnique
    <3>3. ASSUME tx[r].op = "complete", NEW s \in DOMAIN tx[r].opname.actual
          PROVE  Difference(tx[r].opname, s) =
                   PostedIn(movement', tx[r].ref, <<s, tx[r].opname.warehouse>>)
      <4>1. ~ Posted(tx[r].ref)
        BY <1>1, <1>4, <3>3 DEF TablesInv, CompletedOnly
      <4>2. PostedIn(movement, tx[r].ref, <<s, tx[r].opname.warehouse>>) = 0
        BY <1>1, <2>0, <3>3, <4>1, NoneOfNothing
      <4>3. Difference(tx[r].opname, s) = 0
        BY <2>0, <3>1, <3>3, AdjustmentFacts
      <4> QED BY <3>1, <4>2, <4>3
    <3> QED BY <1>1, <3>1, <3>2, <3>3 DEF Posted
  <2>2. CASE Posts(r)
    <3>1. PICK m \in Movements, row \in MovementRow :
            /\ movement' = [movement EXCEPT ![m] = row]
            /\ movement[m].status \notin Final
            /\ row.source # None => ~ Posted(row.source) /\ row.source = tx[r].ref
            /\ tx[r].op = "complete" => row.source = tx[r].ref /\ row = tx[r].adds[1]
            /\ \A o \in Opnames :
                 row.source = OpnameRef(o) => tx[r].op = "complete" /\ o = tx[r].id
      BY <2>2, CommittedSource
    <3>2. /\ movement' \in [Movements -> MovementRow]
          /\ \A ref \in References : Posted(ref)' <=> Posted(ref) \/ row.source = ref
          /\ SourceUnique'
          /\ \A ref \in References, k \in Keys :
               /\ row.source # ref =>
                    PostedIn(movement', ref, k) = PostedIn(movement, ref, k)
               /\ row.source = ref /\ ~ Posted(ref) =>
                    PostedIn(movement', ref, k) = Delta(row, k)
      BY <1>1, <3>1, RowChange DEF TablesInv
    <3>3. ASSUME NEW o \in Opnames, ~ (tx[r].op = "complete" /\ o = tx[r].id)
          PROVE  /\ Posted(OpnameRef(o))' <=> Posted(OpnameRef(o))
                 /\ \A k \in Keys : PostedIn(movement', OpnameRef(o), k) =
                                      PostedIn(movement, OpnameRef(o), k)
      <4> DEFINE ref == OpnameRef(o)
      <4>1. ref \in References /\ row.source # ref
        BY <1>3, <3>1, <3>3
      <4>2. Posted(ref)' <=> Posted(ref)
        BY <3>2, <4>1
      <4> QED BY <3>2, <4>1, <4>2
    <3>4. ASSUME tx[r].op = "complete", NEW s \in DOMAIN tx[r].opname.actual
          PROVE  Difference(tx[r].opname, s) =
                   PostedIn(movement', tx[r].ref, <<s, tx[r].opname.warehouse>>)
      <4>1. row.source = tx[r].ref /\ row = tx[r].adds[1] /\ row.source # None
            /\ Len(tx[r].adds) = 1
        BY <2>0, <2>2, <3>1, <3>4, StockConstants DEF Posts
      <4>2. ~ Posted(tx[r].ref)
        BY <3>1, <4>1
      <4>3. Delta(row, <<s, tx[r].opname.warehouse>>) = Difference(tx[r].opname, s)
        BY <2>0, <3>4, <4>1, AdjustmentFacts
      <4> QED BY <2>0, <3>2, <3>4, <4>1, <4>2, <4>3
    <3> QED BY <3>2, <3>3, <3>4
  <2> QED BY <2>1, <2>2
<1>6. CompletedOnly'
  <2> SUFFICES ASSUME NEW o \in Opnames, opname'[o].status # "completed"
               PROVE  ~ Posted(OpnameRef(o))'
    BY DEF CompletedOnly
  <2>1. ~ (tx[r].op = "complete" /\ o = tx[r].id)
    BY <1>4
  <2>2. opname[o].status # "completed"
    BY <1>2, <1>4, <2>1
  <2> QED BY <1>1, <1>5, <2>1, <2>2 DEF TablesInv, CompletedOnly
<1>7. OpnameAdjustsDifference'
  <2> SUFFICES ASSUME NEW o \in Opnames, opname'[o].status = "completed",
                      NEW s \in DOMAIN opname'[o].actual
               PROVE  Difference(opname'[o], s) =
                        PostedIn(movement', OpnameRef(o), <<s, opname'[o].warehouse>>)
    BY DEF OpnameAdjustsDifference
  <2>1. CASE tx[r].op = "complete" /\ o = tx[r].id
    BY <1>4, <1>5, <2>1
  <2>2. CASE ~ (tx[r].op = "complete" /\ o = tx[r].id)
    <3>1. opname'[o] = opname[o]
      BY <1>2, <1>4, <2>2
    <3>2. <<s, opname[o].warehouse>> \in Keys
      BY <1>1, <3>1, DifferencesOfOpname DEF Shapes, Keys
    <3> QED BY <1>1, <1>5, <2>2, <3>1, <3>2 DEF TablesInv, OpnameAdjustsDifference
  <2> QED BY <2>1, <2>2
<1> QED BY <1>5, <1>6, <1>7

LEMMA CommitStep ==
    ASSUME IInv, NEW r \in Requests, Commit(r)
    PROVE  IInv'
<1>1. /\ Shapes /\ LocksExclusive /\ TablesInv /\ OpOfStep(r) /\ Arguments(r) /\ RowsHeld(r)
      /\ IsTransaction(tx[r]) /\ locks \in [Requests -> SUBSET Lockable]
      /\ movement \in [Movements -> MovementRow]
      /\ \A q \in Requests : RequestInv(q)
  BY Middle DEF IInv, Shapes
<1>2. /\ pc[r] = "commit" /\ Locked(r)
      /\ summary' = IF tx[r].snapshot = None THEN summary ELSE tx[r].snapshot
      /\ pc' = [pc EXCEPT ![r] = "idle"] /\ tx' = [tx EXCEPT ![r] = NoTx]
      /\ locks' = [locks EXCEPT ![r] = {}] /\ begun' = begun
      /\ tx[r].op \in {"confirm", "document", "complete", "opname"}
  BY <1>1 DEF Commit, Goto, Locked, Writing, OpOfStep
<1>3. /\ pc'[r] = "idle" /\ tx'[r] = NoTx /\ locks'[r] = {}
      /\ \A q \in Requests \ {r} :
           pc'[q] = pc[q] /\ tx'[q] = tx[q] /\ locks'[q] = locks[q]
  BY <1>1, <1>2 DEF Shapes
<1>4. LocksExclusive' /\ locks' \in [Requests -> SUBSET Lockable]
  BY <1>1, <1>2, ReleaseExclusive
<1>5. /\ movement' \in [Movements -> MovementRow]
      /\ SourceUnique' /\ CompletedOnly' /\ OpnameAdjustsDifference'
  BY CommittedTables
<1>6. TablesInv'
  BY <1>5, CommittedStock DEF TablesInv
<1>7. Shapes'
  <2>1. summary' \in [Keys -> Int]
    BY <1>1, <1>2 DEF Shapes, IsTransaction, TransactionOf
  <2>2. tx' = [q \in Requests |-> tx'[q]]
    BY <1>1, <1>2 DEF Shapes
  <2>3. \A q \in Requests : IsTransaction(tx'[q])
    BY <1>1, <1>3, NoTxFacts DEF Shapes
  <2>4. pc' \in [Requests -> Steps]
    BY <1>1, <1>2 DEF Shapes, Steps
  <2>5. opname' = [o \in Opnames |-> opname'[o]] /\ \A o \in Opnames : IsOpname(opname'[o])
    BY CommittedOpname
  <2>6. begun' \in 0 .. MaxRequests
    BY <1>1, <1>2 DEF Shapes
  <2> QED BY <1>4, <1>5, <2>1, <2>2, <2>3, <2>4, <2>5, <2>6
          DEF Shapes, IsOpname, IsCount, OpnameOf, IsTransaction, TransactionOf
<1>8. RequestInv(r)'
  BY <1>3, EndedRequest
<1>9. ASSUME NEW q \in Requests \ {r} PROVE RequestInv(q)'
  <2>1. /\ RequestInv(q) /\ RowsHeld(q) /\ Arguments(q)
        /\ pc'[q] = pc[q] /\ tx'[q] = tx[q] /\ locks'[q] = locks[q]
    BY <1>1, <1>3 DEF RequestInv
  <2>2. \A x \in locks[q] : x # ViewShare => x \notin locks[r]
    BY <1>1 DEF LocksExclusive
  <2>3. tx[q].op = "confirm" /\ Locked(q) => movement'[tx[q].id] = movement[tx[q].id]
    <3> SUFFICES ASSUME tx[q].op = "confirm", Locked(q)
                 PROVE  movement'[tx[q].id] = movement[tx[q].id]
      OBVIOUS
    <3>1. /\ tx[q].id \in Movements /\ MovementLock(tx[q].id) \in locks[q]
          /\ movement[tx[q].id].status = "draft"
      BY <2>1 DEF RowsHeld, Arguments
    <3>2. MovementLock(tx[q].id) \notin locks[r]
      BY <2>2, <3>1, LockNames
    <3>3. CASE ~ Posts(r)
      BY <3>3, NothingPosted
    <3>4. CASE Posts(r)
      <4>1. PICK m \in Movements, row \in MovementRow :
              /\ movement' = [movement EXCEPT ![m] = row]
              /\ IF tx[r].op = "confirm" THEN m = tx[r].id
                 ELSE movement[m].status = "none"
        BY <3>4, CommittedRow
      <4>2. tx[r].op = "confirm" => MovementLock(tx[r].id) \in locks[r]
        BY <1>1, <1>2 DEF RowsHeld
      <4>3. tx[q].id # m
        BY <3>1, <3>2, <4>1, <4>2
      <4> QED BY <1>1, <3>1, <4>1, <4>3
    <3> QED BY <3>3, <3>4
  <2>4. tx[q].op \in {"document", "complete"} /\ Inserted(q) =>
          (Posted(tx[q].ref)' => Posted(tx[q].ref))
    <3> DEFINE ref == tx[q].ref
    <3> SUFFICES ASSUME tx[q].op \in {"document", "complete"}, Inserted(q)
                 PROVE  Posted(tx[q].ref)' => Posted(tx[q].ref)
      OBVIOUS
    <3>1. ref \in References /\ SourceLock(ref) \in locks[q]
      BY <2>1 DEF Arguments, References, Inserted
    <3>2. SourceLock(ref) \notin locks[r] /\ ref # None
      BY <2>2, <3>1, LockNames, StockConstants
    <3>3. tx'[q].ref = ref
      BY <2>1
    <3>4. CASE ~ Posts(r)
      BY <3>3, <3>4, NothingPosted DEF Posted
    <3>5. CASE Posts(r)
      <4>1. PICK m \in Movements, row \in MovementRow :
              /\ movement' = [movement EXCEPT ![m] = row]
              /\ movement[m].status \notin Final
              /\ row.source # None => row.source = tx[r].ref /\ Inserted(r)
        BY <3>5, CommittedSource
      <4>2. row.source # ref
        BY <3>2, <4>1 DEF Inserted
      <4> HIDE DEF ref
      <4>3. (\E n \in Movements : movement'[n].source = ref) =>
              \E n \in Movements : movement[n].source = ref
        BY <1>1, <4>1, <4>2
      <4> QED BY <3>3, <4>3 DEF Posted, ref
    <3> QED BY <3>4, <3>5
  <2>5. /\ tx[q].op = "complete" /\ Locked(q) => opname'[tx[q].id] = opname[tx[q].id]
        /\ tx[q].op = "opname" /\ pc[q] = "commit" => opname'[tx[q].id] = opname[tx[q].id]
    <3>1. /\ tx[r].op \in {"confirm", "document"} => opname' = opname
          /\ tx[r].op \in {"complete", "opname"} =>
                \A o \in Opnames : o # tx[r].id => opname'[o] = opname[o]
          /\ tx[r].op = "complete" => opname[tx[r].id].status = "counting"
          /\ tx[r].op = "opname" => opname[tx[r].id].status = "none"
      BY CommittedOpname
    <3>2. ASSUME tx[q].op = "complete", Locked(q)
          PROVE  opname'[tx[q].id] = opname[tx[q].id]
      <4>1. /\ tx[q].id \in Opnames /\ OpnameLock(tx[q].id) \in locks[q]
            /\ opname[tx[q].id].status = "counting"
        BY <2>1, <3>2 DEF RowsHeld, Arguments
      <4>2. OpnameLock(tx[q].id) \notin locks[r]
        BY <2>2, <4>1, LockNames
      <4>3. tx[r].op = "complete" => OpnameLock(tx[r].id) \in locks[r]
        BY <1>1, <1>2 DEF RowsHeld
      <4> QED BY <1>2, <3>1, <4>1, <4>2, <4>3
    <3>3. ASSUME tx[q].op = "opname", pc[q] = "commit"
          PROVE  opname'[tx[q].id] = opname[tx[q].id]
      <4>1. /\ tx[q].id \in Opnames /\ opname[tx[q].id].status = "none"
            /\ tx[r].op = "opname" => tx[r].id # tx[q].id
        BY <1>2, <2>1, <3>3 DEF RowsHeld, Arguments
      <4> QED BY <1>2, <3>1, <4>1
    <3> QED BY <3>2, <3>3
  <2>6. tx[q].op = "opname" /\ pc[q] = "commit" =>
          \A p \in Requests \ {q} :
            tx'[p].op = "opname" /\ pc'[p] = "commit" => tx'[p].id # tx[q].id
    BY <1>3, <2>1, NoTxFacts DEF RowsHeld
  <2>7. \A k \in Keys : KeyLock(k) \in locks[q] =>
          OnHand(k) \in Int /\ OnHand(k)' \in Int /\ OnHand(k)' >= OnHand(k)
    BY <2>2, LockNames, CommittedStock
  <2> QED BY <1>1, <2>1, <2>3, <2>4, <2>5, <2>6, <2>7, RequestKept
<1> QED BY <1>4, <1>6, <1>7, <1>8, <1>9 DEF IInv

-----------------------------------------------------------------------------
(* The initial state: only the movements that exist, no request.           *)
LEMMA InitInv ==
    ASSUME Init
    PROVE  IInv
<1>1. /\ begun = 0 /\ opname = [o \in Opnames |-> NoOpname]
      /\ movement = [m \in Movements |-> IF m <= Len(Existing) THEN Existing[m] ELSE NoMovement]
      /\ summary = [k \in Keys |-> ViewOnHand(k)]
      /\ pc = [r \in Requests |-> "idle"] /\ tx = [r \in Requests |-> NoTx]
      /\ locks = [r \in Requests |-> {}]
  BY DEF Init
<1> DEFINE n == Len(Existing)
<1>2. n \in Nat /\ DOMAIN Existing = 1 .. n /\ \A m \in 1 .. n : Existing[m] \in MovementRow
  BY ExistingMovements
<1>3. \A m \in DOMAIN Existing :
        /\ \A o \in Opnames : Existing[m].source # OpnameRef(o)
        /\ \A l \in DOMAIN Existing :
             m # l /\ Existing[m].source # None => Existing[m].source # Existing[l].source
  BY ExistingMovements
<1>4. NoMovement \in MovementRow /\ NoMovement.status = "none" /\ NoMovement.source = None
  BY DEF NoMovement, MovementRow
<1>5. /\ Movements \subseteq Nat /\ \A m \in Movements : m >= 1
      /\ 1 .. n \subseteq Movements
  BY <1>2, MovementsFinite, StockConstants DEF Movements
<1>6. \A m \in Movements :
        movement[m] = IF m \in 1 .. n THEN Existing[m] ELSE NoMovement
  BY <1>1, <1>2, <1>5
<1>7. movement \in [Movements -> MovementRow]
  BY <1>1, <1>2, <1>4, <1>6
<1>8. \A k \in Keys : OnHand(k) >= 0
  <2> TAKE k \in Keys
  <2> DEFINE C == ConfirmedIn(movement)
             F == DeltasOf(movement, k)
             G == DeltasOf(Existing, k)
  <2>1. /\ IsFiniteSet(C) /\ C \subseteq Movements
        /\ \A m \in C : F[m] = Delta(movement[m], k) /\ F[m] \in Int
    BY <1>7, StockType
  <2>2. ConfirmedIn(Existing) = C
    BY <1>1, <1>2, <1>4, <1>5, <1>6, <1>7 DEF ConfirmedIn
  <2>8. ConfirmedIn(Existing) \subseteq DOMAIN Existing
    BY DEF ConfirmedIn
  <2>9. C \subseteq 1 .. n
    BY <1>2, <2>2, <2>8
  <2> HIDE DEF C, n
  <2>3. \A m \in C : m \in 1 .. n /\ movement[m] = Existing[m]
    BY <1>6, <2>1, <2>9
  <2> USE DEF C, n
  <2>4. \A m \in C : F[m] = G[m]
    BY <1>2, <2>1, <2>3 DEF DeltasOf
  <2>5. OnHand(k) = SumOver(F, C) /\ StockIn(Existing, k) = SumOver(G, C)
    BY <2>2, StockSum DEF OnHand
  <2> HIDE DEF C, F, G
  <2>6. SumOver(F, C) = SumOver(G, C)
    BY <2>1, <2>4, SumSame
  <2>7. StockIn(Existing, k) >= 0
    BY ExistingMovements
  <2> QED BY <2>5, <2>6, <2>7
<1>9. SourceUnique
  <2>1. \A m \in Movements : movement[m].source # None => m \in DOMAIN Existing
    BY <1>2, <1>4, <1>6
  <2>2. \A m \in DOMAIN Existing : m \in Movements /\ movement[m] = Existing[m]
    BY <1>2, <1>5, <1>6
  <2> QED BY <1>3, <2>1, <2>2 DEF SourceUnique
<1>10. CompletedOnly
  <2> SUFFICES ASSUME NEW o \in Opnames, NEW m \in Movements,
                      movement[m].source = OpnameRef(o)
               PROVE  FALSE
    BY DEF CompletedOnly, Posted
  <2>1. OpnameRef(o) \in References /\ None \notin References
    BY StockConstants DEF References
  <2> QED BY <1>2, <1>3, <1>4, <1>6, <2>1
<1>11. OpnameAdjustsDifference
  BY <1>1 DEF OpnameAdjustsDifference, NoOpname
<1>12. Shapes
  <2>1. \A k \in Keys : ViewOnHand(k) \in Int
    BY <1>7, ViewIsStock
  <2>2. summary \in [Keys -> Int]
    BY <1>1, <2>1
  <2>3. IsOpname(NoOpname)
    <3>1. NoOpname \in OpnameOf(<<>>, <<>>) /\ NoOpname.system = <<>> /\ NoOpname.actual = <<>>
          /\ NoOpname.status = "none"
      BY DEF NoOpname, OpnameOf
    <3>2. <<>> \in [{} -> Int]
      OBVIOUS
    <3> QED BY <3>1, <3>2 DEF IsOpname, IsCount
  <2>4. opname = [o \in Opnames |-> opname[o]] /\ \A o \in Opnames : IsOpname(opname[o])
    BY <1>1, <2>3
  <2>5. begun \in 0 .. MaxRequests /\ pc \in [Requests -> Steps]
        /\ locks \in [Requests -> SUBSET Lockable]
    BY <1>1, StockConstants DEF Steps
  <2>6. tx = [r \in Requests |-> tx[r]] /\ \A r \in Requests : IsTransaction(tx[r])
    BY <1>1, NoTxFacts
  <2> QED BY <1>7, <2>2, <2>4, <2>5, <2>6 DEF Shapes
<1>13. LocksExclusive
  BY <1>1 DEF LocksExclusive
<1>14. ASSUME NEW r \in Requests PROVE RequestInv(r)
  <2>1. pc[r] = "idle" /\ tx[r] = NoTx /\ locks[r] = {}
    BY <1>1
  <2>2. OpOfStep(r)
    BY <2>1 DEF OpOfStep
  <2>3. Arguments(r) /\ RowsHeld(r) /\ SourceHeld(r)
    BY <2>1, NoTxFacts DEF Arguments, RowsHeld, SourceHeld
  <2>4. Checked(r)
    BY <2>1 DEF Checked, Takes, Locked, Writing
  <2> QED BY <2>2, <2>3, <2>4 DEF RequestInv
<1> QED BY <1>8, <1>9, <1>10, <1>11, <1>12, <1>13, <1>14 DEF IInv, TablesInv

-----------------------------------------------------------------------------
(* Every action of Next, and the steps that change nothing.                *)
LEMMA NextInv ==
    ASSUME IInv, [Next]_vars
    PROVE  IInv'
<1>1. CASE UNCHANGED vars
  <2>1. /\ begun' = begun /\ movement' = movement /\ opname' = opname /\ summary' = summary
        /\ pc' = pc /\ tx' = tx /\ locks' = locks
    BY <1>1 DEF vars
  <2>2. Shapes'
    BY <2>1 DEF IInv, Shapes, IsOpname, IsCount, OpnameOf, IsTransaction, TransactionOf
  <2>3. LocksExclusive'
    BY <2>1 DEF IInv, LocksExclusive
  <2>4. TablesInv'
    BY <2>1 DEF IInv, TablesInv, SourceUnique, CompletedOnly, Posted,
                OpnameAdjustsDifference, OnHand
  <2>5. ASSUME NEW r \in Requests PROVE RequestInv(r)'
    <3>1. \A k \in Keys : OnHand(k) \in Int /\ OnHand(k)' = OnHand(k)
      BY <2>1, ViewIsStock DEF IInv, Shapes, OnHand
    <3>2. tx[r].op = "opname" /\ pc[r] = "commit" =>
            \A p \in Requests \ {r} :
              tx'[p].op = "opname" /\ pc'[p] = "commit" => tx'[p].id # tx[r].id
      BY <2>1 DEF IInv, RequestInv, RowsHeld
    <3>3. Posted(tx[r].ref)' => Posted(tx[r].ref)
      BY <2>1 DEF Posted
    <3>4. Shapes /\ RequestInv(r) /\ pc'[r] = pc[r] /\ tx'[r] = tx[r] /\ locks'[r] = locks[r]
      BY <2>1 DEF IInv
    <3> QED BY <2>1, <3>1, <3>2, <3>3, <3>4, RequestKept
  <2> QED BY <2>2, <2>3, <2>4, <2>5 DEF IInv
<1>2. CASE Next
  <2>1. PICK r \in Requests : Arrive(r) \/ Statement(r) \/ Fail(r)
    BY <1>2 DEF Next
  <2>2. CASE Arrive(r)
    BY <2>2, CreateMovementStep, BeginConfirmStep, BeginCancelStep, BeginDocumentStep,
       BeginOpnameStep, BeginCompleteStep, BeginCancelOpnameStep DEF Arrive
  <2>3. CASE Statement(r)
    BY <2>3, ConfirmLockMovementStep, LockKeyStep, CheckStockStep, CancelMovementStep,
       LockDocumentStep, InsertMovementsStep, CreateOpnameStep, CompleteLockOpnameStep,
       CancelOpnameStep, RefreshSnapshotStep, RefreshLockStep, CommitStep DEF Statement
  <2>4. CASE Fail(r)
    BY <2>4, RollbackStep DEF Fail
  <2> QED BY <2>1, <2>2, <2>3, <2>4
<1> QED BY <1>1, <1>2

(* The inductive invariant holds in every reachable state: the tables keep *)
(* their types, no two requests hold the same lock, and each request knows *)
(* of the rows, references and keys it has locked what its handler assumes *)
(* between its statements.                                                 *)
THEOREM Invariance == Spec => []IInv
<1>1. Init => IInv
  BY InitInv
<1>2. IInv /\ [Next]_vars => IInv'
  BY NextInv
<1> QED BY <1>1, <1>2, PTL DEF Spec

(* The confirmed movements of a key never sum up to less than zero, for    *)
(* any number of requests, keys, movements and documents: getStockOnHand   *)
(* under the advisory locks of lockStockKeys guards every outgoing path.   *)
THEOREM StockNeverNegative == Spec => []NonNegativeStock
<1>1. IInv => NonNegativeStock
  <2> SUFFICES ASSUME IInv PROVE NonNegativeStock
    OBVIOUS
  <2>1. Shapes /\ TablesInv
    BY DEF IInv
  <2>2. \A m \in Movements :
          /\ movement[m].status \in {"none", "draft", "confirmed", "cancelled"}
          /\ movement[m].direction \in {"in", "out", "transfer"}
          /\ \A i \in DOMAIN movement[m].items : movement[m].items[i] \in Item
          /\ movement[m].source \in References \union {None}
    <3> TAKE m \in Movements
    <3>1. movement[m] \in MovementRow
      BY <2>1 DEF Shapes
    <3>2. \A i \in DOMAIN movement[m].items : movement[m].items[i] \in Item
      BY <3>1, RowShape
    <3> QED BY <3>1, <3>2 DEF MovementRow
  <2>3. \A o \in Opnames :
          /\ opname[o].status \in {"none", "counting", "completed", "cancelled"}
          /\ opname[o].status = "completed" =>
               opname[o].actual \in [DOMAIN opname[o].system -> 0 .. MaxCount]
    BY <2>1 DEF Shapes, IsOpname, OpnameOf
  <2>4. TypeOK
    BY <2>1, <2>2, <2>3 DEF TypeOK, Shapes
  <2> QED BY <2>1, <2>4 DEF NonNegativeStock, TablesInv
<1> QED BY <1>1, Invariance, PTL

(* The movements that complete an opname add up, for each counted variant, *)
(* to the difference between the counted and the system quantity.          *)
THEOREM OpnamesAdjusted == Spec => []OpnameAdjustsDifference
<1>1. IInv => OpnameAdjustsDifference
  BY DEF IInv, TablesInv
<1> QED BY <1>1, Invariance, PTL

(* The query of stock_summary and getStockOnHand return the same quantity  *)
(* for every key, in every reachable state.                                *)
THEOREM ViewAgrees == Spec => []ViewAgreesWithHelper
<1>1. IInv => ViewAgreesWithHelper
  BY ViewIsStock DEF IInv, Shapes, ViewAgreesWithHelper
<1> QED BY <1>1, Invariance, PTL

(* What a single step leaves of the rows whose status is final.            *)
LEMMA FinalRows ==
    ASSUME IInv, [Next]_vars
    PROVE  /\ \A m \in Movements : movement[m].status \in Final => movement'[m] = movement[m]
           /\ \A o \in Opnames : opname[o].status \in Final => opname'[o] = opname[o]
<1>1. CASE movement' = movement /\ opname' = opname
  BY <1>1
<1>2. ASSUME NEW r \in Requests, CreateMovement(r)
      PROVE  opname' = opname
             /\ \A m \in Movements : movement[m].status \in Final => movement'[m] = movement[m]
  <2>1. PICK row : /\ movement' = [movement EXCEPT ![FreshMovement] = row]
                   /\ opname' = opname /\ FreshMovements # {}
    BY <1>2 DEF CreateMovement
  <2>2. movement[FreshMovement].status \notin Final
    BY <2>1, FreshIds DEF Final
  <2> QED BY <2>1, <2>2 DEF IInv, Shapes
<1>3. ASSUME NEW r \in Requests, CancelMovement(r)
      PROVE  opname' = opname
             /\ \A m \in Movements : movement[m].status \in Final => movement'[m] = movement[m]
  <2> DEFINE id == tx[r].id
  <2>1. opname' = opname
        /\ movement' = IF movement[id].status \in {"confirmed", "cancelled"} THEN movement
                       ELSE [movement EXCEPT ![id].status = "cancelled"]
    BY <1>3 DEF CancelMovement
  <2>2. movement \in [Movements -> MovementRow] /\ id \in Movements
    <3>1. pc[r] = "cancel"
      BY <1>3 DEF CancelMovement
    <3> QED BY <3>1, Middle DEF OpOfStep, Arguments, Shapes
  <2>3. movement[id].status \in Final => movement[id].status \in {"confirmed", "cancelled"}
    BY <2>2 DEF MovementRow, Final
  <2> HIDE DEF id
  <2> QED BY <2>1, <2>2, <2>3
<1>4. ASSUME NEW r \in Requests, CancelOpname(r)
      PROVE  movement' = movement
             /\ \A o \in Opnames : opname[o].status \in Final => opname'[o] = opname[o]
  <2> DEFINE id == tx[r].id
  <2>1. movement' = movement
        /\ opname' = IF opname[id].status = "counting"
                     THEN [opname EXCEPT ![id].status = "cancelled"] ELSE opname
    BY <1>4 DEF CancelOpname
  <2>2. opname = [o \in Opnames |-> opname[o]]
    BY DEF IInv, Shapes
  <2>3. opname[id].status = "counting" => opname[id].status \notin Final
    BY DEF Final
  <2> HIDE DEF id
  <2> QED BY <2>1, <2>2, <2>3
<1>5. ASSUME NEW r \in Requests, Commit(r)
      PROVE  /\ \A m \in Movements : movement[m].status \in Final => movement'[m] = movement[m]
             /\ \A o \in Opnames : opname[o].status \in Final => opname'[o] = opname[o]
  <2>1. \A m \in Movements : movement[m].status \in Final => movement'[m] = movement[m]
    <3>1. CASE ~ Posts(r)
      BY <1>5, <3>1, NothingPosted
    <3>2. CASE Posts(r)
      <4>1. PICK m \in Movements, row \in MovementRow :
              movement' = [movement EXCEPT ![m] = row] /\ movement[m].status \notin Final
        BY <1>5, <3>2, CommittedRow
      <4>2. movement \in [Movements -> MovementRow]
        BY DEF IInv, Shapes
      <4> QED BY <4>1, <4>2
    <3> QED BY <3>1, <3>2
  <2>2. \A o \in Opnames : opname[o].status \in Final => opname'[o] = opname[o]
    <3>1. tx[r].op \in {"confirm", "document", "complete", "opname"}
      <4>1. pc[r] = "commit"
        BY <1>5 DEF Commit
      <4> QED BY <4>1, Middle DEF OpOfStep
    <3>2. /\ tx[r].op \in {"confirm", "document"} => opname' = opname
          /\ tx[r].op \in {"complete", "opname"} =>
                \A o \in Opnames : o # tx[r].id => opname'[o] = opname[o]
          /\ tx[r].op = "complete" => opname[tx[r].id].status = "counting"
          /\ tx[r].op = "opname" => opname[tx[r].id].status = "none"
      BY <1>5, CommittedOpname
    <3>3. tx[r].op \in {"complete", "opname"} => opname[tx[r].id].status \notin Final
      BY <3>2 DEF Final
    <3> QED BY <3>1, <3>2, <3>3
  <2> QED BY <2>1, <2>2
<1>6. CASE UNCHANGED vars
  BY <1>1, <1>6 DEF vars
<1>7. CASE Next
  <2>1. PICK r \in Requests : Arrive(r) \/ Statement(r) \/ Fail(r)
    BY <1>7 DEF Next
  <2>2. CASE Arrive(r) /\ ~ CreateMovement(r)
    <3>1. movement' = movement /\ opname' = opname
      BY <2>2 DEF Arrive, BeginConfirm, BeginCancel, BeginDocument, BeginOpname,
                  BeginComplete, BeginCancelOpname, Begin
    <3> QED BY <1>1, <3>1
  <2>3. CASE Fail(r)
    BY <1>1, <2>3 DEF Fail, Rollback
  <2>4. CASE ConfirmLockMovement(r) \/ LockKey(r) \/ CheckStock(r)
    <3>1. movement' = movement /\ opname' = opname
      BY <2>4 DEF ConfirmLockMovement, LockKey, CheckStock, Rollback
    <3> QED BY <1>1, <3>1
  <2>5. CASE LockDocument(r) \/ InsertMovements(r) \/ CompleteLockOpname(r)
    <3>1. movement' = movement /\ opname' = opname
      BY <2>5 DEF LockDocument, InsertMovements, CompleteLockOpname, Rollback
    <3> QED BY <1>1, <3>1
  <2>6. CASE CreateOpname(r) \/ RefreshSnapshot(r) \/ RefreshLock(r)
    <3>1. movement' = movement /\ opname' = opname
      BY <2>6 DEF CreateOpname, RefreshSnapshot, RefreshLock
    <3> QED BY <1>1, <3>1
  <2>7. CASE CreateMovement(r)
    BY <1>2, <2>7
  <2>8. CASE CancelMovement(r)
    BY <1>3, <2>8
  <2>9. CASE CancelOpname(r)
    BY <1>4, <2>9
  <2>10. CASE Commit(r)
    BY <1>5, <2>10
  <2> QED BY <2>1, <2>2, <2>3, <2>4, <2>5, <2>6, <2>7, <2>8, <2>9, <2>10 DEF Statement
<1> QED BY <1>6, <1>7

(* A confirmed or cancelled movement and a completed or cancelled opname   *)
(* are never written again, and no two movements have the same source: a   *)
(* repeated or raced confirmation posts a document once.                   *)
THEOREM FinalRowsStay == Spec => FinalStaysFinal
<1>1. IInv /\ IInv' /\ [Next]_vars =>
        [/\ \A m \in Movements : movement[m].status \in Final => movement'[m] = movement[m]
         /\ \A o \in Opnames : opname[o].status \in Final => opname'[o] = opname[o]
         /\ SourceUnique']_vars
  <2> SUFFICES ASSUME IInv, IInv', [Next]_vars
               PROVE  /\ \A m \in Movements :
                           movement[m].status \in Final => movement'[m] = movement[m]
                      /\ \A o \in Opnames : opname[o].status \in Final => opname'[o] = opname[o]
                      /\ SourceUnique'
    OBVIOUS
  <2>1. SourceUnique'
    BY DEF IInv, TablesInv
  <2> QED BY <2>1, FinalRows
<1> QED BY <1>1, Invariance, PTL DEF Spec, FinalStaysFinal

================================================================================
