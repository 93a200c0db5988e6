------------------------------ MODULE SalesProofs ------------------------------
(***************************************************************************)
(* Proofs about Sales.                                                     *)
(***************************************************************************)
EXTENDS Sales, Sums, SequenceTheorems

-----------------------------------------------------------------------------
(* The sums of the specification as sums of functions.                     *)
LinesOf(lines, i) ==
    [k \in DOMAIN lines |-> IF lines[k].item = i THEN lines[k].quantity ELSE 0]

LEMMA QuantitySum ==
    ASSUME NEW lines, NEW i
    PROVE  QuantityIn(lines, i) = SumOver(LinesOf(lines, i), DOMAIN lines)
<1> DEFINE S == DOMAIN lines
           F == LinesOf(lines, i)
           e(k) == IF lines[k].item = i THEN lines[k].quantity ELSE 0
           P(g) == g = [s \in SUBSET S |-> IF s = {} THEN 0 ELSE e(Choice(s)) + g[s \ {Choice(s)}]]
<1>1. QuantityIn(lines, i) = (CHOOSE g : P(g))[S]
  BY Zenon DEF QuantityIn, MapThenSumSet, MapThenFoldSet, Choice
<1>2. ASSUME NEW s \in SUBSET S, s # {} PROVE F[Choice(s)] = e(Choice(s))
  BY <1>2, ChoiceIn DEF LinesOf
<1> HIDE DEF S, F, e
<1>3. \A g : P(g) <=> IsSum(g, F, S)
  BY <1>2 DEF IsSum, Partial
<1> QED BY Zenon, <1>1, <1>3, SumIsChosen DEF F, S

VariantsOf(lines, v) ==
    [i \in Items |-> IF VariantOf[i] = v THEN QuantityIn(lines, i) ELSE 0]

LEMMA VariantSum ==
    ASSUME NEW lines, NEW v
    PROVE  VariantIn(lines, v) = SumOver(VariantsOf(lines, v), Items)
<1> DEFINE F == VariantsOf(lines, v)
           e(k) == IF VariantOf[k] = v THEN QuantityIn(lines, k) ELSE 0
           P(g) == g = [s \in SUBSET Items |-> IF s = {} THEN 0 ELSE e(Choice(s)) + g[s \ {Choice(s)}]]
<1>1. VariantIn(lines, v) = (CHOOSE g : P(g))[Items]
  BY Zenon DEF VariantIn, MapThenSumSet, MapThenFoldSet, Choice
<1>2. ASSUME NEW s \in SUBSET Items, s # {} PROVE F[Choice(s)] = e(Choice(s))
  BY <1>2, ChoiceIn DEF VariantsOf
<1> HIDE DEF F, e
<1>3. \A g : P(g) <=> IsSum(g, F, Items)
  BY <1>2 DEF IsSum, Partial
<1> QED BY Zenon, <1>1, <1>3, SumIsChosen DEF F

PiecesOf(lines) == [k \in DOMAIN lines |-> lines[k].quantity]

LEMMA PiecesSum ==
    ASSUME NEW lines
    PROVE  Pieces(lines) = SumOver(PiecesOf(lines), DOMAIN lines)
<1> DEFINE S == DOMAIN lines
           F == PiecesOf(lines)
           e(k) == lines[k].quantity
           P(g) == g = [s \in SUBSET S |-> IF s = {} THEN 0 ELSE e(Choice(s)) + g[s \ {Choice(s)}]]
<1>1. Pieces(lines) = (CHOOSE g : P(g))[S]
  BY Zenon DEF Pieces, MapThenSumSet, MapThenFoldSet, Choice
<1>2. ASSUME NEW s \in SUBSET S, s # {} PROVE F[Choice(s)] = e(Choice(s))
  BY <1>2, ChoiceIn DEF PiecesOf
<1> HIDE DEF S, F, e
<1>3. \A g : P(g) <=> IsSum(g, F, S)
  BY <1>2 DEF IsSum, Partial
<1> QED BY Zenon, <1>1, <1>3, SumIsChosen DEF F, S

(* Sums over deliveries, whichever rows of delivery_orders there are: of   *)
(* an item, of a variant, of all pieces.                                   *)
Quantities(rows, i) == [d \in DOMAIN rows |-> QuantityIn(rows[d].lines, i)]
Departures(rows, v) == [d \in DOMAIN rows |-> VariantIn(rows[d].lines, v)]
AllPieces(rows) == [d \in DOMAIN rows |-> Pieces(rows[d].lines)]

LEMMA ListedSum ==
    ASSUME NEW rows, NEW i, NEW S \in SUBSET DOMAIN rows
    PROVE  ListedIn(rows, S, i) = SumOver(Quantities(rows, i), S)
<1> DEFINE F == Quantities(rows, i)
           e(k) == QuantityIn(rows[k].lines, i)
           P(g) == g = [s \in SUBSET S |-> IF s = {} THEN 0 ELSE e(Choice(s)) + g[s \ {Choice(s)}]]
<1>1. ListedIn(rows, S, i) = (CHOOSE g : P(g))[S]
  BY Zenon DEF ListedIn, MapThenSumSet, MapThenFoldSet, Choice
<1>2. ASSUME NEW s \in SUBSET S, s # {} PROVE F[Choice(s)] = e(Choice(s))
  BY <1>2, ChoiceIn DEF Quantities
<1> HIDE DEF F, e
<1>3. \A g : P(g) <=> IsSum(g, F, S)
  BY <1>2 DEF IsSum, Partial
<1> QED BY Zenon, <1>1, <1>3, SumIsChosen DEF F

LEMMA LeftSum ==
    ASSUME NEW rows, NEW v, NEW S \in SUBSET DOMAIN rows
    PROVE  LeftIn(rows, S, v) = SumOver(Departures(rows, v), S)
<1> DEFINE F == Departures(rows, v)
           e(k) == VariantIn(rows[k].lines, v)
           P(g) == g = [s \in SUBSET S |-> IF s = {} THEN 0 ELSE e(Choice(s)) + g[s \ {Choice(s)}]]
<1>1. LeftIn(rows, S, v) = (CHOOSE g : P(g))[S]
  BY Zenon DEF LeftIn, MapThenSumSet, MapThenFoldSet, Choice
<1>2. ASSUME NEW s \in SUBSET S, s # {} PROVE F[Choice(s)] = e(Choice(s))
  BY <1>2, ChoiceIn DEF Departures
<1> HIDE DEF F, e
<1>3. \A g : P(g) <=> IsSum(g, F, S)
  BY <1>2 DEF IsSum, Partial
<1> QED BY Zenon, <1>1, <1>3, SumIsChosen DEF F

LEMMA PiecesInSum ==
    ASSUME NEW rows, NEW S \in SUBSET DOMAIN rows
    PROVE  PiecesIn(rows, S) = SumOver(AllPieces(rows), S)
<1> DEFINE F == AllPieces(rows)
           e(k) == Pieces(rows[k].lines)
           P(g) == g = [s \in SUBSET S |-> IF s = {} THEN 0 ELSE e(Choice(s)) + g[s \ {Choice(s)}]]
<1>1. PiecesIn(rows, S) = (CHOOSE g : P(g))[S]
  BY Zenon DEF PiecesIn, MapThenSumSet, MapThenFoldSet, Choice
<1>2. ASSUME NEW s \in SUBSET S, s # {} PROVE F[Choice(s)] = e(Choice(s))
  BY <1>2, ChoiceIn DEF AllPieces
<1> HIDE DEF F, e
<1>3. \A g : P(g) <=> IsSum(g, F, S)
  BY <1>2 DEF IsSum, Partial
<1> QED BY Zenon, <1>1, <1>3, SumIsChosen DEF F

(* Those of the specification.                                             *)
LEMMA SumsOfRows ==
    /\ \A S, i : QuantityOf(S, i) = ListedIn(delivery, S, i)
    /\ \A S : AmountOf(S) = Price * PiecesIn(delivery, S)
    /\ \A S, i : QuantityOf(S, i)' = ListedIn(delivery', S, i)
    /\ \A S : AmountOf(S)' = Price * PiecesIn(delivery', S)
BY Zenon DEF QuantityOf, AmountOf

-----------------------------------------------------------------------------
(* The sums are natural numbers.                                           *)
LEMMA IdsFinite == IsFiniteSet(Deliveries) /\ Deliveries \subseteq Nat /\ Invoices = Deliveries
<1>1. MaxRequests \in Nat
  BY TransactionsConstants
<1>2. IsFiniteSet(1 .. MaxRequests) /\ 1 .. MaxRequests \subseteq Nat
  BY <1>1, FS_Interval
<1> QED BY <1>2 DEF Deliveries, Invoices

LEMMA LinesFinite ==
    ASSUME NEW lines \in Seq(Line)
    PROVE  /\ IsFiniteSet(DOMAIN lines) /\ DOMAIN lines \subseteq Nat
           /\ \A k \in DOMAIN lines : lines[k].quantity \in Nat
<1> DEFINE n == Len(lines)
<1>1. DOMAIN lines = 1 .. n /\ n \in Nat /\ \A k \in DOMAIN lines : lines[k] \in Line
  OBVIOUS
<1> HIDE DEF n
<1>2. IsFiniteSet(1 .. n) /\ 1 .. n \subseteq Nat
  BY <1>1, FS_Interval
<1>3. \A k \in DOMAIN lines : lines[k].quantity \in Nat
  BY <1>1 DEF Line
<1> QED BY <1>1, <1>2, <1>3

LEMMA LinesNat ==
    ASSUME NEW lines \in Seq(Line), NEW i
    PROVE  QuantityIn(lines, i) \in Nat /\ Pieces(lines) \in Nat
<1> DEFINE S == DOMAIN lines
           F == LinesOf(lines, i)
           G == PiecesOf(lines)
<1>1. IsFiniteSet(S)
  BY LinesFinite
<1>2. \A k \in S : F[k] \in Nat /\ G[k] \in Nat
  BY LinesFinite DEF LinesOf, PiecesOf
<1>3. QuantityIn(lines, i) = SumOver(F, S) /\ Pieces(lines) = SumOver(G, S)
  BY QuantitySum, PiecesSum
<1> HIDE DEF S, F, G
<1> QED BY <1>1, <1>2, <1>3, SumNat

LEMMA VariantNat ==
    ASSUME NEW lines \in Seq(Line), NEW v
    PROVE  VariantIn(lines, v) \in Nat
<1> DEFINE F == VariantsOf(lines, v)
<1>1. IsFiniteSet(Items)
  BY SalesConstants
<1>2. \A i \in Items : F[i] \in Nat
  BY LinesNat DEF VariantsOf
<1>3. VariantIn(lines, v) = SumOver(F, Items)
  BY VariantSum
<1> HIDE DEF F
<1> QED BY <1>1, <1>2, <1>3, SumNat

LEMMA RowLines ==
    ASSUME NEW row \in DeliveryRow
    PROVE  row.lines \in Seq(Line) /\ row.status \in {"none", "draft", "confirmed", "cancelled"}
           /\ (row.status # "none" => row.order \in Orders)
<1>1. CASE row = NoDelivery
  <2>1. <<>> \in Seq(Line)
    BY EmptySeq
  <2> QED BY <1>1, <2>1 DEF NoDelivery
<1>2. CASE row \in [status : {"draft", "confirmed", "cancelled"}, order : Orders,
                    lines : Seq(Line)]
  BY <1>2
<1> QED BY <1>1, <1>2 DEF DeliveryRow

LEMMA RowSums ==
    ASSUME NEW rows \in [Deliveries -> DeliveryRow]
    PROVE  /\ DOMAIN rows = Deliveries
           /\ \A d \in Deliveries : \A x :
                /\ Quantities(rows, x)[d] = QuantityIn(rows[d].lines, x)
                /\ Departures(rows, x)[d] = VariantIn(rows[d].lines, x)
                /\ AllPieces(rows)[d] = Pieces(rows[d].lines)
                /\ QuantityIn(rows[d].lines, x) \in Nat /\ VariantIn(rows[d].lines, x) \in Nat
                /\ Pieces(rows[d].lines) \in Nat
<1>1. DOMAIN rows = Deliveries
  OBVIOUS
<1>2. ASSUME NEW d \in Deliveries, NEW x
      PROVE  /\ QuantityIn(rows[d].lines, x) \in Nat /\ VariantIn(rows[d].lines, x) \in Nat
             /\ Pieces(rows[d].lines) \in Nat
  <2>1. rows[d].lines \in Seq(Line)
    BY RowLines
  <2> QED BY <2>1, LinesNat, VariantNat
<1> QED BY <1>1, <1>2 DEF Quantities, Departures, AllPieces

LEMMA SetNat ==
    ASSUME NEW rows \in [Deliveries -> DeliveryRow], NEW S \in SUBSET Deliveries, NEW x
    PROVE  ListedIn(rows, S, x) \in Nat /\ LeftIn(rows, S, x) \in Nat /\ PiecesIn(rows, S) \in Nat
<1> DEFINE F == Quantities(rows, x)  G == Departures(rows, x)  H == AllPieces(rows)
<1>1. IsFiniteSet(S)
  BY IdsFinite, FS_Subset
<1>2. \A d \in S : F[d] \in Nat /\ G[d] \in Nat /\ H[d] \in Nat
  BY RowSums
<1>3. /\ ListedIn(rows, S, x) = SumOver(F, S) /\ LeftIn(rows, S, x) = SumOver(G, S)
      /\ PiecesIn(rows, S) = SumOver(H, S)
  BY RowSums, ListedSum, LeftSum, PiecesInSum
<1> HIDE DEF F, G, H
<1> QED BY <1>1, <1>2, <1>3, SumNat

(* Rows may change, as long as the lines of the deliveries do not.         *)
LEMMA SetSame ==
    ASSUME NEW rows \in [Deliveries -> DeliveryRow], NEW next \in [Deliveries -> DeliveryRow],
           NEW S \in SUBSET Deliveries, NEW x,
           \A d \in S : next[d].lines = rows[d].lines
    PROVE  /\ ListedIn(next, S, x) = ListedIn(rows, S, x)
           /\ LeftIn(next, S, x) = LeftIn(rows, S, x)
           /\ PiecesIn(next, S) = PiecesIn(rows, S)
<1> DEFINE F == Quantities(rows, x)  G == Departures(rows, x)  H == AllPieces(rows)
           F2 == Quantities(next, x)  G2 == Departures(next, x)  H2 == AllPieces(next)
<1>1. IsFiniteSet(S)
  BY IdsFinite, FS_Subset
<1>2. \A d \in S : F2[d] = F[d] /\ G2[d] = G[d] /\ H2[d] = H[d]
  BY RowSums
<1>3. /\ ListedIn(rows, S, x) = SumOver(F, S) /\ LeftIn(rows, S, x) = SumOver(G, S)
      /\ PiecesIn(rows, S) = SumOver(H, S)
      /\ ListedIn(next, S, x) = SumOver(F2, S) /\ LeftIn(next, S, x) = SumOver(G2, S)
      /\ PiecesIn(next, S) = SumOver(H2, S)
  BY RowSums, ListedSum, LeftSum, PiecesInSum
<1> HIDE DEF F, G, H, F2, G2, H2
<1> QED BY <1>1, <1>2, <1>3, SumSame

(* More deliveries list no less, and one more leaves with its own pieces.  *)
LEMMA SetGrows ==
    ASSUME NEW rows \in [Deliveries -> DeliveryRow], NEW S \in SUBSET Deliveries,
           NEW T \in SUBSET S, NEW x
    PROVE  ListedIn(rows, T, x) <= ListedIn(rows, S, x)
<1> DEFINE F == Quantities(rows, x)  U == S \ T
<1>1. IsFiniteSet(S) /\ IsFiniteSet(T) /\ IsFiniteSet(U)
  BY IdsFinite, FS_Subset
<1>2. \A d \in S : F[d] \in Nat
  BY RowSums
<1>3. /\ ListedIn(rows, S, x) = SumOver(F, S) /\ ListedIn(rows, T, x) = SumOver(F, T)
  BY RowSums, ListedSum
<1>4. T \union U = S /\ T \intersect U = {}
  OBVIOUS
<1>5. (\A d \in T : F[d] \in Nat) /\ (\A d \in U : F[d] \in Nat)
      /\ (\A d \in T \union U : F[d] \in Int)
  BY <1>2
<1> HIDE DEF F, U
<1>6. SumOver(F, S) = SumOver(F, T) + SumOver(F, U)
  <2>1. SumOver(F, T \union U) = SumOver(F, T) + SumOver(F, U)
    BY <1>1, <1>4, <1>5, SumUnion
  <2> QED BY <1>4, <2>1
<1>7. SumOver(F, T) \in Nat /\ SumOver(F, U) \in Nat
  BY <1>1, <1>5, SumNat
<1> QED BY <1>3, <1>6, <1>7

LEMMA OneMoreLeaves ==
    ASSUME NEW rows \in [Deliveries -> DeliveryRow], NEW S \in SUBSET Deliveries,
           NEW d \in Deliveries, d \notin S, NEW v
    PROVE  LeftIn(rows, S \union {d}, v) = VariantIn(rows[d].lines, v) + LeftIn(rows, S, v)
<1> DEFINE G == Departures(rows, v)  T == S \union {d}
<1>1. IsFiniteSet(S) /\ T \in SUBSET Deliveries
  BY IdsFinite, FS_Subset
<1>2. \A e \in T : G[e] \in Int
  <2>1. \A e \in Deliveries : G[e] \in Nat
    BY RowSums
  <2> QED BY <1>1, <2>1
<1>3. LeftIn(rows, S, v) = SumOver(G, S) /\ LeftIn(rows, T, v) = SumOver(G, T)
  <2> HIDE DEF T
  <2> QED BY <1>1, RowSums, LeftSum
<1>4. G[d] = VariantIn(rows[d].lines, v)
  BY RowSums
<1> HIDE DEF G
<1>5. SumOver(G, S \union {d}) = G[d] + SumOver(G, S)
  BY <1>1, <1>2, SumAdd DEF T
<1> QED BY <1>3, <1>4, <1>5 DEF T

(* What is reserved is a number for every variant.                         *)
LEMMA ReservedLevels ==
    ASSUME NEW status, NEW done \in [Items -> Nat]
    PROVE  Reserved(status, done) \in Levels
<1> DEFINE cond(v, i) == /\ VariantOf[i] = v
                         /\ status[OrderOf[i]] \in {"confirmed", "partial"}
                         /\ Ordered[i] > done[i]
           e(v, i) == IF cond(v, i) THEN Ordered[i] - done[i] ELSE 0
           sum(v) == MapThenSumSet(LAMBDA i : e(v, i), Items)
<1>1. Reserved(status, done) = [v \in Variants |-> sum(v)]
  BY DEF Reserved
<1>2. ASSUME NEW v \in Variants PROVE sum(v) \in Int
  <2> DEFINE F == [i \in Items |-> e(v, i)]
             P(g) == g = [s \in SUBSET Items |-> IF s = {} THEN 0
                            ELSE e(v, Choice(s)) + g[s \ {Choice(s)}]]
  <2>1. sum(v) = (CHOOSE g : P(g))[Items]
    BY Zenon DEF MapThenSumSet, MapThenFoldSet, Choice
  <2>2. ASSUME NEW s \in SUBSET Items, s # {} PROVE F[Choice(s)] = e(v, Choice(s))
    BY <2>2, ChoiceIn
  <2>3. \A i \in Items : F[i] \in Int
    BY SalesConstants
  <2> HIDE DEF F, e, sum
  <2>4. \A g : P(g) <=> IsSum(g, F, Items)
    BY <2>2 DEF IsSum, Partial
  <2>5. sum(v) = SumOver(F, Items)
    BY Zenon, <2>1, <2>4, SumIsChosen
  <2> QED BY <2>3, <2>5, SumType, SalesConstants
<1> HIDE DEF sum
<1> QED BY <1>1, <1>2 DEF Levels

LEMMA MinIn ==
    ASSUME NEW S \in SUBSET Nat, S # {}
    PROVE  Min(S) \in S
<1>1. \E n \in S : \A m \in S : n <= m
  BY LeastNatural
<1> QED BY <1>1 DEF Min

-----------------------------------------------------------------------------
(* The parts of the invariant: the rows of the tables, and the requests.   *)
RowTypes ==
    /\ order \in [Orders -> {"draft", "confirmed", "partial", "delivered", "invoiced",
                             "cancelled"}]
    /\ delivered \in [Items -> Nat]
    /\ demand \in [Items -> {"none", "open", "cancelled"}]
    /\ delivery \in [Deliveries -> DeliveryRow]
    /\ invoice \in [Invoices -> InvoiceRow]
    /\ receivable \in [Invoices -> ReceivableRow]
    /\ \A v \in Invoices : invoice[v] = NoInvoice <=> receivable[v] = NoReceivable
    /\ allocated \in [Invoices -> Nat]
    /\ arrived \in [Variants -> Nat] /\ stock \in [Variants -> Nat]
    /\ summary \in Levels /\ available \in Levels

Left == UNION {Confirmed(o) : o \in Orders}
DeliveredRight == \A i \in Items : delivered[i] = QuantityOf(Confirmed(OrderOf[i]), i)
StockRight ==
    \A v \in Variants : stock[v] + LeftIn(delivery, Left, v) = OnHand[v] + arrived[v]

RowsRight ==
    /\ RowTypes /\ DeliveredRight /\ StockRight
    /\ InvoicesCoverDeliveries /\ ReceiptsAddUp
    /\ InvoicedAreConfirmed /\ AllocatedToIssued

RequestsRight ==
    /\ IdleHoldsNothing /\ LocksExclusive
    /\ pc = [r \in Requests |-> pc[r]] /\ needs = [r \in Requests |-> needs[r]]
    /\ tx = [r \in Requests |-> tx[r]] /\ locks = [r \in Requests |-> locks[r]]

LEMMA Parts == IInv <=> RowsRight /\ RequestsRight /\ \A r \in Requests : Knows(r)
<1>1. TypeOK <=> IdleHoldsNothing /\ RowTypes
  BY DEF TypeOK, RowTypes, Levels
<1>2. DeliveriesAddUp <=> TypeOK /\ DeliveredRight /\ StockRight
  BY DEF DeliveriesAddUp, DeliveredRight, StockRight, Left
<1> QED BY <1>1, <1>2 DEF IInv, RowsRight, RequestsRight

LEMMA NextParts ==
    ASSUME RowsRight', RequestsRight', \A r \in Requests : Knows(r)'
    PROVE  IInv'
<1>1. TypeOK'
  BY DEF TypeOK, RowTypes, Levels, RowsRight, RequestsRight
<1>2. DeliveriesAddUp'
  BY <1>1 DEF DeliveriesAddUp, DeliveredRight, StockRight, Left, RowsRight
<1> QED BY <1>1, <1>2 DEF IInv, RowsRight, RequestsRight

(* The rows of a step that leaves the tables alone.                        *)
LEMMA SameTables ==
    ASSUME tables' = tables
    PROVE  /\ order' = order /\ delivered' = delivered /\ demand' = demand
           /\ delivery' = delivery /\ invoice' = invoice /\ receivable' = receivable
           /\ allocated' = allocated /\ arrived' = arrived /\ stock' = stock
           /\ summary' = summary /\ available' = available
BY DEF tables, papers, goods

LEMMA SameSets ==
    /\ delivery' = delivery => \A o : Confirmed(o)' = Confirmed(o)
    /\ invoice' = invoice => ActiveInvoices' = ActiveInvoices /\ Invoiced' = Invoiced
<1>1. delivery' = delivery => \A o : Confirmed(o)' = Confirmed(o)
  BY DEF Confirmed
<1>2. invoice' = invoice => ActiveInvoices' = ActiveInvoices
  BY DEF ActiveInvoices
<1>3. invoice' = invoice => Invoiced' = Invoiced
  BY <1>2 DEF Invoiced
<1> QED BY <1>1, <1>2, <1>3

LEMMA RowsUnchanged == ASSUME RowsRight, tables' = tables PROVE RowsRight'
<1>1. /\ order' = order /\ delivered' = delivered /\ demand' = demand
      /\ delivery' = delivery /\ invoice' = invoice /\ receivable' = receivable
      /\ allocated' = allocated /\ arrived' = arrived /\ stock' = stock
      /\ summary' = summary /\ available' = available
  BY SameTables
<1>2. /\ \A o : Confirmed(o)' = Confirmed(o)
      /\ ActiveInvoices' = ActiveInvoices /\ Invoiced' = Invoiced
  BY <1>1, SameSets
<1>3. /\ \A S, i : QuantityOf(S, i)' = QuantityOf(S, i)
      /\ \A S : AmountOf(S)' = AmountOf(S)
  BY <1>1, SumsOfRows
<1>4. RowTypes' /\ DeliveredRight'
  BY <1>1, <1>2, <1>3 DEF RowsRight, RowTypes, DeliveredRight
<1>5. StockRight'
  <2>1. Left' = Left
    BY <1>2 DEF Left
  <2> QED BY <1>1, <2>1 DEF RowsRight, StockRight
<1>6. InvoicesCoverDeliveries'
  <2>1. \A o \in Orders : FullyInvoiced(o, Invoiced)' <=> FullyInvoiced(o, Invoiced)
    BY <1>1, <1>2, <1>3 DEF FullyInvoiced
  <2> QED BY <1>1, <1>2, <2>1 DEF RowsRight, InvoicesCoverDeliveries
<1>7. ReceiptsAddUp' /\ InvoicedAreConfirmed' /\ AllocatedToIssued'
  BY <1>1, <1>2, <1>3 DEF RowsRight, ReceiptsAddUp, InvoicedAreConfirmed, AllocatedToIssued
<1> QED BY <1>4, <1>5, <1>6, <1>7 DEF RowsRight

-----------------------------------------------------------------------------
(* What a step leaves to those that hold the given locks.                  *)
Respects(held) ==
    /\ \A o \in Orders : OrderLock(o) \in held =>
         order'[o] = order[o] /\ Confirmed(o)' = Confirmed(o)
    /\ \A d \in Deliveries : delivery[d].status # "none" =>
         /\ delivery'[d].lines = delivery[d].lines
         /\ delivery'[d].order = delivery[d].order /\ delivery'[d].status # "none"
         /\ delivery[d].status = "confirmed" => delivery'[d].status = "confirmed"
         /\ DeliveryLock(d) \in held =>
              /\ delivery'[d].status = delivery[d].status
              /\ d \in Invoiced' => d \in Invoiced
    /\ \A v \in Variants : StockLock(v) \in held => stock'[v] >= stock[v]
    /\ ActiveInvoices \subseteq ActiveInvoices'

SameRequest(q) ==
    pc'[q] = pc[q] /\ needs'[q] = needs[q] /\ tx'[q] = tx[q] /\ locks'[q] = locks[q]

LEMMA StatusKept ==
    ASSUME NEW q, StatusKnows(q), SameRequest(q), Respects(locks[q])
    PROVE  StatusKnows(q)'
<1>1. CASE pc[q] = "order"
  BY <1>1 DEF StatusKnows, SameRequest
<1>2. CASE pc[q] # "order"
  <2>1. /\ pc[q] \in {"refresh", "commitStatus"} /\ tx[q].order \in Orders
        /\ tx[q] \in [op : {"confirmed", "cancelled"}, order : Orders, seen : Levels]
        /\ OrderLock(tx[q].order) \in locks[q] /\ StatusAllows(tx[q].order, tx[q].op)
    BY <1>2 DEF StatusKnows
  <2>2. order'[tx[q].order] = order[tx[q].order]
    BY <2>1 DEF Respects
  <2>3. StatusAllows(tx[q].order, tx[q].op)'
    BY <2>1, <2>2 DEF StatusAllows, SameRequest
  <2> QED BY <2>1, <2>3 DEF StatusKnows, SameRequest
<1> QED BY <1>1, <1>2

LEMMA DeliverKept ==
    ASSUME NEW q, DeliverKnows(q), SameRequest(q)
    PROVE  DeliverKnows(q)'
BY DEF DeliverKnows, SameRequest

LEMMA ReceiptKept ==
    ASSUME NEW q, ReceiptKnows(q), SameRequest(q), Respects(locks[q])
    PROVE  ReceiptKnows(q)'
BY DEF ReceiptKnows, SameRequest, Respects

LEMMA InvoiceKept ==
    ASSUME RowTypes, NEW q, InvoiceKnows(q), SameRequest(q), Respects(locks[q])
    PROVE  InvoiceKnows(q)'
<1> DEFINE o == tx[q].order  billed == tx[q].deliveries
<1>1. /\ tx[q] \in [op : {"invoice"}, order : Orders, deliveries : SUBSET Deliveries]
      /\ o \in Orders /\ billed \in SUBSET Deliveries
  BY DEF InvoiceKnows
<1>2. ASSUME OrderLock(o) \in locks[q] PROVE order'[o] = order[o]
  BY <1>1, <1>2 DEF Respects
<1>3. CASE pc[q] = "invoiceOrder"
  BY <1>3 DEF InvoiceKnows, SameRequest
<1>4. CASE pc[q] = "deliveries"
  BY <1>2, <1>4 DEF InvoiceKnows, SameRequest
<1>5. CASE pc[q] \in {"invoiced", "commitInvoice"}
  <2>1. /\ OrderLock(o) \in locks[q] /\ order[o] \in {"confirmed", "partial", "delivered"}
        /\ billed \subseteq Confirmed(o) /\ \A d \in billed : DeliveryLock(d) \in locks[q]
        /\ pc[q] = "commitInvoice" => billed \intersect Invoiced = {}
    BY <1>5 DEF InvoiceKnows
  <2>2. \A d \in billed : d \in Confirmed(o)'
    BY <1>1, <2>1 DEF Confirmed, Respects, SameRequest
  <2>3. \A d \in billed : d \in Invoiced' => d \in Invoiced
    <3>1. \A d \in billed : d \in Deliveries /\ delivery[d].status # "none"
      BY <1>1, <2>1 DEF Confirmed
    <3> QED BY <2>1, <3>1 DEF Respects
  <2>4. pc[q] = "commitInvoice" => billed \intersect Invoiced' = {}
    BY <2>1, <2>3
  <2>5. billed \subseteq Confirmed(o)'
    BY <2>2
  <2> QED BY <1>1, <1>2, <1>5, <2>1, <2>4, <2>5 DEF InvoiceKnows, SameRequest
<1>6. pc[q] \in {"invoiceOrder", "deliveries", "invoiced", "commitInvoice"}
  BY DEF InvoiceKnows
<1> QED BY <1>3, <1>4, <1>5, <1>6

LEMMA CoveredKept ==
    ASSUME RowTypes, RowTypes', NEW held, Respects(held), NEW d \in Deliveries,
           delivery[d].status # "none", Covered(d), \A v \in Moved(d) : StockLock(v) \in held
    PROVE  Covered(d)'
<1>1. delivery'[d].lines = delivery[d].lines /\ delivery[d] \in DeliveryRow
  BY DEF Respects, RowTypes
<1>2. ASSUME NEW v \in Variants PROVE VariantIn(delivery[d].lines, v) <= stock'[v]
  <2>1. VariantIn(delivery[d].lines, v) \in Nat
    BY <1>1, RowLines, VariantNat
  <2>2. stock'[v] \in Nat /\ stock[v] \in Nat /\ VariantIn(delivery[d].lines, v) <= stock[v]
    BY DEF RowTypes, Covered
  <2>3. CASE v \in Moved(d)
    <3>1. stock'[v] >= stock[v]
      BY <2>3 DEF Respects
    <3> QED BY <2>1, <2>2, <3>1
  <2>4. CASE v \notin Moved(d)
    BY <2>1, <2>2, <2>4 DEF Moved
  <2> QED BY <2>3, <2>4
<1> QED BY <1>1, <1>2 DEF Covered

(* The sums of a confirmation stay what they are while its order is held:  *)
(* no other delivery of the order is confirmed.                            *)
LEMMA SummedKept ==
    ASSUME RowTypes, RowTypes', NEW held, Respects(held), NEW d \in Deliveries,
           delivery[d].status # "none", OrderLock(delivery[d].order) \in held
    PROVE  \A i : QuantityOf(Summed(d), i)' = QuantityOf(Summed(d), i)
<1>1. PICK o : o = delivery[d].order
  OBVIOUS
<1>2. o \in Orders /\ delivery'[d].order = o
  BY <1>1, RowLines DEF RowTypes, Respects
<1>3. PICK S : S = Confirmed(o) \union {d}
  OBVIOUS
<1>4. Summed(d) = S /\ Summed(d)' = S
  <2>1. Confirmed(o)' = Confirmed(o)
    BY <1>1, <1>2 DEF Respects
  <2> QED BY <1>1, <1>2, <1>3, <2>1 DEF Summed
<1>5. PICK rows : rows = delivery
  OBVIOUS
<1>6. PICK next : next = delivery'
  OBVIOUS
<1>7. S \in SUBSET Deliveries /\ \A e \in S : delivery[e].status # "none"
  BY <1>3 DEF Confirmed
<1>8. /\ rows \in [Deliveries -> DeliveryRow] /\ next \in [Deliveries -> DeliveryRow]
      /\ \A e \in S : next[e].lines = rows[e].lines
  BY <1>5, <1>6, <1>7 DEF RowTypes, Respects
<1>9. ASSUME NEW i PROVE ListedIn(next, S, i) = ListedIn(rows, S, i)
  BY <1>7, <1>8, SetSame
<1>10. \A i : QuantityOf(Summed(d), i) = ListedIn(rows, S, i)
  BY <1>4, <1>5, SumsOfRows
<1>11. \A i : QuantityOf(Summed(d), i)' = ListedIn(next, S, i)
  BY <1>4, <1>6 DEF QuantityOf
<1> QED BY <1>9, <1>10, <1>11

LEMMA ConfirmKept ==
    ASSUME RowTypes, RowTypes', NEW q, ConfirmKnows(q), SameRequest(q), Respects(locks[q])
    PROVE  ConfirmKnows(q)'
<1> DEFINE d == tx[q].id  o == delivery[d].order
<1>1. d \in Deliveries /\ delivery[d].status # "none" /\ tx[q].op = "confirm"
  BY DEF ConfirmKnows
<1>2. /\ delivery'[d].order = o /\ delivery'[d].lines = delivery[d].lines
      /\ delivery'[d].status # "none" /\ o \in Orders
      /\ DeliveryLock(d) \in locks[q] => delivery'[d].status = delivery[d].status
  <2>1. delivery[d] \in DeliveryRow
    BY <1>1 DEF RowTypes
  <2> QED BY <1>1, <2>1, RowLines DEF Respects
<1>3. OrderLock(o) \in locks[q] => order'[o] = order[o]
  BY <1>2 DEF Respects
<1>4. Moved(d)' = Moved(d)
  BY <1>2 DEF Moved, SameRequest
<1>5. CASE pc[q] = "delivery"
  <2>1. needs[q] = {DeliveryLock(d)} /\ tx[q] \in [op : {"confirm"}, id : Deliveries]
    BY <1>5 DEF ConfirmKnows
  <2> QED BY <1>1, <1>2, <1>5, <2>1 DEF ConfirmKnows, SameRequest
<1>6. CASE pc[q] = "lockOrder"
  <2>1. /\ needs[q] = {OrderLock(o)} /\ tx[q] \in [op : {"confirm"}, id : Deliveries]
        /\ DeliveryLock(d) \in locks[q] /\ delivery[d].status = "draft"
    BY <1>6 DEF ConfirmKnows
  <2> QED BY <1>1, <1>2, <1>6, <2>1 DEF ConfirmKnows, SameRequest
<1>7. CASE pc[q] = "stock"
  <2>1. /\ needs[q] = {StockLock(v) : v \in Moved(d)}
        /\ tx[q] \in [op : {"confirm"}, id : Deliveries]
        /\ DeliveryLock(d) \in locks[q] /\ delivery[d].status = "draft"
        /\ OrderLock(o) \in locks[q] /\ OrderOpen(o)
    BY <1>7 DEF ConfirmKnows
  <2> QED BY <1>1, <1>2, <1>3, <1>4, <1>7, <2>1 DEF ConfirmKnows, SameRequest, OrderOpen
<1>8. CASE pc[q] \in {"summary", "refresh", "sum", "commitConfirm"}
  <2>1. /\ DeliveryLock(d) \in locks[q] /\ delivery[d].status = "draft"
        /\ OrderLock(o) \in locks[q] /\ OrderOpen(o)
        /\ Covered(d) /\ \A v \in Moved(d) : StockLock(v) \in locks[q]
        /\ \/ pc[q] = "summary"
              /\ tx[q] \in [op : {"confirm"}, id : Deliveries, onHand : Levels]
           \/ pc[q] \in {"refresh", "sum"}
              /\ tx[q] \in [op : {"confirm"}, id : Deliveries, onHand : Levels, seen : Levels]
           \/ pc[q] = "commitConfirm"
              /\ tx[q] \in [op : {"confirm"}, id : Deliveries, onHand : Levels, seen : Levels,
                            done : [ItemsOf(o) -> Nat]]
              /\ \A i \in ItemsOf(o) : tx[q].done[i] = QuantityOf(Summed(d), i)
    BY <1>8 DEF ConfirmKnows
  <2>2. Covered(d)'
    BY <1>1, <2>1, CoveredKept DEF SameRequest
  <2>3. (\A v \in Moved(d) : StockLock(v) \in locks[q])'
    BY <1>4, <2>1 DEF SameRequest
  <2>4. \A i : QuantityOf(Summed(d), i)' = QuantityOf(Summed(d), i)
    <3>1. PICK e : e = d
      OBVIOUS
    <3>2. \A i : QuantityOf(Summed(e), i)' = QuantityOf(Summed(e), i)
      BY <1>1, <2>1, <3>1, SummedKept
    <3>3. d' = e
      BY <3>1 DEF SameRequest
    <3>4. Summed(d)' = Summed(e)' /\ Summed(d) = Summed(e)
      BY <3>1, <3>3 DEF Summed
    <3> QED BY <3>2, <3>4 DEF QuantityOf
  <2>5. delivery'[d].status = "draft" /\ OrderOpen(o)'
    BY <1>2, <1>3, <2>1 DEF OrderOpen, SameRequest
  <2>6. CASE pc[q] \in {"summary", "refresh", "sum"}
    BY <1>1, <1>2, <2>1, <2>2, <2>3, <2>5, <2>6 DEF ConfirmKnows, SameRequest
  <2>7. CASE pc[q] = "commitConfirm"
    <3>1. \A i \in ItemsOf(o) : tx'[q].done[i] = QuantityOf(Summed(tx[q].id), i)'
      BY <2>1, <2>4, <2>7 DEF SameRequest
    <3> QED BY <1>1, <1>2, <2>1, <2>2, <2>3, <2>5, <2>7, <3>1 DEF ConfirmKnows, SameRequest
  <2> QED BY <1>8, <2>6, <2>7
<1>9. pc[q] \in {"delivery", "lockOrder", "stock", "summary", "refresh", "sum", "commitConfirm"}
  BY DEF ConfirmKnows
<1> QED BY <1>5, <1>6, <1>7, <1>8, <1>9

LEMMA KnowsKept ==
    ASSUME RowTypes, RowTypes', NEW q, Knows(q), SameRequest(q), Respects(locks[q])
    PROVE  Knows(q)'
<1>1. CASE pc[q] = "idle"
  BY <1>1 DEF Knows, SameRequest
<1> QED BY <1>1, StatusKept, DeliverKept, ConfirmKept, InvoiceKept, ReceiptKept DEF Knows

-----------------------------------------------------------------------------
(* Steps of one request: what has to be shown of each.                     *)
LEMMA TakenExclusive ==
    ASSUME RequestsRight, NEW r \in Requests, NEW taken, \A x \in taken : Free(r, x),
           locks' = [locks EXCEPT ![r] = locks[r] \union taken]
    PROVE  LocksExclusive'
<1>1. \A q \in Requests \ {r} : taken \intersect locks[q] = {}
  BY DEF Free
<1>2. DOMAIN locks = Requests
  BY DEF RequestsRight
<1>3. locks'[r] = locks[r] \union taken /\ \A q \in Requests \ {r} : locks'[q] = locks[q]
  BY <1>2
<1>4. \A p, q \in Requests : p # q => locks[p] \intersect locks[q] = {}
  BY DEF RequestsRight, LocksExclusive
<1>5. ASSUME NEW p \in Requests, NEW q \in Requests, p # q
      PROVE  locks'[p] \intersect locks'[q] = {}
  <2>1. CASE p = r
    BY <1>1, <1>3, <1>4, <1>5, <2>1
  <2>2. CASE q = r
    BY <1>1, <1>3, <1>4, <1>5, <2>2
  <2>3. CASE p # r /\ q # r
    BY <1>3, <1>4, <1>5, <2>3
  <2> QED BY <2>1, <2>2, <2>3
<1> QED BY <1>5 DEF LocksExclusive

LEMMA TablesRespect ==
    ASSUME RowTypes, tables' = tables, NEW held
    PROVE  Respects(held)
<1>1. /\ order' = order /\ delivery' = delivery /\ invoice' = invoice /\ stock' = stock
  BY SameTables
<1>2. ActiveInvoices' = ActiveInvoices /\ Invoiced' = Invoiced
  BY <1>1, SameSets
<1>3. \A v \in Variants : stock'[v] >= stock[v]
  BY <1>1 DEF RowTypes
<1>4. \A o : Confirmed(o)' = Confirmed(o)
  BY <1>1, SameSets
<1> QED BY <1>1, <1>2, <1>3, <1>4 DEF Respects

(* The request r has step t, need and held after it; the others find what  *)
(* they know respected.                                                    *)
LEMMA RequestStep ==
    ASSUME IInv, NEW r \in Requests, NEW step, NEW need, NEW t, NEW held,
           begun' \in 0 .. MaxRequests,
           pc' = [pc EXCEPT ![r] = step], needs' = [needs EXCEPT ![r] = need],
           tx' = [tx EXCEPT ![r] = t], locks' = [locks EXCEPT ![r] = held],
           LocksExclusive', step = "idle" => t = NoTx /\ need = {} /\ held = {},
           RowsRight', \A q \in Requests \ {r} : Respects(locks[q]),
           pc'[r] = step /\ needs'[r] = need /\ tx'[r] = t /\ locks'[r] = held => Knows(r)'
    PROVE  IInv'
<1>1. RowsRight /\ RequestsRight /\ \A q \in Requests : Knows(q)
  BY Parts
<1>2. DOMAIN pc = Requests /\ DOMAIN needs = Requests /\ DOMAIN tx = Requests
      /\ DOMAIN locks = Requests
  BY <1>1 DEF RequestsRight
<1>3. pc'[r] = step /\ needs'[r] = need /\ tx'[r] = t /\ locks'[r] = held
  BY <1>2
<1>4. \A q \in Requests \ {r} : SameRequest(q)
  BY <1>2 DEF SameRequest
<1>5. ASSUME NEW q \in Requests PROVE Knows(q)'
  <2>1. CASE q = r
    BY <1>3, <2>1
  <2>2. CASE q # r
    BY <1>1, <1>4, <2>2, KnowsKept DEF RowsRight
  <2> QED BY <2>1, <2>2
<1>6. IdleHoldsNothing'
  <2>1. ASSUME NEW q \in Requests, pc'[q] = "idle"
        PROVE  tx'[q] = NoTx /\ needs'[q] = {} /\ locks'[q] = {}
    <3>1. CASE q = r
      BY <1>3, <2>1, <3>1
    <3>2. CASE q # r
      BY <1>1, <1>4, <2>1, <3>2 DEF SameRequest, RequestsRight, IdleHoldsNothing
    <3> QED BY <3>1, <3>2
  <2> QED BY <2>1 DEF IdleHoldsNothing
<1>7. /\ pc' = [q \in Requests |-> pc'[q]] /\ needs' = [q \in Requests |-> needs'[q]]
      /\ tx' = [q \in Requests |-> tx'[q]] /\ locks' = [q \in Requests |-> locks'[q]]
  BY <1>2
<1>8. RequestsRight'
  BY <1>6, <1>7 DEF RequestsRight
<1> QED BY <1>5, <1>8, NextParts

LEMMA BegunBound == ASSUME IInv PROVE MaxRequests \in Nat /\ begun \in 0 .. MaxRequests
BY TransactionsConstants DEF IInv, DeliveriesAddUp, TypeOK, IdleHoldsNothing

LEMMA ReleasedExclusive ==
    ASSUME IInv, NEW r \in Requests, locks' = [locks EXCEPT ![r] = {}]
    PROVE  LocksExclusive'
<1>1. DOMAIN locks = Requests /\ LocksExclusive
  BY Parts DEF RequestsRight
<1>2. locks'[r] = {} /\ \A q \in Requests \ {r} : locks'[q] = locks[q]
  BY <1>1
<1>3. ASSUME NEW p \in Requests, NEW q \in Requests, p # q
      PROVE  locks'[p] \intersect locks'[q] = {}
  <2>1. CASE p = r \/ q = r
    BY <1>2, <2>1
  <2>2. CASE p # r /\ q # r
    BY <1>1, <1>2, <1>3, <2>2 DEF LocksExclusive
  <2> QED BY <2>1, <2>2
<1> QED BY <1>3 DEF LocksExclusive

(* COMMIT.                                                                 *)
LEMMA EndStep ==
    ASSUME IInv, NEW r \in Requests, End(r), RowsRight',
           \A q \in Requests \ {r} : Respects(locks[q])
    PROVE  IInv'
<1>1. /\ pc' = [pc EXCEPT ![r] = "idle"] /\ needs' = [needs EXCEPT ![r] = {}]
      /\ tx' = [tx EXCEPT ![r] = NoTx] /\ locks' = [locks EXCEPT ![r] = {}]
      /\ begun' \in 0 .. MaxRequests
  BY BegunBound DEF End
<1>2. LocksExclusive'
  BY <1>1, ReleasedExclusive
<1>3. pc'[r] = "idle" => Knows(r)'
  BY DEF Knows
<1> DEFINE t == NoTx
<1> HIDE DEF t
<1>4. tx' = [tx EXCEPT ![r] = t] /\ t = NoTx
  BY <1>1 DEF t
<1> QED BY <1>1, <1>2, <1>3, <1>4, RequestStep

(* ROLLBACK.                                                               *)
LEMMA RollbackStep ==
    ASSUME IInv, NEW r \in Requests, End(r), tables' = tables
    PROVE  IInv'
<1>1. RowsRight /\ RowTypes
  BY Parts DEF RowsRight
<1> QED BY <1>1, RowsUnchanged, TablesRespect, EndStep

LEMMA IdleFacts ==
    ASSUME IInv, NEW r \in Requests, pc[r] = "idle"
    PROVE  tx[r] = NoTx /\ needs[r] = {} /\ locks[r] = {}
BY Parts DEF RequestsRight, IdleHoldsNothing

LEMMA AutoStep ==
    ASSUME IInv, NEW r \in Requests, NEW x, Autocommit(r, x), RowsRight',
           \A q \in Requests \ {r} : Respects(locks[q])
    PROVE  IInv'
<1>1. /\ pc[r] = "idle" /\ pc' = pc /\ needs' = needs /\ tx' = tx /\ locks' = locks
      /\ begun' \in 0 .. MaxRequests
  BY BegunBound DEF Autocommit
<1>2. tx[r] = NoTx /\ needs[r] = {} /\ locks[r] = {}
  BY <1>1, IdleFacts
<1>3. DOMAIN pc = Requests /\ DOMAIN needs = Requests /\ DOMAIN tx = Requests
      /\ DOMAIN locks = Requests
  BY Parts DEF RequestsRight
<1> DEFINE t == NoTx
<1> HIDE DEF t
<1>4. /\ pc = [q \in Requests |-> pc[q]] /\ needs = [q \in Requests |-> needs[q]]
      /\ tx = [q \in Requests |-> tx[q]] /\ locks = [q \in Requests |-> locks[q]]
  BY Parts DEF RequestsRight
<1>5. /\ pc' = [pc EXCEPT ![r] = "idle"] /\ needs' = [needs EXCEPT ![r] = {}]
      /\ locks' = [locks EXCEPT ![r] = {}]
  BY <1>1, <1>2, <1>3, <1>4
<1>6. tx' = [tx EXCEPT ![r] = t] /\ t = NoTx
  BY <1>1, <1>2, <1>3, <1>4 DEF t
<1>7. LocksExclusive'
  BY <1>5, ReleasedExclusive
<1>8. pc'[r] = "idle" => Knows(r)'
  BY DEF Knows
<1>9. begun' \in 0 .. MaxRequests
  BY <1>1
<1> QED BY <1>5, <1>6, <1>7, <1>8, <1>9, RequestStep

LEMMA BeginStep ==
    ASSUME IInv, NEW r \in Requests, NEW step, NEW need, NEW t, step # "idle",
           Begin(r, step, need, t), tables' = tables,
           pc'[r] = step /\ needs'[r] = need /\ tx'[r] = t /\ locks'[r] = {} => Knows(r)'
    PROVE  IInv'
<1>1. /\ pc[r] = "idle" /\ pc' = [pc EXCEPT ![r] = step]
      /\ needs' = [needs EXCEPT ![r] = need] /\ tx' = [tx EXCEPT ![r] = t] /\ locks' = locks
      /\ begun' \in 0 .. MaxRequests
  BY BegunBound DEF Begin
<1>2. locks[r] = {} /\ locks = [q \in Requests |-> locks[q]]
  BY <1>1, IdleFacts, Parts DEF RequestsRight
<1>3. locks' = [locks EXCEPT ![r] = {}]
  BY <1>1, <1>2
<1>4. LocksExclusive'
  BY <1>3, ReleasedExclusive
<1>5. RowsRight /\ RowTypes
  BY Parts DEF RowsRight
<1>6. RowsRight' /\ \A q \in Requests \ {r} : Respects(locks[q])
  BY <1>5, RowsUnchanged, TablesRespect
<1> QED BY <1>1, <1>3, <1>4, <1>6, RequestStep

LEMMA ContinueStep ==
    ASSUME IInv, NEW r \in Requests, NEW step, NEW need, NEW t, step # "idle",
           \A x \in needs[r] : Free(r, x), Continue(r, step, need, t), tables' = tables,
           pc'[r] = step /\ needs'[r] = need /\ tx'[r] = t
             /\ locks'[r] = locks[r] \union needs[r] => Knows(r)'
    PROVE  IInv'
<1> DEFINE taken == needs[r]  held == locks[r] \union taken
<1>1. /\ pc' = [pc EXCEPT ![r] = step]
      /\ needs' = [needs EXCEPT ![r] = need] /\ tx' = [tx EXCEPT ![r] = t]
      /\ locks' = [locks EXCEPT ![r] = held] /\ begun' \in 0 .. MaxRequests
  BY BegunBound DEF Continue
<1>2. \A x \in taken : Free(r, x)
  OBVIOUS
<1>3. pc'[r] = step /\ needs'[r] = need /\ tx'[r] = t /\ locks'[r] = held => Knows(r)'
  OBVIOUS
<1>4. RowsRight /\ RowTypes /\ RequestsRight
  BY Parts DEF RowsRight
<1> HIDE DEF taken
<1>5. LocksExclusive'
  BY <1>1, <1>2, <1>4, TakenExclusive
<1>6. RowsRight' /\ \A q \in Requests \ {r} : Respects(locks[q])
  BY <1>4, RowsUnchanged, TablesRespect
<1> HIDE DEF held
<1> QED BY <1>1, <1>3, <1>5, <1>6, RequestStep

-----------------------------------------------------------------------------
(* What the request knows, by the statement it is at.                      *)
LEMMA StatusAt ==
    ASSUME NEW r, Knows(r),
           \/ pc[r] \in {"order", "commitStatus"}
           \/ pc[r] = "refresh" /\ tx[r].op \in {"confirmed", "cancelled"}
    PROVE  StatusKnows(r)
<1>1. ~ ConfirmKnows(r)
  BY DEF ConfirmKnows
<1>2. ~ InvoiceKnows(r) /\ ~ DeliverKnows(r) /\ ~ ReceiptKnows(r)
  BY DEF InvoiceKnows, DeliverKnows, ReceiptKnows
<1> QED BY <1>1, <1>2 DEF Knows

LEMMA DeliverAt ==
    ASSUME NEW r, Knows(r), pc[r] \in {"validate", "insert"}
    PROVE  DeliverKnows(r)
BY DEF Knows, StatusKnows, ConfirmKnows, InvoiceKnows, ReceiptKnows

LEMMA ConfirmAt ==
    ASSUME NEW r, Knows(r),
           \/ pc[r] \in {"delivery", "lockOrder", "stock", "summary", "sum", "commitConfirm"}
           \/ pc[r] = "refresh" /\ tx[r].op = "confirm"
    PROVE  ConfirmKnows(r)
<1>1. ~ StatusKnows(r)
  BY DEF StatusKnows
<1>2. ~ InvoiceKnows(r) /\ ~ DeliverKnows(r) /\ ~ ReceiptKnows(r)
  BY DEF InvoiceKnows, DeliverKnows, ReceiptKnows
<1> QED BY <1>1, <1>2 DEF Knows

LEMMA InvoiceAt ==
    ASSUME NEW r, Knows(r),
           pc[r] \in {"invoiceOrder", "deliveries", "invoiced", "commitInvoice"}
    PROVE  InvoiceKnows(r)
BY DEF Knows, StatusKnows, ConfirmKnows, DeliverKnows, ReceiptKnows

LEMMA ReceiptAt ==
    ASSUME NEW r, Knows(r), pc[r] \in {"invoices", "commitReceipt"}
    PROVE  ReceiptKnows(r)
BY DEF Knows, StatusKnows, ConfirmKnows, DeliverKnows, InvoiceKnows

-----------------------------------------------------------------------------
(* Requests begin.                                                         *)
LEMMA BeginStatusStep == ASSUME IInv, NEW r \in Requests, BeginStatus(r) PROVE IInv'
<1>1. PICK o \in Orders, op \in {"confirmed", "cancelled"} :
        Begin(r, "order", {OrderLock(o)}, [op |-> op, order |-> o])
  BY DEF BeginStatus
<1>2. tables' = tables
  BY DEF BeginStatus
<1>3. ASSUME pc'[r] = "order", needs'[r] = {OrderLock(o)},
             tx'[r] = [op |-> op, order |-> o]
      PROVE  Knows(r)'
  BY <1>3 DEF Knows, StatusKnows
<1> QED BY <1>1, <1>2, <1>3, BeginStep

LEMMA BeginDeliveryStep == ASSUME IInv, NEW r \in Requests, BeginDelivery(r) PROVE IInv'
<1>1. PICK o \in Orders, lines \in Dispatches :
        Begin(r, "validate", {AvailableView},
              [op |-> "deliver", order |-> o, lines |-> lines, todo |-> DOMAIN lines])
  BY DEF BeginDelivery
<1>2. tables' = tables
  BY DEF BeginDelivery
<1>3. lines \in Seq(Line) /\ DOMAIN lines \subseteq Nat
  BY SalesConstants, LinesFinite
<1>4. ASSUME pc'[r] = "validate",
             tx'[r] = [op |-> "deliver", order |-> o, lines |-> lines, todo |-> DOMAIN lines]
      PROVE  Knows(r)'
  BY <1>3, <1>4 DEF Knows, DeliverKnows
<1> QED BY <1>1, <1>2, <1>4, BeginStep

LEMMA BeginConfirmStep == ASSUME IInv, NEW r \in Requests, BeginConfirm(r) PROVE IInv'
<1>1. PICK d \in Deliveries :
        delivery[d].status # "none"
        /\ Begin(r, "delivery", {DeliveryLock(d)}, [op |-> "confirm", id |-> d])
  BY DEF BeginConfirm
<1>2. tables' = tables
  BY DEF BeginConfirm
<1>3. ASSUME pc'[r] = "delivery", needs'[r] = {DeliveryLock(d)},
             tx'[r] = [op |-> "confirm", id |-> d]
      PROVE  Knows(r)'
  <2>1. delivery' = delivery
    BY <1>2, SameTables
  <2> QED BY <1>1, <1>3, <2>1 DEF Knows, ConfirmKnows
<1> QED BY <1>1, <1>2, <1>3, BeginStep

LEMMA BeginInvoiceStep == ASSUME IInv, NEW r \in Requests, BeginInvoice(r) PROVE IInv'
<1>1. PICK o \in Orders, deliveries \in Bundles :
        Begin(r, "invoiceOrder", {OrderLock(o)},
              [op |-> "invoice", order |-> o, deliveries |-> deliveries])
  BY DEF BeginInvoice
<1>2. tables' = tables /\ deliveries \in SUBSET Deliveries
  BY SalesConstants DEF BeginInvoice
<1>3. ASSUME pc'[r] = "invoiceOrder", needs'[r] = {OrderLock(o)},
             tx'[r] = [op |-> "invoice", order |-> o, deliveries |-> deliveries]
      PROVE  Knows(r)'
  BY <1>2, <1>3 DEF Knows, InvoiceKnows
<1> QED BY <1>1, <1>2, <1>3, BeginStep

LEMMA BeginReceiptStep == ASSUME IInv, NEW r \in Requests, BeginReceipt(r) PROVE IInv'
<1>1. PICK wanted \in (SUBSET {v \in Invoices : Payable(v)}) \ {{}} :
        \E set \in [wanted -> Payments] :
          Begin(r, "invoices", {InvoiceLock(Min(wanted))},
                [op |-> "receipt", set |-> set, todo |-> wanted])
  BY DEF BeginReceipt
<1>2. PICK set \in [wanted -> Payments] :
          Begin(r, "invoices", {InvoiceLock(Min(wanted))},
                [op |-> "receipt", set |-> set, todo |-> wanted])
  BY <1>1
<1>3. tables' = tables
  BY DEF BeginReceipt
<1>4. \A v \in DOMAIN set : v \in ActiveInvoices' /\ set[v] \in Payments
  <2>1. ActiveInvoices' = ActiveInvoices
    BY <1>3, SameTables, SameSets
  <2>2. \A v \in wanted : v \in ActiveInvoices
    BY DEF Payable, ActiveInvoices
  <2> QED BY <2>1, <2>2
<1>5. ASSUME pc'[r] = "invoices", tx'[r] = [op |-> "receipt", set |-> set, todo |-> wanted]
      PROVE  Knows(r)'
  <2>1. tx'[r].set = set /\ tx'[r].todo = wanted
    BY <1>5
  <2> QED BY <1>4, <1>5, <2>1 DEF Knows, ReceiptKnows
<1> QED BY <1>2, <1>3, <1>5, BeginStep

-----------------------------------------------------------------------------
(* SalesOrderService.confirm and cancel.                                   *)
LEMMA OrderReserved ==
    ASSUME RowTypes, NEW o, NEW status
    PROVE  ReservedAfter(o, status) \in Levels /\ Reserved(order, delivered) \in Levels
BY ReservedLevels DEF RowTypes, ReservedAfter

LEMMA ChangeStatusStep == ASSUME IInv, NEW r \in Requests, ChangeStatus(r) PROVE IInv'
<1> DEFINE o == tx[r].order
<1>1. RowTypes /\ StatusKnows(r) /\ pc[r] = "order" /\ tables' = tables
      /\ \A x \in needs[r] : Free(r, x)
  BY Parts, StatusAt DEF RowsRight, ChangeStatus, At
<1>2. CASE ~ StatusAllows(o, tx[r].op)
  BY <1>1, <1>2, RollbackStep DEF ChangeStatus
<1>3. CASE StatusAllows(o, tx[r].op)
  <2>1. PICK seen : seen = ReservedAfter(o, tx[r].op)
    OBVIOUS
  <2>2. PICK t : t = [op |-> tx[r].op, order |-> o, seen |-> seen]
    OBVIOUS
  <2>3. Continue(r, "refresh", {AvailableView}, t)
    BY <1>3, <2>1, <2>2 DEF ChangeStatus
  <2>4. seen \in Levels
    BY <1>1, <2>1, OrderReserved
  <2>5. o \in Orders /\ tx[r].op \in {"confirmed", "cancelled"} /\ needs[r] = {OrderLock(o)}
    BY <1>1 DEF StatusKnows
  <2>6. ASSUME pc'[r] = "refresh", tx'[r] = t, locks'[r] = locks[r] \union needs[r]
        PROVE  Knows(r)'
    <3>1. order' = order
      BY <1>1, SameTables
    <3>2. tx'[r].op = tx[r].op /\ tx'[r].order = o
      BY <2>2, <2>6
    <3>3. StatusAllows(tx[r].order, tx[r].op)'
      BY <1>3, <3>1, <3>2 DEF StatusAllows
    <3>4. OrderLock(o) \in locks'[r]
      BY <2>5, <2>6
    <3>5. tx'[r] \in [op : {"confirmed", "cancelled"}, order : Orders, seen : Levels]
      BY <2>2, <2>4, <2>5, <2>6
    <3> QED BY <2>6, <3>2, <3>3, <3>4, <3>5 DEF Knows, StatusKnows
  <2> QED BY <1>1, <2>3, <2>6, ContinueStep
<1> QED BY <1>2, <1>3

LEMMA RefreshAvailableStep ==
    ASSUME IInv, NEW r \in Requests, RefreshAvailable(r) PROVE IInv'
<1> DEFINE o == tx[r].order
<1>1. RowTypes /\ StatusKnows(r) /\ pc[r] = "refresh" /\ tables' = tables
      /\ \A x \in needs[r] : Free(r, x)
  BY Parts, StatusAt DEF RowsRight, RefreshAvailable, At
<1>2. PICK seen \in {tx[r].seen, ReservedAfter(tx[r].order, tx[r].op)} :
        Continue(r, "commitStatus", {SummaryView}, [tx[r] EXCEPT !.seen = seen])
  BY DEF RefreshAvailable
<1>3. /\ tx[r] \in [op : {"confirmed", "cancelled"}, order : Orders, seen : Levels]
      /\ OrderLock(o) \in locks[r] /\ StatusAllows(o, tx[r].op)
  BY <1>1 DEF StatusKnows
<1>4. seen \in Levels
  BY <1>1, <1>3, OrderReserved
<1>5. PICK t : t = [tx[r] EXCEPT !.seen = seen]
  OBVIOUS
<1>6. /\ t \in [op : {"confirmed", "cancelled"}, order : Orders, seen : Levels]
      /\ t.op = tx[r].op /\ t.order = o
  BY <1>3, <1>4, <1>5
<1>7. ASSUME pc'[r] = "commitStatus", tx'[r] = t, locks'[r] = locks[r] \union needs[r]
      PROVE  Knows(r)'
  <2>1. order' = order
    BY <1>1, SameTables
  <2>2. StatusAllows(tx[r].order, tx[r].op)'
    BY <1>3, <1>6, <1>7, <2>1 DEF StatusAllows
  <2> QED BY <1>3, <1>6, <1>7, <2>2 DEF Knows, StatusKnows
<1>8. Continue(r, "commitStatus", {SummaryView}, t)
  BY <1>2, <1>5
<1> QED BY <1>1, <1>7, <1>8, ContinueStep

-----------------------------------------------------------------------------
(* DeliveryOrderService.create: a line is checked.                         *)
LEMMA ValidateStep == ASSUME IInv, NEW r \in Requests, Validate(r) PROVE IInv'
<1>1. RowsRight /\ RowTypes /\ DeliverKnows(r) /\ tables' = tables
  BY Parts, DeliverAt DEF RowsRight, Validate, At
<1>2. CASE End(r)
  BY <1>1, <1>2, RollbackStep
<1>3. CASE ~ End(r)
  <2>1. PICK rest : rest = tx[r].todo \ {Min(tx[r].todo)}
    OBVIOUS
  <2>2. PICK step : step = IF rest = {} THEN "insert" ELSE "validate"
    OBVIOUS
  <2>3. PICK need : need = IF rest = {} THEN {} ELSE needs[r]
    OBVIOUS
  <2>4. /\ tx' = [tx EXCEPT ![r].todo = rest] /\ pc' = [pc EXCEPT ![r] = step]
        /\ begun' = begun /\ locks' = locks
    BY <1>3, <2>1, <2>2 DEF Validate
  <2>5. needs' = [needs EXCEPT ![r] = need]
    BY <1>3, <2>1, <2>3 DEF Validate
  <2>6. PICK t : t = [tx[r] EXCEPT !.todo = rest]
    OBVIOUS
  <2>7. tx' = [tx EXCEPT ![r] = t]
    BY <2>4, <2>6
  <2>8. PICK held : held = locks[r]
    OBVIOUS
  <2>9. locks' = [locks EXCEPT ![r] = held] /\ LocksExclusive'
    <3>1. locks = [q \in Requests |-> locks[q]] /\ LocksExclusive
      BY Parts DEF RequestsRight
    <3>2. LocksExclusive'
      BY <2>4, <3>1 DEF LocksExclusive
    <3> QED BY <2>4, <2>8, <3>1, <3>2
  <2>10. step \in {"validate", "insert"} /\ begun' \in 0 .. MaxRequests
    BY <2>2, <2>4, BegunBound
  <2>11. ASSUME pc'[r] = step, tx'[r] = t PROVE Knows(r)'
    <3>1. tx[r] \in [op : {"deliver"}, order : Orders, lines : Seq(Line), todo : SUBSET Nat]
          /\ rest \in SUBSET Nat
      BY <1>1, <2>1 DEF DeliverKnows
    <3>2. t \in [op : {"deliver"}, order : Orders, lines : Seq(Line), todo : SUBSET Nat]
      BY <2>6, <3>1
    <3> QED BY <2>10, <2>11, <3>2 DEF Knows, DeliverKnows
  <2>12. RowsRight' /\ \A q \in Requests \ {r} : Respects(locks[q])
    BY <1>1, RowsUnchanged, TablesRespect
  <2>13. step # "idle"
    BY <2>10
  <2> QED BY <2>4, <2>5, <2>7, <2>9, <2>10, <2>11, <2>12, <2>13, RequestStep
<1> QED BY <1>2, <1>3

-----------------------------------------------------------------------------
(* DeliveryOrderService.confirm, up to its COMMIT.                         *)
LEMMA DraftOrder ==
    ASSUME RowTypes, NEW d \in Deliveries, delivery[d].status # "none"
    PROVE  delivery[d].order \in Orders /\ delivery[d].lines \in Seq(Line)
BY RowLines DEF RowTypes

LEMMA LockDeliveryStep == ASSUME IInv, NEW r \in Requests, LockDelivery(r) PROVE IInv'
<1> DEFINE d == tx[r].id  o == delivery[d].order
<1>1. RowTypes /\ ConfirmKnows(r) /\ pc[r] = "delivery" /\ tables' = tables
      /\ \A x \in needs[r] : Free(r, x)
  BY Parts, ConfirmAt DEF RowsRight, LockDelivery, At
<1>2. CASE delivery[d].status # "draft"
  BY <1>1, <1>2, RollbackStep DEF LockDelivery
<1>3. CASE delivery[d].status = "draft"
  <2>1. /\ tx[r] \in [op : {"confirm"}, id : Deliveries] /\ needs[r] = {DeliveryLock(d)}
        /\ tx[r].op = "confirm" /\ d \in Deliveries
    BY <1>1 DEF ConfirmKnows
  <2>2. ASSUME pc'[r] = "lockOrder", needs'[r] = {OrderLock(o)}, tx'[r] = tx[r],
               locks'[r] = locks[r] \union needs[r]
        PROVE  Knows(r)'
    <3>1. delivery' = delivery
      BY <1>1, SameTables
    <3>2. DeliveryLock(d) \in locks'[r]
      BY <2>1, <2>2
    <3> QED BY <1>3, <2>1, <2>2, <3>1, <3>2 DEF Knows, ConfirmKnows
  <2>3. PICK need : need = {OrderLock(o)}
    OBVIOUS
  <2>4. Continue(r, "lockOrder", need, tx[r])
    BY <1>3, <2>3 DEF LockDelivery
  <2> QED BY <1>1, <2>2, <2>3, <2>4, ContinueStep
<1> QED BY <1>2, <1>3

LEMMA LockOrderStep == ASSUME IInv, NEW r \in Requests, LockOrder(r) PROVE IInv'
<1> DEFINE d == tx[r].id  o == delivery[d].order
<1>1. RowTypes /\ ConfirmKnows(r) /\ pc[r] = "lockOrder" /\ tables' = tables
      /\ \A x \in needs[r] : Free(r, x)
  BY Parts, ConfirmAt DEF RowsRight, LockOrder, At
<1>2. CASE ~ OrderOpen(o)
  BY <1>1, <1>2, RollbackStep DEF LockOrder
<1>3. CASE OrderOpen(o)
  <2>1. /\ tx[r] \in [op : {"confirm"}, id : Deliveries] /\ needs[r] = {OrderLock(o)}
        /\ DeliveryLock(d) \in locks[r] /\ delivery[d].status = "draft"
        /\ tx[r].op = "confirm" /\ d \in Deliveries
    BY <1>1 DEF ConfirmKnows
  <2>2. PICK need : need = {StockLock(v) : v \in Moved(d)}
    OBVIOUS
  <2>3. ASSUME pc'[r] = "stock", needs'[r] = need, tx'[r] = tx[r],
               locks'[r] = locks[r] \union needs[r]
        PROVE  Knows(r)'
    <3>1. delivery' = delivery /\ order' = order
      BY <1>1, SameTables
    <3>2. DeliveryLock(d) \in locks'[r] /\ OrderLock(o) \in locks'[r]
      BY <2>1, <2>3
    <3>3. OrderOpen(o)'
      BY <1>3, <2>3, <3>1 DEF OrderOpen
    <3>4. Moved(d)' = Moved(d)
      BY <2>3, <3>1 DEF Moved
    <3>5. needs'[r] = {StockLock(v) : v \in Moved(tx[r].id)'}
      BY <2>2, <2>3, <3>4
    <3> QED BY <2>1, <2>3, <3>1, <3>2, <3>3, <3>5 DEF Knows, ConfirmKnows
  <2>4. Continue(r, "stock", need, tx[r])
    BY <1>3, <2>2 DEF LockOrder
  <2> QED BY <1>1, <2>3, <2>4, ContinueStep
<1> QED BY <1>2, <1>3

(* What is known of a delivery whose stock is found enough.                *)
Taken(held, d) ==
    LET o == delivery[d].order IN
    /\ d \in Deliveries /\ DeliveryLock(d) \in held /\ delivery[d].status = "draft"
    /\ OrderLock(o) \in held /\ OrderOpen(o)
    /\ Covered(d) /\ \A v \in Moved(d) : StockLock(v) \in held

LEMMA TakenKept ==
    ASSUME tables' = tables, NEW held, NEW d, Taken(held, d), NEW next, held \subseteq next,
           NEW e, e = d
    PROVE  Taken(next, e)'
<1>1. delivery' = delivery /\ order' = order /\ stock' = stock
  BY SameTables
<1>2. OrderOpen(delivery[d].order)' /\ Covered(d)' /\ Moved(d)' = Moved(d)
  BY <1>1 DEF Taken, OrderOpen, Covered, Moved
<1> QED BY <1>1, <1>2 DEF Taken

LEMMA LeavingLevels ==
    ASSUME RowTypes, NEW d \in Deliveries, delivery[d].status # "none"
    PROVE  Minus(stock, Leaving(d)) \in Levels
<1>1. \A v \in Variants : VariantIn(delivery[d].lines, v) \in Nat
  BY DraftOrder, VariantNat
<1>2. \A v \in Variants : stock[v] \in Nat
  BY DEF RowTypes
<1> QED BY <1>1, <1>2 DEF Minus, Leaving, Levels

LEMMA TakenAt ==
    ASSUME NEW r, ConfirmKnows(r), pc[r] \in {"summary", "refresh", "sum", "commitConfirm"}
    PROVE  /\ Taken(locks[r], tx[r].id)
           /\ pc[r] = "summary" => tx[r] \in [op : {"confirm"}, id : Deliveries, onHand : Levels]
           /\ pc[r] \in {"refresh", "sum"} =>
                tx[r] \in [op : {"confirm"}, id : Deliveries, onHand : Levels, seen : Levels]
           /\ pc[r] = "commitConfirm" =>
                /\ tx[r].onHand \in Levels /\ tx[r].seen \in Levels
                /\ \A i \in ItemsOf(delivery[tx[r].id].order) :
                     tx[r].done[i] = QuantityOf(Summed(tx[r].id), i)
BY DEF ConfirmKnows, Taken

(* The other way round, after a step.                                      *)
LEMMA TakenKnows ==
    ASSUME NEW r, pc'[r] \in {"summary", "refresh", "sum"},
           Taken(locks[r], tx[r].id)',
           pc'[r] = "summary" => tx'[r] \in [op : {"confirm"}, id : Deliveries, onHand : Levels],
           pc'[r] # "summary" =>
             tx'[r] \in [op : {"confirm"}, id : Deliveries, onHand : Levels, seen : Levels]
    PROVE  Knows(r)'
<1>1. tx'[r].op = "confirm" /\ tx'[r].id \in Deliveries
  OBVIOUS
<1>2. delivery'[tx'[r].id].status # "none"
  BY DEF Taken
<1> QED BY <1>1, <1>2 DEF Knows, ConfirmKnows, Taken

LEMMA CheckStockStep == ASSUME IInv, NEW r \in Requests, CheckStock(r) PROVE IInv'
<1> DEFINE d == tx[r].id  o == delivery[d].order
<1>1. RowTypes /\ ConfirmKnows(r) /\ pc[r] = "stock" /\ tables' = tables
      /\ \A x \in needs[r] : Free(r, x)
  BY Parts, ConfirmAt DEF RowsRight, CheckStock, At
<1>2. CASE ~ Covered(d)
  BY <1>1, <1>2, RollbackStep DEF CheckStock
<1>3. CASE Covered(d)
  <2>1. /\ needs[r] = {StockLock(v) : v \in Moved(d)}
        /\ DeliveryLock(d) \in locks[r] /\ delivery[d].status = "draft"
        /\ OrderLock(o) \in locks[r] /\ OrderOpen(o) /\ d \in Deliveries
    BY <1>1 DEF ConfirmKnows
  <2>2. PICK onHand : onHand = Minus(stock, Leaving(d))
    OBVIOUS
  <2>3. PICK t : t = [op |-> "confirm", id |-> d, onHand |-> onHand]
    OBVIOUS
  <2>4. Continue(r, "summary", {SummaryView}, t)
    BY <1>3, <2>2, <2>3 DEF CheckStock
  <2>5. t \in [op : {"confirm"}, id : Deliveries, onHand : Levels] /\ t.id = d
    <3>1. onHand \in Levels
      BY <1>1, <2>1, <2>2, LeavingLevels
    <3> QED BY <2>1, <2>3, <3>1
  <2>6. Taken(locks[r] \union needs[r], d)
    BY <1>3, <2>1 DEF Taken
  <2>7. ASSUME pc'[r] = "summary", tx'[r] = t, locks'[r] = locks[r] \union needs[r]
        PROVE  Knows(r)'
    <3>1. Taken(locks[r], tx[r].id)'
      BY <1>1, <2>5, <2>6, <2>7, TakenKept
    <3>2. /\ pc'[r] \in {"summary", "refresh", "sum"} /\ pc'[r] = "summary"
          /\ tx'[r] \in [op : {"confirm"}, id : Deliveries, onHand : Levels]
      BY <2>5, <2>7
    <3> QED BY <3>1, <3>2, TakenKnows
  <2> QED BY <1>1, <2>4, <2>7, ContinueStep
<1> QED BY <1>2, <1>3

LEMMA RefreshSummaryStep == ASSUME IInv, NEW r \in Requests, RefreshSummary(r) PROVE IInv'
<1> DEFINE d == tx[r].id
<1>1. RowTypes /\ ConfirmKnows(r) /\ pc[r] = "summary" /\ tables' = tables
      /\ \A x \in needs[r] : Free(r, x)
  BY Parts, ConfirmAt DEF RowsRight, RefreshSummary, At
<1>2. /\ Taken(locks[r], d) /\ d \in Deliveries /\ delivery[d].status # "none"
      /\ tx[r] \in [op : {"confirm"}, id : Deliveries, onHand : Levels]
  BY <1>1, TakenAt DEF Taken
<1>3. PICK onHand \in {tx[r].onHand, Minus(stock, Leaving(d))} :
        Continue(r, "refresh", {AvailableView},
                 [op |-> "confirm", id |-> d, onHand |-> onHand,
                  seen |-> Reserved(order, delivered)])
  BY DEF RefreshSummary
<1>4. PICK seen : seen = Reserved(order, delivered)
  OBVIOUS
<1>5. PICK t : t = [op |-> "confirm", id |-> d, onHand |-> onHand, seen |-> seen]
  OBVIOUS
<1>6. onHand \in Levels /\ seen \in Levels
  BY <1>1, <1>2, <1>4, LeavingLevels, OrderReserved
<1>7. t \in [op : {"confirm"}, id : Deliveries, onHand : Levels, seen : Levels] /\ t.id = d
  BY <1>2, <1>5, <1>6
<1>8. Continue(r, "refresh", {AvailableView}, t)
  BY <1>3, <1>4, <1>5
<1>9. ASSUME pc'[r] = "refresh", tx'[r] = t, locks'[r] = locks[r] \union needs[r]
      PROVE  Knows(r)'
  <2>1. Taken(locks[r], tx[r].id)'
    BY <1>1, <1>2, <1>7, <1>9, TakenKept
  <2>2. /\ pc'[r] \in {"summary", "refresh", "sum"} /\ pc'[r] # "summary"
        /\ tx'[r] \in [op : {"confirm"}, id : Deliveries, onHand : Levels, seen : Levels]
    BY <1>7, <1>9
  <2> QED BY <2>1, <2>2, TakenKnows
<1> QED BY <1>1, <1>8, <1>9, ContinueStep

LEMMA RefreshReservedStep == ASSUME IInv, NEW r \in Requests, RefreshReserved(r) PROVE IInv'
<1> DEFINE d == tx[r].id
<1>1. RowTypes /\ ConfirmKnows(r) /\ pc[r] = "refresh" /\ tables' = tables
      /\ \A x \in needs[r] : Free(r, x)
  BY Parts, ConfirmAt DEF RowsRight, RefreshReserved, At
<1>2. /\ Taken(locks[r], d)
      /\ tx[r] \in [op : {"confirm"}, id : Deliveries, onHand : Levels, seen : Levels]
  BY <1>1, TakenAt
<1>3. PICK seen \in {tx[r].seen, Reserved(order, delivered)} :
        Continue(r, "sum", {}, [tx[r] EXCEPT !.seen = seen])
  BY DEF RefreshReserved
<1>4. PICK t : t = [tx[r] EXCEPT !.seen = seen]
  OBVIOUS
<1>5. seen \in Levels
  BY <1>1, <1>2, OrderReserved
<1>6. t \in [op : {"confirm"}, id : Deliveries, onHand : Levels, seen : Levels] /\ t.id = d
  BY <1>2, <1>4, <1>5
<1>7. Continue(r, "sum", {}, t)
  BY <1>3, <1>4
<1>8. ASSUME pc'[r] = "sum", tx'[r] = t, locks'[r] = locks[r] \union needs[r]
      PROVE  Knows(r)'
  <2>1. Taken(locks[r], tx[r].id)'
    BY <1>1, <1>2, <1>6, <1>8, TakenKept
  <2>2. /\ pc'[r] \in {"summary", "refresh", "sum"} /\ pc'[r] # "summary"
        /\ tx'[r] \in [op : {"confirm"}, id : Deliveries, onHand : Levels, seen : Levels]
    BY <1>6, <1>8
  <2> QED BY <2>1, <2>2, TakenKnows
<1> QED BY <1>1, <1>7, <1>8, ContinueStep

LEMMA SumDeliveredStep == ASSUME IInv, NEW r \in Requests, SumDelivered(r) PROVE IInv'
<1>1. PICK d : d = tx[r].id
  OBVIOUS
<1>2. PICK o : o = delivery[d].order
  OBVIOUS
<1>3. RowTypes /\ ConfirmKnows(r) /\ pc[r] = "sum" /\ tables' = tables
      /\ \A x \in needs[r] : Free(r, x)
  BY Parts, ConfirmAt DEF RowsRight, SumDelivered, At
<1>4. /\ Taken(locks[r], d) /\ d \in Deliveries /\ delivery[d].status = "draft"
      /\ tx[r] \in [op : {"confirm"}, id : Deliveries, onHand : Levels, seen : Levels]
  BY <1>1, <1>3, TakenAt DEF Taken
<1>5. PICK done : done = [i \in ItemsOf(o) |-> QuantityOf(Summed(d), i)]
  OBVIOUS
<1>6. PICK t : t = [op |-> "confirm", id |-> d, onHand |-> tx[r].onHand, seen |-> tx[r].seen,
                    done |-> done]
  OBVIOUS
<1>7. Continue(r, "commitConfirm", {}, t)
  BY <1>1, <1>2, <1>5, <1>6 DEF SumDelivered
<1>8. done \in [ItemsOf(o) -> Nat]
  <2>1. PICK S : S = Summed(d)
    OBVIOUS
  <2>2. S \in SUBSET Deliveries
    BY <1>4, <2>1 DEF Summed, Confirmed
  <2>3. \A i : QuantityOf(S, i) \in Nat
    <3>1. delivery \in [Deliveries -> DeliveryRow]
      BY <1>3 DEF RowTypes
    <3> QED BY <2>2, <3>1, SetNat, SumsOfRows
  <2> QED BY <1>5, <2>1, <2>3
<1>9. ASSUME pc'[r] = "commitConfirm", tx'[r] = t, locks'[r] = locks[r] \union needs[r]
      PROVE  Knows(r)'
  <2>1. Taken(locks[r], tx[r].id)'
    BY <1>3, <1>4, <1>6, <1>9, TakenKept
  <2>2. delivery' = delivery /\ tx'[r].id = d
    BY <1>3, <1>6, <1>9, SameTables
  <2>3. tx'[r] \in [op : {"confirm"}, id : Deliveries, onHand : Levels, seen : Levels,
                    done : [ItemsOf(o) -> Nat]]
    BY <1>4, <1>6, <1>8, <1>9
  <2>4. \A i \in ItemsOf(o) : tx'[r].done[i] = QuantityOf(Summed(d), i)
    BY <1>5, <1>6, <1>9
  <2>5. \A i : QuantityOf(Summed(tx[r].id), i)' = QuantityOf(Summed(d), i)
    <3>1. Summed(tx[r].id)' = Summed(d)
      BY <2>2 DEF Summed, Confirmed
    <3> QED BY <2>2, <3>1 DEF QuantityOf
  <2> QED BY <1>2, <1>4, <1>9, <2>1, <2>2, <2>3, <2>4, <2>5 DEF Knows, ConfirmKnows, Taken
<1> QED BY <1>3, <1>7, <1>9, ContinueStep

-----------------------------------------------------------------------------
(* CustomerInvoiceService.createInvoice and PaymentReceiptService.create,  *)
(* up to their COMMIT.                                                     *)
LEMMA LockInvoiceOrderStep == ASSUME IInv, NEW r \in Requests, LockInvoiceOrder(r) PROVE IInv'
<1> DEFINE o == tx[r].order
           open == order[o] \in {"confirmed", "partial", "delivered"}
<1>1. InvoiceKnows(r) /\ pc[r] = "invoiceOrder" /\ tables' = tables
      /\ \A x \in needs[r] : Free(r, x)
  BY Parts, InvoiceAt DEF LockInvoiceOrder, At
<1>2. CASE ~ open
  BY <1>1, <1>2, RollbackStep DEF LockInvoiceOrder
<1>3. CASE open
  <2>1. /\ tx[r] \in [op : {"invoice"}, order : Orders, deliveries : SUBSET Deliveries]
        /\ needs[r] = {OrderLock(o)}
    BY <1>1 DEF InvoiceKnows
  <2>2. PICK need : need = {DeliveryLock(d) : d \in tx[r].deliveries}
    OBVIOUS
  <2>3. Continue(r, "deliveries", need, tx[r])
    BY <1>3, <2>2 DEF LockInvoiceOrder
  <2>4. ASSUME pc'[r] = "deliveries", needs'[r] = need, tx'[r] = tx[r],
               locks'[r] = locks[r] \union needs[r]
        PROVE  Knows(r)'
    <3>1. order' = order
      BY <1>1, SameTables
    <3>2. OrderLock(o) \in locks'[r]
      BY <2>1, <2>4
    <3> QED BY <1>3, <2>1, <2>2, <2>4, <3>1, <3>2 DEF Knows, InvoiceKnows
  <2> QED BY <1>1, <2>3, <2>4, ContinueStep
<1> QED BY <1>2, <1>3

LEMMA LockDeliveriesStep == ASSUME IInv, NEW r \in Requests, LockDeliveries(r) PROVE IInv'
<1> DEFINE o == tx[r].order  billed == tx[r].deliveries
           all == billed \subseteq Confirmed(o)
<1>1. InvoiceKnows(r) /\ pc[r] = "deliveries" /\ tables' = tables
      /\ \A x \in needs[r] : Free(r, x)
  BY Parts, InvoiceAt DEF LockDeliveries, At
<1>2. CASE ~ all
  BY <1>1, <1>2, RollbackStep DEF LockDeliveries
<1>3. CASE all
  <2>1. /\ tx[r] \in [op : {"invoice"}, order : Orders, deliveries : SUBSET Deliveries]
        /\ needs[r] = {DeliveryLock(d) : d \in billed} /\ OrderLock(o) \in locks[r]
        /\ order[o] \in {"confirmed", "partial", "delivered"}
    BY <1>1 DEF InvoiceKnows
  <2>2. Continue(r, "invoiced", {}, tx[r])
    BY <1>3 DEF LockDeliveries
  <2>3. ASSUME pc'[r] = "invoiced", tx'[r] = tx[r], locks'[r] = locks[r] \union needs[r]
        PROVE  Knows(r)'
    <3>1. order' = order /\ Confirmed(o)' = Confirmed(o)
      BY <1>1, <2>3, SameTables DEF Confirmed
    <3>2. OrderLock(o) \in locks'[r] /\ \A d \in billed : DeliveryLock(d) \in locks'[r]
      BY <2>1, <2>3
    <3> QED BY <1>3, <2>1, <2>3, <3>1, <3>2 DEF Knows, InvoiceKnows
  <2> QED BY <1>1, <2>2, <2>3, ContinueStep
<1> QED BY <1>2, <1>3

LEMMA CheckInvoicedStep == ASSUME IInv, NEW r \in Requests, CheckInvoiced(r) PROVE IInv'
<1> DEFINE o == tx[r].order  billed == tx[r].deliveries
<1>1. InvoiceKnows(r) /\ pc[r] = "invoiced" /\ tables' = tables
      /\ \A x \in needs[r] : Free(r, x)
  BY Parts, InvoiceAt DEF CheckInvoiced, At
<1>2. CASE AlreadyInvoiced(billed)
  BY <1>1, <1>2, RollbackStep DEF CheckInvoiced
<1>3. CASE ~ AlreadyInvoiced(billed)
  <2>1. /\ tx[r] \in [op : {"invoice"}, order : Orders, deliveries : SUBSET Deliveries]
        /\ OrderLock(o) \in locks[r] /\ order[o] \in {"confirmed", "partial", "delivered"}
        /\ billed \subseteq Confirmed(o) /\ \A d \in billed : DeliveryLock(d) \in locks[r]
    BY <1>1 DEF InvoiceKnows
  <2>2. Continue(r, "commitInvoice", {}, tx[r])
    BY <1>3 DEF CheckInvoiced
  <2>3. ASSUME pc'[r] = "commitInvoice", tx'[r] = tx[r],
               locks'[r] = locks[r] \union needs[r]
        PROVE  Knows(r)'
    <3>1. order' = order /\ Confirmed(o)' = Confirmed(o) /\ Invoiced' = Invoiced
      BY <1>1, <2>3, SameTables, SameSets DEF Confirmed
    <3>2. OrderLock(o) \in locks'[r] /\ \A d \in billed : DeliveryLock(d) \in locks'[r]
      BY <2>1, <2>3
    <3>3. billed \intersect Invoiced' = {}
      BY <1>3, <3>1 DEF AlreadyInvoiced
    <3> QED BY <2>1, <2>3, <3>1, <3>2, <3>3 DEF Knows, InvoiceKnows
  <2> QED BY <1>1, <2>2, <2>3, ContinueStep
<1> QED BY <1>2, <1>3

LEMMA LockInvoicesStep == ASSUME IInv, NEW r \in Requests, LockInvoices(r) PROVE IInv'
<1>1. ReceiptKnows(r) /\ tables' = tables /\ \A x \in needs[r] : Free(r, x)
  BY Parts, ReceiptAt DEF LockInvoices, At
<1>2. /\ tx[r] = [op |-> "receipt", set |-> tx[r].set, todo |-> tx[r].todo]
      /\ \A v \in DOMAIN tx[r].set : v \in ActiveInvoices' /\ tx[r].set[v] \in Payments
  BY <1>1, SameTables, SameSets DEF ReceiptKnows
<1>3. PICK v : v = Min(tx[r].todo)
  OBVIOUS
<1>4. PICK rest : rest = tx[r].todo \ {v}
  OBVIOUS
<1>5. PICK t : t = [tx[r] EXCEPT !.todo = rest]
  OBVIOUS
<1>6. \/ End(r)
      \/ Continue(r, "commitReceipt", {}, tx[r])
      \/ Continue(r, "invoices", {InvoiceLock(Min(rest))}, t)
  BY <1>3, <1>4, <1>5 DEF LockInvoices
<1>7. CASE End(r)
  BY <1>1, <1>7, RollbackStep
<1>8. CASE Continue(r, "commitReceipt", {}, tx[r])
  <2>1. ASSUME pc'[r] = "commitReceipt", tx'[r] = tx[r] PROVE Knows(r)'
    BY <1>2, <2>1 DEF Knows, ReceiptKnows
  <2> QED BY <1>1, <1>8, <2>1, ContinueStep
<1>9. CASE Continue(r, "invoices", {InvoiceLock(Min(rest))}, t)
  <2>1. t = [op |-> "receipt", set |-> tx[r].set, todo |-> rest]
    BY <1>2, <1>5
  <2>2. t.set = tx[r].set /\ t.todo = rest
    BY <2>1
  <2>3. ASSUME pc'[r] = "invoices", tx'[r] = t PROVE Knows(r)'
    BY <1>2, <2>1, <2>2, <2>3 DEF Knows, ReceiptKnows
  <2> QED BY <1>1, <1>9, <2>3, ContinueStep
<1> QED BY <1>6, <1>7, <1>8, <1>9

-----------------------------------------------------------------------------
(* The steps that write.                                                   *)
LEMMA OthersLack ==
    ASSUME IInv, NEW r \in Requests, NEW x, x \in locks[r], NEW q \in Requests \ {r}
    PROVE  x \notin locks[q]
BY Parts DEF RequestsRight, LocksExclusive

LEMMA LockNames ==
    /\ \A o, p : OrderLock(o) = OrderLock(p) => o = p
    /\ \A d, e : DeliveryLock(d) = DeliveryLock(e) => d = e
    /\ \A v, w : StockLock(v) = StockLock(w) => v = w
BY DEF OrderLock, DeliveryLock, StockLock

(* Invoices and the confirmed deliveries stay as they are.                 *)
LEMMA PapersSame ==
    ASSUME delivery' = delivery, invoice' = invoice, delivered' = delivered
    PROVE  /\ \A o : Confirmed(o)' = Confirmed(o)
           /\ ActiveInvoices' = ActiveInvoices /\ Invoiced' = Invoiced /\ Left' = Left
           /\ \A S, i : QuantityOf(S, i)' = QuantityOf(S, i)
           /\ \A S : AmountOf(S)' = AmountOf(S)
           /\ \A o : FullyInvoiced(o, Invoiced)' <=> FullyInvoiced(o, Invoiced)
<1>1. /\ \A o : Confirmed(o)' = Confirmed(o)
      /\ ActiveInvoices' = ActiveInvoices /\ Invoiced' = Invoiced
  BY SameSets
<1>2. Left' = Left
  BY <1>1 DEF Left
<1>3. /\ \A S, i : QuantityOf(S, i)' = QuantityOf(S, i)
      /\ \A S : AmountOf(S)' = AmountOf(S)
  BY SumsOfRows
<1>4. \A o : FullyInvoiced(o, Invoiced)' <=> FullyInvoiced(o, Invoiced)
  BY <1>1, <1>3 DEF FullyInvoiced
<1> QED BY <1>1, <1>2, <1>3, <1>4

LEMMA CommitStatusStep == ASSUME IInv, NEW r \in Requests, CommitStatus(r) PROVE IInv'
<1> DEFINE o == tx[r].order
<1>1. RowsRight /\ RowTypes /\ StatusKnows(r) /\ pc[r] = "commitStatus"
  BY Parts, StatusAt DEF RowsRight, CommitStatus, At
<1>2. /\ o \in Orders /\ tx[r].op \in {"confirmed", "cancelled"} /\ tx[r].seen \in Levels
      /\ OrderLock(o) \in locks[r]
  BY <1>1 DEF StatusKnows
<1>3. /\ order' = [order EXCEPT ![o] = tx[r].op]
      /\ available' = Minus(summary, tx[r].seen)
      /\ delivered' = delivered /\ delivery' = delivery /\ invoice' = invoice
      /\ receivable' = receivable /\ allocated' = allocated /\ arrived' = arrived
      /\ stock' = stock /\ summary' = summary /\ End(r)
  BY DEF CommitStatus, papers, goods
<1>4. demand' \in [Items -> {"none", "open", "cancelled"}]
  <2>1. demand' = [i \in Items |->
                    IF tx[r].op = "confirmed" /\ i \in ItemsOf(o) \intersect Manufactured
                    THEN Demanded(i) ELSE demand[i]]
    BY DEF CommitStatus
  <2>2. \A i \in Items : demand[i] \in {"none", "open", "cancelled"}
    BY <1>1 DEF RowTypes
  <2>3. \A i \in Items : Demanded(i) \in {"none", "open", "cancelled"}
    BY <2>2 DEF Demanded
  <2> QED BY <2>1, <2>2, <2>3
<1>5. available' \in Levels
  <2>1. \A v \in Variants : summary[v] \in Int /\ tx[r].seen[v] \in Int
    BY <1>1, <1>2 DEF RowTypes, Levels
  <2> QED BY <1>3, <2>1 DEF Minus, Levels
<1>6. RowTypes'
  BY <1>1, <1>2, <1>3, <1>4, <1>5 DEF RowTypes
<1>7. /\ \A p : Confirmed(p)' = Confirmed(p)
      /\ ActiveInvoices' = ActiveInvoices /\ Invoiced' = Invoiced /\ Left' = Left
      /\ \A S, i : QuantityOf(S, i)' = QuantityOf(S, i)
      /\ \A S : AmountOf(S)' = AmountOf(S)
      /\ \A p : FullyInvoiced(p, Invoiced)' <=> FullyInvoiced(p, Invoiced)
  BY <1>3, PapersSame
<1>8. DeliveredRight' /\ StockRight'
  BY <1>1, <1>3, <1>7 DEF RowsRight, DeliveredRight, StockRight
<1>9. InvoicesCoverDeliveries'
  <2>1. \A p \in Orders : order'[p] = "invoiced" => order[p] = "invoiced"
    BY <1>1, <1>2, <1>3 DEF RowTypes
  <2> QED BY <1>1, <1>3, <1>7, <2>1 DEF RowsRight, InvoicesCoverDeliveries
<1>10. ReceiptsAddUp' /\ InvoicedAreConfirmed' /\ AllocatedToIssued'
  BY <1>1, <1>3, <1>7 DEF RowsRight, ReceiptsAddUp, InvoicedAreConfirmed, AllocatedToIssued
<1>11. ASSUME NEW q \in Requests \ {r} PROVE Respects(locks[q])
  <2>1. OrderLock(o) \notin locks[q]
    BY <1>2, OthersLack
  <2>2. \A p \in Orders : OrderLock(p) \in locks[q] => order'[p] = order[p]
    BY <1>1, <1>3, <2>1 DEF RowTypes
  <2>3. \A v \in Variants : stock'[v] >= stock[v]
    BY <1>1, <1>3 DEF RowTypes
  <2> QED BY <1>3, <1>7, <2>2, <2>3 DEF Respects
<1>12. RowsRight'
  BY <1>6, <1>8, <1>9, <1>10 DEF RowsRight
<1> QED BY <1>3, <1>11, <1>12, EndStep

LEMMA CancelDemandStep == ASSUME IInv, NEW r \in Requests, CancelDemand(r) PROVE IInv'
<1>1. PICK i \in Items :
        /\ Autocommit(r, <<"demand", i>>) /\ demand' = [demand EXCEPT ![i] = "cancelled"]
        /\ UNCHANGED <<order, delivered, papers, goods, available>>
  BY DEF CancelDemand
<1>2. /\ order' = order /\ available' = available
      /\ delivered' = delivered /\ delivery' = delivery /\ invoice' = invoice
      /\ receivable' = receivable /\ allocated' = allocated /\ arrived' = arrived
      /\ stock' = stock /\ summary' = summary
  BY <1>1 DEF papers, goods
<1>3. RowsRight /\ RowTypes
  BY Parts DEF RowsRight
<1>4. RowTypes'
  BY <1>1, <1>2, <1>3 DEF RowTypes
<1>5. /\ \A p : Confirmed(p)' = Confirmed(p)
      /\ ActiveInvoices' = ActiveInvoices /\ Invoiced' = Invoiced /\ Left' = Left
      /\ \A S, x : QuantityOf(S, x)' = QuantityOf(S, x)
      /\ \A S : AmountOf(S)' = AmountOf(S)
      /\ \A p : FullyInvoiced(p, Invoiced)' <=> FullyInvoiced(p, Invoiced)
  BY <1>2, PapersSame
<1>6. DeliveredRight' /\ StockRight' /\ InvoicesCoverDeliveries'
  BY <1>2, <1>3, <1>5 DEF RowsRight, DeliveredRight, StockRight, InvoicesCoverDeliveries
<1>7. ReceiptsAddUp' /\ InvoicedAreConfirmed' /\ AllocatedToIssued'
  BY <1>2, <1>3, <1>5 DEF RowsRight, ReceiptsAddUp, InvoicedAreConfirmed, AllocatedToIssued
<1>8. ASSUME NEW q \in Requests \ {r} PROVE Respects(locks[q])
  <2>1. \A v \in Variants : stock'[v] >= stock[v]
    BY <1>2, <1>3 DEF RowTypes
  <2> QED BY <1>2, <1>5, <2>1 DEF Respects
<1>9. RowsRight'
  BY <1>4, <1>6, <1>7 DEF RowsRight
<1> QED BY <1>1, <1>8, <1>9, AutoStep

LEMMA ArriveStep == ASSUME IInv, NEW r \in Requests, Arrive(r) PROVE IInv'
<1>1. PICK v \in Variants, n \in Arrivals :
        /\ Autocommit(r, SummaryView)
        /\ stock' = [stock EXCEPT ![v] = @ + n] /\ arrived' = [arrived EXCEPT ![v] = @ + n]
        /\ summary' = stock'
        /\ UNCHANGED <<order, delivered, demand, papers, available>>
  BY DEF Arrive
<1>2. /\ order' = order /\ available' = available /\ demand' = demand
      /\ delivered' = delivered /\ delivery' = delivery /\ invoice' = invoice
      /\ receivable' = receivable /\ allocated' = allocated
  BY <1>1 DEF papers
<1>3. RowsRight /\ RowTypes /\ n \in Nat
  BY Parts, SalesConstants DEF RowsRight
<1>4. /\ stock' \in [Variants -> Nat] /\ arrived' \in [Variants -> Nat] /\ summary' \in Levels
      /\ \A u \in Variants : stock'[u] >= stock[u]
      /\ \A u \in Variants : stock'[u] - stock[u] = arrived'[u] - arrived[u]
  <2>1. stock \in [Variants -> Nat] /\ arrived \in [Variants -> Nat]
    BY <1>3 DEF RowTypes
  <2>2. stock' \in [Variants -> Nat] /\ arrived' \in [Variants -> Nat]
    BY <1>1, <1>3, <2>1
  <2>3. summary' \in Levels
    BY <1>1, <2>2 DEF Levels
  <2> QED BY <1>1, <1>3, <2>1, <2>2, <2>3
<1>5. RowTypes'
  BY <1>2, <1>3, <1>4 DEF RowTypes
<1>6. /\ \A p : Confirmed(p)' = Confirmed(p)
      /\ ActiveInvoices' = ActiveInvoices /\ Invoiced' = Invoiced /\ Left' = Left
      /\ \A S, x : QuantityOf(S, x)' = QuantityOf(S, x)
      /\ \A S : AmountOf(S)' = AmountOf(S)
      /\ \A p : FullyInvoiced(p, Invoiced)' <=> FullyInvoiced(p, Invoiced)
  BY <1>2, PapersSame
<1>7. DeliveredRight' /\ InvoicesCoverDeliveries'
  BY <1>2, <1>3, <1>6 DEF RowsRight, DeliveredRight, InvoicesCoverDeliveries
<1>8. StockRight'
  <2>1. Left \in SUBSET Deliveries
    BY DEF Left, Confirmed
  <2>2. ASSUME NEW u \in Variants
        PROVE  stock'[u] + LeftIn(delivery, Left, u) = OnHand[u] + arrived'[u]
    <3>1. stock[u] + LeftIn(delivery, Left, u) = OnHand[u] + arrived[u]
      BY <1>3 DEF RowsRight, StockRight
    <3>2. LeftIn(delivery, Left, u) \in Nat
      BY <1>3, <2>1, SetNat DEF RowTypes
    <3>3. stock[u] \in Nat /\ arrived[u] \in Nat
      BY <1>3 DEF RowTypes
    <3>4. /\ stock'[u] \in Nat /\ arrived'[u] \in Nat
          /\ stock'[u] - stock[u] = arrived'[u] - arrived[u]
      BY <1>4
    <3>5. OnHand[u] \in Nat
      BY SalesConstants
    <3> QED BY <3>1, <3>2, <3>3, <3>4, <3>5
  <2> QED BY <1>2, <1>6, <2>2 DEF StockRight
<1>9. ReceiptsAddUp' /\ InvoicedAreConfirmed' /\ AllocatedToIssued'
  BY <1>2, <1>3, <1>6 DEF RowsRight, ReceiptsAddUp, InvoicedAreConfirmed, AllocatedToIssued
<1>10. ASSUME NEW q \in Requests \ {r} PROVE Respects(locks[q])
  BY <1>2, <1>4, <1>6 DEF Respects
<1>11. RowsRight'
  BY <1>5, <1>7, <1>8, <1>9 DEF RowsRight
<1> QED BY <1>1, <1>10, <1>11, AutoStep

(* Sums over deliveries whose lines stay.                                  *)
LEMMA LinesStay ==
    ASSUME RowTypes, delivery' \in [Deliveries -> DeliveryRow], NEW S \in SUBSET Deliveries,
           \A d \in S : delivery'[d].lines = delivery[d].lines
    PROVE  /\ \A x : QuantityOf(S, x)' = QuantityOf(S, x)
           /\ \A x : LeftIn(delivery', S, x) = LeftIn(delivery, S, x)
           /\ AmountOf(S)' = AmountOf(S)
<1>1. PICK rows : rows = delivery
  OBVIOUS
<1>2. PICK next : next = delivery'
  OBVIOUS
<1>3. rows \in [Deliveries -> DeliveryRow] /\ next \in [Deliveries -> DeliveryRow]
      /\ \A d \in S : next[d].lines = rows[d].lines
  BY <1>1, <1>2 DEF RowTypes
<1>4. ASSUME NEW x
      PROVE  /\ ListedIn(next, S, x) = ListedIn(rows, S, x)
             /\ LeftIn(next, S, x) = LeftIn(rows, S, x)
             /\ PiecesIn(next, S) = PiecesIn(rows, S)
  BY <1>3, SetSame
<1>5. \A x : ListedIn(delivery', S, x) = ListedIn(delivery, S, x)
  BY <1>1, <1>2, <1>4
<1>6. \A x : LeftIn(delivery', S, x) = LeftIn(delivery, S, x)
  BY <1>1, <1>2, <1>4
<1>7. PiecesIn(delivery', S) = PiecesIn(delivery, S)
  BY <1>1, <1>2, <1>4
<1> QED BY <1>5, <1>6, <1>7, SumsOfRows

(* The deliveries that left, and those invoiced.                           *)
LEMMA LeftAre ==
    ASSUME RowTypes
    PROVE  Left = {d \in Deliveries : delivery[d].status = "confirmed"}
<1>1. \A d \in Deliveries : delivery[d].status = "confirmed" => delivery[d].order \in Orders
  BY RowLines DEF RowTypes
<1> QED BY <1>1 DEF Left, Confirmed

LEMMA InvoicedLeft ==
    ASSUME RowsRight
    PROVE  /\ Invoiced \in SUBSET Deliveries
           /\ \A d \in Invoiced : delivery[d].status = "confirmed"
           /\ \A v \in ActiveInvoices : invoice[v] \in InvoiceRow
                                        /\ invoice[v].deliveries \in SUBSET Invoiced
<1>1. \A v \in ActiveInvoices : invoice[v] \in InvoiceRow /\ invoice[v].status # "none"
  BY DEF RowsRight, RowTypes, ActiveInvoices
<1>2. \A v \in ActiveInvoices : invoice[v].deliveries \in SUBSET Deliveries
  BY <1>1 DEF InvoiceRow, NoInvoice
<1>3. \A v \in ActiveInvoices : invoice[v].deliveries \in SUBSET Invoiced
  BY DEF Invoiced
<1>4. Invoiced \in SUBSET Deliveries
  BY <1>2 DEF Invoiced
<1>5. \A d \in Invoiced : delivery[d].status = "confirmed"
  BY DEF RowsRight, InvoicedAreConfirmed, Invoiced
<1> QED BY <1>1, <1>3, <1>4, <1>5

(* Deliveries are created and cancelled, none is confirmed.                *)
LEMMA DeliveriesStep ==
    ASSUME RowsRight, delivery' \in [Deliveries -> DeliveryRow],
           \A e \in Deliveries :
             /\ delivery'[e].status = "confirmed" <=> delivery[e].status = "confirmed"
             /\ delivery[e].status = "confirmed" => delivery'[e].lines = delivery[e].lines
                                                    /\ delivery'[e].order = delivery[e].order,
           order' = order, delivered' = delivered, demand' = demand, invoice' = invoice,
           receivable' = receivable, allocated' = allocated, arrived' = arrived,
           stock' = stock, summary' = summary, available' = available
    PROVE  /\ RowsRight' /\ ActiveInvoices' = ActiveInvoices /\ Invoiced' = Invoiced
           /\ \A o : Confirmed(o)' = Confirmed(o)
<1>1. RowTypes /\ RowTypes'
  BY DEF RowsRight, RowTypes
<1>2. \A o : Confirmed(o)' = Confirmed(o)
  BY DEF Confirmed
<1>3. ActiveInvoices' = ActiveInvoices /\ Invoiced' = Invoiced /\ Left' = Left
  <2>1. Left' = Left
    BY <1>2 DEF Left
  <2> QED BY <2>1, SameSets
<1>4. ASSUME NEW S \in SUBSET Deliveries, \A e \in S : delivery[e].status = "confirmed"
      PROVE  /\ \A x : QuantityOf(S, x)' = QuantityOf(S, x)
             /\ \A x : LeftIn(delivery', S, x) = LeftIn(delivery, S, x)
             /\ AmountOf(S)' = AmountOf(S)
  <2>1. \A e \in S : delivery'[e].lines = delivery[e].lines
    BY <1>4
  <2> QED BY <1>1, <2>1, LinesStay
<1>5. DeliveredRight'
  <2>1. ASSUME NEW i \in Items PROVE delivered'[i] = QuantityOf(Confirmed(OrderOf[i]), i)'
    <3>1. PICK S : S = Confirmed(OrderOf[i])
      OBVIOUS
    <3>2. S \in SUBSET Deliveries /\ \A e \in S : delivery[e].status = "confirmed"
      BY <3>1 DEF Confirmed
    <3>3. QuantityOf(S, i)' = QuantityOf(S, i)
      BY <1>4, <3>2
    <3>4. delivered[i] = QuantityOf(S, i)
      BY <3>1 DEF RowsRight, DeliveredRight
    <3>5. Confirmed(OrderOf[i])' = S
      BY <1>2, <3>1
    <3> QED BY <3>3, <3>4, <3>5
  <2> QED BY <2>1 DEF DeliveredRight
<1>6. StockRight'
  <2>1. Left \in SUBSET Deliveries /\ \A e \in Left : delivery[e].status = "confirmed"
    BY DEF Left, Confirmed
  <2>2. \A v \in Variants : LeftIn(delivery', Left, v) = LeftIn(delivery, Left, v)
    BY <1>4, <2>1
  <2> QED BY <1>3, <2>2 DEF RowsRight, StockRight
<1>7. InvoicesCoverDeliveries'
  <2>1. PICK S : S = Invoiced
    OBVIOUS
  <2>2. \A i : QuantityOf(S, i)' = QuantityOf(S, i)
    BY <1>4, <2>1, InvoicedLeft
  <2>3. \A o \in Orders : FullyInvoiced(o, Invoiced)' <=> FullyInvoiced(o, Invoiced)
    BY <1>3, <2>1, <2>2 DEF FullyInvoiced
  <2> QED BY <1>3, <2>3 DEF RowsRight, InvoicesCoverDeliveries
<1>8. ReceiptsAddUp'
  <2>1. ASSUME NEW v \in ActiveInvoices
        PROVE  AmountOf(invoice[v].deliveries)' = AmountOf(invoice[v].deliveries)
    <3>1. PICK S : S = invoice[v].deliveries
      OBVIOUS
    <3>2. S \in SUBSET Deliveries /\ \A e \in S : delivery[e].status = "confirmed"
      BY <3>1, InvoicedLeft
    <3>3. AmountOf(S)' = AmountOf(S)
      BY <1>4, <3>2
    <3> QED BY <3>1, <3>3
  <2> QED BY <1>3, <2>1 DEF RowsRight, ReceiptsAddUp
<1>9. InvoicedAreConfirmed' /\ AllocatedToIssued'
  <2>1. InvoicedAreConfirmed'
    <3>1. \A v \in ActiveInvoices : \A d \in invoice[v].deliveries :
            d \in Deliveries /\ delivery[d].status = "confirmed"
      BY InvoicedLeft
    <3> QED BY <1>3, <3>1 DEF InvoicedAreConfirmed
  <2> QED BY <1>3, <2>1 DEF RowsRight, AllocatedToIssued
<1> QED BY <1>1, <1>2, <1>3, <1>5, <1>6, <1>7, <1>8, <1>9 DEF RowsRight

LEMMA InsertDeliveryStep == ASSUME IInv, NEW r \in Requests, InsertDelivery(r) PROVE IInv'
<1>1. RowsRight /\ RowTypes /\ DeliverKnows(r)
  BY Parts, DeliverAt DEF RowsRight, InsertDelivery
<1>2. PICK fresh : fresh = {e \in Deliveries : delivery[e].status = "none"}
  OBVIOUS
<1>3. PICK d : d = Min(fresh)
  OBVIOUS
<1>4. d \in Deliveries /\ delivery[d].status = "none"
  <2>1. fresh # {} /\ fresh \in SUBSET Nat
    BY <1>2, IdsFinite DEF InsertDelivery
  <2> QED BY <1>2, <1>3, <2>1, MinIn
<1>5. PICK row : row = [status |-> "draft", order |-> tx[r].order, lines |-> tx[r].lines]
  OBVIOUS
<1>6. /\ delivery' = [delivery EXCEPT ![d] = row] /\ End(r)
      /\ order' = order /\ delivered' = delivered /\ demand' = demand /\ invoice' = invoice
      /\ receivable' = receivable /\ allocated' = allocated /\ arrived' = arrived
      /\ stock' = stock /\ summary' = summary /\ available' = available
  BY <1>2, <1>3, <1>5 DEF InsertDelivery, goods
<1>7. row \in DeliveryRow /\ row.status = "draft"
  BY <1>1, <1>5 DEF DeliverKnows, DeliveryRow
<1>8. delivery \in [Deliveries -> DeliveryRow]
  BY <1>1 DEF RowTypes
<1>9. /\ delivery' \in [Deliveries -> DeliveryRow] /\ delivery'[d] = row
      /\ \A e \in Deliveries \ {d} : delivery'[e] = delivery[e]
  BY <1>4, <1>6, <1>7, <1>8
<1>10. \A e \in Deliveries :
         /\ delivery'[e].status = "confirmed" <=> delivery[e].status = "confirmed"
         /\ delivery[e].status = "confirmed" => delivery'[e].lines = delivery[e].lines
                                                /\ delivery'[e].order = delivery[e].order
  BY <1>4, <1>7, <1>9
<1>11. /\ RowsRight' /\ ActiveInvoices' = ActiveInvoices /\ Invoiced' = Invoiced
       /\ \A o : Confirmed(o)' = Confirmed(o)
  BY <1>1, <1>6, <1>9, <1>10, DeliveriesStep
<1>12. ASSUME NEW q \in Requests \ {r} PROVE Respects(locks[q])
  <2>1. \A e \in Deliveries : delivery[e].status # "none" => delivery'[e] = delivery[e]
    BY <1>4, <1>9
  <2>2. \A v \in Variants : stock'[v] >= stock[v]
    BY <1>1, <1>6 DEF RowTypes
  <2> QED BY <1>6, <1>11, <2>1, <2>2 DEF Respects
<1> QED BY <1>6, <1>11, <1>12, EndStep

LEMMA CancelDeliveryStep == ASSUME IInv, NEW r \in Requests, CancelDelivery(r) PROVE IInv'
<1>1. RowsRight /\ RowTypes
  BY Parts DEF RowsRight
<1>2. PICK d \in Deliveries :
        /\ Autocommit(r, DeliveryLock(d)) /\ DeliveryCancellable(d)
        /\ delivery' = [delivery EXCEPT ![d].status = "cancelled"]
        /\ UNCHANGED <<order, delivered, demand, invoice, receivable, allocated,
                       goods, available>>
  BY DEF CancelDelivery
<1>3. /\ order' = order /\ delivered' = delivered /\ demand' = demand /\ invoice' = invoice
      /\ receivable' = receivable /\ allocated' = allocated /\ arrived' = arrived
      /\ stock' = stock /\ summary' = summary /\ available' = available
  BY <1>2 DEF goods
<1>4. delivery \in [Deliveries -> DeliveryRow] /\ delivery[d].status = "draft"
  BY <1>1, <1>2 DEF RowTypes, DeliveryCancellable
<1>5. PICK row : row = [delivery[d] EXCEPT !.status = "cancelled"]
  OBVIOUS
<1>6. /\ row \in DeliveryRow /\ row.status = "cancelled"
      /\ row.lines = delivery[d].lines /\ row.order = delivery[d].order
  <2>1. delivery[d] \in [status : {"draft", "confirmed", "cancelled"}, order : Orders,
                         lines : Seq(Line)]
    BY <1>4 DEF DeliveryRow, NoDelivery
  <2> QED BY <1>5, <2>1 DEF DeliveryRow
<1>7. delivery' = [delivery EXCEPT ![d] = row]
  BY <1>2, <1>5
<1>8. /\ delivery' \in [Deliveries -> DeliveryRow] /\ delivery'[d] = row
      /\ \A e \in Deliveries \ {d} : delivery'[e] = delivery[e]
  BY <1>4, <1>6, <1>7
<1>9. \A e \in Deliveries :
        /\ delivery'[e].status = "confirmed" <=> delivery[e].status = "confirmed"
        /\ delivery[e].status = "confirmed" => delivery'[e].lines = delivery[e].lines
                                               /\ delivery'[e].order = delivery[e].order
  BY <1>4, <1>6, <1>8
<1>10. /\ RowsRight' /\ ActiveInvoices' = ActiveInvoices /\ Invoiced' = Invoiced
       /\ \A o : Confirmed(o)' = Confirmed(o)
  BY <1>1, <1>3, <1>8, <1>9, DeliveriesStep
<1>11. ASSUME NEW q \in Requests \ {r} PROVE Respects(locks[q])
  <2>1. DeliveryLock(d) \notin locks[q]
    BY <1>2 DEF Autocommit, Free
  <2>2. \A v \in Variants : stock'[v] >= stock[v]
    BY <1>1, <1>3 DEF RowTypes
  <2>3. ASSUME NEW e \in Deliveries, delivery[e].status # "none"
        PROVE  /\ delivery'[e].lines = delivery[e].lines
               /\ delivery'[e].order = delivery[e].order /\ delivery'[e].status # "none"
               /\ delivery[e].status = "confirmed" => delivery'[e].status = "confirmed"
               /\ DeliveryLock(e) \in locks[q] => delivery'[e].status = delivery[e].status
    <3>1. CASE e = d
      BY <1>4, <1>6, <1>8, <2>1, <3>1
    <3>2. CASE e # d
      BY <1>8, <2>3, <3>2
    <3> QED BY <3>1, <3>2
  <2> QED BY <1>3, <1>10, <2>2, <2>3 DEF Respects
<1> QED BY <1>2, <1>10, <1>11, AutoStep

(* The rows after DeliveryOrderService.confirm of d, of the order o.       *)
LEMMA ConfirmRows ==
    ASSUME RowsRight, NEW d \in Deliveries, delivery[d].status = "draft",
           NEW o \in Orders, delivery[d].order = o, OrderOpen(o), Covered(d),
           NEW done, done = [i \in Items |-> IF i \in ItemsOf(o)
                                             THEN QuantityOf(Confirmed(o) \union {d}, i)
                                             ELSE delivered[i]],
           NEW onHand \in Levels, NEW seen \in Levels,
           delivery' = [delivery EXCEPT ![d].status = "confirmed"],
           stock' = Minus(stock, Leaving(d)), summary' = onHand,
           available' = Minus(onHand, seen), delivered' = done,
           order' = [order EXCEPT ![o] = StatusFrom(o, done)],
           demand' = demand, invoice' = invoice, receivable' = receivable,
           allocated' = allocated, arrived' = arrived
    PROVE  /\ RowsRight' /\ ActiveInvoices' = ActiveInvoices /\ Invoiced' = Invoiced
           /\ delivery' \in [Deliveries -> DeliveryRow] /\ delivery'[d].status = "confirmed"
           /\ \A e \in Deliveries : delivery'[e].lines = delivery[e].lines
                                    /\ delivery'[e].order = delivery[e].order
           /\ \A e \in Deliveries \ {d} : delivery'[e] = delivery[e]
           /\ \A p : p # o => Confirmed(p)' = Confirmed(p)
           /\ \A v \in Variants : VariantIn(delivery[d].lines, v) \in Nat
                /\ stock'[v] = stock[v] - VariantIn(delivery[d].lines, v)
<1>1. RowTypes
  BY DEF RowsRight
<1>2. PICK row : row = [delivery[d] EXCEPT !.status = "confirmed"]
  OBVIOUS
<1>3. delivery \in [Deliveries -> DeliveryRow]
  BY <1>1 DEF RowTypes
<1>4. /\ row \in DeliveryRow /\ row.status = "confirmed"
      /\ row.lines = delivery[d].lines /\ row.order = delivery[d].order
  <2>1. delivery[d] \in [status : {"draft", "confirmed", "cancelled"}, order : Orders,
                         lines : Seq(Line)]
    BY <1>3 DEF DeliveryRow, NoDelivery
  <2> QED BY <1>2, <2>1 DEF DeliveryRow
<1>5. delivery' = [delivery EXCEPT ![d] = row]
  BY <1>2
<1>6. /\ delivery' \in [Deliveries -> DeliveryRow] /\ delivery'[d] = row
      /\ \A e \in Deliveries \ {d} : delivery'[e] = delivery[e]
  BY <1>3, <1>4, <1>5
<1>7. \A e \in Deliveries : delivery'[e].lines = delivery[e].lines
                            /\ delivery'[e].order = delivery[e].order
  BY <1>4, <1>6
<1>8. ASSUME NEW S \in SUBSET Deliveries
      PROVE  /\ \A x : QuantityOf(S, x)' = QuantityOf(S, x)
             /\ \A x : LeftIn(delivery', S, x) = LeftIn(delivery, S, x)
             /\ AmountOf(S)' = AmountOf(S)
  BY <1>1, <1>6, <1>7, LinesStay
<1>9. /\ Confirmed(o)' = Confirmed(o) \union {d}
      /\ \A p : p # o => Confirmed(p)' = Confirmed(p)
  BY <1>4, <1>6 DEF Confirmed
<1>10. ActiveInvoices' = ActiveInvoices /\ Invoiced' = Invoiced
  BY SameSets
<1>11. \A i \in Items : OrderOf[i] \in Orders
  BY SalesConstants
<1>12. \A i \in Items : done[i] = IF OrderOf[i] = o THEN QuantityOf(Confirmed(o) \union {d}, i)
                                  ELSE delivered[i]
  BY DEF ItemsOf
<1>13. done \in [Items -> Nat]
  <2>1. PICK S : S = Confirmed(o) \union {d}
    OBVIOUS
  <2>2. S \in SUBSET Deliveries
    BY <2>1 DEF Confirmed
  <2>3. \A i \in Items : QuantityOf(S, i) \in Nat
    BY <1>3, <2>2, SetNat, SumsOfRows
  <2>4. \A i \in Items : done[i] \in Nat
    BY <1>1, <1>12, <2>1, <2>3 DEF RowTypes
  <2> QED BY <2>4
<1>14. ASSUME NEW v \in Variants
       PROVE  /\ VariantIn(delivery[d].lines, v) \in Nat /\ stock'[v] \in Nat
              /\ stock[v] \in Nat
              /\ stock'[v] = stock[v] - VariantIn(delivery[d].lines, v)
  <2>1. VariantIn(delivery[d].lines, v) \in Nat
    BY <1>1, DraftOrder, VariantNat
  <2>2. stock[v] \in Nat /\ VariantIn(delivery[d].lines, v) <= stock[v]
    BY <1>1 DEF RowTypes, Covered
  <2>3. stock'[v] = stock[v] - VariantIn(delivery[d].lines, v)
    BY DEF Minus, Leaving
  <2> QED BY <2>1, <2>2, <2>3
<1>15. /\ order'[o] \in {"confirmed", "partial", "delivered"}
       /\ order' \in [Orders -> {"draft", "confirmed", "partial", "delivered", "invoiced",
                                 "cancelled"}]
       /\ \A p \in Orders \ {o} : order'[p] = order[p]
  <2>1. StatusFrom(o, done) \in {"confirmed", "partial", "delivered"}
    BY DEF StatusFrom, OrderOpen
  <2> QED BY <1>1, <2>1 DEF RowTypes
<1>16. RowTypes'
  <2>1. stock' \in [Variants -> Nat]
    BY <1>14 DEF Minus
  <2>2. summary' \in Levels /\ available' \in Levels
    <3>1. \A v \in Variants : onHand[v] \in Int /\ seen[v] \in Int
      BY DEF Levels
    <3> QED BY <3>1 DEF Minus, Levels
  <2> QED BY <1>1, <1>6, <1>13, <1>15, <2>1, <2>2 DEF RowTypes
<1>17. DeliveredRight'
  <2>1. ASSUME NEW i \in Items PROVE delivered'[i] = QuantityOf(Confirmed(OrderOf[i]), i)'
    <3>1. CASE OrderOf[i] = o
      <4>1. PICK S : S = Confirmed(o) \union {d}
        OBVIOUS
      <4>2. S \in SUBSET Deliveries
        BY <4>1 DEF Confirmed
      <4>3. QuantityOf(S, i)' = QuantityOf(S, i)
        BY <1>8, <4>2
      <4>4. Confirmed(OrderOf[i])' = S
        BY <1>9, <3>1, <4>1
      <4>5. delivered'[i] = QuantityOf(S, i)
        BY <1>12, <3>1, <4>1
      <4> QED BY <4>3, <4>4, <4>5
    <3>2. CASE OrderOf[i] # o
      <4>1. PICK S : S = Confirmed(OrderOf[i])
        OBVIOUS
      <4>2. S \in SUBSET Deliveries
        BY <4>1 DEF Confirmed
      <4>3. QuantityOf(S, i)' = QuantityOf(S, i)
        BY <1>8, <4>2
      <4>4. Confirmed(OrderOf[i])' = S
        BY <1>9, <3>2, <4>1
      <4>5. delivered'[i] = QuantityOf(S, i)
        BY <1>12, <3>2, <4>1 DEF RowsRight, DeliveredRight
      <4> QED BY <4>3, <4>4, <4>5
    <3> QED BY <3>1, <3>2
  <2> QED BY <2>1 DEF DeliveredRight
<1>18. StockRight'
  <2>1. PICK S : S = Left
    OBVIOUS
  <2>2. S \in SUBSET Deliveries /\ d \notin S
    BY <1>1, <2>1, LeftAre
  <2>3. Left' = S \union {d}
    <3>1. Left' = {e \in Deliveries : delivery'[e].status = "confirmed"}
      <4>1. ASSUME NEW e \in Deliveries, delivery'[e].status = "confirmed"
            PROVE  delivery'[e].order \in Orders
        BY <1>6, <4>1, RowLines
      <4> QED BY <4>1 DEF Left, Confirmed
    <3> QED BY <1>1, <1>4, <1>6, <2>1, <3>1, LeftAre
  <2>4. ASSUME NEW v \in Variants
        PROVE  stock'[v] + LeftIn(delivery', S \union {d}, v) = OnHand[v] + arrived[v]
    <3>1. PICK T : T = S \union {d}
      OBVIOUS
    <3>2. LeftIn(delivery', T, v) = LeftIn(delivery, T, v)
      BY <1>8, <2>2, <3>1
    <3>3. LeftIn(delivery, T, v) = VariantIn(delivery[d].lines, v) + LeftIn(delivery, S, v)
      BY <1>3, <2>2, <3>1, OneMoreLeaves
    <3>4. stock[v] + LeftIn(delivery, S, v) = OnHand[v] + arrived[v]
      BY <2>1 DEF RowsRight, StockRight
    <3>5. LeftIn(delivery, S, v) \in Nat
      BY <1>3, <2>2, SetNat
    <3> QED BY <1>14, <3>1, <3>2, <3>3, <3>4, <3>5
  <2> QED BY <2>3, <2>4 DEF StockRight
<1>19. InvoicesCoverDeliveries'
  <2>1. PICK S : S = Invoiced
    OBVIOUS
  <2>2. \A i : QuantityOf(S, i)' = QuantityOf(S, i)
    BY <1>8, <2>1, InvoicedLeft
  <2>3. ASSUME NEW p \in Orders, order'[p] = "invoiced" PROVE FullyInvoiced(p, Invoiced)'
    <3>1. p # o /\ order[p] = "invoiced"
      BY <1>15, <2>3
    <3>2. \A i \in ItemsOf(p) : QuantityOf(S, i) >= delivered[i]
      BY <2>1, <3>1 DEF RowsRight, InvoicesCoverDeliveries, FullyInvoiced
    <3>3. \A i \in ItemsOf(p) : i \in Items /\ delivered'[i] = delivered[i]
      BY <1>12, <3>1 DEF ItemsOf
    <3> QED BY <1>10, <2>1, <2>2, <3>2, <3>3 DEF FullyInvoiced
  <2> QED BY <1>10, <2>3 DEF RowsRight, InvoicesCoverDeliveries
<1>20. ReceiptsAddUp'
  <2>1. ASSUME NEW v \in ActiveInvoices
        PROVE  AmountOf(invoice[v].deliveries)' = AmountOf(invoice[v].deliveries)
    <3>1. PICK S : S = invoice[v].deliveries
      OBVIOUS
    <3>2. S \in SUBSET Deliveries
      BY <3>1, InvoicedLeft
    <3>3. AmountOf(S)' = AmountOf(S)
      BY <1>8, <3>2
    <3> QED BY <3>1, <3>3
  <2> QED BY <1>10, <2>1 DEF RowsRight, ReceiptsAddUp
<1>21. InvoicedAreConfirmed' /\ AllocatedToIssued'
  <2>1. \A v \in ActiveInvoices : \A e \in invoice[v].deliveries :
          e \in Deliveries /\ delivery'[e].status = "confirmed"
    BY <1>4, <1>6, InvoicedLeft
  <2>2. InvoicedAreConfirmed'
    BY <1>10, <2>1 DEF InvoicedAreConfirmed
  <2> QED BY <1>10, <2>2 DEF RowsRight, AllocatedToIssued
<1>22. RowsRight'
  BY <1>16, <1>17, <1>18, <1>19, <1>20, <1>21 DEF RowsRight
<1> QED BY <1>4, <1>6, <1>7, <1>9, <1>10, <1>14, <1>22

LEMMA CommitConfirmStep == ASSUME IInv, NEW r \in Requests, CommitConfirm(r) PROVE IInv'
<1>1. PICK d : d = tx[r].id
  OBVIOUS
<1>2. PICK o : o = delivery[d].order
  OBVIOUS
<1>3. RowsRight /\ RowTypes /\ ConfirmKnows(r) /\ pc[r] = "commitConfirm"
  BY Parts, ConfirmAt DEF RowsRight, CommitConfirm, At
<1>4. /\ d \in Deliveries /\ DeliveryLock(d) \in locks[r] /\ delivery[d].status = "draft"
      /\ OrderLock(o) \in locks[r] /\ OrderOpen(o)
      /\ Covered(d) /\ \A v \in Moved(d) : StockLock(v) \in locks[r]
      /\ tx[r].onHand \in Levels /\ tx[r].seen \in Levels
      /\ \A i \in ItemsOf(o) : tx[r].done[i] = QuantityOf(Confirmed(o) \union {d}, i)
  BY <1>1, <1>2, <1>3, TakenAt DEF Taken, Summed
<1>5. o \in Orders
  BY <1>2, <1>3, <1>4, DraftOrder
<1>6. PICK done : done = [i \in Items |-> IF i \in ItemsOf(o)
                                          THEN QuantityOf(Confirmed(o) \union {d}, i)
                                          ELSE delivered[i]]
  OBVIOUS
<1>7. PICK onHand : onHand = tx[r].onHand
  OBVIOUS
<1>8. PICK seen : seen = tx[r].seen
  OBVIOUS
<1>9. /\ delivery' = [delivery EXCEPT ![d].status = "confirmed"]
      /\ stock' = Minus(stock, Leaving(d)) /\ summary' = onHand
      /\ available' = Minus(onHand, seen) /\ End(r)
      /\ demand' = demand /\ invoice' = invoice /\ receivable' = receivable
      /\ allocated' = allocated /\ arrived' = arrived
  BY <1>1, <1>7, <1>8 DEF CommitConfirm
<1>10. /\ delivered' = done
       /\ order' = [order EXCEPT ![o] = StatusFrom(o, done)]
  <2>1. done = [i \in Items |-> IF i \in ItemsOf(o) THEN tx[r].done[i] ELSE delivered[i]]
    BY <1>4, <1>6
  <2> QED BY <1>1, <1>2, <2>1 DEF CommitConfirm
<1>11. /\ RowsRight' /\ ActiveInvoices' = ActiveInvoices /\ Invoiced' = Invoiced
       /\ delivery' \in [Deliveries -> DeliveryRow] /\ delivery'[d].status = "confirmed"
       /\ \A e \in Deliveries : delivery'[e].lines = delivery[e].lines
                                /\ delivery'[e].order = delivery[e].order
       /\ \A e \in Deliveries \ {d} : delivery'[e] = delivery[e]
       /\ \A p : p # o => Confirmed(p)' = Confirmed(p)
       /\ \A v \in Variants : VariantIn(delivery[d].lines, v) \in Nat
            /\ stock'[v] = stock[v] - VariantIn(delivery[d].lines, v)
  <2>1. onHand \in Levels /\ seen \in Levels /\ delivery[d].order = o
    BY <1>2, <1>4, <1>7, <1>8
  <2> QED BY <1>3, <1>4, <1>5, <1>6, <1>9, <1>10, <2>1, ConfirmRows
<1>12. ASSUME NEW q \in Requests \ {r} PROVE Respects(locks[q])
  <2>1. OrderLock(o) \notin locks[q] /\ DeliveryLock(d) \notin locks[q]
    BY <1>4, OthersLack
  <2>2. \A v \in Moved(d) : StockLock(v) \notin locks[q]
    BY <1>4, OthersLack
  <2>3. \A p \in Orders : OrderLock(p) \in locks[q] =>
          order'[p] = order[p] /\ Confirmed(p)' = Confirmed(p)
    BY <1>3, <1>10, <1>11, <2>1 DEF RowTypes
  <2>4. \A v \in Variants : StockLock(v) \in locks[q] => stock'[v] >= stock[v]
    <3>1. ASSUME NEW v \in Variants, StockLock(v) \in locks[q] PROVE stock'[v] >= stock[v]
      <4>1. v \notin Moved(d)
        BY <2>2, <3>1
      <4>2. VariantIn(delivery[d].lines, v) \in Nat
            /\ stock'[v] = stock[v] - VariantIn(delivery[d].lines, v)
        BY <1>11
      <4>3. ~ (VariantIn(delivery[d].lines, v) > 0)
        BY <4>1 DEF Moved
      <4>4. stock[v] \in Nat
        BY <1>3 DEF RowTypes
      <4> QED BY <4>2, <4>3, <4>4
    <3> QED BY <3>1
  <2>5. ASSUME NEW e \in Deliveries, delivery[e].status # "none"
        PROVE  /\ delivery'[e].status # "none"
               /\ delivery[e].status = "confirmed" => delivery'[e].status = "confirmed"
               /\ DeliveryLock(e) \in locks[q] => delivery'[e].status = delivery[e].status
    <3>1. CASE e = d
      BY <1>11, <2>1, <3>1
    <3>2. CASE e # d
      BY <1>11, <2>5, <3>2
    <3> QED BY <3>1, <3>2
  <2> QED BY <1>11, <2>3, <2>4, <2>5 DEF Respects
<1> QED BY <1>9, <1>11, <1>12, EndStep

(* The rows after createInvoice: the invoice w bills deliveries of o.      *)
LEMMA InvoiceRows ==
    ASSUME RowsRight, NEW o \in Orders, NEW w \in Invoices, invoice[w].status = "none",
           NEW billed \in SUBSET Deliveries, billed \subseteq Confirmed(o),
           billed \intersect Invoiced = {}, NEW amount, amount = AmountOf(billed),
           NEW status, status = IF FullyInvoiced(o, Invoiced \union billed)
                                THEN "invoiced" ELSE "partial",
           invoice' = [invoice EXCEPT ![w] =
                         [status |-> "unpaid", order |-> o, amount |-> amount,
                          deliveries |-> billed, paid |-> 0]],
           receivable' = [receivable EXCEPT ![w] =
                            [status |-> "open", amount |-> amount, received |-> 0]],
           order' = [order EXCEPT ![o] = status],
           delivered' = delivered, demand' = demand, delivery' = delivery,
           allocated' = allocated, arrived' = arrived, stock' = stock,
           summary' = summary, available' = available
    PROVE  /\ RowsRight' /\ ActiveInvoices \subseteq ActiveInvoices'
           /\ Invoiced' = Invoiced \union billed
<1>1. RowTypes
  BY DEF RowsRight
<1>2. PICK row : row = [status |-> "unpaid", order |-> o, amount |-> amount,
                        deliveries |-> billed, paid |-> 0]
  OBVIOUS
<1>3. PICK due : due = [status |-> "open", amount |-> amount, received |-> 0]
  OBVIOUS
<1>4. amount \in Nat
  <2>1. PICK n : n = PiecesIn(delivery, billed)
    OBVIOUS
  <2>2. n \in Nat /\ amount = Price * n
    BY <1>1, <2>1, SetNat, SumsOfRows DEF RowTypes
  <2>3. Price \in Nat
    BY SalesConstants
  <2> QED BY <2>2, <2>3
<1>5. row \in InvoiceRow /\ due \in ReceivableRow /\ row # NoInvoice /\ due # NoReceivable
  <2>1. row \in InvoiceRow
    BY <1>2, <1>4 DEF InvoiceRow
  <2>2. due \in ReceivableRow
    BY <1>3, <1>4 DEF ReceivableRow
  <2>3. row.status # NoInvoice.status /\ due.status # NoReceivable.status
    BY <1>2, <1>3 DEF NoInvoice, NoReceivable
  <2> QED BY <2>1, <2>2, <2>3
<1>6. invoice' = [invoice EXCEPT ![w] = row] /\ receivable' = [receivable EXCEPT ![w] = due]
  BY <1>2, <1>3
<1>7. invoice \in [Invoices -> InvoiceRow] /\ receivable \in [Invoices -> ReceivableRow]
  BY <1>1 DEF RowTypes
<1>8. /\ invoice' \in [Invoices -> InvoiceRow] /\ receivable' \in [Invoices -> ReceivableRow]
      /\ invoice'[w] = row /\ receivable'[w] = due
      /\ \A v \in Invoices \ {w} : invoice'[v] = invoice[v] /\ receivable'[v] = receivable[v]
  BY <1>5, <1>6, <1>7
<1>9. row.status = "unpaid" /\ row.deliveries = billed /\ row.paid = 0 /\ row.amount = amount
      /\ due.amount = amount
  BY <1>2, <1>3
<1>10. w \notin ActiveInvoices /\ ActiveInvoices' = ActiveInvoices \union {w}
  BY <1>8, <1>9 DEF ActiveInvoices
<1>11. \A v \in ActiveInvoices : v \in Invoices \ {w} /\ invoice'[v] = invoice[v]
                                 /\ receivable'[v] = receivable[v]
  BY <1>8, <1>10 DEF ActiveInvoices
<1>12. Invoiced' = Invoiced \union billed
  BY <1>8, <1>9, <1>10, <1>11 DEF Invoiced
<1>13. /\ \A p : Confirmed(p)' = Confirmed(p)
       /\ \A S, i : QuantityOf(S, i)' = QuantityOf(S, i)
       /\ \A S : AmountOf(S)' = AmountOf(S)
  BY SameSets, SumsOfRows
<1>14. RowTypes'
  <2>1. order' \in [Orders -> {"draft", "confirmed", "partial", "delivered", "invoiced",
                               "cancelled"}]
    BY <1>1 DEF RowTypes
  <2>2. \A v \in Invoices : invoice'[v] = NoInvoice <=> receivable'[v] = NoReceivable
    BY <1>1, <1>5, <1>8 DEF RowTypes
  <2> QED BY <1>1, <1>8, <2>1, <2>2 DEF RowTypes
<1>15. DeliveredRight' /\ StockRight'
  <2>1. Left' = Left
    BY <1>13 DEF Left
  <2> QED BY <1>13, <2>1 DEF RowsRight, DeliveredRight, StockRight
<1>16. InvoicesCoverDeliveries'
  <2>1. ASSUME NEW u \in ActiveInvoices', NEW v \in ActiveInvoices', u # v
        PROVE  invoice'[u].deliveries \intersect invoice'[v].deliveries = {}
    <3>1. \A x \in ActiveInvoices : invoice'[x].deliveries \subseteq Invoiced
      BY <1>11, InvoicedLeft
    <3>2. invoice'[w].deliveries = billed
      BY <1>8, <1>9
    <3>3. CASE u = w \/ v = w
      BY <1>10, <2>1, <3>1, <3>2, <3>3
    <3>4. CASE u # w /\ v # w
      BY <1>10, <1>11, <2>1, <3>4 DEF RowsRight, InvoicesCoverDeliveries
    <3> QED BY <3>3, <3>4
  <2>2. ASSUME NEW p \in Orders, order'[p] = "invoiced" PROVE FullyInvoiced(p, Invoiced)'
    <3>1. PICK S : S = Invoiced \union billed
      OBVIOUS
    <3>2. \A i \in ItemsOf(p) : QuantityOf(S, i) >= delivered[i]
      <4>1. CASE p = o
        <5>1. status = "invoiced"
          BY <1>1, <2>2, <4>1 DEF RowTypes
        <5>2. FullyInvoiced(o, Invoiced \union billed)
          BY <5>1
        <5> QED BY <3>1, <4>1, <5>2 DEF FullyInvoiced
      <4>2. CASE p # o
        <5>1. order[p] = "invoiced"
          BY <1>1, <2>2, <4>2 DEF RowTypes
        <5>2. \A i \in ItemsOf(p) : QuantityOf(Invoiced, i) >= delivered[i]
          BY <5>1 DEF RowsRight, InvoicesCoverDeliveries, FullyInvoiced
        <5>3. PICK T : T = Invoiced
          OBVIOUS
        <5>4. S \in SUBSET Deliveries /\ T \in SUBSET S
          BY <3>1, <5>3, InvoicedLeft
        <5>5. ASSUME NEW i \in ItemsOf(p) PROVE QuantityOf(S, i) >= delivered[i]
          <6>1. delivery \in [Deliveries -> DeliveryRow] /\ delivered[i] \in Nat
            BY <1>1 DEF RowTypes, ItemsOf
          <6>2. ListedIn(delivery, T, i) <= ListedIn(delivery, S, i)
            BY <5>4, <6>1, SetGrows
          <6>3. ListedIn(delivery, T, i) \in Nat /\ ListedIn(delivery, S, i) \in Nat
            BY <5>4, <6>1, SetNat
          <6>4. ListedIn(delivery, T, i) >= delivered[i]
            BY <5>2, <5>3, SumsOfRows
          <6> QED BY <6>1, <6>2, <6>3, <6>4, SumsOfRows
        <5> QED BY <5>5
      <4> QED BY <4>1, <4>2
    <3>3. Invoiced' = S /\ \A i : QuantityOf(S, i)' = QuantityOf(S, i)
      BY <1>12, <1>13, <3>1
    <3> QED BY <3>2, <3>3 DEF FullyInvoiced
  <2> QED BY <2>1, <2>2 DEF InvoicesCoverDeliveries
<1>17. ReceiptsAddUp'
  <2>1. ASSUME NEW v \in ActiveInvoices'
        PROVE  /\ invoice'[v].paid = allocated'[v] /\ allocated'[v] <= invoice'[v].amount
               /\ invoice'[v].amount = AmountOf(invoice[v].deliveries)'
               /\ receivable'[v].amount = invoice'[v].amount
    <3>1. CASE v = w
      <4>1. allocated[w] = 0
        BY <1>10 DEF RowsRight, AllocatedToIssued
      <4>2. amount = AmountOf(billed)'
        BY <1>13
      <4> QED BY <1>4, <1>8, <1>9, <3>1, <4>1, <4>2
    <3>2. CASE v # w
      BY <1>10, <1>11, <1>13, <2>1, <3>2 DEF RowsRight, ReceiptsAddUp
    <3> QED BY <3>1, <3>2
  <2> QED BY <2>1 DEF ReceiptsAddUp
<1>18. InvoicedAreConfirmed'
  <2>1. ASSUME NEW v \in ActiveInvoices', NEW d \in invoice'[v].deliveries
        PROVE  delivery'[d].status = "confirmed"
    <3>1. CASE v = w
      BY <1>8, <1>9, <2>1, <3>1 DEF Confirmed
    <3>2. CASE v # w
      BY <1>10, <1>11, <2>1, <3>2 DEF RowsRight, InvoicedAreConfirmed
    <3> QED BY <3>1, <3>2
  <2> QED BY <2>1 DEF InvoicedAreConfirmed
<1>19. AllocatedToIssued'
  BY <1>10 DEF RowsRight, AllocatedToIssued
<1>20. RowsRight'
  BY <1>14, <1>15, <1>16, <1>17, <1>18, <1>19 DEF RowsRight
<1> QED BY <1>10, <1>12, <1>20

LEMMA CommitInvoiceStep == ASSUME IInv, NEW r \in Requests, CommitInvoice(r) PROVE IInv'
<1>1. PICK o : o = tx[r].order
  OBVIOUS
<1>2. PICK billed : billed = tx[r].deliveries
  OBVIOUS
<1>3. RowsRight /\ RowTypes /\ InvoiceKnows(r) /\ pc[r] = "commitInvoice"
  BY Parts, InvoiceAt DEF RowsRight, CommitInvoice, At
<1>4. /\ o \in Orders /\ billed \in SUBSET Deliveries /\ OrderLock(o) \in locks[r]
      /\ billed \subseteq Confirmed(o) /\ billed \intersect Invoiced = {}
      /\ \A d \in billed : DeliveryLock(d) \in locks[r]
  BY <1>1, <1>2, <1>3 DEF InvoiceKnows
<1>5. PICK fresh : fresh = {v \in Invoices : invoice[v].status = "none"}
  OBVIOUS
<1>6. PICK w : w = Min(fresh)
  OBVIOUS
<1>7. w \in Invoices /\ invoice[w].status = "none"
  <2>1. fresh # {} /\ fresh \in SUBSET Nat
    BY <1>5, IdsFinite DEF CommitInvoice
  <2> QED BY <1>5, <1>6, <2>1, MinIn
<1>8. PICK amount : amount = AmountOf(billed)
  OBVIOUS
<1>9. PICK status : status = IF FullyInvoiced(o, Invoiced \union billed)
                             THEN "invoiced" ELSE "partial"
  OBVIOUS
<1>10. /\ invoice' = [invoice EXCEPT ![w] =
                        [status |-> "unpaid", order |-> o, amount |-> amount,
                         deliveries |-> billed, paid |-> 0]]
       /\ receivable' = [receivable EXCEPT ![w] =
                           [status |-> "open", amount |-> amount, received |-> 0]]
       /\ order' = [order EXCEPT ![o] = status]
  BY <1>1, <1>2, <1>5, <1>6, <1>8, <1>9 DEF CommitInvoice
<1>11. /\ delivered' = delivered /\ demand' = demand /\ delivery' = delivery
       /\ allocated' = allocated /\ arrived' = arrived /\ stock' = stock
       /\ summary' = summary /\ available' = available /\ End(r)
  BY DEF CommitInvoice, goods
<1>12. /\ RowsRight' /\ ActiveInvoices \subseteq ActiveInvoices'
       /\ Invoiced' = Invoiced \union billed
  BY <1>3, <1>4, <1>7, <1>8, <1>9, <1>10, <1>11, InvoiceRows
<1>13. ASSUME NEW q \in Requests \ {r} PROVE Respects(locks[q])
  <2>1. OrderLock(o) \notin locks[q] /\ \A d \in billed : DeliveryLock(d) \notin locks[q]
    BY <1>4, OthersLack
  <2>2. \A p \in Orders : OrderLock(p) \in locks[q] => order'[p] = order[p]
    BY <1>3, <1>10, <2>1 DEF RowTypes
  <2>3. \A v \in Variants : stock'[v] >= stock[v]
    BY <1>3, <1>11 DEF RowTypes
  <2>4. \A d \in Deliveries : DeliveryLock(d) \in locks[q] => (d \in Invoiced' => d \in Invoiced)
    BY <1>12, <2>1
  <2>5. \A p : Confirmed(p)' = Confirmed(p)
    BY <1>11, SameSets
  <2> QED BY <1>11, <1>12, <2>2, <2>3, <2>4, <2>5 DEF Respects
<1> QED BY <1>11, <1>12, <1>13, EndStep

LEMMA CommitReceiptStep == ASSUME IInv, NEW r \in Requests, CommitReceipt(r) PROVE IInv'
<1>1. RowsRight /\ RowTypes /\ ReceiptKnows(r)
  BY Parts, ReceiptAt DEF RowsRight, CommitReceipt, At
<1>2. PICK set : set = tx[r].set
  OBVIOUS
<1>3. PICK D : D = DOMAIN set
  OBVIOUS
<1>4. PICK paid : paid = [v \in D |-> allocated[v] + set[v]]
  OBVIOUS
<1>5. /\ order' = order /\ delivered' = delivered /\ demand' = demand
      /\ delivery' = delivery /\ receivable' = receivable /\ arrived' = arrived
      /\ stock' = stock /\ summary' = summary /\ available' = available /\ End(r)
  BY DEF CommitReceipt, goods
<1>6. CASE ~ \A v \in D : WithinTotal(v, paid[v])
  <2>1. allocated' = allocated /\ invoice' = invoice
    BY <1>2, <1>3, <1>4, <1>6 DEF CommitReceipt
  <2>2. tables' = tables
    BY <1>5, <2>1 DEF tables, papers, goods
  <2> QED BY <1>5, <2>2, RollbackStep
<1>7. CASE \A v \in D : WithinTotal(v, paid[v])
  <2>1. allocated' = [v \in Invoices |-> IF v \in D THEN paid[v] ELSE allocated[v]]
    BY <1>2, <1>3, <1>4, <1>7 DEF CommitReceipt
  <2>2. invoice' = [v \in Invoices |-> IF v \notin D THEN invoice[v] ELSE
                     [invoice[v] EXCEPT !.paid = paid[v],
                                        !.status = PaidStatus(invoice[v].amount, paid[v])]]
    BY <1>2, <1>3, <1>4, <1>7 DEF CommitReceipt
  <2>3. \A v \in D : v \in ActiveInvoices /\ v \in Invoices /\ set[v] \in Nat
    BY <1>1, <1>2, <1>3, SalesConstants DEF ReceiptKnows, ActiveInvoices
  <2>4. ASSUME NEW v \in D
        PROVE  /\ paid[v] \in Nat /\ paid[v] <= invoice[v].amount
               /\ invoice'[v] \in InvoiceRow /\ invoice'[v].paid = paid[v]
               /\ invoice'[v].amount = invoice[v].amount
               /\ invoice'[v].deliveries = invoice[v].deliveries
               /\ invoice'[v].status \in {"unpaid", "partial", "paid"}
               /\ invoice[v] # NoInvoice /\ invoice'[v] # NoInvoice
    <3>1. paid[v] \in Nat /\ paid[v] <= invoice[v].amount
      <4>1. allocated[v] \in Nat
        BY <1>1, <2>3 DEF RowTypes
      <4> QED BY <1>4, <1>7, <2>3, <4>1 DEF WithinTotal
    <3>2. invoice[v] \in [status : {"unpaid", "partial", "paid"}, order : Orders,
                          deliveries : SUBSET Deliveries, amount : Nat, paid : Nat]
      <4>1. invoice[v] \in InvoiceRow /\ invoice[v].status # "none"
        BY <1>1, <2>3 DEF RowTypes, ActiveInvoices
      <4> QED BY <4>1 DEF InvoiceRow, NoInvoice
    <3>3. PICK status : status = PaidStatus(invoice[v].amount, paid[v])
      OBVIOUS
    <3>4. status \in {"unpaid", "partial", "paid"}
      BY <3>3 DEF PaidStatus
    <3>5. PICK row : row = [invoice[v] EXCEPT !.paid = paid[v], !.status = status]
      OBVIOUS
    <3>6. /\ row \in [status : {"unpaid", "partial", "paid"}, order : Orders,
                      deliveries : SUBSET Deliveries, amount : Nat, paid : Nat]
          /\ row.paid = paid[v] /\ row.amount = invoice[v].amount
          /\ row.deliveries = invoice[v].deliveries
      BY <3>1, <3>2, <3>4, <3>5
    <3>7. invoice'[v] = row
      BY <2>2, <2>3, <3>3, <3>5
    <3>8. row \in InvoiceRow /\ row.status \in {"unpaid", "partial", "paid"}
      BY <3>6 DEF InvoiceRow
    <3>9. row # NoInvoice /\ invoice[v] # NoInvoice
      BY <3>2, <3>8 DEF NoInvoice
    <3> QED BY <3>1, <3>6, <3>7, <3>8, <3>9
  <2>5. \A v \in Invoices \ D : invoice'[v] = invoice[v] /\ allocated'[v] = allocated[v]
    BY <2>1, <2>2
  <2>6. \A v \in D : allocated'[v] = paid[v]
    BY <2>1, <2>3
  <2>7. allocated' \in [Invoices -> Nat] /\ invoice' \in [Invoices -> InvoiceRow]
    <3>1. \A v \in Invoices : allocated'[v] \in Nat /\ invoice'[v] \in InvoiceRow
      BY <1>1, <2>4, <2>5, <2>6 DEF RowTypes
    <3>2. allocated' = [v \in Invoices |-> allocated'[v]]
          /\ invoice' = [v \in Invoices |-> invoice'[v]]
      BY <2>1, <2>2
    <3> QED BY <3>1, <3>2
  <2>8. \A v \in Invoices : invoice'[v] = NoInvoice <=> receivable'[v] = NoReceivable
    BY <1>1, <1>5, <2>4, <2>5 DEF RowTypes
  <2>9. RowTypes'
    BY <1>1, <1>5, <2>7, <2>8 DEF RowTypes
  <2>10. ActiveInvoices' = ActiveInvoices
    BY <2>3, <2>4, <2>5 DEF ActiveInvoices
  <2>11. \A v \in ActiveInvoices : v \in Invoices
                                   /\ invoice'[v].deliveries = invoice[v].deliveries
                                   /\ invoice'[v].amount = invoice[v].amount
    BY <2>4, <2>5 DEF ActiveInvoices
  <2>12. Invoiced' = Invoiced
    BY <2>10, <2>11 DEF Invoiced
  <2>13. /\ \A p : Confirmed(p)' = Confirmed(p)
         /\ \A S, i : QuantityOf(S, i)' = QuantityOf(S, i)
         /\ \A S : AmountOf(S)' = AmountOf(S)
    BY <1>5, SameSets, SumsOfRows
  <2>14. DeliveredRight' /\ StockRight'
    <3>1. Left' = Left
      BY <2>13 DEF Left
    <3> QED BY <1>1, <1>5, <2>13, <3>1 DEF RowsRight, DeliveredRight, StockRight
  <2>15. InvoicesCoverDeliveries'
    <3>1. \A p : FullyInvoiced(p, Invoiced)' <=> FullyInvoiced(p, Invoiced)
      BY <1>5, <2>12, <2>13 DEF FullyInvoiced
    <3> QED BY <1>1, <1>5, <2>10, <2>11, <3>1 DEF RowsRight, InvoicesCoverDeliveries
  <2>16. ReceiptsAddUp'
    <3>1. ASSUME NEW v \in ActiveInvoices
          PROVE  /\ invoice'[v].paid = allocated'[v] /\ allocated'[v] <= invoice'[v].amount
                 /\ invoice'[v].amount = AmountOf(invoice[v].deliveries)'
                 /\ receivable'[v].amount = invoice'[v].amount
      <4>1. /\ invoice[v].paid = allocated[v] /\ allocated[v] <= invoice[v].amount
            /\ invoice[v].amount = AmountOf(invoice[v].deliveries)
            /\ receivable[v].amount = invoice[v].amount
        BY <1>1 DEF RowsRight, ReceiptsAddUp
      <4>2. AmountOf(invoice[v].deliveries)' = AmountOf(invoice[v].deliveries)
        BY <2>11, <2>13
      <4>3. invoice'[v].paid = allocated'[v] /\ allocated'[v] <= invoice'[v].amount
        BY <2>4, <2>5, <2>6, <2>11, <4>1
      <4> QED BY <1>5, <2>11, <4>1, <4>2, <4>3
    <3> QED BY <2>10, <3>1 DEF ReceiptsAddUp
  <2>17. InvoicedAreConfirmed'
    BY <1>1, <1>5, <2>10, <2>11 DEF RowsRight, InvoicedAreConfirmed
  <2>18. AllocatedToIssued'
    BY <1>1, <2>3, <2>5, <2>10 DEF RowsRight, AllocatedToIssued
  <2>19. RowsRight'
    BY <2>9, <2>14, <2>15, <2>16, <2>17, <2>18 DEF RowsRight
  <2>20. ASSUME NEW q \in Requests \ {r} PROVE Respects(locks[q])
    <3>1. \A v \in Variants : stock'[v] >= stock[v]
      BY <1>1, <1>5 DEF RowTypes
    <3> QED BY <1>5, <2>10, <2>12, <2>13, <3>1 DEF Respects
  <2> QED BY <1>5, <2>19, <2>20, EndStep
<1> QED BY <1>6, <1>7

-----------------------------------------------------------------------------
(* The first state and every step.                                         *)
LEMMA InitInv == ASSUME Init PROVE IInv
<1>1. /\ NoRequests /\ begun = 0
      /\ order = [o \in Orders |-> "draft"] /\ delivered = [i \in Items |-> 0]
      /\ demand = [i \in Items |-> "none"] /\ delivery = [d \in Deliveries |-> NoDelivery]
      /\ invoice = [v \in Invoices |-> NoInvoice]
      /\ receivable = [v \in Invoices |-> NoReceivable]
      /\ allocated = [v \in Invoices |-> 0] /\ arrived = [v \in Variants |-> 0]
      /\ stock = OnHand /\ summary = OnHand /\ available = OnHand
  BY DEF Init, Drafts
<1>2. /\ \A d \in Deliveries : delivery[d].status = "none"
      /\ \A v \in Invoices : invoice[v].status = "none"
  BY <1>1 DEF NoDelivery, NoInvoice
<1>3. OnHand \in [Variants -> Nat]
  BY SalesConstants
<1>4. \A o : Confirmed(o) = {}
  BY <1>2 DEF Confirmed
<1>5. ActiveInvoices = {} /\ Left = {}
  BY <1>2, <1>4 DEF ActiveInvoices, Left
<1>6. RowTypes
  <2>1. delivery \in [Deliveries -> DeliveryRow]
    BY <1>1 DEF DeliveryRow
  <2>2. /\ invoice \in [Invoices -> InvoiceRow] /\ receivable \in [Invoices -> ReceivableRow]
        /\ \A v \in Invoices : invoice[v] = NoInvoice <=> receivable[v] = NoReceivable
    BY <1>1 DEF InvoiceRow, ReceivableRow
  <2>3. stock \in [Variants -> Nat] /\ summary \in Levels /\ available \in Levels
    BY <1>1, <1>3 DEF Levels
  <2> QED BY <1>1, <2>1, <2>2, <2>3 DEF RowTypes
<1>7. \A x : ListedIn(delivery, {}, x) = 0 /\ LeftIn(delivery, {}, x) = 0
  BY ListedSum, LeftSum, SumEmpty
<1>8. DeliveredRight
  BY <1>1, <1>4, <1>7, SumsOfRows DEF DeliveredRight
<1>9. StockRight
  BY <1>1, <1>3, <1>5, <1>7 DEF StockRight
<1>10. InvoicesCoverDeliveries /\ ReceiptsAddUp /\ InvoicedAreConfirmed /\ AllocatedToIssued
  BY <1>1, <1>5 DEF InvoicesCoverDeliveries, ReceiptsAddUp, InvoicedAreConfirmed,
                    AllocatedToIssued
<1>11. RequestsRight
  <2>1. begun \in 0 .. MaxRequests
    BY <1>1, TransactionsConstants
  <2>2. IdleHoldsNothing
    BY <1>1, <2>1 DEF NoRequests, IdleHoldsNothing
  <2>3. LocksExclusive
    BY <1>1 DEF NoRequests, LocksExclusive
  <2>4. /\ pc = [r \in Requests |-> pc[r]] /\ needs = [r \in Requests |-> needs[r]]
        /\ tx = [r \in Requests |-> tx[r]] /\ locks = [r \in Requests |-> locks[r]]
    BY <1>1 DEF NoRequests
  <2> QED BY <2>2, <2>3, <2>4 DEF RequestsRight
<1>12. \A r \in Requests : Knows(r)
  BY <1>1 DEF NoRequests, Knows
<1>13. RowsRight
  BY <1>6, <1>8, <1>9, <1>10 DEF RowsRight
<1> QED BY <1>11, <1>12, <1>13, Parts

LEMMA StutterInv == ASSUME IInv, UNCHANGED vars PROVE IInv'
<1>1. /\ tables' = tables /\ begun' = begun /\ pc' = pc /\ needs' = needs /\ tx' = tx
      /\ locks' = locks
  BY DEF vars, connections
<1>2. RowsRight /\ RequestsRight /\ \A r \in Requests : Knows(r)
  BY Parts
<1>3. RowsRight'
  BY <1>1, <1>2, RowsUnchanged
<1>4. RequestsRight'
  BY <1>1, <1>2 DEF RequestsRight, IdleHoldsNothing, LocksExclusive
<1>5. ASSUME NEW r \in Requests PROVE Knows(r)'
  <2>1. SameRequest(r) /\ RowTypes /\ RowTypes'
    BY <1>1, <1>2, <1>3 DEF SameRequest, RowsRight
  <2> QED BY <1>1, <1>2, <2>1, TablesRespect, KnowsKept
<1> QED BY <1>3, <1>4, <1>5, NextParts

LEMMA HandleInv == ASSUME IInv, NEW r \in Requests, Handle(r) PROVE IInv'
BY BeginStatusStep, CancelDemandStep, ArriveStep, BeginDeliveryStep, CancelDeliveryStep,
   BeginConfirmStep, BeginInvoiceStep, BeginReceiptStep DEF Handle

LEMMA StatementInv == ASSUME IInv, NEW r \in Requests, Statement(r) PROVE IInv'
<1>1. CASE DeadlockVictim(r) /\ UNCHANGED tables
  BY <1>1, RollbackStep DEF DeadlockVictim
<1>2. CASE ChangeStatus(r) \/ RefreshAvailable(r) \/ CommitStatus(r)
  BY <1>2, ChangeStatusStep, RefreshAvailableStep, CommitStatusStep
<1>3. CASE Validate(r) \/ InsertDelivery(r)
  BY <1>3, ValidateStep, InsertDeliveryStep
<1>4. CASE LockDelivery(r) \/ LockOrder(r) \/ CheckStock(r) \/ RefreshSummary(r)
           \/ RefreshReserved(r) \/ SumDelivered(r) \/ CommitConfirm(r)
  BY <1>4, LockDeliveryStep, LockOrderStep, CheckStockStep, RefreshSummaryStep,
     RefreshReservedStep, SumDeliveredStep, CommitConfirmStep
<1>5. CASE LockInvoiceOrder(r) \/ LockDeliveries(r) \/ CheckInvoiced(r) \/ CommitInvoice(r)
  BY <1>5, LockInvoiceOrderStep, LockDeliveriesStep, CheckInvoicedStep, CommitInvoiceStep
<1>6. CASE LockInvoices(r) \/ CommitReceipt(r)
  BY <1>6, LockInvoicesStep, CommitReceiptStep
<1> QED BY <1>1, <1>2, <1>3, <1>4, <1>5, <1>6 DEF Statement

LEMMA NextInv == ASSUME IInv, [Next]_vars PROVE IInv'
<1>1. CASE UNCHANGED vars
  BY <1>1, StutterInv
<1>2. CASE Next
  <2>1. PICK r \in Requests : Handle(r) \/ Statement(r) \/ (Fail(r) /\ UNCHANGED tables)
    BY <1>2 DEF Next
  <2>2. CASE Fail(r) /\ UNCHANGED tables
    BY <2>2, RollbackStep DEF Fail
  <2> QED BY <2>1, <2>2, HandleInv, StatementInv
<1> QED BY <1>1, <1>2

(* What each handler knows of the rows it has locked, statement by         *)
(* statement, stays true until it commits or rolls back, and the tables    *)
(* stay right: the inductive invariant of sales orders, deliveries,        *)
(* invoices and receipts.                                                  *)
THEOREM Invariance == Spec => []IInv
BY InitInv, NextInv, PTL DEF Spec

(* What has left the warehouse is what the confirmed deliveries list, and  *)
(* quantity_delivered is what those of the order list, for any number of   *)
(* deliveries that are created, confirmed and cancelled at the same time;  *)
(* the stock, which nothing but the check of confirm protects, never       *)
(* falls below zero.                                                       *)
THEOREM DeliveriesRight == Spec => []DeliveriesAddUp
<1>1. IInv => DeliveriesAddUp
  BY DEF IInv
<1> QED BY <1>1, Invariance, PTL

(* No delivery is billed twice, and an order that counts as invoiced has   *)
(* everything delivered for it on invoices, whatever createInvoice and     *)
(* confirm run at the same time.                                           *)
THEOREM InvoicesRight == Spec => []InvoicesCoverDeliveries
<1>1. IInv => InvoicesCoverDeliveries
  BY DEF IInv
<1> QED BY <1>1, Invariance, PTL

(* An invoice is paid what its receipts allocate and not more than its     *)
(* amount, and it charges what its deliveries brought.                     *)
THEOREM ReceiptsRight == Spec => []ReceiptsAddUp
<1>1. IInv => ReceiptsAddUp
  BY DEF IInv
<1> QED BY <1>1, Invariance, PTL

-----------------------------------------------------------------------------
(* Closed orders.                                                          *)
Rests ==
    \A o \in Orders : order[o] \in {"cancelled", "invoiced"} =>
       order'[o] = order[o] /\ Confirmed(o)' = Confirmed(o)

LEMMA QuietRests == ASSUME order' = order, delivery' = delivery PROVE Rests
BY SameSets DEF Rests

LEMMA TablesRest == ASSUME tables' = tables PROVE Rests
BY SameTables, QuietRests

(* Confirmed deliveries stay when no delivery is confirmed.                *)
LEMMA RowRests ==
    ASSUME RowTypes, order' = order, NEW d \in Deliveries, delivery[d].status # "confirmed",
           NEW row, row.status # "confirmed", delivery' = [delivery EXCEPT ![d] = row]
    PROVE  Rests
<1>1. delivery'[d] = row /\ \A e \in Deliveries \ {d} : delivery'[e] = delivery[e]
  BY DEF RowTypes
<1>2. \A e \in Deliveries : delivery[e].status = "confirmed" => e # d
  OBVIOUS
<1>3. \A e \in Deliveries : delivery'[e].status = "confirmed" => e # d
  BY <1>1
<1>4. \A o : Confirmed(o)' = Confirmed(o)
  BY <1>1, <1>2, <1>3 DEF Confirmed
<1> QED BY <1>4 DEF Rests

LEMMA OrderRests ==
    ASSUME RowTypes, delivery' = delivery, NEW o \in Orders,
           order[o] \notin {"cancelled", "invoiced"}, NEW s, order' = [order EXCEPT ![o] = s]
    PROVE  Rests
<1>1. \A p \in Orders \ {o} : order'[p] = order[p]
  BY DEF RowTypes
<1> QED BY <1>1, SameSets DEF Rests

LEMMA InsertDeliveryRests ==
    ASSUME IInv, NEW r \in Requests, InsertDelivery(r) PROVE Rests
<1>1. PICK fresh : fresh = {e \in Deliveries : delivery[e].status = "none"}
  OBVIOUS
<1>2. PICK d : d = Min(fresh)
  OBVIOUS
<1>3. fresh # {} /\ fresh \in SUBSET Nat
  BY <1>1, IdsFinite DEF InsertDelivery
<1>4. d \in Deliveries /\ delivery[d].status = "none"
  BY <1>1, <1>2, <1>3, MinIn
<1>5. PICK row : row = [status |-> "draft", order |-> tx[r].order, lines |-> tx[r].lines]
  OBVIOUS
<1>6. delivery' = [delivery EXCEPT ![d] = row] /\ order' = order
  BY <1>1, <1>2, <1>5 DEF InsertDelivery
<1>7. row.status = "draft" /\ RowTypes
  BY <1>5, Parts DEF RowsRight
<1> QED BY <1>4, <1>6, <1>7, RowRests

LEMMA CancelDeliveryRests ==
    ASSUME IInv, NEW r \in Requests, CancelDelivery(r) PROVE Rests
<1>1. PICK d \in Deliveries :
        /\ delivery[d].status = "draft"
        /\ delivery' = [delivery EXCEPT ![d].status = "cancelled"] /\ order' = order
  BY DEF CancelDelivery, DeliveryCancellable
<1>2. RowTypes /\ delivery[d] \in DeliveryRow
  BY Parts DEF RowsRight, RowTypes
<1>3. PICK row : row = [delivery[d] EXCEPT !.status = "cancelled"]
  OBVIOUS
<1>4. row.status = "cancelled"
  <2>1. delivery[d] \in [status : {"draft", "confirmed", "cancelled"}, order : Orders,
                         lines : Seq(Line)]
    BY <1>1, <1>2 DEF DeliveryRow, NoDelivery
  <2> QED BY <1>3, <2>1
<1>5. delivery' = [delivery EXCEPT ![d] = row]
  BY <1>1, <1>3
<1> QED BY <1>1, <1>2, <1>4, <1>5, RowRests

LEMMA CommitConfirmRests ==
    ASSUME IInv, NEW r \in Requests, CommitConfirm(r) PROVE Rests
<1>1. PICK d : d = tx[r].id
  OBVIOUS
<1>2. PICK o : o = delivery[d].order
  OBVIOUS
<1>3. RowTypes /\ ConfirmKnows(r) /\ pc[r] = "commitConfirm"
  BY Parts, ConfirmAt DEF RowsRight, CommitConfirm, At
<1>4. d \in Deliveries /\ OrderOpen(o)
  BY <1>1, <1>2, <1>3, TakenAt DEF Taken
<1>5. PICK s : order' = [order EXCEPT ![o] = s]
  BY <1>1, <1>2 DEF CommitConfirm
<1>6. delivery' = [delivery EXCEPT ![d].status = "confirmed"]
  BY <1>1 DEF CommitConfirm
<1>7. delivery \in [Deliveries -> DeliveryRow]
      /\ \A e \in Deliveries \ {d} : delivery'[e] = delivery[e]
  BY <1>3, <1>6 DEF RowTypes
<1>8. delivery'[d].order = o
  <2>1. PICK row : row = [delivery[d] EXCEPT !.status = "confirmed"]
    OBVIOUS
  <2>2. delivery'[d] = row
    BY <1>4, <1>6, <1>7, <2>1
  <2>3. delivery[d] \in [status : {"draft", "confirmed", "cancelled"}, order : Orders,
                         lines : Seq(Line)]
    BY <1>1, <1>3, <1>7 DEF ConfirmKnows, DeliveryRow, NoDelivery
  <2> QED BY <1>2, <2>1, <2>2, <2>3
<1>9. ASSUME NEW p \in Orders, order[p] \in {"cancelled", "invoiced"}
      PROVE  order'[p] = order[p] /\ Confirmed(p)' = Confirmed(p)
  <2>1. p # o
    BY <1>4, <1>9 DEF OrderOpen
  <2>2. order'[p] = order[p]
    BY <1>3, <1>5, <2>1 DEF RowTypes
  <2>3. d \notin Confirmed(p) /\ d \notin Confirmed(p)'
    BY <1>2, <1>8, <2>1 DEF Confirmed
  <2>4. Confirmed(p)' = Confirmed(p)
    BY <1>7, <2>3 DEF Confirmed
  <2> QED BY <2>2, <2>4
<1> QED BY <1>9 DEF Rests

LEMMA CommitStatusRests ==
    ASSUME IInv, NEW r \in Requests, CommitStatus(r) PROVE Rests
<1>1. RowTypes /\ StatusKnows(r) /\ pc[r] = "commitStatus"
  BY Parts, StatusAt DEF RowsRight, CommitStatus, At
<1>2. PICK o : o = tx[r].order
  OBVIOUS
<1>3. o \in Orders /\ order[o] \notin {"cancelled", "invoiced"}
  BY <1>1, <1>2 DEF StatusKnows, StatusAllows
<1>4. delivery' = delivery /\ order' = [order EXCEPT ![o] = tx[r].op]
  BY <1>2 DEF CommitStatus, papers
<1> QED BY <1>1, <1>3, <1>4, OrderRests

LEMMA CommitInvoiceRests ==
    ASSUME IInv, NEW r \in Requests, CommitInvoice(r) PROVE Rests
<1>1. RowTypes /\ InvoiceKnows(r) /\ pc[r] = "commitInvoice"
  BY Parts, InvoiceAt DEF RowsRight, CommitInvoice, At
<1>2. PICK o : o = tx[r].order
  OBVIOUS
<1>3. o \in Orders /\ order[o] \in {"confirmed", "partial", "delivered"}
  BY <1>1, <1>2 DEF InvoiceKnows
<1>4. delivery' = delivery
  BY DEF CommitInvoice
<1>5. PICK s : order' = [order EXCEPT ![o] = s]
  BY <1>2 DEF CommitInvoice
<1> QED BY <1>1, <1>3, <1>4, <1>5, OrderRests

LEMMA NextRests == ASSUME IInv, [Next]_vars PROVE [Rests]_vars
<1> SUFFICES ASSUME Next PROVE Rests
  OBVIOUS
<1>1. PICK r \in Requests : Handle(r) \/ Statement(r) \/ (Fail(r) /\ UNCHANGED tables)
  BY DEF Next
<1>2. CASE Fail(r) /\ UNCHANGED tables
  BY <1>2, TablesRest
<1>3. CASE Handle(r)
  <2>1. CASE BeginStatus(r) \/ BeginDelivery(r) \/ BeginConfirm(r)
             \/ BeginInvoice(r) \/ BeginReceipt(r)
    BY <2>1, TablesRest DEF BeginStatus, BeginDelivery, BeginConfirm, BeginInvoice, BeginReceipt
  <2>2. CASE CancelDemand(r) \/ Arrive(r)
    BY <2>2, QuietRests DEF CancelDemand, Arrive, papers
  <2> QED BY <1>3, <2>1, <2>2, CancelDeliveryRests DEF Handle
<1>4. CASE Statement(r)
  <2>1. CASE \/ ChangeStatus(r) \/ RefreshAvailable(r) \/ Validate(r)
             \/ DeadlockVictim(r) /\ UNCHANGED tables
    BY <2>1, TablesRest DEF ChangeStatus, RefreshAvailable, Validate
  <2>2. CASE LockDelivery(r) \/ LockOrder(r) \/ CheckStock(r) \/ RefreshSummary(r)
             \/ RefreshReserved(r) \/ SumDelivered(r)
    BY <2>2, TablesRest DEF LockDelivery, LockOrder, CheckStock, RefreshSummary, RefreshReserved,
                            SumDelivered
  <2>3. CASE LockInvoiceOrder(r) \/ LockDeliveries(r) \/ CheckInvoiced(r) \/ LockInvoices(r)
    BY <2>3, TablesRest DEF LockInvoiceOrder, LockDeliveries, CheckInvoiced, LockInvoices
  <2>4. CASE CommitReceipt(r)
    BY <2>4, QuietRests DEF CommitReceipt
  <2> QED BY <1>4, <2>1, <2>2, <2>3, <2>4, CommitStatusRests, InsertDeliveryRests,
             CommitConfirmRests, CommitInvoiceRests DEF Statement
<1> QED BY <1>1, <1>2, <1>3, <1>4

(* Cancelled and invoiced orders are final: neither cancel, confirm,       *)
(* createInvoice nor a delivery that was validated earlier changes one, or *)
(* confirms a delivery of it.                                              *)
THEOREM ClosedForGood == Spec => ClosedOrdersRest
<1>1. IInv /\ [Next]_vars => [Rests]_vars
  BY NextRests
<1>2. Spec => [][Rests]_vars
  BY <1>1, Invariance, PTL DEF Spec
<1> QED BY <1>2 DEF ClosedOrdersRest, Rests
================================================================================
