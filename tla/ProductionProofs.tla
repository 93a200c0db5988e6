--------------------------- MODULE ProductionProofs ----------------------------
(***************************************************************************)
(* Proofs about Production, with the bills of material it is composed of.  *)
(***************************************************************************)
EXTENDS Production, Sums, SequenceTheorems

-----------------------------------------------------------------------------
(* Least and greatest members.                                             *)
LEMMA MinIn ==
    ASSUME NEW S \in SUBSET Nat, S # {}
    PROVE  Min(S) \in S /\ \A n \in S : Min(S) <= n
<1>1. \E n \in S : \A m \in S : n <= m
  BY LeastNatural
<1> QED BY <1>1 DEF Min

LEMMA GreatestNatural ==
    ASSUME NEW S, IsFiniteSet(S), S # {}, \A x \in S : x \in Nat
    PROVE  \E n \in S : \A m \in S : m <= n
<1> DEFINE B == {T \in SUBSET S : T # {} /\ ~ \E n \in T : \A m \in T : m <= n}
<1>1. B \in SUBSET SUBSET S
  OBVIOUS
<1> SUFFICES ASSUME B # {} PROVE FALSE
  OBVIOUS
<1> HIDE DEF B
<1>2. PICK T \in B : \A U \in B : U \subseteq T => U = T
  BY <1>1, MinimalSubset
<1>0. T \in SUBSET S /\ T # {} /\ ~ \E n \in T : \A m \in T : m <= n
  BY <1>2 DEF B
<1>3. PICK x \in T : T \in SUBSET S
  BY <1>0
<1>4. CASE T = {x}
  BY <1>0, <1>3, <1>4
<1>5. CASE T # {x}
  <2> DEFINE U == T \ {x}
  <2>1. U \in SUBSET S /\ U # {} /\ U \subseteq T /\ U # T
    BY <1>3, <1>5
  <2>2. U \notin B
    BY <1>2, <2>1
  <2>3. PICK n \in U : \A m \in U : m <= n
    BY <2>1, <2>2 DEF B
  <2>4. n \in Nat /\ x \in Nat /\ T \subseteq Nat
    BY <1>3, <2>3
  <2>5. CASE x <= n
    <3>1. \A m \in T : m <= n
      BY <2>3, <2>4, <2>5
    <3> QED BY <1>0, <2>3, <3>1
  <2>6. CASE n <= x
    <3>1. \A m \in T : m <= x
      BY <2>3, <2>4, <2>6
    <3> QED BY <1>0, <1>3, <3>1
  <2> QED BY <2>4, <2>5, <2>6
<1> QED BY <1>4, <1>5

LEMMA MaxIn ==
    ASSUME NEW S, IsFiniteSet(S), S # {}, \A x \in S : x \in Nat
    PROVE  Max(S) \in S /\ \A n \in S : n <= Max(S)
<1>1. \E n \in S : \A m \in S : m <= n
  BY GreatestNatural
<1> QED BY <1>1 DEF Max

-----------------------------------------------------------------------------
(* The sums of the specification as sums of functions.                     *)
NetRows(rows, made, used, v) ==
    [w \in WorkOrders |-> (IF rows[w].variant = v THEN made[w] ELSE 0) - used[w][v]]

LEMMA NetSum ==
    ASSUME NEW rows, NEW made, NEW used, NEW v
    PROVE  NetOf(rows, made, used, v) = SumOver(NetRows(rows, made, used, v), WorkOrders)
<1> DEFINE F == NetRows(rows, made, used, v)
           e(w) == (IF rows[w].variant = v THEN made[w] ELSE 0) - used[w][v]
           P(g) == g = [s \in SUBSET WorkOrders |->
                          IF s = {} THEN 0 ELSE e(Choice(s)) + g[s \ {Choice(s)}]]
<1>1. NetOf(rows, made, used, v) = (CHOOSE g : P(g))[WorkOrders]
  BY Zenon DEF NetOf, MapThenSumSet, MapThenFoldSet, Choice
<1>2. ASSUME NEW s \in SUBSET WorkOrders, s # {} PROVE F[Choice(s)] = e(Choice(s))
  BY <1>2, ChoiceIn DEF NetRows
<1> HIDE DEF F, e
<1>3. \A g : P(g) <=> IsSum(g, F, WorkOrders)
  BY <1>2 DEF IsSum, Partial
<1> QED BY Zenon, <1>1, <1>3, SumIsChosen DEF F

LinesOf(items, lines, v) ==
    [k \in DOMAIN lines |-> IF items[lines[k].item].variant = v THEN lines[k].quantity ELSE 0]

LEMMA TakenSum ==
    ASSUME NEW items, NEW lines, NEW v
    PROVE  TakenFrom(items, lines, v) = SumOver(LinesOf(items, lines, v), DOMAIN lines)
<1> DEFINE S == DOMAIN lines
           F == LinesOf(items, lines, v)
           e(k) == IF items[lines[k].item].variant = v THEN lines[k].quantity ELSE 0
           P(g) == g = [s \in SUBSET S |-> IF s = {} THEN 0 ELSE e(Choice(s)) + g[s \ {Choice(s)}]]
<1>1. TakenFrom(items, lines, v) = (CHOOSE g : P(g))[S]
  BY Zenon DEF TakenFrom, MapThenSumSet, MapThenFoldSet, Choice
<1>2. ASSUME NEW s \in SUBSET S, s # {} PROVE F[Choice(s)] = e(Choice(s))
  BY <1>2, ChoiceIn DEF LinesOf
<1> HIDE DEF S, F, e
<1>3. \A g : P(g) <=> IsSum(g, F, S)
  BY <1>2 DEF IsSum, Partial
<1> QED BY Zenon, <1>1, <1>3, SumIsChosen DEF F, S

MaterialCosts(w) ==
    [i \in DOMAIN material[w] |-> material[w][i].consumed * CostPrice[item[i].variant]]

LEMMA UsedSum ==
    ASSUME NEW w
    PROVE  Used(w) = SumOver(MaterialCosts(w), DOMAIN material[w])
<1> DEFINE S == DOMAIN material[w]
           F == MaterialCosts(w)
           e(i) == material[w][i].consumed * CostPrice[item[i].variant]
           P(g) == g = [s \in SUBSET S |-> IF s = {} THEN 0 ELSE e(Choice(s)) + g[s \ {Choice(s)}]]
<1>1. Used(w) = (CHOOSE g : P(g))[S]
  BY Zenon DEF Used, MapThenSumSet, MapThenFoldSet, Choice
<1>2. ASSUME NEW s \in SUBSET S, s # {} PROVE F[Choice(s)] = e(Choice(s))
  BY <1>2, ChoiceIn DEF MaterialCosts
<1> HIDE DEF S, F, e
<1>3. \A g : P(g) <=> IsSum(g, F, S)
  BY <1>2 DEF IsSum, Partial
<1> QED BY Zenon, <1>1, <1>3, SumIsChosen DEF F, S

Line == [item : BomItems, quantity : Nat \ {0}]

LEMMA LinesFacts ==
    ASSUME NEW lines \in Consumptions
    PROVE  /\ IsFiniteSet(DOMAIN lines) /\ DOMAIN lines \subseteq Nat
           /\ \A k \in DOMAIN lines : lines[k].item \in BomItems /\ lines[k].quantity \in Nat
<1> DEFINE n == Len(lines)
<1>1. lines \in Seq(Line)
  BY ProductionConstants DEF Line
<1>2. DOMAIN lines = 1 .. n /\ n \in Nat /\ \A k \in DOMAIN lines : lines[k] \in Line
  BY <1>1
<1> HIDE DEF n
<1>3. IsFiniteSet(1 .. n) /\ 1 .. n \subseteq Nat
  BY <1>2, FS_Interval
<1>4. \A k \in DOMAIN lines : lines[k].item \in BomItems /\ lines[k].quantity \in Nat
  BY <1>2 DEF Line
<1> QED BY <1>2, <1>3, <1>4

LEMMA TakenNat ==
    ASSUME NEW items, NEW lines \in Consumptions, NEW v
    PROVE  TakenFrom(items, lines, v) \in Nat
<1> DEFINE F == LinesOf(items, lines, v)  S == DOMAIN lines
<1>1. IsFiniteSet(S) /\ \A k \in S : F[k] \in Nat
  BY LinesFacts DEF LinesOf
<1>2. TakenFrom(items, lines, v) = SumOver(F, S)
  BY TakenSum
<1> HIDE DEF F, S
<1> QED BY <1>1, <1>2, SumNat

(* What is taken depends on the variants of the items alone.               *)
LEMMA TakenSame ==
    ASSUME NEW items, NEW next, NEW lines \in Consumptions, NEW v,
           \A i \in LineItems(lines) : next[i].variant = items[i].variant
    PROVE  TakenFrom(next, lines, v) = TakenFrom(items, lines, v)
<1> DEFINE F == LinesOf(items, lines, v)  G == LinesOf(next, lines, v)  S == DOMAIN lines
<1>1. IsFiniteSet(S) /\ \A k \in S : G[k] = F[k]
  BY LinesFacts DEF LinesOf, LineItems
<1>2. TakenFrom(items, lines, v) = SumOver(F, S) /\ TakenFrom(next, lines, v) = SumOver(G, S)
  BY TakenSum
<1> HIDE DEF F, G, S
<1> QED BY <1>1, <1>2, SumSame

LEMMA TakenNothing ==
    ASSUME NEW items, NEW lines \in Consumptions, NEW v,
           \A i \in LineItems(lines) : items[i].variant # v
    PROVE  TakenFrom(items, lines, v) = 0
<1> DEFINE F == LinesOf(items, lines, v)  S == DOMAIN lines
<1>1. IsFiniteSet(S) /\ \A k \in S : F[k] = 0
  BY LinesFacts DEF LinesOf, LineItems
<1>2. TakenFrom(items, lines, v) = SumOver(F, S)
  BY TakenSum
<1> HIDE DEF F, S
<1> QED BY <1>1, <1>2, SumZero

(* One work order changes.                                                 *)
LEMMA NetUpdate ==
    ASSUME NEW rows, NEW made, NEW used, NEW rows2, NEW made2, NEW used2, NEW v,
           NEW w \in WorkOrders,
           \A x \in WorkOrders : /\ made[x] \in Int /\ made2[x] \in Int
                                 /\ used[x][v] \in Int /\ used2[x][v] \in Int,
           \A x \in WorkOrders \ {w} :
             NetRows(rows2, made2, used2, v)[x] = NetRows(rows, made, used, v)[x]
    PROVE  /\ NetOf(rows2, made2, used2, v) = NetOf(rows, made, used, v)
                + (NetRows(rows2, made2, used2, v)[w] - NetRows(rows, made, used, v)[w])
           /\ NetOf(rows, made, used, v) \in Int
<1> DEFINE F == NetRows(rows, made, used, v)  G == NetRows(rows2, made2, used2, v)
<1>1. IsFiniteSet(WorkOrders)
  BY ProductionConstants
<1>2. \A x \in WorkOrders : F[x] \in Int /\ G[x] \in Int
  BY DEF NetRows
<1>3. NetOf(rows, made, used, v) = SumOver(F, WorkOrders)
      /\ NetOf(rows2, made2, used2, v) = SumOver(G, WorkOrders)
  BY NetSum
<1>4. \A x \in WorkOrders \ {w} : F[x] = G[x]
  OBVIOUS
<1> HIDE DEF F, G
<1>5. SumOver(G, WorkOrders) = SumOver(F, WorkOrders) + (G[w] - F[w])
  BY <1>1, <1>2, <1>4, SumUpdate
<1>6. SumOver(F, WorkOrders) \in Int
  BY <1>1, <1>2, SumType
<1> QED BY <1>3, <1>5, <1>6 DEF F, G

LEMMA NetSame ==
    ASSUME NEW rows, NEW made, NEW used, NEW rows2, NEW made2, NEW used2, NEW v,
           \A x \in WorkOrders :
             NetRows(rows2, made2, used2, v)[x] = NetRows(rows, made, used, v)[x]
    PROVE  NetOf(rows2, made2, used2, v) = NetOf(rows, made, used, v)
<1> DEFINE F == NetRows(rows, made, used, v)  G == NetRows(rows2, made2, used2, v)
<1>1. IsFiniteSet(WorkOrders) /\ \A x \in WorkOrders : G[x] = F[x]
  BY ProductionConstants
<1>2. NetOf(rows, made, used, v) = SumOver(F, WorkOrders)
      /\ NetOf(rows2, made2, used2, v) = SumOver(G, WorkOrders)
  BY NetSum
<1> HIDE DEF F, G
<1> QED BY <1>1, <1>2, SumSame

-----------------------------------------------------------------------------
(* The parts of the invariant: the bills, the planned and work orders, the *)
(* rows that refer to bills, the stock, and the requests.                  *)
BillsRight ==
    /\ headers \subseteq Variants
    /\ version \in [Versions -> VersionRow \union {NoVersion}]
    /\ \A v \in CreatedVersions : version[v].header \in headers
    /\ item \in [BomItems -> ItemRow \union {NoItem, DeletedItem}]
    /\ extra \in [Extras -> Versions \union {None}]
    /\ OneActiveVersion /\ ParentsFirst /\ IdsInOrder

PlannedRow ==
    [status : {"proposed", "approved", "cancelled"}, workOrder : WorkOrders \union {None},
     purchased : BOOLEAN]

OrdersRight ==
    /\ planned \in [PlannedOrders -> PlannedRow]
    /\ bought \in [PlannedOrders -> Nat]
    /\ workOrder \in [WorkOrders -> WorkOrderRow \union {NoWorkOrder}]
    /\ ApprovalsMatchOrders /\ OrdersExist

RowsReferenced == UNION {DOMAIN material[w] \union DOMAIN process[w] : w \in WorkOrders}
MaterialRow == [planned : Nat \ {0}, consumed : Nat]

RefsRight ==
    /\ material = [w \in WorkOrders |-> material[w]]
    /\ process = [w \in WorkOrders |-> process[w]]
    /\ \A w \in WorkOrders :
         /\ DOMAIN material[w] \subseteq Stored
         /\ \A i \in DOMAIN material[w] : material[w][i] \in MaterialRow
         /\ process[w] \in [DOMAIN process[w] -> {"pending", "in_progress", "completed"}]
         /\ \A o \in DOMAIN process[w] : extra[o] # None
    /\ referenced = RowsReferenced /\ referenced \subseteq BomItems \union Extras
    /\ NothingBeforeConfirm

StockTypes ==
    /\ moved \in [WorkOrders -> SUBSET {"out", "in"}]
    /\ consumed \in [WorkOrders -> [Variants -> Nat]]
    /\ results \in [WorkOrders -> Nat]
    /\ journal \in [WorkOrders -> Nat \union {None}]
    /\ stock \in [Variants -> Nat] /\ summary \in Levels

Paid(w) == journal[w] # None \/ results[w] * CostPrice[workOrder[w].variant] = 0

StockRight ==
    /\ StockTypes
    /\ \A v \in Variants : stock[v] = OnHand[v] + NetOf(workOrder, results, consumed, v)
    /\ \A w \in WorkOrders :
         /\ workOrder[w].produced = results[w]
         /\ workOrder[w].status = "completed" => Paid(w)

RowsRight == BillsRight /\ OrdersRight /\ RefsRight /\ StockRight

RequestsRight ==
    /\ IdleHoldsNothing /\ LocksExclusive
    /\ pc = [r \in Requests |-> pc[r]] /\ needs = [r \in Requests |-> needs[r]]
    /\ tx = [r \in Requests |-> tx[r]] /\ locks = [r \in Requests |-> locks[r]]

LEMMA Parts == IInv <=> RowsRight /\ RequestsRight /\ \A r \in Requests : Knows(r)
<1>1. ASSUME IInv PROVE RowsRight /\ RequestsRight /\ \A r \in Requests : Knows(r)
  <2>1. TypeOK /\ ProductionAddsUp
    BY <1>1 DEF IInv, ProductionAddsUp
  <2>2. BillsRight
    BY <1>1, <2>1 DEF IInv, TypeOK, BomTypeOK, BillsRight
  <2>3. OrdersRight
    BY <1>1, <2>1 DEF IInv, TypeOK, OrdersRight, PlannedRow
  <2>4. RefsRight
    BY <1>1, <2>1 DEF IInv, TypeOK, BomTypeOK, RefsRight, RowsReferenced, MaterialRow
  <2>5. StockRight
    BY <2>1 DEF TypeOK, ProductionAddsUp, StockRight, StockTypes, Paid, Levels
  <2> QED BY <1>1, <2>1, <2>2, <2>3, <2>4, <2>5 DEF IInv, TypeOK, RowsRight, RequestsRight
<1>2. ASSUME RowsRight, RequestsRight, \A r \in Requests : Knows(r) PROVE IInv
  <2>1. BomTypeOK
    BY <1>2 DEF BomTypeOK, RowsRight, BillsRight, RefsRight
  <2>2. TypeOK
    BY <1>2, <2>1 DEF TypeOK, RowsRight, OrdersRight, PlannedRow, RefsRight, RowsReferenced,
         MaterialRow, StockRight, StockTypes, Levels, RequestsRight
  <2>3. ProductionAddsUp
    <3>1. \A v \in Variants : stock[v] >= 0
      BY <1>2 DEF RowsRight, StockRight, StockTypes
    <3> QED BY <1>2, <2>2, <3>1 DEF ProductionAddsUp, RowsRight, StockRight, Paid
  <2> QED BY <1>2, <2>3 DEF IInv, RowsRight, RequestsRight, BillsRight, OrdersRight, RefsRight
<1> QED BY <1>1, <1>2

LEMMA NextParts ==
    ASSUME RowsRight', RequestsRight', \A r \in Requests : Knows(r)'
    PROVE  IInv'
<1>1. BomTypeOK'
  BY DEF BomTypeOK, RowsRight, BillsRight, RefsRight
<1>2. TypeOK'
  BY <1>1 DEF TypeOK, RowsRight, OrdersRight, PlannedRow, RefsRight, RowsReferenced,
       MaterialRow, StockRight, StockTypes, Levels, RequestsRight
<1>3. ProductionAddsUp'
  <2>1. \A v \in Variants : stock'[v] >= 0
    BY DEF RowsRight, StockRight, StockTypes
  <2> QED BY <1>2, <2>1 DEF ProductionAddsUp, RowsRight, StockRight, Paid
<1> QED BY <1>3 DEF IInv, RowsRight, RequestsRight, BillsRight, OrdersRight, RefsRight

-----------------------------------------------------------------------------
(* Parts whose tables a step leaves alone.                                 *)
LEMMA BillSets ==
    ASSUME version' = version, item' = item
    PROVE  /\ CreatedVersions' = CreatedVersions
           /\ Stored' = Stored
           /\ \A h : VersionsOf(h)' = VersionsOf(h) /\ ActiveVersions(h)' = ActiveVersions(h)
<1>1. \A h : VersionsOf(h)' = VersionsOf(h)
  BY DEF VersionsOf
<1>2. \A h : ActiveVersions(h)' = ActiveVersions(h)
  BY <1>1 DEF ActiveVersions
<1> QED BY <1>1, <1>2 DEF CreatedVersions, Stored

LEMMA BillsSame ==
    ASSUME BillsRight, headers' = headers, version' = version, item' = item, extra' = extra
    PROVE  BillsRight'
<1>1. OneActiveVersion'
  BY BillSets DEF BillsRight, OneActiveVersion
<1>2. ParentsFirst' /\ IdsInOrder'
  BY BillSets DEF BillsRight, ParentsFirst, Placed, IdsInOrder, BelowParent
<1> QED BY <1>1, <1>2, BillSets DEF BillsRight

LEMMA OrdersSame ==
    ASSUME OrdersRight, planned' = planned, bought' = bought, workOrder' = workOrder
    PROVE  OrdersRight'
<1>1. Created' = Created
  BY DEF Created
<1> QED BY <1>1 DEF OrdersRight, ApprovalsMatchOrders, OrdersExist

LEMMA RefsSame ==
    ASSUME RefsRight, item' = item, extra' = extra, referenced' = referenced,
           material' = material, process' = process, workOrder' = workOrder
    PROVE  RefsRight'
<1>1. Stored' = Stored
  BY DEF Stored
<1>2. RowsReferenced' = RowsReferenced
  BY DEF RowsReferenced
<1> QED BY <1>1, <1>2 DEF RefsRight, NothingBeforeConfirm

LEMMA StockSame ==
    ASSUME StockRight, workOrder' = workOrder, moved' = moved, consumed' = consumed,
           results' = results, journal' = journal, stock' = stock, summary' = summary
    PROVE  StockRight'
BY DEF StockRight, StockTypes, Paid

LEMMA SameTables ==
    ASSUME tables' = tables
    PROVE  /\ headers' = headers /\ version' = version /\ item' = item /\ extra' = extra
           /\ referenced' = referenced
           /\ planned' = planned /\ bought' = bought /\ workOrder' = workOrder
           /\ material' = material /\ process' = process /\ moved' = moved
           /\ consumed' = consumed /\ results' = results /\ journal' = journal
           /\ stock' = stock /\ summary' = summary
BY DEF tables, bomTables, orders, shopFloor

LEMMA RowsUnchanged == ASSUME RowsRight, tables' = tables PROVE RowsRight'
BY SameTables, BillsSame, OrdersSame, RefsSame, StockSame DEF RowsRight

-----------------------------------------------------------------------------
(* What a step leaves to those that hold the given locks: nobody needs any *)
(* for what it has read of a bill.                                         *)
BillsRespected ==
    /\ headers \subseteq headers' /\ CreatedVersions \subseteq CreatedVersions'
    /\ \A i \in BomItems : item[i] # NoItem =>
         /\ item'[i] # NoItem
         /\ i \in Stored' => /\ i \in Stored
                             /\ item'[i].version = item[i].version
                             /\ item'[i].level = item[i].level
                             /\ item'[i].variant = item[i].variant

OrdersRespected(held) ==
    /\ Created \subseteq Created'
    /\ \A w \in Created : WorkOrderLock(w) \in held =>
         workOrder'[w].status = workOrder[w].status
    /\ \A p \in PlannedOrders : PlannedLock(p) \in held => planned'[p] = planned[p]

ShopRespected(held) ==
    /\ \A w \in WorkOrders : DOMAIN material[w] \subseteq DOMAIN material'[w]
    /\ \A v \in Variants : StockLock(v) \in held => stock'[v] >= stock[v]

Respects(held) == BillsRespected /\ OrdersRespected(held) /\ ShopRespected(held)

SameRequest(q) ==
    pc'[q] = pc[q] /\ needs'[q] = needs[q] /\ tx'[q] = tx[q] /\ locks'[q] = locks[q]

LEMMA StoredRows ==
    ASSUME BillsRight
    PROVE  /\ \A i \in Stored : item[i] \in ItemRow /\ item[i] # NoItem /\ i \in BomItems
           /\ \A i \in BomItems : item[i] \in ItemRow => i \in Stored
           /\ None \notin BomItems /\ None \notin Versions /\ None \notin WorkOrders
<1>1. None \notin BomItems /\ None \notin Versions /\ None \notin WorkOrders
  BY BomConstants, ProductionConstants
<1>2. NoItem.version = None /\ DeletedItem.version = None
  BY DEF NoItem, DeletedItem
<1>3. ASSUME NEW i \in Stored PROVE item[i] \in ItemRow /\ item[i] # NoItem /\ i \in BomItems
  BY <1>2 DEF Stored, BillsRight
<1>4. ASSUME NEW i \in BomItems, item[i] \in ItemRow PROVE i \in Stored
  BY <1>1, <1>4 DEF Stored, ItemRow
<1> QED BY <1>1, <1>3, <1>4

LEMMA RowFitsKept ==
    ASSUME BillsRight, NEW row, RowFits(row), BillsRespected
    PROVE  RowFits(row)'
<1>1. CASE row.parent = None /\ row.level = 0
  BY <1>1 DEF RowFits
<1>2. CASE /\ row.parent \in BomItems /\ item[row.parent] # NoItem
           /\ row.parent \in Stored => BelowParent(row, row.parent)
  <2>1. item'[row.parent] # NoItem
    BY <1>2 DEF BillsRespected
  <2>2. ASSUME row.parent \in Stored' PROVE BelowParent(row, row.parent)'
    BY <1>2, <2>2 DEF BillsRespected, BelowParent
  <2> QED BY <1>2, <2>1, <2>2 DEF RowFits
<1> QED BY <1>1, <1>2 DEF RowFits

LEMMA BillKept ==
    ASSUME BillsRight, NEW q, BillKnows(q), SameRequest(q), BillsRespected
    PROVE  BillKnows(q)'
<1>1. CASE pc[q] = "insertItem"
  <2>1. RowFits(tx[q].row)
    BY <1>1 DEF BillKnows
  <2>2. PICK row : row = tx[q].row
    OBVIOUS
  <2>3. RowFits(row)'
    BY <2>1, <2>2, RowFitsKept
  <2>4. tx'[q].row = row /\ pc'[q] = "insertItem"
    BY <1>1, <2>2 DEF SameRequest
  <2> QED BY <2>3, <2>4 DEF BillKnows
<1>2. CASE pc[q] # "insertItem"
  <2>1. headers \subseteq headers' /\ CreatedVersions \subseteq CreatedVersions'
        /\ \A i \in BomItems : item[i] # NoItem => item'[i] # NoItem
    BY DEF BillsRespected
  <2> QED BY <1>2, <2>1 DEF BillKnows, SameRequest
<1> QED BY <1>1, <1>2

LEMMA OrderKept ==
    ASSUME NEW q, OrderKnows(q), SameRequest(q), OrdersRespected(locks[q])
    PROVE  OrderKnows(q)'
<1>1. Created \subseteq Created'
  BY DEF OrdersRespected
<1>2. CASE pc[q] = "commitApproval"
  <2>1. planned'[tx[q].id] = planned[tx[q].id]
    BY <1>2 DEF OrderKnows, OrdersRespected
  <2> QED BY <1>2, <2>1 DEF OrderKnows, SameRequest, Approvable
<1>3. CASE pc[q] # "commitApproval"
  BY <1>1, <1>3 DEF OrderKnows, SameRequest
<1> QED BY <1>2, <1>3

LEMMA StatusKept ==
    ASSUME NEW q, NEW w \in Created, WorkOrderLock(w) \in locks[q], OrdersRespected(locks[q])
    PROVE  /\ w \in Created' /\ workOrder'[w].status = workOrder[w].status
           /\ Open(w) => Open(w)'
BY DEF OrdersRespected, Created, Open

LEMMA ConfirmKept ==
    ASSUME NEW q, ConfirmKnows(q), SameRequest(q), OrdersRespected(locks[q])
    PROVE  ConfirmKnows(q)'
<1>1. tx[q].id \in Created /\ tx[q].id \in Created'
  BY DEF ConfirmKnows, OrdersRespected
<1>2. CASE pc[q] = "confirm"
  BY <1>1, <1>2 DEF ConfirmKnows, SameRequest
<1>3. CASE pc[q] = "commitWork"
  <2>1. WorkOrderLock(tx[q].id) \in locks[q]
    BY <1>3 DEF ConfirmKnows
  <2>2. workOrder'[tx[q].id].status = workOrder[tx[q].id].status
    BY <1>1, <2>1, StatusKept
  <2> QED BY <1>1, <1>3, <2>2 DEF ConfirmKnows, SameRequest
<1> QED BY <1>2, <1>3 DEF ConfirmKnows

LEMMA ResultKept ==
    ASSUME NEW q, ResultKnows(q), SameRequest(q), OrdersRespected(locks[q])
    PROVE  ResultKnows(q)'
<1>1. tx[q].id \in Created /\ tx[q].id \in Created'
  BY DEF ResultKnows, OrdersRespected
<1>2. CASE pc[q] = "result"
  BY <1>1, <1>2 DEF ResultKnows, SameRequest
<1>3. CASE pc[q] = "refreshResult"
  <2>1. WorkOrderLock(tx[q].id) \in locks[q] /\ Open(tx[q].id)
    BY <1>3 DEF ResultKnows
  <2>2. Open(tx[q].id)'
    BY <1>1, <2>1, StatusKept DEF SameRequest, Open
  <2> QED BY <1>1, <1>3, <2>1, <2>2 DEF ResultKnows, SameRequest
<1> QED BY <1>2, <1>3 DEF ResultKnows

(* The materials of a work order stay where they are, so the lines of a    *)
(* consumption go on meaning the same variants.                            *)
LEMMA LinesKept ==
    ASSUME RowsRight, RowsRight', BillsRespected, NEW w \in WorkOrders, NEW lines,
           DOMAIN material[w] \subseteq DOMAIN material'[w],
           LineItems(lines) \subseteq DOMAIN material[w]
    PROVE  \A i \in LineItems(lines) : /\ i \in BomItems /\ i \in Stored /\ i \in Stored'
                                       /\ item'[i].variant = item[i].variant
                                       /\ item[i].variant \in Variants
<1>1. ASSUME NEW i \in LineItems(lines)
      PROVE  i \in Stored /\ i \in Stored' /\ i \in BomItems /\ item[i] \in ItemRow
             /\ item[i] # NoItem
  <2>1. i \in Stored /\ i \in Stored'
    BY DEF RowsRight, RefsRight
  <2> QED BY <2>1, StoredRows DEF RowsRight
<1>2. ASSUME NEW i \in LineItems(lines)
      PROVE  item'[i].variant = item[i].variant /\ item[i].variant \in Variants
  BY <1>1 DEF BillsRespected, ItemRow
<1> QED BY <1>1, <1>2

LEMMA CoveredKept ==
    ASSUME RowsRight, RowsRight', NEW held, ShopRespected(held), NEW lines \in Consumptions,
           Covered(lines), StockLocks(lines) \subseteq held,
           \A i \in LineItems(lines) : item'[i].variant = item[i].variant
    PROVE  Covered(lines)'
<1>1. ASSUME NEW v \in Variants PROVE TakenFrom(item', lines, v) <= stock'[v]
  <2>1. TakenFrom(item', lines, v) = TakenFrom(item, lines, v)
    BY TakenSame
  <2>2. TakenFrom(item, lines, v) \in Nat
    BY TakenNat
  <2>3. stock[v] \in Nat /\ stock'[v] \in Nat
    BY DEF RowsRight, StockRight, StockTypes
  <2>4. Taken(lines)[v] <= stock[v] /\ Taken(lines)[v] = TakenFrom(item, lines, v)
    BY DEF Covered, Taken
  <2>5. CASE \E i \in LineItems(lines) : item[i].variant = v
    <3>1. StockLock(v) \in held
      BY <2>5 DEF StockLocks
    <3>2. stock'[v] >= stock[v]
      BY <3>1 DEF ShopRespected
    <3> QED BY <2>1, <2>2, <2>3, <2>4, <3>2
  <2>6. CASE \A i \in LineItems(lines) : item[i].variant # v
    <3>1. TakenFrom(item, lines, v) = 0
      BY <2>6, TakenNothing
    <3> QED BY <2>1, <2>3, <3>1
  <2> QED BY <2>5, <2>6
<1>2. \A v \in Variants : Taken(lines)'[v] = TakenFrom(item', lines, v)
  BY DEF Taken
<1> QED BY <1>1, <1>2 DEF Covered

LEMMA ConsumeKept ==
    ASSUME RowsRight, RowsRight', NEW q, ConsumeKnows(q), SameRequest(q), Respects(locks[q])
    PROVE  ConsumeKnows(q)'
<1>1. PICK w : w = tx[q].id
  OBVIOUS
<1>2. PICK lines : lines = tx[q].lines
  OBVIOUS
<1>3. w \in Created /\ w \in Created' /\ lines \in Consumptions
      /\ tx'[q].id = w /\ tx'[q].lines = lines
  BY <1>1, <1>2 DEF ConsumeKnows, Respects, OrdersRespected, SameRequest
<1>4. CASE pc[q] = "consume"
  <2>1. needs[q] = {WorkOrderLock(w)}
    BY <1>1, <1>4 DEF ConsumeKnows
  <2> QED BY <1>3, <1>4, <2>1 DEF ConsumeKnows, SameRequest
<1>5. CASE pc[q] \in {"stock", "refreshConsume"}
  <2>1. /\ WorkOrderLock(w) \in locks[q] /\ Open(w)
        /\ LineItems(lines) \subseteq DOMAIN material[w]
    BY <1>1, <1>2, <1>5 DEF ConsumeKnows
  <2>2. Open(w)'
    BY <1>3, <2>1, StatusKept DEF Respects
  <2>3. w \in WorkOrders /\ DOMAIN material[w] \subseteq DOMAIN material'[w]
    BY <1>3 DEF Created, Respects, ShopRespected
  <2>4. \A i \in LineItems(lines) : item'[i].variant = item[i].variant
    BY <2>1, <2>3, LinesKept DEF Respects
  <2>5. StockLocks(lines)' = StockLocks(lines)
    BY <2>4 DEF StockLocks
  <2>6. CASE pc[q] = "stock"
    <3>1. needs[q] = StockLocks(lines)
      BY <1>2, <2>6 DEF ConsumeKnows
    <3> QED BY <1>3, <2>1, <2>2, <2>3, <2>5, <2>6, <3>1 DEF ConsumeKnows, SameRequest
  <2>7. CASE pc[q] = "refreshConsume"
    <3>1. tx[q].seen \in Levels /\ StockLocks(lines) \subseteq locks[q] /\ Covered(lines)
      BY <1>2, <2>7 DEF ConsumeKnows
    <3>2. Covered(lines)'
      BY <1>3, <2>4, <3>1, CoveredKept DEF Respects
    <3>3. tx'[q].seen \in Levels /\ StockLocks(lines)' \subseteq locks'[q]
          /\ WorkOrderLock(w) \in locks'[q] /\ pc'[q] = "refreshConsume"
      BY <2>1, <2>5, <2>7, <3>1 DEF SameRequest
    <3> QED BY <1>3, <2>1, <2>2, <2>3, <3>2, <3>3 DEF ConsumeKnows
  <2> QED BY <1>5, <2>6, <2>7
<1> QED BY <1>4, <1>5 DEF ConsumeKnows

LEMMA KnowsKept ==
    ASSUME RowsRight, RowsRight', NEW q, Knows(q), SameRequest(q), Respects(locks[q])
    PROVE  Knows(q)'
<1>1. CASE pc[q] = "idle"
  BY <1>1 DEF Knows, SameRequest
<1>2. BillsRight /\ BillsRespected /\ OrdersRespected(locks[q])
  BY DEF RowsRight, Respects
<1> QED BY <1>1, <1>2, BillKept, OrderKept, ConfirmKept, ConsumeKept, ResultKept DEF Knows
-----------------------------------------------------------------------------
(* Steps of one request: what has to be shown of each.                     *)
LEMMA TakenExclusive ==
    ASSUME RequestsRight, NEW r \in Requests, NEW taken, \A x \in taken : Free(r, x),
           locks' = [locks EXCEPT ![r] = locks[r] \union taken]
    PROVE  LocksExclusive'
<1>1. \A q \in Requests \ {r} : taken \intersect locks[q] = {}
  BY DEF Free
<1>2. DOMAIN locks = Requests
  BY DEF RequestsRight
<1>3. locks'[r] = locks[r] \union taken /\ \A q \in Requests \ {r} : locks'[q] = locks[q]
  BY <1>2
<1>4. \A p, q \in Requests : p # q => locks[p] \intersect locks[q] = {}
  BY DEF RequestsRight, LocksExclusive
<1>5. ASSUME NEW p \in Requests, NEW q \in Requests, p # q
      PROVE  locks'[p] \intersect locks'[q] = {}
  <2>1. CASE p = r
    BY <1>1, <1>3, <1>4, <1>5, <2>1
  <2>2. CASE q = r
    BY <1>1, <1>3, <1>4, <1>5, <2>2
  <2>3. CASE p # r /\ q # r
    BY <1>3, <1>4, <1>5, <2>3
  <2> QED BY <2>1, <2>2, <2>3
<1> QED BY <1>5 DEF LocksExclusive

LEMMA TablesRespect ==
    ASSUME RowsRight, tables' = tables, NEW held
    PROVE  Respects(held)
<1>1. headers' = headers /\ version' = version /\ item' = item /\ planned' = planned
      /\ workOrder' = workOrder /\ material' = material /\ stock' = stock
  BY SameTables
<1>2. BillsRespected
  BY <1>1, BillSets DEF BillsRespected
<1>3. OrdersRespected(held)
  <2>1. Created' = Created
    BY <1>1 DEF Created
  <2> QED BY <1>1, <2>1 DEF OrdersRespected
<1>4. ShopRespected(held)
  <2>1. \A v \in Variants : stock'[v] >= stock[v]
    BY <1>1 DEF RowsRight, StockRight, StockTypes
  <2> QED BY <1>1, <2>1 DEF ShopRespected
<1> QED BY <1>2, <1>3, <1>4 DEF Respects

(* The request r has step t, need and held after it; the others find what  *)
(* they know respected.                                                    *)
LEMMA RequestStep ==
    ASSUME IInv, NEW r \in Requests, NEW step, NEW need, NEW t, NEW held,
           begun' \in 0 .. MaxRequests,
           pc' = [pc EXCEPT ![r] = step], needs' = [needs EXCEPT ![r] = need],
           tx' = [tx EXCEPT ![r] = t], locks' = [locks EXCEPT ![r] = held],
           LocksExclusive', step = "idle" => t = NoTx /\ need = {} /\ held = {},
           RowsRight', \A q \in Requests \ {r} : Respects(locks[q]),
           pc'[r] = step /\ needs'[r] = need /\ tx'[r] = t /\ locks'[r] = held => Knows(r)'
    PROVE  IInv'
<1>1. RowsRight /\ RequestsRight /\ \A q \in Requests : Knows(q)
  BY Parts
<1>2. DOMAIN pc = Requests /\ DOMAIN needs = Requests /\ DOMAIN tx = Requests
      /\ DOMAIN locks = Requests
  BY <1>1 DEF RequestsRight
<1>3. pc'[r] = step /\ needs'[r] = need /\ tx'[r] = t /\ locks'[r] = held
  BY <1>2
<1>4. \A q \in Requests \ {r} : SameRequest(q)
  BY <1>2 DEF SameRequest
<1>5. ASSUME NEW q \in Requests PROVE Knows(q)'
  <2>1. CASE q = r
    BY <1>3, <2>1
  <2>2. CASE q # r
    BY <1>1, <1>4, <2>2, KnowsKept
  <2> QED BY <2>1, <2>2
<1>6. IdleHoldsNothing'
  <2>1. ASSUME NEW q \in Requests, pc'[q] = "idle"
        PROVE  tx'[q] = NoTx /\ needs'[q] = {} /\ locks'[q] = {}
    <3>1. CASE q = r
      BY <1>3, <2>1, <3>1
    <3>2. CASE q # r
      BY <1>1, <1>4, <2>1, <3>2 DEF SameRequest, RequestsRight, IdleHoldsNothing
    <3> QED BY <3>1, <3>2
  <2> QED BY <2>1 DEF IdleHoldsNothing
<1>7. /\ pc' = [q \in Requests |-> pc'[q]] /\ needs' = [q \in Requests |-> needs'[q]]
      /\ tx' = [q \in Requests |-> tx'[q]] /\ locks' = [q \in Requests |-> locks'[q]]
  BY <1>2
<1>8. RequestsRight'
  BY <1>6, <1>7 DEF RequestsRight
<1> QED BY <1>5, <1>8, NextParts

LEMMA BegunBound == ASSUME IInv PROVE MaxRequests \in Nat /\ begun \in 0 .. MaxRequests
BY TransactionsConstants DEF IInv, ProductionAddsUp, TypeOK, IdleHoldsNothing

LEMMA ReleasedExclusive ==
    ASSUME IInv, NEW r \in Requests, locks' = [locks EXCEPT ![r] = {}]
    PROVE  LocksExclusive'
<1>1. DOMAIN locks = Requests /\ LocksExclusive
  BY Parts DEF RequestsRight
<1>2. locks'[r] = {} /\ \A q \in Requests \ {r} : locks'[q] = locks[q]
  BY <1>1
<1>3. ASSUME NEW p \in Requests, NEW q \in Requests, p # q
      PROVE  locks'[p] \intersect locks'[q] = {}
  <2>1. CASE p = r \/ q = r
    BY <1>2, <2>1
  <2>2. CASE p # r /\ q # r
    BY <1>1, <1>2, <1>3, <2>2 DEF LocksExclusive
  <2> QED BY <2>1, <2>2
<1> QED BY <1>3 DEF LocksExclusive

(* COMMIT.                                                                 *)
LEMMA EndStep ==
    ASSUME IInv, NEW r \in Requests, End(r), RowsRight',
           \A q \in Requests \ {r} : Respects(locks[q])
    PROVE  IInv'
<1>1. /\ pc' = [pc EXCEPT ![r] = "idle"] /\ needs' = [needs EXCEPT ![r] = {}]
      /\ tx' = [tx EXCEPT ![r] = NoTx] /\ locks' = [locks EXCEPT ![r] = {}]
      /\ begun' \in 0 .. MaxRequests
  BY BegunBound DEF End
<1>2. LocksExclusive'
  BY <1>1, ReleasedExclusive
<1>3. pc'[r] = "idle" => Knows(r)'
  BY DEF Knows
<1> DEFINE t == NoTx
<1> HIDE DEF t
<1>4. tx' = [tx EXCEPT ![r] = t] /\ t = NoTx
  BY <1>1 DEF t
<1> QED BY <1>1, <1>2, <1>3, <1>4, RequestStep

(* ROLLBACK.                                                               *)
LEMMA RollbackStep ==
    ASSUME IInv, NEW r \in Requests, End(r), tables' = tables
    PROVE  IInv'
<1>1. RowsRight
  BY Parts
<1> QED BY <1>1, RowsUnchanged, TablesRespect, EndStep

LEMMA IdleFacts ==
    ASSUME IInv, NEW r \in Requests, pc[r] = "idle"
    PROVE  tx[r] = NoTx /\ needs[r] = {} /\ locks[r] = {}
BY Parts DEF RequestsRight, IdleHoldsNothing

LEMMA AutoStep ==
    ASSUME IInv, NEW r \in Requests, NEW x, Autocommit(r, x), RowsRight',
           \A q \in Requests \ {r} : Respects(locks[q])
    PROVE  IInv'
<1>1. /\ pc[r] = "idle" /\ pc' = pc /\ needs' = needs /\ tx' = tx /\ locks' = locks
      /\ begun' \in 0 .. MaxRequests
  BY BegunBound DEF Autocommit
<1>2. tx[r] = NoTx /\ needs[r] = {} /\ locks[r] = {}
  BY <1>1, IdleFacts
<1>3. DOMAIN pc = Requests /\ DOMAIN needs = Requests /\ DOMAIN tx = Requests
      /\ DOMAIN locks = Requests
  BY Parts DEF RequestsRight
<1> DEFINE t == NoTx
<1> HIDE DEF t
<1>4. /\ pc = [q \in Requests |-> pc[q]] /\ needs = [q \in Requests |-> needs[q]]
      /\ tx = [q \in Requests |-> tx[q]] /\ locks = [q \in Requests |-> locks[q]]
  BY Parts DEF RequestsRight
<1>5. /\ pc' = [pc EXCEPT ![r] = "idle"] /\ needs' = [needs EXCEPT ![r] = {}]
      /\ locks' = [locks EXCEPT ![r] = {}]
  BY <1>1, <1>2, <1>3, <1>4
<1>6. tx' = [tx EXCEPT ![r] = t] /\ t = NoTx
  BY <1>1, <1>2, <1>3, <1>4 DEF t
<1>7. LocksExclusive'
  BY <1>5, ReleasedExclusive
<1>8. pc'[r] = "idle" => Knows(r)'
  BY DEF Knows
<1>9. begun' \in 0 .. MaxRequests
  BY <1>1
<1> QED BY <1>5, <1>6, <1>7, <1>8, <1>9, RequestStep

LEMMA BeginStep ==
    ASSUME IInv, NEW r \in Requests, NEW step, NEW need, NEW t, step # "idle",
           Begin(r, step, need, t), tables' = tables,
           pc'[r] = step /\ needs'[r] = need /\ tx'[r] = t /\ locks'[r] = {} => Knows(r)'
    PROVE  IInv'
<1>1. /\ pc[r] = "idle" /\ pc' = [pc EXCEPT ![r] = step]
      /\ needs' = [needs EXCEPT ![r] = need] /\ tx' = [tx EXCEPT ![r] = t] /\ locks' = locks
      /\ begun' \in 0 .. MaxRequests
  BY BegunBound DEF Begin
<1>2. locks[r] = {} /\ locks = [q \in Requests |-> locks[q]]
  BY <1>1, IdleFacts, Parts DEF RequestsRight
<1>3. locks' = [locks EXCEPT ![r] = {}]
  BY <1>1, <1>2
<1>4. LocksExclusive'
  BY <1>3, ReleasedExclusive
<1>5. RowsRight
  BY Parts
<1>6. RowsRight' /\ \A q \in Requests \ {r} : Respects(locks[q])
  BY <1>5, RowsUnchanged, TablesRespect
<1> QED BY <1>1, <1>3, <1>4, <1>6, RequestStep

LEMMA ContinueStep ==
    ASSUME IInv, NEW r \in Requests, NEW step, NEW need, NEW t, step # "idle",
           \A x \in needs[r] : Free(r, x), Continue(r, step, need, t), tables' = tables,
           pc'[r] = step /\ needs'[r] = need /\ tx'[r] = t
             /\ locks'[r] = locks[r] \union needs[r] => Knows(r)'
    PROVE  IInv'
<1> DEFINE taken == needs[r]  held == locks[r] \union taken
<1>1. /\ pc' = [pc EXCEPT ![r] = step]
      /\ needs' = [needs EXCEPT ![r] = need] /\ tx' = [tx EXCEPT ![r] = t]
      /\ locks' = [locks EXCEPT ![r] = held] /\ begun' \in 0 .. MaxRequests
  BY BegunBound DEF Continue
<1>2. \A x \in taken : Free(r, x)
  OBVIOUS
<1>3. pc'[r] = step /\ needs'[r] = need /\ tx'[r] = t /\ locks'[r] = held => Knows(r)'
  OBVIOUS
<1>4. RowsRight /\ RequestsRight
  BY Parts
<1> HIDE DEF taken
<1>5. LocksExclusive'
  BY <1>1, <1>2, <1>4, TakenExclusive
<1>6. RowsRight' /\ \A q \in Requests \ {r} : Respects(locks[q])
  BY <1>4, RowsUnchanged, TablesRespect
<1> HIDE DEF held
<1> QED BY <1>1, <1>3, <1>5, <1>6, RequestStep

-----------------------------------------------------------------------------
(* What the request knows, by the statement it is at.                      *)
LEMMA BillAt ==
    ASSUME NEW r, Knows(r),
           pc[r] \in {"insertVersion", "countItems", "obsolete", "activate", "insertItem",
                      "updateItem", "deleteChildren", "deleteItem", "insertExtra"}
    PROVE  BillKnows(r)
<1>1. ~ OrderKnows(r)
  BY DEF OrderKnows
<1>2. ~ ConfirmKnows(r) /\ ~ ConsumeKnows(r) /\ ~ ResultKnows(r)
  BY DEF ConfirmKnows, ConsumeKnows, ResultKnows
<1> QED BY <1>1, <1>2 DEF Knows

LEMMA OrderAt ==
    ASSUME NEW r, Knows(r),
           pc[r] \in {"insertOrder", "approve", "commitApproval", "updateOrder", "cancelOrder"}
    PROVE  OrderKnows(r)
<1>1. ~ BillKnows(r)
  BY DEF BillKnows
<1>2. ~ ConfirmKnows(r) /\ ~ ConsumeKnows(r) /\ ~ ResultKnows(r)
  BY DEF ConfirmKnows, ConsumeKnows, ResultKnows
<1> QED BY <1>1, <1>2 DEF Knows

LEMMA ConfirmAt ==
    ASSUME NEW r, Knows(r), pc[r] \in {"confirm", "commitWork"}
    PROVE  ConfirmKnows(r)
<1>1. ~ BillKnows(r) /\ ~ OrderKnows(r)
  BY DEF BillKnows, OrderKnows
<1>2. ~ ConsumeKnows(r) /\ ~ ResultKnows(r)
  BY DEF ConsumeKnows, ResultKnows
<1> QED BY <1>1, <1>2 DEF Knows

LEMMA ConsumeAt ==
    ASSUME NEW r, Knows(r), pc[r] \in {"consume", "stock", "refreshConsume"}
    PROVE  ConsumeKnows(r)
<1>1. ~ BillKnows(r) /\ ~ OrderKnows(r)
  BY DEF BillKnows, OrderKnows
<1>2. ~ ConfirmKnows(r) /\ ~ ResultKnows(r)
  BY DEF ConfirmKnows, ResultKnows
<1> QED BY <1>1, <1>2 DEF Knows

LEMMA ResultAt ==
    ASSUME NEW r, Knows(r), pc[r] \in {"result", "refreshResult"}
    PROVE  ResultKnows(r)
<1>1. ~ BillKnows(r) /\ ~ OrderKnows(r)
  BY DEF BillKnows, OrderKnows
<1>2. ~ ConfirmKnows(r) /\ ~ ConsumeKnows(r)
  BY DEF ConfirmKnows, ConsumeKnows
<1> QED BY <1>1, <1>2 DEF Knows

-----------------------------------------------------------------------------
(* Requests begin.                                                         *)
LEMMA NextNumber ==
    ASSUME BillsRight, NEW h
    PROVE  LastNumber(h) + 1 \in Nat \ {0}
<1> DEFINE S == VersionsOf(h)  T == {0} \union {version[v].number : v \in S}
           f == [v \in S |-> version[v].number]
<1>1. IsFiniteSet(S)
  BY BomConstants, FS_Subset DEF VersionsOf
<1>2. \A v \in S : version[v].number \in Nat
  BY DEF VersionsOf, BillsRight, VersionRow, NoVersion
<1>3. IsFiniteSet({version[v].number : v \in S})
  <2>1. f \in Surjection(S, {version[v].number : v \in S})
    BY DEF Surjection
  <2> HIDE DEF S, f
  <2> QED BY <1>1, <2>1, FS_Surjection
<1>4. IsFiniteSet(T)
  <2>1. T = {version[v].number : v \in S} \union {0}
    OBVIOUS
  <2> QED BY <1>3, <2>1, FS_AddElement
<1>5. T # {} /\ \A x \in T : x \in Nat
  BY <1>2
<1>6. LastNumber(h) = Max(T)
  BY DEF LastNumber
<1> HIDE DEF T
<1>7. Max(T) \in Nat
  BY <1>4, <1>5, MaxIn
<1> QED BY <1>6, <1>7

LEMMA BeginVersionStep ==
    ASSUME IInv, NEW r \in Requests, BeginVersion(r), tables' = tables
    PROVE  IInv'
<1>1. PICK h \in headers : Begin(r, "insertVersion", {}, [op |-> "version", header |-> h,
                                        number |-> LastNumber(h) + 1])
  BY DEF BeginVersion
<1>2. LastNumber(h) + 1 \in Nat \ {0} /\ headers' = headers
  BY Parts, NextNumber, SameTables DEF RowsRight
<1>3. PICK t : t = [op |-> "version", header |-> h, number |-> LastNumber(h) + 1]
  OBVIOUS
<1>4. t \in [op : {"version"}, header : headers', number : Nat \ {0}]
  BY <1>2, <1>3
<1>5. ASSUME pc'[r] = "insertVersion", tx'[r] = t PROVE Knows(r)'
  BY <1>4, <1>5 DEF Knows, BillKnows
<1>6. Begin(r, "insertVersion", {}, t)
  BY <1>1, <1>3
<1> QED BY <1>5, <1>6, BeginStep

LEMMA BeginActivateStep ==
    ASSUME IInv, NEW r \in Requests, BeginActivate(r), tables' = tables
    PROVE  IInv'
<1>1. PICK v \in Versions : /\ version[v].status = "draft"
                            /\ Begin(r, "countItems", {}, [op |-> "activate", id |-> v])
  BY DEF BeginActivate
<1>2. v \in CreatedVersions'
  BY <1>1, SameTables DEF CreatedVersions
<1>3. ASSUME pc'[r] = "countItems", tx'[r] = [op |-> "activate", id |-> v] PROVE Knows(r)'
  BY <1>2, <1>3 DEF Knows, BillKnows
<1> QED BY <1>1, <1>3, BeginStep

LEMMA BeginAddItemStep ==
    ASSUME IInv, NEW r \in Requests, BeginAddItem(r), tables' = tables
    PROVE  IInv'
<1>0. PICK v \in Versions, new \in Components :
        \E parent \in ItemsOfVersion(v) \union {None} :
          Begin(r, "insertItem", {},
                [op |-> "addItem",
                 row |-> [version |-> v, parent |-> parent, variant |-> new.variant,
                          phantom |-> new.phantom, amount |-> new.amount,
                          level |-> IF parent = None THEN 0 ELSE item[parent].level + 1]])
  BY DEF BeginAddItem
<1>1. PICK parent \in ItemsOfVersion(v) \union {None} :
        Begin(r, "insertItem", {},
              [op |-> "addItem",
               row |-> [version |-> v, parent |-> parent, variant |-> new.variant,
                        phantom |-> new.phantom, amount |-> new.amount,
                        level |-> IF parent = None THEN 0 ELSE item[parent].level + 1]])
  BY <1>0
<1>2. PICK row : row = [version |-> v, parent |-> parent, variant |-> new.variant,
                        phantom |-> new.phantom, amount |-> new.amount,
                        level |-> IF parent = None THEN 0 ELSE item[parent].level + 1]
  OBVIOUS
<1>3. PICK t : t = [op |-> "addItem", row |-> row]
  OBVIOUS
<1>4. BillsRight /\ item' = item /\ new \in Component
  BY Parts, SameTables, BomConstants DEF RowsRight
<1>5. parent # None => parent \in Stored /\ item[parent].version = v /\ parent \in BomItems
                       /\ item[parent] # NoItem /\ item[parent] \in ItemRow
  BY <1>4, StoredRows DEF ItemsOfVersion
<1>6. row \in ItemRow
  BY <1>2, <1>4, <1>5 DEF Component, ItemRow
<1>7. RowFits(row)
  BY <1>2, <1>5, <1>6 DEF RowFits, BelowParent
<1>8. RowFits(row)'
  BY <1>4, <1>7 DEF RowFits, BelowParent, Stored
<1>9. ASSUME pc'[r] = "insertItem", tx'[r] = t PROVE Knows(r)'
  <2>1. tx'[r].row = row
    BY <1>3, <1>9
  <2> QED BY <1>8, <1>9, <2>1 DEF Knows, BillKnows
<1>10. Begin(r, "insertItem", {}, t)
  BY <1>1, <1>2, <1>3
<1> QED BY <1>9, <1>10, BeginStep

LEMMA BeginItemStep ==
    ASSUME IInv, NEW r \in Requests, BeginItem(r), tables' = tables
    PROVE  IInv'
<1>1. PICK i \in Stored :
        \/ \E new \in Components : Begin(r, "updateItem", {ItemLock(i)},
                                         [op |-> "updateItem", id |-> i, new |-> new])
        \/ Begin(r, "deleteChildren", {}, [op |-> "deleteItem", id |-> i])
  BY DEF BeginItem
<1>2. i \in BomItems /\ Components \subseteq Component
  BY BomConstants DEF Stored
<1>3. ASSUME NEW new \in Components,
             Begin(r, "updateItem", {ItemLock(i)}, [op |-> "updateItem", id |-> i, new |-> new])
      PROVE  IInv'
  <2>1. ASSUME pc'[r] = "updateItem", tx'[r] = [op |-> "updateItem", id |-> i, new |-> new]
        PROVE  Knows(r)'
    BY <1>2, <2>1 DEF Knows, BillKnows
  <2> QED BY <1>3, <2>1, BeginStep
<1>4. ASSUME Begin(r, "deleteChildren", {}, [op |-> "deleteItem", id |-> i])
      PROVE  IInv'
  <2>1. ASSUME pc'[r] = "deleteChildren", tx'[r] = [op |-> "deleteItem", id |-> i]
        PROVE  Knows(r)'
    <3>1. item'[i] # NoItem
      BY Parts, StoredRows, SameTables DEF RowsRight
    <3> QED BY <1>2, <2>1, <3>1 DEF Knows, BillKnows
  <2> QED BY <1>4, <2>1, BeginStep
<1> QED BY <1>1, <1>3, <1>4

LEMMA BeginAddExtraStep ==
    ASSUME IInv, NEW r \in Requests, BeginAddExtra(r), tables' = tables
    PROVE  IInv'
<1>1. PICK v \in Versions, x \in Extras :
        Begin(r, "insertExtra", {}, [op |-> "addExtra", id |-> x, version |-> v])
  BY DEF BeginAddExtra
<1>2. ASSUME pc'[r] = "insertExtra", tx'[r] = [op |-> "addExtra", id |-> x, version |-> v]
      PROVE  Knows(r)'
  BY <1>2 DEF Knows, BillKnows
<1> QED BY <1>1, <1>2, BeginStep

LEMMA BeginCreateStep == ASSUME IInv, NEW r \in Requests, BeginCreate(r) PROVE IInv'
<1>1. PICK v \in Versions, variant \in Variants, n \in Quantities,
           p \in PlannedOrders \union {None} :
        Begin(r, "insertOrder", {}, [op |-> "create", row |-> Draft(p, variant, v, n)])
  BY DEF BeginCreate
<1>2. tables' = tables /\ n \in Nat \ {0}
  BY ProductionConstants DEF BeginCreate
<1>3. PICK row : row = Draft(p, variant, v, n)
  OBVIOUS
<1>4. row \in WorkOrderRow /\ row.status = "draft" /\ row.produced = 0
  BY <1>2, <1>3 DEF Draft, WorkOrderRow
<1>5. PICK t : t = [op |-> "create", row |-> row]
  OBVIOUS
<1>6. ASSUME pc'[r] = "insertOrder", tx'[r] = t PROVE Knows(r)'
  <2>1. tx'[r].row = row
    BY <1>5, <1>6
  <2> QED BY <1>4, <1>6, <2>1 DEF Knows, OrderKnows
<1>7. Begin(r, "insertOrder", {}, t)
  BY <1>1, <1>3, <1>5
<1> QED BY <1>2, <1>6, <1>7, BeginStep

LEMMA BeginApproveStep == ASSUME IInv, NEW r \in Requests, BeginApprove(r) PROVE IInv'
<1>1. PICK p \in PlannedOrders :
        Begin(r, "approve", {PlannedLock(p)}, [op |-> "approve", id |-> p])
  BY DEF BeginApprove
<1>2. tables' = tables
  BY DEF BeginApprove
<1>3. ASSUME pc'[r] = "approve", needs'[r] = {PlannedLock(p)},
             tx'[r] = [op |-> "approve", id |-> p]
      PROVE  Knows(r)'
  BY <1>3 DEF Knows, OrderKnows
<1> QED BY <1>1, <1>2, <1>3, BeginStep

LEMMA BeginChangeStep == ASSUME IInv, NEW r \in Requests, BeginChange(r) PROVE IInv'
<1>1. tables' = tables /\ Quantities \subseteq Nat \ {0}
  BY ProductionConstants DEF BeginChange
<1>2. PICK w \in WorkOrders :
        \/ /\ workOrder[w].status = "draft"
           /\ \E n \in Quantities : Begin(r, "updateOrder", {WorkOrderLock(w)},
                                          [op |-> "update", id |-> w, planned |-> n])
        \/ /\ workOrder[w].status \notin {"none", "completed", "cancelled"}
           /\ Begin(r, "cancelOrder", {WorkOrderLock(w)}, [op |-> "cancel", id |-> w])
  BY DEF BeginChange
<1>3. w \in Created'
  BY <1>1, <1>2, SameTables DEF Created
<1>4. ASSUME NEW n \in Quantities,
             Begin(r, "updateOrder", {WorkOrderLock(w)},
                   [op |-> "update", id |-> w, planned |-> n])
      PROVE  IInv'
  <2>1. ASSUME pc'[r] = "updateOrder", needs'[r] = {WorkOrderLock(w)},
               tx'[r] = [op |-> "update", id |-> w, planned |-> n]
        PROVE  Knows(r)'
    BY <1>1, <1>3, <2>1 DEF Knows, OrderKnows
  <2> QED BY <1>1, <1>4, <2>1, BeginStep
<1>5. ASSUME Begin(r, "cancelOrder", {WorkOrderLock(w)}, [op |-> "cancel", id |-> w])
      PROVE  IInv'
  <2>1. ASSUME pc'[r] = "cancelOrder", needs'[r] = {WorkOrderLock(w)},
               tx'[r] = [op |-> "cancel", id |-> w]
        PROVE  Knows(r)'
    BY <1>3, <2>1 DEF Knows, OrderKnows
  <2> QED BY <1>1, <1>5, <2>1, BeginStep
<1> QED BY <1>2, <1>4, <1>5

LEMMA BeginWorkStep == ASSUME IInv, NEW r \in Requests, BeginWork(r) PROVE IInv'
<1>1. tables' = tables
  BY DEF BeginWork
<1>2. PICK w \in WorkOrders :
        /\ workOrder[w].status # "none"
        /\ \/ Begin(r, "confirm", {WorkOrderLock(w)}, [op |-> "confirm", id |-> w])
           \/ \E lines \in Consumptions :
                Begin(r, "consume", {WorkOrderLock(w)},
                      [op |-> "consume", id |-> w, lines |-> lines])
           \/ \E n \in Quantities :
                Begin(r, "result", {WorkOrderLock(w)},
                      [op |-> "result", id |-> w, quantity |-> n])
  BY DEF BeginWork
<1>3. w \in Created'
  BY <1>1, <1>2, SameTables DEF Created
<1>4. ASSUME Begin(r, "confirm", {WorkOrderLock(w)}, [op |-> "confirm", id |-> w])
      PROVE  IInv'
  <2>1. ASSUME pc'[r] = "confirm", needs'[r] = {WorkOrderLock(w)},
               tx'[r] = [op |-> "confirm", id |-> w]
        PROVE  Knows(r)'
    BY <1>3, <2>1 DEF Knows, ConfirmKnows
  <2> QED BY <1>1, <1>4, <2>1, BeginStep
<1>5. ASSUME NEW lines \in Consumptions,
             Begin(r, "consume", {WorkOrderLock(w)},
                   [op |-> "consume", id |-> w, lines |-> lines])
      PROVE  IInv'
  <2>1. ASSUME pc'[r] = "consume", needs'[r] = {WorkOrderLock(w)},
               tx'[r] = [op |-> "consume", id |-> w, lines |-> lines]
        PROVE  Knows(r)'
    BY <1>3, <2>1 DEF Knows, ConsumeKnows
  <2> QED BY <1>1, <1>5, <2>1, BeginStep
<1>6. ASSUME NEW n \in Quantities,
             Begin(r, "result", {WorkOrderLock(w)},
                   [op |-> "result", id |-> w, quantity |-> n])
      PROVE  IInv'
  <2>1. ASSUME pc'[r] = "result", needs'[r] = {WorkOrderLock(w)},
               tx'[r] = [op |-> "result", id |-> w, quantity |-> n]
        PROVE  Knows(r)'
    BY <1>3, <2>1 DEF Knows, ResultKnows
  <2> QED BY <1>1, <1>6, <2>1, BeginStep
<1> QED BY <1>2, <1>4, <1>5, <1>6

-----------------------------------------------------------------------------
(* Bills change, and nothing else does.                                    *)
LEMMA NoteRespect ==
    ASSUME RowsRight, orders' = orders, shopFloor' = shopFloor, BillsRespected
    PROVE  \A held : Respects(held)
<1>1. planned' = planned /\ workOrder' = workOrder /\ material' = material /\ stock' = stock
  BY DEF orders, shopFloor
<1>2. Created' = Created
  BY <1>1 DEF Created
<1>3. \A v \in Variants : stock'[v] >= stock[v]
  BY <1>1 DEF RowsRight, StockRight, StockTypes
<1>4. ASSUME NEW held PROVE Respects(held)
  BY <1>1, <1>2, <1>3 DEF Respects, OrdersRespected, ShopRespected
<1> QED BY <1>4

LEMMA BillChange ==
    ASSUME RowsRight, orders' = orders, shopFloor' = shopFloor,
           BillsRight', RefsRight', BillsRespected
    PROVE  RowsRight' /\ \A held : Respects(held)
<1>1. OrdersRight'
  BY OrdersSame DEF RowsRight, orders
<1>2. StockRight'
  BY StockSame DEF RowsRight, orders, shopFloor
<1> QED BY <1>1, <1>2, NoteRespect DEF RowsRight

VersionsRight ==
    /\ headers \subseteq Variants
    /\ version \in [Versions -> VersionRow \union {NoVersion}]
    /\ \A v \in CreatedVersions : version[v].header \in headers
    /\ OneActiveVersion

LEMMA VersionChange ==
    ASSUME RowsRight, orders' = orders, shopFloor' = shopFloor,
           item' = item, extra' = extra, referenced' = referenced,
           headers \subseteq headers', CreatedVersions \subseteq CreatedVersions',
           VersionsRight'
    PROVE  RowsRight' /\ \A held : Respects(held)
<1>1. ParentsFirst' /\ IdsInOrder'
  BY DEF RowsRight, BillsRight, ParentsFirst, Placed, IdsInOrder, BelowParent, Stored
<1>2. BillsRight'
  BY <1>1 DEF RowsRight, BillsRight, VersionsRight
<1>3. RefsRight'
  BY RefsSame DEF RowsRight, orders, shopFloor
<1>4. BillsRespected
  BY DEF BillsRespected, Stored
<1> QED BY <1>2, <1>3, <1>4, BillChange

ItemsRespected ==
    \A i \in BomItems : item[i] # NoItem =>
      /\ item'[i] # NoItem
      /\ i \in Stored' => /\ i \in Stored
                          /\ item'[i].version = item[i].version
                          /\ item'[i].level = item[i].level
                          /\ item'[i].variant = item[i].variant

LEMMA ItemChange ==
    ASSUME RowsRight, orders' = orders, shopFloor' = shopFloor,
           headers' = headers, version' = version, extra' = extra, referenced' = referenced,
           item' \in [BomItems -> ItemRow \union {NoItem, DeletedItem}],
           ParentsFirst', IdsInOrder', referenced \intersect Stored \subseteq Stored',
           ItemsRespected
    PROVE  RowsRight' /\ \A held : Respects(held)
<1>1. CreatedVersions' = CreatedVersions /\ OneActiveVersion'
  BY DEF CreatedVersions, RowsRight, BillsRight, OneActiveVersion, ActiveVersions, VersionsOf
<1>2. BillsRight'
  BY <1>1 DEF RowsRight, BillsRight
<1>3. material' = material /\ process' = process /\ workOrder' = workOrder
  BY DEF orders, shopFloor
<1>4. \A w \in WorkOrders : DOMAIN material[w] \subseteq Stored'
  BY DEF RowsRight, RefsRight, RowsReferenced
<1>5. RowsReferenced' = RowsReferenced
  BY <1>3 DEF RowsReferenced
<1>6. RefsRight'
  BY <1>3, <1>4, <1>5 DEF RowsRight, RefsRight, NothingBeforeConfirm
<1>7. BillsRespected
  BY <1>1 DEF BillsRespected, ItemsRespected
<1> QED BY <1>2, <1>6, <1>7, BillChange

LEMMA ExtraChange ==
    ASSUME RowsRight, orders' = orders, shopFloor' = shopFloor,
           headers' = headers, version' = version, item' = item, referenced' = referenced,
           extra' \in [Extras -> Versions \union {None}],
           \A x \in referenced : extra[x] # None => extra'[x] # None
    PROVE  RowsRight' /\ \A held : Respects(held)
<1>0. CreatedVersions' = CreatedVersions
      /\ \A h : VersionsOf(h)' = VersionsOf(h) /\ ActiveVersions(h)' = ActiveVersions(h)
  BY BillSets
<1>1. CreatedVersions' = CreatedVersions /\ OneActiveVersion'
  BY <1>0 DEF RowsRight, BillsRight, OneActiveVersion
<1>2. ParentsFirst' /\ IdsInOrder' /\ Stored' = Stored
  BY DEF RowsRight, BillsRight, ParentsFirst, Placed, IdsInOrder, BelowParent, Stored
<1>3. BillsRight'
  BY <1>1, <1>2 DEF RowsRight, BillsRight
<1>4. material' = material /\ process' = process /\ workOrder' = workOrder
  BY DEF orders, shopFloor
<1>5. RowsReferenced' = RowsReferenced
  BY <1>4 DEF RowsReferenced
<1>6. \A w \in WorkOrders : \A o \in DOMAIN process[w] : extra'[o] # None
  BY DEF RowsRight, RefsRight, RowsReferenced
<1>7. RefsRight'
  BY <1>2, <1>4, <1>5, <1>6 DEF RowsRight, RefsRight, NothingBeforeConfirm
<1>8. BillsRespected
  BY <1>1, <1>2 DEF BillsRespected
<1> QED BY <1>3, <1>7, <1>8, BillChange

-----------------------------------------------------------------------------
(* Headers and versions.                                                   *)
LEMMA FewActive ==
    ASSUME NEW S, NEW T, IsFiniteSet(S), Cardinality(S) <= 1, T \subseteq S
    PROVE  Cardinality(T) <= 1
<1>1. T \in SUBSET S
  OBVIOUS
<1>2. Cardinality(T) <= Cardinality(S) /\ IsFiniteSet(T)
  BY <1>1, FS_Subset
<1>3. Cardinality(S) \in Nat /\ Cardinality(T) \in Nat
  BY <1>2, FS_CardinalityType
<1> QED BY <1>2, <1>3

LEMMA OneOrNone ==
    ASSUME NEW v, NEW T, T \subseteq {v}
    PROVE  Cardinality(T) <= 1
<1>1. IsFiniteSet({v}) /\ Cardinality({v}) = 1
  BY FS_Singleton
<1> QED BY <1>1, FewActive

LEMMA ActiveFinite == ASSUME NEW h PROVE IsFiniteSet(ActiveVersions(h))
<1>1. ActiveVersions(h) \in SUBSET Versions
  BY DEF ActiveVersions, VersionsOf
<1> QED BY <1>1, BomConstants, FS_Subset

LEMMA CreateHeaderStep ==
    ASSUME IInv, NEW r \in Requests, CreateHeader(r),
           orders' = orders, shopFloor' = shopFloor
    PROVE  IInv'
<1>1. PICK h \in Variants \ headers :
        /\ Autocommit(r, <<"header", h>>)
        /\ headers' = headers \union {h}
        /\ UNCHANGED <<version, item, extra, referenced>>
  BY DEF CreateHeader
<1>2. RowsRight
  BY Parts
<1>3. version' = version /\ item' = item
  BY <1>1
<1>4. CreatedVersions' = CreatedVersions
      /\ \A g : VersionsOf(g)' = VersionsOf(g) /\ ActiveVersions(g)' = ActiveVersions(g)
  BY <1>3, BillSets
<1>5. VersionsOf(h) = {} /\ ActiveVersions(h) = {}
  BY <1>2 DEF RowsRight, BillsRight, VersionsOf, CreatedVersions, ActiveVersions
<1>6. OneActiveVersion'
  <2>1. ASSUME NEW g \in headers'
        PROVE  /\ Cardinality(ActiveVersions(g)) <= 1
               /\ \A v, w \in VersionsOf(g) : v # w => version[v].number # version[w].number
    <3>1. CASE g \in headers
      BY <1>2, <3>1 DEF RowsRight, BillsRight, OneActiveVersion
    <3>2. CASE g = h
      <4>1. Cardinality(ActiveVersions(g)) <= 1
        BY <1>5, <3>2, OneOrNone
      <4> QED BY <1>5, <3>2, <4>1
    <3> QED BY <1>1, <2>1, <3>1, <3>2
  <2> QED BY <1>3, <1>4, <2>1 DEF OneActiveVersion
<1>7. VersionsRight'
  BY <1>1, <1>2, <1>4, <1>6 DEF RowsRight, BillsRight, VersionsRight
<1>8. RowsRight' /\ \A held : Respects(held)
  BY <1>1, <1>2, <1>4, <1>7, VersionChange
<1> QED BY <1>1, <1>8, AutoStep

LEMMA InsertVersionStep ==
    ASSUME IInv, NEW r \in Requests, InsertVersion(r),
           orders' = orders, shopFloor' = shopFloor
    PROVE  IInv'
<1>1. PICK h : h = tx[r].header
  OBVIOUS
<1>2. PICK n : n = tx[r].number
  OBVIOUS
<1>3. RowsRight /\ h \in headers /\ n \in Nat \ {0} /\ End(r)
  <2>1. BillKnows(r) /\ pc[r] = "insertVersion" /\ RowsRight
    BY Parts, BillAt DEF InsertVersion
  <2> QED BY <1>1, <1>2, <2>1 DEF BillKnows, InsertVersion
<1> DEFINE free == {v \in Versions : version[v].status = "none"}
<1>4. CASE ~ (NumberFree(h, n) /\ free # {})
  <2>1. tables' = tables
    BY <1>1, <1>2, <1>4 DEF InsertVersion, tables, bomTables
  <2> QED BY <1>3, <2>1, RollbackStep
<1>5. CASE NumberFree(h, n) /\ free # {}
  <2>1. PICK v : v = Min(free)
    OBVIOUS
  <2>2. v \in Versions /\ version[v].status = "none"
    <3>1. free \in SUBSET Nat
      BY BomConstants
    <3> HIDE DEF free
    <3>2. v \in free
      BY <1>5, <2>1, <3>1, MinIn
    <3> QED BY <3>2 DEF free
  <2>3. PICK row : row = [status |-> "draft", header |-> h, number |-> n]
    OBVIOUS
  <2>4. /\ version' = [version EXCEPT ![v] = row]
        /\ headers' = headers /\ item' = item /\ extra' = extra /\ referenced' = referenced
    BY <1>1, <1>2, <1>5, <2>1, <2>3 DEF InsertVersion
  <2>5. row \in VersionRow /\ row.status = "draft" /\ row.header = h /\ row.number = n
    BY <1>3, <2>3 DEF VersionRow, RowsRight, BillsRight
  <2>6. /\ version \in [Versions -> VersionRow \union {NoVersion}]
        /\ \A w \in CreatedVersions : version[w].header \in headers
    BY <1>3 DEF RowsRight, BillsRight
  <2>7. version'[v] = row /\ \A w \in Versions \ {v} : version'[w] = version[w]
    BY <2>2, <2>4, <2>6
  <2>8. CreatedVersions' = CreatedVersions \union {v}
    BY <2>2, <2>5, <2>7 DEF CreatedVersions
  <2>9. /\ VersionsOf(h)' = VersionsOf(h) \union {v}
        /\ \A g : g # h => VersionsOf(g)' = VersionsOf(g)
    <3>1. ASSUME NEW g, NEW w
          PROVE  w \in VersionsOf(g)' <=> w \in VersionsOf(g) \/ (w = v /\ g = h)
      <4>1. CASE w \in Versions \ {v}
        BY <2>7, <4>1 DEF VersionsOf
      <4>2. CASE w = v
        BY <2>2, <2>5, <2>7, <4>2 DEF VersionsOf
      <4> QED BY <4>1, <4>2 DEF VersionsOf
    <3>2. VersionsOf(h)' = VersionsOf(h) \union {v}
      BY <3>1
    <3>3. ASSUME NEW g, g # h PROVE VersionsOf(g)' = VersionsOf(g)
      BY <3>1, <3>3
    <3> QED BY <3>2, <3>3
  <2>10. \A g : ActiveVersions(g)' = ActiveVersions(g)
    <3>1. ASSUME NEW g PROVE ActiveVersions(g)' = ActiveVersions(g)
      BY <2>2, <2>5, <2>7, <2>9 DEF ActiveVersions, VersionsOf
    <3> QED BY <3>1
  <2>11. OneActiveVersion'
    <3>1. ASSUME NEW g \in headers
          PROVE  \A x, y \in VersionsOf(g)' : x # y => version'[x].number # version'[y].number
      <4>1. \A x, y \in VersionsOf(g) : x # y => version[x].number # version[y].number
        BY <1>3 DEF RowsRight, BillsRight, OneActiveVersion
      <4>2. \A x \in VersionsOf(g) : x \in Versions /\ x # v /\ version'[x] = version[x]
        BY <2>2, <2>7 DEF VersionsOf
      <4>3. CASE g = h
        <5>1. \A x \in VersionsOf(h) : version[x].number # n
          BY <1>5 DEF NumberFree
        <5> QED BY <2>5, <2>7, <2>9, <4>1, <4>2, <4>3, <5>1
      <4>4. CASE g # h
        BY <2>9, <4>1, <4>2, <4>4
      <4> QED BY <4>3, <4>4
    <3>2. \A g \in headers : Cardinality(ActiveVersions(g)) <= 1
      BY <1>3 DEF RowsRight, BillsRight, OneActiveVersion
    <3>3. \A g \in headers : Cardinality(ActiveVersions(g)') <= 1
      BY <2>10, <3>2
    <3> QED BY <2>4, <3>1, <3>3 DEF OneActiveVersion
  <2>12. VersionsRight'
    <3>1. version' \in [Versions -> VersionRow \union {NoVersion}]
      BY <2>4, <2>5, <2>6
    <3>2. \A w \in CreatedVersions' : version'[w].header \in headers'
      BY <1>3, <2>4, <2>5, <2>6, <2>7, <2>8 DEF CreatedVersions
    <3> QED BY <1>3, <2>4, <2>11, <3>1, <3>2 DEF VersionsRight, RowsRight, BillsRight
  <2>13. RowsRight' /\ \A held : Respects(held)
    BY <1>3, <2>4, <2>8, <2>12, VersionChange
  <2> QED BY <1>3, <2>13, EndStep
<1> QED BY <1>4, <1>5

LEMMA CountItemsStep ==
    ASSUME IInv, NEW r \in Requests, CountItems(r), tables' = tables
    PROVE  IInv'
<1>1. BillKnows(r) /\ pc[r] = "countItems" /\ \A x \in needs[r] : Free(r, x)
  BY Parts, BillAt DEF CountItems, At
<1>2. CASE ItemsOfVersion(tx[r].id) = {}
  BY <1>2, RollbackStep DEF CountItems
<1>3. CASE ItemsOfVersion(tx[r].id) # {}
  <2>1. PICK h : h = version[tx[r].id].header
    OBVIOUS
  <2>2. PICK t : t = [op |-> "activate", id |-> tx[r].id, seen |-> ActiveVersions(h)]
    OBVIOUS
  <2>3. PICK need : need = {ActiveLock(h)}
    OBVIOUS
  <2>4. Continue(r, "obsolete", need, t)
    BY <1>3, <2>1, <2>2, <2>3 DEF CountItems
  <2>5. tx[r].id \in CreatedVersions /\ ActiveVersions(h) \subseteq CreatedVersions
    BY <1>1 DEF BillKnows, ActiveVersions, VersionsOf, CreatedVersions
  <2>6. CreatedVersions' = CreatedVersions
    BY BillSets, SameTables
  <2>7. ASSUME pc'[r] = "obsolete", tx'[r] = t PROVE Knows(r)'
    BY <2>2, <2>5, <2>6, <2>7 DEF Knows, BillKnows
  <2> QED BY <1>1, <2>4, <2>7, ContinueStep
<1> QED BY <1>2, <1>3

LEMMA ObsoleteStep ==
    ASSUME IInv, NEW r \in Requests, Obsolete(r), tables' = tables
    PROVE  IInv'
<1>1. BillKnows(r) /\ pc[r] = "obsolete" /\ \A x \in needs[r] : Free(r, x)
  BY Parts, BillAt DEF Obsolete, At
<1>2. PICK active : active = ActiveVersions(version[tx[r].id].header)
  OBVIOUS
<1>3. PICK old \in {tx[r].seen \intersect active, active} :
        Continue(r, "activate", {}, [op |-> "activate", id |-> tx[r].id, old |-> old])
  BY <1>2 DEF Obsolete
<1>4. PICK t : t = [op |-> "activate", id |-> tx[r].id, old |-> old]
  OBVIOUS
<1>5. tx[r].id \in CreatedVersions /\ active \subseteq CreatedVersions
  BY <1>1, <1>2 DEF BillKnows, ActiveVersions, VersionsOf, CreatedVersions
<1>6. CreatedVersions' = CreatedVersions /\ old \subseteq CreatedVersions
  BY <1>3, <1>5, BillSets, SameTables
<1>7. ASSUME pc'[r] = "activate", tx'[r] = t PROVE Knows(r)'
  BY <1>4, <1>5, <1>6, <1>7 DEF Knows, BillKnows
<1>8. Continue(r, "activate", {}, t)
  BY <1>3, <1>4
<1> QED BY <1>1, <1>7, <1>8, ContinueStep

LEMMA ActivateStep ==
    ASSUME IInv, NEW r \in Requests, Activate(r),
           orders' = orders, shopFloor' = shopFloor
    PROVE  IInv'
<1>1. PICK v : v = tx[r].id
  OBVIOUS
<1>2. PICK old : old = tx[r].old
  OBVIOUS
<1>3. PICK h : h = version[v].header
  OBVIOUS
<1>4. RowsRight /\ v \in CreatedVersions /\ old \subseteq CreatedVersions /\ End(r)
  <2>1. BillKnows(r) /\ pc[r] = "activate" /\ RowsRight
    BY Parts, BillAt DEF Activate, At
  <2> QED BY <1>1, <1>2, <2>1 DEF BillKnows, Activate
<1>5. CASE ~ IndexAllows(ActiveVersions(h) \ (old \union {v}))
  <2>1. tables' = tables
    BY <1>1, <1>2, <1>3, <1>5 DEF Activate, tables, bomTables
  <2> QED BY <1>4, <2>1, RollbackStep
<1>6. CASE IndexAllows(ActiveVersions(h) \ (old \union {v}))
  <2>1. /\ version' = [w \in Versions |->
                         IF w = v THEN [version[w] EXCEPT !.status = "active"]
                         ELSE IF w \in old THEN [version[w] EXCEPT !.status = "obsolete"]
                         ELSE version[w]]
        /\ headers' = headers /\ item' = item /\ extra' = extra /\ referenced' = referenced
    BY <1>1, <1>2, <1>3, <1>6 DEF Activate
  <2>2. ActiveVersions(h) \subseteq old \union {v}
    BY <1>6 DEF IndexAllows
  <2>3. /\ \A w \in CreatedVersions : version[w] \in VersionRow /\ version[w].header \in headers
        /\ version \in [Versions -> VersionRow \union {NoVersion}]
    BY <1>4 DEF RowsRight, BillsRight, CreatedVersions, NoVersion
  <2>4. CreatedVersions \subseteq Versions
    BY DEF CreatedVersions
  <2>5. /\ version'[v] = [version[v] EXCEPT !.status = "active"]
        /\ \A w \in old \ {v} : version'[w] = [version[w] EXCEPT !.status = "obsolete"]
        /\ \A w \in Versions \ (old \union {v}) : version'[w] = version[w]
    BY <1>4, <2>1, <2>4
  <2>6. /\ version'[v] \in VersionRow /\ version'[v].status = "active"
        /\ \A w \in old \ {v} : version'[w] \in VersionRow /\ version'[w].status = "obsolete"
        /\ \A w \in CreatedVersions : /\ version'[w].header = version[w].header
                                      /\ version'[w].number = version[w].number
    <3>1. ASSUME NEW row \in VersionRow, NEW s \in {"active", "obsolete"}
          PROVE  LET next == [row EXCEPT !.status = s] IN
                 /\ next \in VersionRow /\ next.status = s
                 /\ next.header = row.header /\ next.number = row.number
      BY <3>1 DEF VersionRow
    <3>2. \A w \in CreatedVersions : version[w] \in VersionRow
      BY <2>3
    <3>3. ASSUME NEW w \in CreatedVersions
          PROVE  /\ w = v => version'[w] \in VersionRow /\ version'[w].status = "active"
                 /\ w \in old \ {v} =>
                      version'[w] \in VersionRow /\ version'[w].status = "obsolete"
                 /\ version'[w].header = version[w].header
                 /\ version'[w].number = version[w].number
      <4>1. CASE w = v
        <5>1. version'[w] = [version[w] EXCEPT !.status = "active"] /\ version[w] \in VersionRow
          BY <2>5, <3>2, <4>1
        <5> QED BY <3>1, <4>1, <5>1
      <4>2. CASE w \in old \ {v}
        <5>1. version'[w] = [version[w] EXCEPT !.status = "obsolete"] /\ version[w] \in VersionRow
          BY <2>5, <3>2, <4>2
        <5> QED BY <3>1, <4>2, <5>1
      <4>3. CASE w \notin old \union {v}
        BY <2>4, <2>5, <4>3
      <4> QED BY <4>1, <4>2, <4>3
    <3> QED BY <1>4, <3>3
  <2>7. CreatedVersions' = CreatedVersions
    <3>1. ASSUME NEW w \in Versions
          PROVE  version'[w].status # "none" <=> version[w].status # "none"
      <4>1. CASE w = v
        BY <1>4, <2>6, <4>1 DEF CreatedVersions
      <4>2. CASE w \in old \ {v}
        BY <1>4, <2>6, <4>2 DEF CreatedVersions
      <4>3. CASE w \notin old \union {v}
        BY <2>5, <4>3
      <4> QED BY <4>1, <4>2, <4>3
    <3> QED BY <3>1 DEF CreatedVersions
  <2>8. \A g : VersionsOf(g)' = VersionsOf(g)
    <3>1. ASSUME NEW g PROVE VersionsOf(g)' = VersionsOf(g)
      <4>1. VersionsOf(g)' = {w \in CreatedVersions' : version'[w].header = g}
        BY DEF VersionsOf, CreatedVersions
      <4>2. VersionsOf(g) = {w \in CreatedVersions : version[w].header = g}
        BY DEF VersionsOf, CreatedVersions
      <4> QED BY <2>6, <2>7, <4>1, <4>2
    <3> QED BY <3>1
  <2>9. ASSUME NEW g PROVE g # h => ActiveVersions(g)' \subseteq ActiveVersions(g)
    <3>1. ASSUME g # h, NEW w \in ActiveVersions(g)' PROVE w \in ActiveVersions(g)
      <4>1. w \in VersionsOf(g) /\ version'[w].status = "active"
        BY <2>8, <3>1 DEF ActiveVersions
      <4>2. w \in Versions /\ w # v
        BY <1>3, <3>1, <4>1 DEF VersionsOf
      <4>3. version[w].status = "active"
        BY <2>5, <2>6, <4>1, <4>2
      <4> QED BY <4>1, <4>3 DEF ActiveVersions
    <3> QED BY <3>1
  <2>10. ActiveVersions(h)' \subseteq {v}
    <3>1. ASSUME NEW w \in ActiveVersions(h)', w # v PROVE FALSE
      <4>1. w \in VersionsOf(h) /\ version'[w].status = "active" /\ w \in Versions
        BY <2>8, <3>1 DEF ActiveVersions, VersionsOf
      <4>2. w \notin old
        BY <2>6, <3>1, <4>1
      <4>3. version[w].status = "active"
        BY <2>5, <3>1, <4>1, <4>2
      <4>4. w \in ActiveVersions(h)
        BY <4>1, <4>3 DEF ActiveVersions
      <4> QED BY <2>2, <3>1, <4>2, <4>4
    <3> QED BY <3>1
  <2>11. OneActiveVersion'
    <3>1. ASSUME NEW g \in headers PROVE Cardinality(ActiveVersions(g)') <= 1
      <4>1. CASE g = h
        BY <2>10, <4>1, OneOrNone
      <4>2. CASE g # h
        <5>1. Cardinality(ActiveVersions(g)) <= 1
          BY <1>4 DEF RowsRight, BillsRight, OneActiveVersion
        <5> QED BY <2>9, <4>2, <5>1, FewActive, ActiveFinite
      <4> QED BY <4>1, <4>2
    <3>2. ASSUME NEW g \in headers
          PROVE  \A x, y \in VersionsOf(g) : x # y => version'[x].number # version'[y].number
      <4>1. \A x \in VersionsOf(g) : version'[x].number = version[x].number
        BY <2>6 DEF VersionsOf, CreatedVersions
      <4> QED BY <1>4, <4>1 DEF RowsRight, BillsRight, OneActiveVersion
    <3> QED BY <2>1, <2>8, <3>1, <3>2 DEF OneActiveVersion
  <2>12. VersionsRight'
    <3>1. version' \in [Versions -> VersionRow \union {NoVersion}]
      <4>1. \A w \in Versions : version'[w] \in VersionRow \union {NoVersion}
        BY <1>4, <2>3, <2>5, <2>6
      <4> QED BY <2>1, <4>1
    <3>2. \A w \in CreatedVersions' : version'[w].header \in headers'
      BY <2>1, <2>3, <2>6, <2>7
    <3> QED BY <1>4, <2>1, <2>11, <3>1, <3>2 DEF VersionsRight, RowsRight, BillsRight
  <2>13. RowsRight' /\ \A held : Respects(held)
    BY <1>4, <2>1, <2>7, <2>12, VersionChange
  <2> QED BY <1>4, <2>13, EndStep
<1> QED BY <1>5, <1>6

-----------------------------------------------------------------------------
(* Items, operations and by-products.                                      *)
LEMMA InsertItemStep ==
    ASSUME IInv, NEW r \in Requests, InsertItem(r),
           orders' = orders, shopFloor' = shopFloor
    PROVE  IInv'
<1>1. PICK row : row = tx[r].row
  OBVIOUS
<1>2. RowsRight /\ BillsRight /\ RowFits(row) /\ End(r)
  <2>1. BillKnows(r) /\ pc[r] = "insertItem" /\ RowsRight
    BY Parts, BillAt DEF InsertItem
  <2> QED BY <1>1, <2>1 DEF BillKnows, InsertItem, RowsRight
<1> DEFINE free == {i \in BomItems : item[i] = NoItem}
<1>3. CASE ~ (ParentStored(row.parent) /\ free # {})
  <2>1. tables' = tables
    BY <1>1, <1>3 DEF InsertItem, tables, bomTables
  <2> QED BY <1>2, <2>1, RollbackStep
<1>4. CASE ParentStored(row.parent) /\ free # {}
  <2>1. PICK i : i = Min(free)
    OBVIOUS
  <2>2. i \in BomItems /\ item[i] = NoItem /\ \A j \in BomItems : j < i => item[j] # NoItem
    <3>1. free \in SUBSET Nat /\ i \in Nat
      <4>1. free \in SUBSET Nat
        BY BomConstants
      <4> HIDE DEF free
      <4> QED BY <1>4, <2>1, <4>1, MinIn
    <3>2. i \in free /\ \A j \in free : i <= j
      <4> HIDE DEF free
      <4> QED BY <1>4, <2>1, <3>1, MinIn
    <3>3. ASSUME NEW j \in BomItems, j < i PROVE item[j] # NoItem
      <4>1. j \in Nat
        BY BomConstants
      <4> QED BY <3>1, <3>2, <3>3, <4>1
    <3> QED BY <3>2, <3>3
  <2>3. /\ item' = [item EXCEPT ![i] = row]
        /\ headers' = headers /\ version' = version /\ extra' = extra /\ referenced' = referenced
    BY <1>1, <1>4, <2>1 DEF InsertItem
  <2>4. item \in [BomItems -> ItemRow \union {NoItem, DeletedItem}] /\ row \in ItemRow
    BY <1>2 DEF BillsRight, RowFits
  <2>5. item'[i] = row /\ \A j \in BomItems \ {i} : item'[j] = item[j]
    BY <2>2, <2>3, <2>4
  <2>6. row.version # None /\ row # NoItem /\ i \notin Stored
    BY <1>2, <2>2, <2>4, StoredRows DEF ItemRow, NoItem, Stored
  <2>7. Stored' = Stored \union {i}
    BY <2>2, <2>5, <2>6 DEF Stored
  <2>8. ParentsFirst'
    <3>1. ASSUME NEW j \in Stored
          PROVE  /\ item'[j] = item[j]
                 /\ \/ item[j].parent = None /\ item[j].level = 0
                    \/ /\ item[j].parent \in Stored /\ item[j].parent < j
                       /\ BelowParent(item[j], item[j].parent)
      BY <1>2, <2>5, <2>6 DEF BillsRight, ParentsFirst, Placed, Stored
    <3>2. ASSUME NEW j \in Stored' PROVE Placed(j)'
      <4>1. CASE j = i
        <5>1. CASE row.parent = None
          BY <1>2, <2>5, <4>1, <5>1, StoredRows DEF RowFits, Placed
        <5>2. CASE row.parent # None
          <6>1. row.parent \in Stored /\ BelowParent(row, row.parent)
                /\ item[row.parent] # NoItem /\ row.parent \in BomItems
            BY <1>2, <1>4, <5>2 DEF RowFits, ParentStored
          <6>2. row.parent # i
            BY <2>6, <6>1
          <6>3. ~ (i < row.parent)
            BY <1>2, <2>2, <6>1 DEF BillsRight, IdsInOrder
          <6>4. row.parent \in Nat /\ i \in Nat
            BY <2>2, <6>1, BomConstants
          <6>5. row.parent < i
            BY <6>2, <6>3, <6>4
          <6>6. item'[row.parent] = item[row.parent]
            BY <2>5, <6>1, <6>2
          <6> QED BY <2>5, <2>7, <4>1, <6>1, <6>5, <6>6 DEF BelowParent, Placed
        <5> QED BY <5>1, <5>2
      <4>2. CASE j # i
        <5>1. j \in Stored /\ item'[j] = item[j]
          BY <2>7, <3>1, <3>2, <4>2
        <5>2. CASE item[j].parent = None /\ item[j].level = 0
          BY <5>1, <5>2 DEF Placed
        <5>3. CASE item[j].parent \in Stored /\ item[j].parent < j
                   /\ BelowParent(item[j], item[j].parent)
          <6>1. item'[item[j].parent] = item[item[j].parent]
            BY <3>1, <5>3
          <6> QED BY <2>7, <5>1, <5>3, <6>1 DEF BelowParent, Placed
        <5> QED BY <3>1, <5>1, <5>2, <5>3
      <4> QED BY <4>1, <4>2
    <3> QED BY <3>2 DEF ParentsFirst
  <2>9. IdsInOrder'
    <3>1. ASSUME NEW a \in BomItems, NEW b \in BomItems, b < a, item'[a] # NoItem
          PROVE  item'[b] # NoItem
      <4>1. CASE a = i
        BY <2>2, <2>5, <3>1, <4>1, BomConstants
      <4>2. CASE a # i
        <5>1. item[b] # NoItem
          BY <1>2, <2>5, <3>1, <4>2 DEF BillsRight, IdsInOrder
        <5> QED BY <2>2, <2>5, <5>1
      <4> QED BY <4>1, <4>2
    <3> QED BY <3>1 DEF IdsInOrder
  <2>10. ItemsRespected
    BY <2>2, <2>5, <2>6, <2>7 DEF ItemsRespected
  <2>11. item' \in [BomItems -> ItemRow \union {NoItem, DeletedItem}]
    BY <2>3, <2>4
  <2>12. RowsRight' /\ \A held : Respects(held)
    BY <1>2, <2>3, <2>7, <2>8, <2>9, <2>10, <2>11, ItemChange
  <2> QED BY <1>2, <2>12, EndStep
<1> QED BY <1>3, <1>4

LEMMA UpdateItemStep ==
    ASSUME IInv, NEW r \in Requests, UpdateItem(r),
           orders' = orders, shopFloor' = shopFloor
    PROVE  IInv'
<1>1. PICK i : i = tx[r].id
  OBVIOUS
<1>2. PICK new : new = tx[r].new
  OBVIOUS
<1>3. RowsRight /\ BillsRight /\ new \in Component /\ End(r)
  <2>1. BillKnows(r) /\ pc[r] = "updateItem" /\ RowsRight
    BY Parts, BillAt DEF UpdateItem, At
  <2> QED BY <1>2, <2>1 DEF BillKnows, UpdateItem, RowsRight
<1>4. CASE i \notin Stored
  <2>1. tables' = tables
    BY <1>1, <1>4 DEF UpdateItem, tables, bomTables
  <2> QED BY <1>3, <2>1, RollbackStep
<1>5. CASE i \in Stored
  <2>1. /\ item' = [item EXCEPT ![i].amount = new.amount, ![i].phantom = new.phantom]
        /\ headers' = headers /\ version' = version /\ extra' = extra /\ referenced' = referenced
    BY <1>1, <1>2, <1>5 DEF UpdateItem
  <2>2. item[i] \in ItemRow /\ i \in BomItems
        /\ item \in [BomItems -> ItemRow \union {NoItem, DeletedItem}]
    BY <1>3, <1>5, StoredRows DEF BillsRight
  <2>3. PICK row : row = [item[i] EXCEPT !.amount = new.amount, !.phantom = new.phantom]
    OBVIOUS
  <2>4. /\ row \in ItemRow /\ row.version = item[i].version /\ row.parent = item[i].parent
        /\ row.level = item[i].level /\ row.variant = item[i].variant
    BY <1>3, <2>2, <2>3 DEF ItemRow, Component
  <2>5. item'[i] = row /\ \A j \in BomItems \ {i} : item'[j] = item[j]
    BY <2>1, <2>2, <2>3
  <2>6. item' \in [BomItems -> ItemRow \union {NoItem, DeletedItem}]
    <3>1. \A j \in BomItems : item'[j] \in ItemRow \union {NoItem, DeletedItem}
      BY <2>2, <2>4, <2>5
    <3>2. item' = [j \in BomItems |-> item'[j]]
      BY <2>1, <2>2
    <3> QED BY <3>1, <3>2
  <2>7. \A j \in BomItems : /\ item'[j].version = item[j].version
                            /\ item'[j].parent = item[j].parent
                            /\ item'[j].level = item[j].level
                            /\ item'[j].variant = item[j].variant
    BY <2>4, <2>5
  <2>8. Stored' = Stored
    BY <2>7 DEF Stored
  <2>9. row # NoItem /\ item[i] # NoItem
    BY <1>3, <1>5, <2>2, <2>4, StoredRows DEF ItemRow, NoItem
  <2>10. \A j \in BomItems : item'[j] = NoItem <=> item[j] = NoItem
    BY <2>5, <2>9
  <2>11. ParentsFirst' /\ IdsInOrder'
    <3>1. ParentsFirst /\ IdsInOrder /\ Stored \subseteq BomItems
      BY <1>3 DEF BillsRight, Stored
    <3>2. ASSUME NEW j \in Stored PROVE Placed(j)'
      <4>1. CASE item[j].parent = None /\ item[j].level = 0
        BY <2>7, <3>1, <4>1 DEF Placed
      <4>2. CASE item[j].parent \in Stored /\ item[j].parent < j
                 /\ BelowParent(item[j], item[j].parent)
        BY <2>7, <2>8, <3>1, <4>2 DEF BelowParent, Placed
      <4> QED BY <3>1, <4>1, <4>2 DEF ParentsFirst, Placed
    <3>3. IdsInOrder'
      BY <2>10, <3>1 DEF IdsInOrder
    <3> QED BY <2>8, <3>2, <3>3 DEF ParentsFirst
  <2>12. ItemsRespected
    BY <2>7, <2>8, <2>10 DEF ItemsRespected
  <2>13. RowsRight' /\ \A held : Respects(held)
    BY <1>3, <2>1, <2>6, <2>8, <2>11, <2>12, ItemChange
  <2> QED BY <1>3, <2>13, EndStep
<1> QED BY <1>4, <1>5

LEMMA Deleted ==
    ASSUME RowsRight, NEW items \in SUBSET BomItems, Deletable(items),
           \A i \in items : item[i] # NoItem, item' = Without(items),
           headers' = headers, version' = version, extra' = extra, referenced' = referenced,
           orders' = orders, shopFloor' = shopFloor
    PROVE  RowsRight' /\ \A held : Respects(held)
<1>1. BillsRight
  BY DEF RowsRight
<1>2. /\ \A i \in items : item'[i] = DeletedItem
      /\ \A i \in BomItems \ items : item'[i] = item[i]
  BY DEF Without
<1>3. DeletedItem # NoItem /\ DeletedItem.version = None
  BY DEF DeletedItem, NoItem
<1>4. Stored' = Stored \ items
  BY <1>2, <1>3 DEF Stored
<1>5. ParentsFirst'
  <2>1. ASSUME NEW j \in Stored' PROVE Placed(j)'
    <3>1. j \in Stored /\ j \notin items /\ item'[j] = item[j]
      BY <1>2, <1>4, <2>1 DEF Stored
    <3>2. CASE item[j].parent = None /\ item[j].level = 0
      BY <3>1, <3>2 DEF Placed
    <3>3. CASE item[j].parent \in Stored /\ item[j].parent < j
               /\ BelowParent(item[j], item[j].parent)
      <4>1. item[j].parent \notin items
        BY <3>1 DEF Deletable, Children
      <4>2. item'[item[j].parent] = item[item[j].parent]
        BY <1>2, <3>3, <4>1 DEF Stored
      <4> QED BY <1>4, <3>1, <3>3, <4>1, <4>2 DEF BelowParent, Placed
    <3> QED BY <1>1, <3>1, <3>2, <3>3 DEF BillsRight, ParentsFirst, Placed
  <2> QED BY <2>1 DEF ParentsFirst
<1>6. IdsInOrder'
  <2>1. \A i \in BomItems : item'[i] # NoItem <=> item[i] # NoItem
    BY <1>2, <1>3
  <2> QED BY <1>1, <2>1 DEF BillsRight, IdsInOrder
<1>7. item' \in [BomItems -> ItemRow \union {NoItem, DeletedItem}]
  <2>1. \A i \in BomItems : item'[i] \in ItemRow \union {NoItem, DeletedItem}
    BY <1>1, <1>2 DEF BillsRight
  <2> QED BY <2>1 DEF Without
<1>8. ItemsRespected
  BY <1>2, <1>3, <1>4 DEF ItemsRespected, Stored
<1>9. referenced \intersect Stored \subseteq Stored'
  BY <1>4 DEF Deletable
<1> QED BY <1>5, <1>6, <1>7, <1>8, <1>9, ItemChange

LEMMA DeleteChildrenStep ==
    ASSUME IInv, NEW r \in Requests, DeleteChildren(r),
           orders' = orders, shopFloor' = shopFloor
    PROVE  IInv'
<1>1. PICK i : i = tx[r].id
  OBVIOUS
<1>2. PICK items : items = Children(i)
  OBVIOUS
<1>3. RowsRight /\ BillKnows(r) /\ pc[r] = "deleteChildren" /\ RequestsRight
  BY Parts, BillAt DEF DeleteChildren, At
<1>4. i \in BomItems /\ item[i] # NoItem /\ tx[r] \in [op : {"deleteItem"}, id : BomItems]
  BY <1>1, <1>3 DEF BillKnows
<1>5. CASE ~ Deletable(items)
  <2>1. End(r) /\ tables' = tables
    BY <1>1, <1>2, <1>5 DEF DeleteChildren, tables, bomTables
  <2> QED BY <2>1, RollbackStep
<1>6. CASE Deletable(items)
  <2>1. /\ item' = Without(items) /\ pc' = [pc EXCEPT ![r] = "deleteItem"]
        /\ begun' = begun /\ needs' = needs /\ tx' = tx /\ locks' = locks
        /\ headers' = headers /\ version' = version /\ extra' = extra /\ referenced' = referenced
    BY <1>1, <1>2, <1>6 DEF DeleteChildren
  <2>2. items \in SUBSET BomItems /\ \A j \in items : item[j] # NoItem
    <3>1. items \subseteq Stored
      BY <1>2 DEF Children
    <3> QED BY <1>3, <3>1, StoredRows DEF RowsRight
  <2>3. RowsRight' /\ \A held : Respects(held)
    BY <1>3, <1>6, <2>1, <2>2, Deleted
  <2>4. PICK need : need = needs[r]
    OBVIOUS
  <2>5. PICK t : t = tx[r]
    OBVIOUS
  <2>6. PICK held : held = locks[r]
    OBVIOUS
  <2>7. /\ needs' = [needs EXCEPT ![r] = need] /\ tx' = [tx EXCEPT ![r] = t]
        /\ locks' = [locks EXCEPT ![r] = held]
    BY <1>3, <2>1, <2>4, <2>5, <2>6 DEF RequestsRight
  <2>8. LocksExclusive' /\ begun' \in 0 .. MaxRequests
    BY <1>3, <2>1, BegunBound DEF RequestsRight, LocksExclusive
  <2>9. ASSUME pc'[r] = "deleteItem", tx'[r] = t PROVE Knows(r)'
    <3>1. item'[i] # NoItem
      BY <1>4, <2>3 DEF Respects, BillsRespected
    <3> QED BY <1>1, <1>4, <2>5, <2>9, <3>1 DEF Knows, BillKnows
  <2>10. "deleteItem" # "idle"
    OBVIOUS
  <2> QED BY <2>1, <2>3, <2>7, <2>8, <2>9, <2>10, RequestStep
<1> QED BY <1>5, <1>6

LEMMA DeleteItemStep ==
    ASSUME IInv, NEW r \in Requests, DeleteItem(r),
           orders' = orders, shopFloor' = shopFloor
    PROVE  IInv'
<1>1. PICK items : items = {tx[r].id}
  OBVIOUS
<1>2. RowsRight /\ BillKnows(r) /\ pc[r] = "deleteItem" /\ End(r)
  BY Parts, BillAt DEF DeleteItem, At
<1>3. items \in SUBSET BomItems /\ \A i \in items : item[i] # NoItem
  BY <1>1, <1>2 DEF BillKnows
<1>4. /\ item' = IF Deletable(items) THEN Without(items) ELSE item
      /\ headers' = headers /\ version' = version /\ extra' = extra /\ referenced' = referenced
  BY <1>1 DEF DeleteItem
<1>5. CASE ~ Deletable(items)
  <2>1. tables' = tables
    BY <1>4, <1>5 DEF tables, bomTables
  <2> QED BY <1>2, <2>1, RollbackStep
<1>6. CASE Deletable(items)
  <2>1. RowsRight' /\ \A held : Respects(held)
    BY <1>2, <1>3, <1>4, <1>6, Deleted
  <2> QED BY <1>2, <2>1, EndStep
<1> QED BY <1>5, <1>6

LEMMA InsertExtraStep ==
    ASSUME IInv, NEW r \in Requests, InsertExtra(r),
           orders' = orders, shopFloor' = shopFloor
    PROVE  IInv'
<1>1. RowsRight /\ BillKnows(r) /\ pc[r] = "insertExtra" /\ End(r)
  BY Parts, BillAt DEF InsertExtra
<1>2. tx[r].id \in Extras /\ tx[r].version \in Versions /\ tx[r].version # None
  BY <1>1, StoredRows DEF BillKnows, RowsRight
<1>3. /\ extra' = IF extra[tx[r].id] = None THEN [extra EXCEPT ![tx[r].id] = tx[r].version]
                  ELSE extra
      /\ headers' = headers /\ version' = version /\ item' = item /\ referenced' = referenced
  BY DEF InsertExtra
<1>4. extra \in [Extras -> Versions \union {None}]
  BY <1>1 DEF RowsRight, BillsRight
<1>5. extra' \in [Extras -> Versions \union {None}]
  BY <1>2, <1>3, <1>4
<1>6. \A x \in referenced : extra[x] # None => extra'[x] # None
  BY <1>2, <1>3, <1>4
<1>7. RowsRight' /\ \A held : Respects(held)
  BY <1>1, <1>3, <1>5, <1>6, ExtraChange
<1> QED BY <1>1, <1>7, EndStep

LEMMA DeleteExtraStep ==
    ASSUME IInv, NEW r \in Requests, DeleteExtra(r),
           orders' = orders, shopFloor' = shopFloor
    PROVE  IInv'
<1>1. RowsRight
  BY Parts
<1>2. PICK x \in Extras :
        /\ x \notin referenced
        /\ Autocommit(r, <<"extra", x>>)
        /\ extra' = [extra EXCEPT ![x] = None]
        /\ UNCHANGED <<headers, version, item, referenced>>
  BY DEF DeleteExtra
<1>3. extra \in [Extras -> Versions \union {None}]
  BY <1>1 DEF RowsRight, BillsRight
<1>4. /\ extra' \in [Extras -> Versions \union {None}]
      /\ \A y \in referenced : extra[y] # None => extra'[y] # None
  BY <1>2, <1>3
<1>5. RowsRight' /\ \A held : Respects(held)
  BY <1>1, <1>2, <1>4, ExtraChange
<1> QED BY <1>2, <1>5, AutoStep

-----------------------------------------------------------------------------
(* Planned orders and work orders change, and nothing else does.           *)
LEMMA Alone ==
    ASSUME RequestsRight, NEW r \in Requests, NEW x, x \in locks[r] \/ Free(r, x)
    PROVE  \A q \in Requests \ {r} : x \notin locks[q]
BY DEF RequestsRight, LocksExclusive, Free

LEMMA OrderFrame ==
    ASSUME RowsRight, bomTables' = bomTables, shopFloor' = shopFloor
    PROVE  BillsRight' /\ BillsRespected /\ \A held : ShopRespected(held)
<1>1. /\ headers' = headers /\ version' = version /\ item' = item /\ extra' = extra
      /\ material' = material /\ stock' = stock
  BY DEF bomTables, shopFloor
<1>2. BillsRight'
  BY <1>1, BillsSame DEF RowsRight
<1>3. BillsRespected
  BY <1>1, BillSets DEF BillsRespected
<1>4. \A v \in Variants : stock'[v] >= stock[v]
  BY <1>1 DEF RowsRight, StockRight, StockTypes
<1> QED BY <1>1, <1>2, <1>3, <1>4 DEF ShopRespected

LEMMA StockKept ==
    ASSUME StockRight, moved' = moved, consumed' = consumed, results' = results,
           journal' = journal, stock' = stock, summary' = summary,
           \A w \in WorkOrders :
             /\ workOrder'[w].produced = workOrder[w].produced
             /\ workOrder'[w].variant = workOrder[w].variant \/ workOrder[w].produced = 0
             /\ workOrder'[w].status = "completed" => workOrder'[w] = workOrder[w]
    PROVE  StockRight'
<1>1. StockTypes'
  BY DEF StockRight, StockTypes
<1>2. \A w \in WorkOrders : workOrder[w].produced = results[w]
  BY DEF StockRight
<1>3. ASSUME NEW v \in Variants
      PROVE  NetOf(workOrder', results, consumed, v) = NetOf(workOrder, results, consumed, v)
  <2>1. \A w \in WorkOrders : NetRows(workOrder', results, consumed, v)[w]
                              = NetRows(workOrder, results, consumed, v)[w]
    BY <1>2 DEF NetRows
  <2> QED BY <2>1, NetSame
<1>4. \A v \in Variants : stock'[v] = OnHand[v] + NetOf(workOrder, results, consumed, v)'
  BY <1>3 DEF StockRight
<1>5. \A w \in WorkOrders : /\ workOrder'[w].produced = results'[w]
                            /\ workOrder'[w].status = "completed" => Paid(w)'
  BY <1>2 DEF StockRight, Paid
<1> QED BY <1>1, <1>4, <1>5 DEF StockRight

LEMMA OrderChange ==
    ASSUME RowsRight, bomTables' = bomTables, shopFloor' = shopFloor, OrdersRight',
           \A w \in WorkOrders :
             /\ workOrder'[w].produced = workOrder[w].produced
             /\ workOrder'[w].variant = workOrder[w].variant \/ workOrder[w].produced = 0
             /\ workOrder'[w].status = "completed" => workOrder'[w] = workOrder[w]
             /\ workOrder'[w].status \in {"none", "draft"} =>
                  workOrder[w].status \in {"none", "draft"}
    PROVE  RowsRight'
<1>1. /\ item' = item /\ extra' = extra /\ referenced' = referenced /\ material' = material
      /\ process' = process /\ moved' = moved /\ consumed' = consumed /\ results' = results
      /\ journal' = journal /\ stock' = stock /\ summary' = summary
  BY DEF bomTables, shopFloor
<1>2. RefsRight'
  <2>1. Stored' = Stored /\ RowsReferenced' = RowsReferenced
    BY <1>1 DEF Stored, RowsReferenced
  <2>2. NothingBeforeConfirm'
    BY <1>1 DEF RowsRight, RefsRight, NothingBeforeConfirm
  <2> QED BY <1>1, <2>1, <2>2 DEF RowsRight, RefsRight
<1>3. StockRight'
  BY <1>1, StockKept DEF RowsRight
<1> QED BY <1>2, <1>3, OrderFrame DEF RowsRight

(* A work order that exists keeps its planned order and its variant.       *)
LEMMA OrdersKept ==
    ASSUME OrdersRight, planned' = planned, bought' = bought,
           NEW w \in Created, NEW row \in WorkOrderRow,
           workOrder' = [workOrder EXCEPT ![w] = row],
           row.from = workOrder[w].from, row.variant = workOrder[w].variant
    PROVE  /\ OrdersRight' /\ Created' = Created /\ w \in WorkOrders
           /\ workOrder'[w] = row /\ \A x \in WorkOrders \ {w} : workOrder'[x] = workOrder[x]
<1>1. workOrder \in [WorkOrders -> WorkOrderRow \union {NoWorkOrder}] /\ w \in WorkOrders
  BY DEF OrdersRight, Created
<1>2. workOrder'[w] = row /\ \A x \in WorkOrders \ {w} : workOrder'[x] = workOrder[x]
  BY <1>1
<1>3. row.status # "none"
  BY DEF WorkOrderRow
<1>4. Created' = Created
  BY <1>1, <1>2, <1>3 DEF Created
<1>5. workOrder' \in [WorkOrders -> WorkOrderRow \union {NoWorkOrder}]
  BY <1>1
<1>6. \A x \in WorkOrders : /\ workOrder'[x].from = workOrder[x].from
                            /\ workOrder'[x].variant = workOrder[x].variant
  BY <1>2
<1>7. \A p \in PlannedOrders : planned[p].workOrder \in WorkOrders \union {None}
  BY DEF OrdersRight, PlannedRow
<1>8. ApprovalsMatchOrders'
  BY <1>6, <1>7 DEF OrdersRight, ApprovalsMatchOrders
<1>9. OrdersExist'
  BY <1>4 DEF OrdersRight, OrdersExist
<1>10. OrdersRight'
  BY <1>5, <1>8, <1>9 DEF OrdersRight
<1> QED BY <1>1, <1>2, <1>4, <1>10

LEMMA RowChange ==
    ASSUME RowsRight, bomTables' = bomTables, shopFloor' = shopFloor,
           planned' = planned, bought' = bought, NEW w \in Created, NEW row \in WorkOrderRow,
           workOrder' = [workOrder EXCEPT ![w] = row],
           row.from = workOrder[w].from, row.variant = workOrder[w].variant,
           row.produced = workOrder[w].produced,
           row.status = "completed" => row = workOrder[w],
           row.status = "draft" => workOrder[w].status = "draft"
    PROVE  RowsRight' /\ \A held : WorkOrderLock(w) \notin held => Respects(held)
<1>1. /\ OrdersRight' /\ Created' = Created /\ w \in WorkOrders
      /\ workOrder'[w] = row /\ \A x \in WorkOrders \ {w} : workOrder'[x] = workOrder[x]
  BY OrdersKept DEF RowsRight
<1>2. row.status # "none"
  BY DEF WorkOrderRow
<1>3. \A x \in WorkOrders :
        /\ workOrder'[x].produced = workOrder[x].produced
        /\ workOrder'[x].variant = workOrder[x].variant \/ workOrder[x].produced = 0
        /\ workOrder'[x].status = "completed" => workOrder'[x] = workOrder[x]
        /\ workOrder'[x].status \in {"none", "draft"} =>
             workOrder[x].status \in {"none", "draft"}
  BY <1>1, <1>2
<1>4. RowsRight'
  BY <1>1, <1>3, OrderChange
<1>5. ASSUME NEW held, WorkOrderLock(w) \notin held PROVE Respects(held)
  <2>1. OrdersRespected(held)
    BY <1>1, <1>5 DEF OrdersRespected, Created
  <2> QED BY <2>1, OrderFrame DEF Respects
<1> QED BY <1>4, <1>5

LEMMA FreeRow ==
    ASSUME RowsRight, FreeIds # {}
    PROVE  /\ Min(FreeIds) \in WorkOrders /\ Min(FreeIds) \notin Created
           /\ workOrder[Min(FreeIds)] = NoWorkOrder
<1>1. FreeIds \in SUBSET Nat
  BY ProductionConstants DEF FreeIds
<1>2. Min(FreeIds) \in FreeIds
  BY <1>1, MinIn
<1> QED BY <1>2 DEF FreeIds, Created, RowsRight, OrdersRight, WorkOrderRow

(* A new one.                                                              *)
LEMMA NewRow ==
    ASSUME RowsRight, NEW w \in WorkOrders, workOrder[w] = NoWorkOrder,
           NEW row \in WorkOrderRow, row.status = "draft", row.produced = 0,
           workOrder' = [workOrder EXCEPT ![w] = row]
    PROVE  /\ workOrder' \in [WorkOrders -> WorkOrderRow \union {NoWorkOrder}]
           /\ workOrder'[w] = row /\ \A x \in WorkOrders \ {w} : workOrder'[x] = workOrder[x]
           /\ Created' = Created \union {w} /\ w \notin Created
           /\ \A x \in WorkOrders :
                /\ workOrder'[x].produced = workOrder[x].produced
                /\ workOrder'[x].variant = workOrder[x].variant \/ workOrder[x].produced = 0
                /\ workOrder'[x].status = "completed" => workOrder'[x] = workOrder[x]
                /\ workOrder'[x].status \in {"none", "draft"} =>
                     workOrder[x].status \in {"none", "draft"}
<1>1. workOrder \in [WorkOrders -> WorkOrderRow \union {NoWorkOrder}]
  BY DEF RowsRight, OrdersRight
<1>2. /\ workOrder' \in [WorkOrders -> WorkOrderRow \union {NoWorkOrder}]
      /\ workOrder'[w] = row /\ \A x \in WorkOrders \ {w} : workOrder'[x] = workOrder[x]
  BY <1>1
<1>3. workOrder[w].status = "none" /\ workOrder[w].produced = 0
  BY DEF NoWorkOrder
<1>4. Created' = Created \union {w} /\ w \notin Created
  BY <1>2, <1>3 DEF Created
<1> QED BY <1>2, <1>3, <1>4

LEMMA InsertOrderStep == ASSUME IInv, NEW r \in Requests, InsertOrder(r) PROVE IInv'
<1>1. PICK row : row = tx[r].row
  OBVIOUS
<1>2. PICK w : w = Min(FreeIds)
  OBVIOUS
<1>3. RowsRight /\ OrderKnows(r) /\ pc[r] = "insertOrder"
  BY Parts, OrderAt DEF InsertOrder
<1>4. /\ row \in WorkOrderRow /\ row.status = "draft" /\ row.produced = 0
  BY <1>1, <1>3 DEF OrderKnows
<1>5. /\ FreeIds # {} /\ workOrder' = [workOrder EXCEPT ![w] = row] /\ End(r)
      /\ bomTables' = bomTables /\ planned' = planned /\ bought' = bought
      /\ shopFloor' = shopFloor
  BY <1>1, <1>2 DEF InsertOrder
<1>6. w \in WorkOrders /\ workOrder[w] = NoWorkOrder
  BY <1>2, <1>3, <1>5, FreeRow
<1>7. /\ workOrder' \in [WorkOrders -> WorkOrderRow \union {NoWorkOrder}]
      /\ workOrder'[w] = row /\ \A x \in WorkOrders \ {w} : workOrder'[x] = workOrder[x]
      /\ Created' = Created \union {w} /\ w \notin Created
      /\ \A x \in WorkOrders :
           /\ workOrder'[x].produced = workOrder[x].produced
           /\ workOrder'[x].variant = workOrder[x].variant \/ workOrder[x].produced = 0
           /\ workOrder'[x].status = "completed" => workOrder'[x] = workOrder[x]
           /\ workOrder'[x].status \in {"none", "draft"} =>
                workOrder[x].status \in {"none", "draft"}
  BY <1>3, <1>4, <1>5, <1>6, NewRow
<1>8. OrdersRight'
  <2>1. OrdersRight
    BY <1>3 DEF RowsRight
  <2>2. \A p \in PlannedOrders : planned[p].workOrder \in Created \union {None}
    BY <2>1 DEF OrdersRight, OrdersExist
  <2>3. \A p \in PlannedOrders : planned[p].workOrder # None =>
          workOrder'[planned[p].workOrder] = workOrder[planned[p].workOrder]
    BY <1>7, <2>2 DEF Created
  <2>4. ApprovalsMatchOrders'
    BY <1>5, <2>1, <2>3 DEF OrdersRight, ApprovalsMatchOrders
  <2>5. OrdersExist'
    BY <1>5, <1>7, <2>2 DEF OrdersExist
  <2> QED BY <1>5, <1>7, <2>1, <2>4, <2>5 DEF OrdersRight
<1>9. RowsRight'
  BY <1>3, <1>5, <1>7, <1>8, OrderChange
<1>10. ASSUME NEW held PROVE Respects(held)
  <2>1. OrdersRespected(held)
    BY <1>5, <1>7 DEF OrdersRespected, Created
  <2> QED BY <1>3, <1>5, <2>1, OrderFrame DEF Respects
<1> QED BY <1>5, <1>9, <1>10, EndStep

-----------------------------------------------------------------------------
(* PlannedOrderService.                                                    *)
LEMMA LockPlannedStep == ASSUME IInv, NEW r \in Requests, LockPlanned(r) PROVE IInv'
<1>1. OrderKnows(r) /\ pc[r] = "approve" /\ tables' = tables /\ \A x \in needs[r] : Free(r, x)
  BY Parts, OrderAt DEF LockPlanned, At
<1>2. CASE ~ (Approvable(tx[r].id) /\ Complete(tx[r].id))
  BY <1>1, <1>2, RollbackStep DEF LockPlanned
<1>3. CASE Approvable(tx[r].id) /\ Complete(tx[r].id)
  <2>1. PICK p : p = tx[r].id
    OBVIOUS
  <2>2. PICK t : t = tx[r]
    OBVIOUS
  <2>3. /\ needs[r] = {PlannedLock(p)} /\ t \in [op : {"approve"}, id : PlannedOrders]
        /\ t.id = p
    BY <1>1, <2>1, <2>2 DEF OrderKnows
  <2>4. Approvable(p)' /\ (p \in Production => VersionMade[p] # None)
    BY <1>1, <1>3, <2>1, SameTables DEF Approvable, Complete
  <2>5. ASSUME pc'[r] = "commitApproval", tx'[r] = t, locks'[r] = locks[r] \union needs[r]
        PROVE  Knows(r)'
    BY <2>3, <2>4, <2>5 DEF Knows, OrderKnows
  <2>6. Continue(r, "commitApproval", {}, t)
    BY <1>3, <2>2 DEF LockPlanned
  <2> QED BY <1>1, <2>5, <2>6, ContinueStep
<1> QED BY <1>2, <1>3

LEMMA CommitApprovalStep == ASSUME IInv, NEW r \in Requests, CommitApproval(r) PROVE IInv'
<1>1. PICK p : p = tx[r].id
  OBVIOUS
<1>2. PICK w : w = Min(FreeIds)
  OBVIOUS
<1>3. RowsRight /\ OrdersRight /\ RequestsRight /\ OrderKnows(r) /\ pc[r] = "commitApproval"
  BY Parts, OrderAt DEF CommitApproval, At, RowsRight
<1>4. /\ PlannedLock(p) \in locks[r] /\ p \in PlannedOrders /\ planned[p].status = "proposed"
      /\ p \in Production => VersionMade[p] # None
  BY <1>1, <1>3 DEF OrderKnows, Approvable
<1>5. /\ bomTables' = bomTables /\ shopFloor' = shopFloor /\ End(r)
  BY DEF CommitApproval
<1>6. \A q \in Requests \ {r} : PlannedLock(p) \notin locks[q]
  BY <1>3, <1>4, Alone
<1>7. planned \in [PlannedOrders -> PlannedRow] /\ bought \in [PlannedOrders -> Nat]
  BY <1>3 DEF OrdersRight
<1>8. planned[p].workOrder = None /\ ~ planned[p].purchased /\ bought[p] = 0
  BY <1>3, <1>4 DEF OrdersRight, ApprovalsMatchOrders
<1>9. \A x \in PlannedOrders : planned[x].workOrder \in Created \union {None}
  BY <1>3 DEF OrdersRight, OrdersExist
<1>10. CASE p \in Production
  <2>1. PICK row : row = Draft(p, VariantMade[p], VersionMade[p], QuantityMade[p])
    OBVIOUS
  <2>2. PICK plan : plan = [status |-> "approved", workOrder |-> w, purchased |-> FALSE]
    OBVIOUS
  <2>3. /\ FreeIds # {} /\ workOrder' = [workOrder EXCEPT ![w] = row]
        /\ planned' = [planned EXCEPT ![p] = plan] /\ bought' = bought
    BY <1>1, <1>2, <1>10, <2>1, <2>2 DEF CommitApproval
  <2>4. /\ row \in WorkOrderRow /\ row.status = "draft" /\ row.produced = 0 /\ row.from = p
        /\ row.variant = VariantMade[p]
    BY <1>4, <1>10, <2>1, ProductionConstants DEF Draft, WorkOrderRow
  <2>5. w \in WorkOrders /\ workOrder[w] = NoWorkOrder
    BY <1>2, <1>3, <2>3, FreeRow
  <2>6. /\ workOrder' \in [WorkOrders -> WorkOrderRow \union {NoWorkOrder}]
        /\ workOrder'[w] = row /\ \A x \in WorkOrders \ {w} : workOrder'[x] = workOrder[x]
        /\ Created' = Created \union {w} /\ w \notin Created
        /\ \A x \in WorkOrders :
             /\ workOrder'[x].produced = workOrder[x].produced
             /\ workOrder'[x].variant = workOrder[x].variant \/ workOrder[x].produced = 0
             /\ workOrder'[x].status = "completed" => workOrder'[x] = workOrder[x]
             /\ workOrder'[x].status \in {"none", "draft"} =>
                  workOrder[x].status \in {"none", "draft"}
    BY <1>3, <2>3, <2>4, <2>5, NewRow
  <2>7. planned'[p] = plan /\ \A x \in PlannedOrders \ {p} : planned'[x] = planned[x]
    BY <1>4, <1>7, <2>3
  <2>8. plan.status = "approved" /\ plan.workOrder = w /\ plan.purchased = FALSE
        /\ plan \in PlannedRow
    BY <2>2, <2>5 DEF PlannedRow
  <2>9. w # None /\ w \notin Created
    BY <2>5, <2>6, ProductionConstants, BomConstants
  <2>10. ApprovalsMatchOrders'
    <3>1. ASSUME NEW x \in PlannedOrders
          PROVE  /\ planned'[x].status = "approved" <=>
                      (planned'[x].workOrder # None \/ planned'[x].purchased)
                 /\ planned'[x].workOrder # None =>
                      /\ x \in Production /\ workOrder'[planned'[x].workOrder].from = x
                      /\ workOrder'[planned'[x].workOrder].variant = VariantMade[x]
                 /\ bought'[x] = IF planned'[x].purchased THEN 1 ELSE 0
      <4>1. CASE x = p
        BY <1>8, <1>10, <2>3, <2>4, <2>6, <2>7, <2>8, <2>9, <4>1
      <4>2. CASE x # p
        <5>1. planned'[x] = planned[x] /\ bought'[x] = bought[x]
          BY <2>3, <2>7, <3>1, <4>2
        <5>2. planned[x].workOrder # None =>
                workOrder'[planned[x].workOrder] = workOrder[planned[x].workOrder]
          BY <1>9, <2>6 DEF Created
        <5> QED BY <1>3, <5>1, <5>2 DEF OrdersRight, ApprovalsMatchOrders
      <4> QED BY <4>1, <4>2
    <3>2. ASSUME NEW x \in PlannedOrders, NEW y \in PlannedOrders,
                 planned'[x].workOrder = planned'[y].workOrder
          PROVE  x = y \/ planned'[x].workOrder = None
      <4>1. CASE x = p \/ y = p
        BY <1>9, <2>7, <2>8, <2>9, <3>2, <4>1
      <4>2. CASE x # p /\ y # p
        BY <1>3, <2>7, <3>2, <4>2 DEF OrdersRight, ApprovalsMatchOrders
      <4> QED BY <4>1, <4>2
    <3> QED BY <3>1, <3>2 DEF ApprovalsMatchOrders
  <2>11. OrdersExist'
    BY <1>9, <2>6, <2>7, <2>8 DEF OrdersExist
  <2>12. OrdersRight'
    <3>1. planned' \in [PlannedOrders -> PlannedRow]
      BY <1>7, <2>3, <2>8
    <3> QED BY <1>7, <2>3, <2>6, <2>10, <2>11, <3>1 DEF OrdersRight
  <2>13. RowsRight'
    BY <1>3, <1>5, <2>6, <2>12, OrderChange
  <2>14. ASSUME NEW q \in Requests \ {r} PROVE Respects(locks[q])
    <3>1. OrdersRespected(locks[q])
      <4>1. \A x \in PlannedOrders : PlannedLock(x) \in locks[q] => planned'[x] = planned[x]
        BY <1>6, <2>7
      <4>2. \A x \in Created : workOrder'[x] = workOrder[x]
        BY <2>6 DEF Created
      <4> QED BY <2>6, <4>1, <4>2 DEF OrdersRespected
    <3> QED BY <1>3, <1>5, <3>1, OrderFrame DEF Respects
  <2> QED BY <1>5, <2>13, <2>14, EndStep
<1>11. CASE p \notin Production
  <2>1. PICK plan : plan = [status |-> "approved", workOrder |-> None, purchased |-> TRUE]
    OBVIOUS
  <2>2. /\ workOrder' = workOrder /\ bought' = [bought EXCEPT ![p] = @ + 1]
        /\ planned' = [planned EXCEPT ![p] = plan]
    BY <1>1, <1>11, <2>1 DEF CommitApproval
  <2>3. plan.status = "approved" /\ plan.workOrder = None /\ plan.purchased = TRUE
        /\ plan \in PlannedRow
    BY <2>1 DEF PlannedRow
  <2>4. /\ planned'[p] = plan /\ \A x \in PlannedOrders \ {p} : planned'[x] = planned[x]
        /\ bought'[p] = 1 /\ \A x \in PlannedOrders \ {p} : bought'[x] = bought[x]
        /\ planned' \in [PlannedOrders -> PlannedRow] /\ bought' \in [PlannedOrders -> Nat]
    BY <1>4, <1>7, <1>8, <2>2, <2>3
  <2>5. Created' = Created
    BY <2>2 DEF Created
  <2>6. ApprovalsMatchOrders'
    <3>1. ASSUME NEW x \in PlannedOrders
          PROVE  /\ planned'[x].status = "approved" <=>
                      (planned'[x].workOrder # None \/ planned'[x].purchased)
                 /\ planned'[x].workOrder # None =>
                      /\ x \in Production /\ workOrder[planned'[x].workOrder].from = x
                      /\ workOrder[planned'[x].workOrder].variant = VariantMade[x]
                 /\ bought'[x] = IF planned'[x].purchased THEN 1 ELSE 0
      <4>1. CASE x = p
        BY <2>3, <2>4, <4>1
      <4>2. CASE x # p
        <5>1. planned'[x] = planned[x] /\ bought'[x] = bought[x]
          BY <2>4, <3>1, <4>2
        <5> QED BY <1>3, <5>1 DEF OrdersRight, ApprovalsMatchOrders
      <4> QED BY <4>1, <4>2
    <3>2. ASSUME NEW x \in PlannedOrders, NEW y \in PlannedOrders,
                 planned'[x].workOrder = planned'[y].workOrder
          PROVE  x = y \/ planned'[x].workOrder = None
      BY <1>3, <2>3, <2>4, <3>2 DEF OrdersRight, ApprovalsMatchOrders
    <3> QED BY <2>2, <3>1, <3>2 DEF ApprovalsMatchOrders
  <2>7. OrdersExist'
    BY <1>9, <2>3, <2>4, <2>5 DEF OrdersExist
  <2>8. OrdersRight'
    BY <1>3, <2>2, <2>4, <2>6, <2>7 DEF OrdersRight
  <2>9. RowsRight'
    <3>1. \A x \in WorkOrders :
            /\ workOrder'[x].produced = workOrder[x].produced
            /\ workOrder'[x].variant = workOrder[x].variant \/ workOrder[x].produced = 0
            /\ workOrder'[x].status = "completed" => workOrder'[x] = workOrder[x]
            /\ workOrder'[x].status \in {"none", "draft"} =>
                 workOrder[x].status \in {"none", "draft"}
      BY <2>2
    <3> QED BY <1>3, <1>5, <2>8, <3>1, OrderChange
  <2>10. ASSUME NEW q \in Requests \ {r} PROVE Respects(locks[q])
    <3>1. OrdersRespected(locks[q])
      BY <1>6, <2>2, <2>4, <2>5 DEF OrdersRespected
    <3> QED BY <1>3, <1>5, <3>1, OrderFrame DEF Respects
  <2> QED BY <1>5, <2>9, <2>10, EndStep
<1> QED BY <1>10, <1>11

LEMMA CancelPlannedStep == ASSUME IInv, NEW r \in Requests, CancelPlanned(r) PROVE IInv'
<1>1. PICK p \in PlannedOrders :
        /\ Autocommit(r, PlannedLock(p)) /\ Approvable(p)
        /\ planned' = [planned EXCEPT ![p].status = "cancelled"]
        /\ UNCHANGED <<bomTables, bought, workOrder, shopFloor>>
  BY DEF CancelPlanned
<1>2. RowsRight /\ OrdersRight /\ RequestsRight
  BY Parts DEF RowsRight
<1>3. \A q \in Requests \ {r} : PlannedLock(p) \notin locks[q]
  BY <1>1, <1>2, Alone DEF Autocommit
<1>4. planned \in [PlannedOrders -> PlannedRow] /\ planned[p].status = "proposed"
  BY <1>1, <1>2 DEF OrdersRight, Approvable
<1>5. PICK plan : plan = [planned[p] EXCEPT !.status = "cancelled"]
  OBVIOUS
<1>6. plan.status = "cancelled" /\ plan.workOrder = planned[p].workOrder
      /\ plan.purchased = planned[p].purchased /\ plan \in PlannedRow
  BY <1>4, <1>5 DEF PlannedRow
<1>7. /\ planned'[p] = plan /\ \A x \in PlannedOrders \ {p} : planned'[x] = planned[x]
      /\ planned' \in [PlannedOrders -> PlannedRow]
      /\ workOrder' = workOrder /\ bought' = bought
  BY <1>1, <1>4, <1>5, <1>6
<1>8. Created' = Created
  BY <1>7 DEF Created
<1>9. OrdersRight'
  <2>1. \A x \in PlannedOrders :
          /\ planned'[x].workOrder = planned[x].workOrder
          /\ planned'[x].purchased = planned[x].purchased
          /\ planned'[x].status = "approved" <=> planned[x].status = "approved"
    BY <1>4, <1>6, <1>7
  <2>2. ApprovalsMatchOrders'
    BY <1>2, <1>7, <2>1 DEF OrdersRight, ApprovalsMatchOrders
  <2>3. OrdersExist'
    BY <1>2, <1>8, <2>1 DEF OrdersRight, OrdersExist
  <2> QED BY <1>2, <1>7, <2>2, <2>3 DEF OrdersRight
<1>10. RowsRight'
  <2>1. \A x \in WorkOrders :
          /\ workOrder'[x].produced = workOrder[x].produced
          /\ workOrder'[x].variant = workOrder[x].variant \/ workOrder[x].produced = 0
          /\ workOrder'[x].status = "completed" => workOrder'[x] = workOrder[x]
          /\ workOrder'[x].status \in {"none", "draft"} =>
               workOrder[x].status \in {"none", "draft"}
    BY <1>7
  <2>2. bomTables' = bomTables /\ shopFloor' = shopFloor
    BY <1>1
  <2> QED BY <1>2, <1>9, <2>1, <2>2, OrderChange
<1>11. ASSUME NEW q \in Requests \ {r} PROVE Respects(locks[q])
  <2>1. OrdersRespected(locks[q])
    BY <1>3, <1>7, <1>8 DEF OrdersRespected
  <2>2. bomTables' = bomTables /\ shopFloor' = shopFloor
    BY <1>1
  <2> QED BY <1>2, <2>1, <2>2, OrderFrame DEF Respects
<1> QED BY <1>1, <1>10, <1>11, AutoStep

-----------------------------------------------------------------------------
(* WorkOrderService: update, cancel, startProduction.                      *)
LEMMA OrderRow ==
    ASSUME RowsRight, NEW w \in Created
    PROVE  w \in WorkOrders /\ workOrder[w] \in WorkOrderRow
BY DEF RowsRight, OrdersRight, Created, NoWorkOrder

LEMMA UpdateOrderStep == ASSUME IInv, NEW r \in Requests, UpdateOrder(r) PROVE IInv'
<1>1. PICK w : w = tx[r].id
  OBVIOUS
<1>2. RowsRight /\ RequestsRight /\ OrderKnows(r) /\ pc[r] = "updateOrder"
      /\ \A x \in needs[r] : Free(r, x)
  BY Parts, OrderAt DEF UpdateOrder, At
<1>3. w \in Created /\ tx[r].planned \in Nat \ {0} /\ WorkOrderLock(w) \in needs[r]
  BY <1>1, <1>2 DEF OrderKnows
<1>4. /\ bomTables' = bomTables /\ shopFloor' = shopFloor /\ End(r)
      /\ planned' = planned /\ bought' = bought
  BY DEF UpdateOrder
<1>5. CASE workOrder[w].status \in {"completed", "cancelled"}
  <2>1. tables' = tables
    BY <1>1, <1>5 DEF UpdateOrder, tables, orders
  <2> QED BY <1>4, <2>1, RollbackStep
<1>6. CASE workOrder[w].status \notin {"completed", "cancelled"}
  <2>1. PICK row : row = [workOrder[w] EXCEPT !.planned = tx[r].planned]
    OBVIOUS
  <2>2. workOrder' = [workOrder EXCEPT ![w] = row]
    BY <1>1, <1>6, <2>1 DEF UpdateOrder
  <2>3. /\ row \in WorkOrderRow
        /\ row.from = workOrder[w].from /\ row.variant = workOrder[w].variant
        /\ row.produced = workOrder[w].produced /\ row.status = workOrder[w].status
    BY <1>2, <1>3, <2>1, OrderRow DEF WorkOrderRow
  <2>4. RowsRight' /\ \A held : WorkOrderLock(w) \notin held => Respects(held)
    BY <1>2, <1>3, <1>4, <1>6, <2>2, <2>3, RowChange
  <2>5. \A q \in Requests \ {r} : WorkOrderLock(w) \notin locks[q]
    BY <1>2, <1>3, Alone
  <2> QED BY <1>4, <2>4, <2>5, EndStep
<1> QED BY <1>5, <1>6

LEMMA CancelOrderStep == ASSUME IInv, NEW r \in Requests, CancelOrder(r) PROVE IInv'
<1>1. PICK w : w = tx[r].id
  OBVIOUS
<1>2. RowsRight /\ RequestsRight /\ OrderKnows(r) /\ pc[r] = "cancelOrder"
      /\ \A x \in needs[r] : Free(r, x)
  BY Parts, OrderAt DEF CancelOrder, At
<1>3. w \in Created /\ WorkOrderLock(w) \in needs[r]
  BY <1>1, <1>2 DEF OrderKnows
<1>4. /\ bomTables' = bomTables /\ shopFloor' = shopFloor /\ End(r)
      /\ planned' = planned /\ bought' = bought
  BY DEF CancelOrder
<1>5. PICK row : row = [workOrder[w] EXCEPT !.status = "cancelled"]
  OBVIOUS
<1>6. workOrder' = [workOrder EXCEPT ![w] = row]
  BY <1>1, <1>5 DEF CancelOrder
<1>7. /\ row \in WorkOrderRow
      /\ row.from = workOrder[w].from /\ row.variant = workOrder[w].variant
      /\ row.produced = workOrder[w].produced /\ row.status = "cancelled"
  BY <1>2, <1>3, <1>5, OrderRow DEF WorkOrderRow
<1>8. RowsRight' /\ \A held : WorkOrderLock(w) \notin held => Respects(held)
  BY <1>2, <1>3, <1>4, <1>6, <1>7, RowChange
<1>9. \A q \in Requests \ {r} : WorkOrderLock(w) \notin locks[q]
  BY <1>2, <1>3, Alone
<1> QED BY <1>4, <1>8, <1>9, EndStep

LEMMA StartProductionStep == ASSUME IInv, NEW r \in Requests, StartProduction(r) PROVE IInv'
<1>1. PICK w \in WorkOrders :
        /\ Autocommit(r, WorkOrderLock(w)) /\ workOrder[w].status = "confirmed"
        /\ workOrder' = [workOrder EXCEPT ![w].status = "in_progress"]
        /\ UNCHANGED <<bomTables, planned, bought, shopFloor>>
  BY DEF StartProduction
<1>2. RowsRight /\ RequestsRight /\ w \in Created
  BY <1>1, Parts DEF Created
<1>3. PICK row : row = [workOrder[w] EXCEPT !.status = "in_progress"]
  OBVIOUS
<1>4. workOrder' = [workOrder EXCEPT ![w] = row]
  BY <1>1, <1>3
<1>5. /\ row \in WorkOrderRow
      /\ row.from = workOrder[w].from /\ row.variant = workOrder[w].variant
      /\ row.produced = workOrder[w].produced /\ row.status = "in_progress"
  BY <1>2, <1>3, OrderRow DEF WorkOrderRow
<1>6. RowsRight' /\ \A held : WorkOrderLock(w) \notin held => Respects(held)
  <2>1. bomTables' = bomTables /\ shopFloor' = shopFloor /\ planned' = planned
        /\ bought' = bought
    BY <1>1
  <2> QED BY <1>2, <1>4, <1>5, <2>1, RowChange
<1>7. \A q \in Requests \ {r} : WorkOrderLock(w) \notin locks[q]
  BY <1>1, <1>2, Alone DEF Autocommit
<1> QED BY <1>1, <1>6, <1>7, AutoStep

-----------------------------------------------------------------------------
(* explodeBom finds the items of a version.                                *)
Belongs(v) == [i \in BomItems |-> i \in Stored /\ item[i].version = v]

Climb(v, g) ==
    [i \in BomItems |->
       /\ i \in Stored
       /\ IF item[i].parent = None THEN item[i].version = v
          ELSE item[i].parent < i /\ g[item[i].parent]]

LEMMA ReachedChosen ==
    ASSUME NEW v
    PROVE  Reached(v) = {i \in BomItems : (CHOOSE g : g = Climb(v, g))[i]}
BY Zenon DEF Reached, Climb

LEMMA BelongsClimbs == ASSUME BillsRight, NEW v PROVE Belongs(v) = Climb(v, Belongs(v))
<1> DEFINE R == Belongs(v)  C == Climb(v, R)
<1>1. R = [i \in BomItems |-> R[i]] /\ C = [i \in BomItems |-> C[i]]
  BY DEF Belongs, Climb
<1>2. ASSUME NEW i \in BomItems PROVE R[i] = C[i]
  <2>1. R[i] = (i \in Stored /\ item[i].version = v)
    BY DEF Belongs
  <2>2. C[i] = (/\ i \in Stored
                /\ IF item[i].parent = None THEN item[i].version = v
                   ELSE item[i].parent < i /\ R[item[i].parent])
    BY DEF Climb
  <2>3. ASSUME i \in Stored
        PROVE  (item[i].version = v) <=>
                 (IF item[i].parent = None THEN item[i].version = v
                  ELSE item[i].parent < i /\ R[item[i].parent])
    <3>1. Placed(i)
      BY <2>3 DEF BillsRight, ParentsFirst
    <3>2. CASE item[i].parent = None
      BY <3>2
    <3>3. CASE item[i].parent # None
      <4>1. item[i].parent \in Stored /\ item[i].parent < i
            /\ item[i].version = item[item[i].parent].version
        BY <3>1, <3>3 DEF Placed, BelowParent
      <4>2. R[item[i].parent] <=> item[item[i].parent].version = v
        BY <4>1 DEF Belongs, Stored
      <4> QED BY <3>3, <4>1, <4>2
    <3> QED BY <3>2, <3>3
  <2> HIDE DEF R, C
  <2> QED BY <2>1, <2>2, <2>3
<1> HIDE DEF R, C
<1>3. R = C
  BY <1>1, <1>2
<1> QED BY <1>3 DEF R, C

LEMMA ClimbUnique ==
    ASSUME BillsRight, NEW v, NEW g, g = Climb(v, g)
    PROVE  \A i \in BomItems : g[i] <=> Belongs(v)[i]
<1> DEFINE R == Belongs(v)
           B == {i \in BomItems : ~ (g[i] <=> R[i])}
<1> SUFFICES ASSUME B # {} PROVE FALSE
  OBVIOUS
<1>1. B \in SUBSET Nat
  BY BomConstants
<1> HIDE DEF B
<1>2. PICK i \in B : \A j \in B : i <= j
  BY <1>1, LeastNatural
<1>3. i \in BomItems /\ ~ (g[i] <=> R[i]) /\ i \in Nat
  BY <1>1, <1>2 DEF B
<1>4. g[i] = (/\ i \in Stored
              /\ IF item[i].parent = None THEN item[i].version = v
                 ELSE item[i].parent < i /\ g[item[i].parent])
  <2>1. Climb(v, g)[i] = (/\ i \in Stored
              /\ IF item[i].parent = None THEN item[i].version = v
                 ELSE item[i].parent < i /\ g[item[i].parent])
    BY <1>3 DEF Climb
  <2> QED BY <2>1
<1>5. R[i] = (/\ i \in Stored
              /\ IF item[i].parent = None THEN item[i].version = v
                 ELSE item[i].parent < i /\ R[item[i].parent])
  <2>1. Climb(v, R)[i] = (/\ i \in Stored
              /\ IF item[i].parent = None THEN item[i].version = v
                 ELSE item[i].parent < i /\ R[item[i].parent])
    BY <1>3 DEF Climb
  <2>2. R = Climb(v, R)
    BY BelongsClimbs
  <2> HIDE DEF R
  <2> QED BY <2>1, <2>2
<1> HIDE DEF R
<1>6. PICK p : p = item[i].parent
  OBVIOUS
<1>7. i \in Stored /\ p # None /\ p < i /\ ~ (g[p] <=> R[p])
  BY <1>3, <1>4, <1>5, <1>6
<1>8. p \in BomItems /\ p \in Nat
  <2>1. Placed(i)
    BY <1>7 DEF BillsRight, ParentsFirst
  <2>2. p \in Stored
    BY <1>6, <1>7, <2>1 DEF Placed
  <2> QED BY <2>2, BomConstants DEF Stored
<1>9. p \in B
  BY <1>7, <1>8 DEF B
<1> QED BY <1>2, <1>3, <1>7, <1>8, <1>9

LEMMA ReachedItems == ASSUME BillsRight, NEW v PROVE Reached(v) = ItemsOfVersion(v)
<1>1. PICK g : g = (CHOOSE h : h = Climb(v, h))
  OBVIOUS
<1>2. \E h : h = Climb(v, h)
  BY BelongsClimbs
<1>3. g = Climb(v, g)
  BY <1>1, <1>2
<1>4. \A i \in BomItems : g[i] <=> Belongs(v)[i]
  BY <1>3, ClimbUnique
<1>5. Reached(v) = {i \in BomItems : g[i]}
  BY <1>1, ReachedChosen
<1>6. \A i \in BomItems : g[i] <=> i \in Stored /\ item[i].version = v
  BY <1>4 DEF Belongs
<1> QED BY <1>5, <1>6 DEF ItemsOfVersion, Stored

-----------------------------------------------------------------------------
(* WorkOrderService.confirm.                                               *)
LEMMA PositiveProduct ==
    ASSUME NEW a \in Nat \ {0}, NEW b \in Nat \ {0}
    PROVE  a * b \in Nat \ {0}
OBVIOUS

LEMMA NeededFits ==
    ASSUME RowsRight, NEW w \in Created
    PROVE  /\ DOMAIN Materials(w) \subseteq BomItems
           /\ \A i \in DOMAIN Materials(w) : Materials(w)[i] \in Nat \ {0}
<1> DEFINE S == Reached(workOrder[w].version)  n == workOrder[w].planned
           D == {i \in S : ~ item[i].phantom \/ item[i].level > 0}
<1>1. S = ItemsOfVersion(workOrder[w].version)
  BY ReachedItems DEF RowsRight
<1>2. n \in Nat \ {0}
  BY OrderRow DEF WorkOrderRow
<1>3. \A i \in S : i \in BomItems /\ item[i].amount \in Nat \ {0}
  BY <1>1, StoredRows DEF ItemsOfVersion, RowsRight, ItemRow
<1>4. Materials(w) = [i \in D |-> item[i].amount * n]
  BY DEF Materials, Explode
<1> HIDE DEF S, n
<1>5. \A i \in D : i \in BomItems /\ item[i].amount * n \in Nat \ {0}
  BY <1>2, <1>3, PositiveProduct
<1> HIDE DEF D
<1> QED BY <1>4, <1>5

LEMMA LockConfirmStep == ASSUME IInv, NEW r \in Requests, LockConfirm(r) PROVE IInv'
<1>1. PICK w : w = tx[r].id
  OBVIOUS
<1>2. RowsRight /\ ConfirmKnows(r) /\ pc[r] = "confirm" /\ tables' = tables
      /\ \A x \in needs[r] : Free(r, x)
  BY Parts, ConfirmAt DEF LockConfirm, At
<1>3. w \in Created /\ needs[r] = {WorkOrderLock(w)}
  BY <1>1, <1>2 DEF ConfirmKnows
<1>4. CASE workOrder[w].status # "draft"
  BY <1>1, <1>2, <1>4, RollbackStep DEF LockConfirm
<1>5. CASE workOrder[w].status = "draft"
  <2>1. PICK needed : needed = Materials(w)
    OBVIOUS
  <2>2. PICK t : t = [op |-> "confirm", id |-> w, needed |-> needed]
    OBVIOUS
  <2>3. Continue(r, "commitWork", {}, t)
    BY <1>1, <1>5, <2>1, <2>2 DEF LockConfirm
  <2>4. DOMAIN needed \subseteq BomItems /\ \A i \in DOMAIN needed : needed[i] \in Nat \ {0}
    BY <1>2, <1>3, <2>1, NeededFits
  <2>5. Created' = Created /\ workOrder' = workOrder
    BY <1>2, SameTables DEF Created
  <2>6. ASSUME pc'[r] = "commitWork", tx'[r] = t, locks'[r] = locks[r] \union needs[r]
        PROVE  Knows(r)'
    <3>1. tx'[r].id = w /\ tx'[r].needed = needed /\ WorkOrderLock(w) \in locks'[r]
      BY <1>3, <2>2, <2>6
    <3> QED BY <1>3, <1>5, <2>4, <2>5, <2>6, <3>1 DEF Knows, ConfirmKnows
  <2> QED BY <1>2, <2>3, <2>6, ContinueStep
<1> QED BY <1>4, <1>5

LEMMA CommitConfirmStep == ASSUME IInv, NEW r \in Requests, CommitConfirm(r) PROVE IInv'
<1>1. PICK w : w = tx[r].id
  OBVIOUS
<1>2. PICK needed : needed = tx[r].needed
  OBVIOUS
<1>3. PICK steps : steps = {o \in Operations : extra[o] = workOrder[w].version}
  OBVIOUS
<1>4. RowsRight /\ RequestsRight /\ ConfirmKnows(r) /\ pc[r] = "commitWork"
  BY Parts, ConfirmAt DEF CommitConfirm, At
<1>5. /\ w \in Created /\ WorkOrderLock(w) \in locks[r] /\ workOrder[w].status = "draft"
      /\ DOMAIN needed \subseteq BomItems
      /\ \A i \in DOMAIN needed : needed[i] \in Nat \ {0}
  BY <1>1, <1>2, <1>4 DEF ConfirmKnows
<1>6. /\ headers' = headers /\ version' = version /\ item' = item /\ extra' = extra
      /\ planned' = planned /\ bought' = bought /\ moved' = moved /\ consumed' = consumed
      /\ results' = results /\ journal' = journal /\ stock' = stock /\ summary' = summary
      /\ End(r)
  BY DEF CommitConfirm
<1>7. CASE ~ (DOMAIN needed \subseteq Stored)
  <2>1. tables' = tables
    BY <1>1, <1>2, <1>6, <1>7 DEF CommitConfirm, tables, bomTables, orders, shopFloor
  <2> QED BY <1>6, <2>1, RollbackStep
<1>8. CASE DOMAIN needed \subseteq Stored
  <2>1. PICK rows : rows = [i \in DOMAIN needed |-> [planned |-> needed[i], consumed |-> 0]]
    OBVIOUS
  <2>2. PICK ops : ops = [o \in steps |-> "pending"]
    OBVIOUS
  <2>3. PICK row : row = [workOrder[w] EXCEPT !.status = "confirmed"]
    OBVIOUS
  <2>4. /\ material' = [material EXCEPT ![w] = rows] /\ process' = [process EXCEPT ![w] = ops]
        /\ referenced' = referenced \union DOMAIN needed \union steps
        /\ workOrder' = [workOrder EXCEPT ![w] = row]
    BY <1>1, <1>2, <1>3, <1>8, <2>1, <2>2, <2>3 DEF CommitConfirm
  <2>5. /\ row \in WorkOrderRow
        /\ row.from = workOrder[w].from /\ row.variant = workOrder[w].variant
        /\ row.produced = workOrder[w].produced /\ row.status = "confirmed"
        /\ workOrder[w].version \in Versions
    BY <1>4, <1>5, <2>3, OrderRow DEF WorkOrderRow
  <2>6. /\ OrdersRight' /\ Created' = Created /\ w \in WorkOrders
        /\ workOrder'[w] = row /\ \A x \in WorkOrders \ {w} : workOrder'[x] = workOrder[x]
    BY <1>4, <1>5, <1>6, <2>4, <2>5, OrdersKept DEF RowsRight
  <2>7. /\ material = [x \in WorkOrders |-> material[x]]
        /\ process = [x \in WorkOrders |-> process[x]]
        /\ DOMAIN material[w] = {} /\ DOMAIN process[w] = {}
        /\ referenced = RowsReferenced
    BY <1>4, <1>5, <2>6 DEF RowsRight, RefsRight, NothingBeforeConfirm
  <2>8. /\ material' = [x \in WorkOrders |-> material'[x]]
        /\ process' = [x \in WorkOrders |-> process'[x]]
        /\ material'[w] = rows /\ process'[w] = ops
        /\ \A x \in WorkOrders \ {w} : material'[x] = material[x] /\ process'[x] = process[x]
    BY <2>4, <2>6, <2>7
  <2>9. /\ DOMAIN rows = DOMAIN needed /\ \A i \in DOMAIN needed : rows[i] \in MaterialRow
        /\ DOMAIN ops = steps
        /\ ops \in [steps -> {"pending", "in_progress", "completed"}]
        /\ steps \subseteq Extras /\ \A o \in steps : extra[o] # None
    <3>1. \A o \in steps : extra[o] # None
      BY <1>3, <1>4, <2>5, StoredRows DEF RowsRight
    <3> QED BY <1>3, <1>5, <2>1, <2>2, <3>1 DEF MaterialRow, Extras
  <2>10. RefsRight'
    <3>1. Stored' = Stored
      BY <1>6 DEF Stored
    <3>2. ASSUME NEW x \in WorkOrders
          PROVE  /\ DOMAIN material'[x] \subseteq Stored
                 /\ \A i \in DOMAIN material'[x] : material'[x][i] \in MaterialRow
                 /\ process'[x] \in [DOMAIN process'[x] -> {"pending", "in_progress", "completed"}]
                 /\ \A o \in DOMAIN process'[x] : extra'[o] # None
      <4>1. CASE x = w
        BY <1>6, <1>8, <2>8, <2>9, <4>1
      <4>2. CASE x # w
        BY <1>4, <1>6, <2>8, <4>2 DEF RowsRight, RefsRight
      <4> QED BY <4>1, <4>2
    <3>3. referenced' = RowsReferenced'
      <4>1. RowsReferenced' = UNION {DOMAIN material'[x] \union DOMAIN process'[x] : x \in WorkOrders}
        BY DEF RowsReferenced
      <4>2. RowsReferenced = UNION {DOMAIN material[x] \union DOMAIN process[x] : x \in WorkOrders}
        BY DEF RowsReferenced
      <4>3. ASSUME NEW y PROVE y \in referenced' <=> y \in RowsReferenced'
        BY <2>4, <2>6, <2>7, <2>8, <2>9, <4>1, <4>2
      <4> QED BY <4>3
    <3>4. referenced' \subseteq BomItems \union Extras
      BY <1>4, <1>5, <2>4, <2>9 DEF RowsRight, RefsRight
    <3>5. NothingBeforeConfirm'
      <4>1. ASSUME NEW x \in WorkOrders, workOrder'[x].status \in {"none", "draft"}
            PROVE  DOMAIN material'[x] = {} /\ DOMAIN process'[x] = {}
        <5>1. x # w
          BY <2>5, <2>6, <4>1
        <5> QED BY <1>4, <2>6, <2>8, <4>1, <5>1 DEF RowsRight, RefsRight, NothingBeforeConfirm
      <4> QED BY <4>1 DEF NothingBeforeConfirm
    <3> QED BY <2>8, <3>1, <3>2, <3>3, <3>4, <3>5 DEF RefsRight
  <2>11. StockRight'
    <3>1. \A x \in WorkOrders :
             /\ workOrder'[x].produced = workOrder[x].produced
             /\ workOrder'[x].variant = workOrder[x].variant \/ workOrder[x].produced = 0
             /\ workOrder'[x].status = "completed" => workOrder'[x] = workOrder[x]
      BY <2>5, <2>6
    <3> QED BY <1>4, <1>6, <3>1, StockKept DEF RowsRight
  <2>12. RowsRight'
    BY <1>4, <1>6, <2>6, <2>10, <2>11, BillsSame DEF RowsRight
  <2>13. BillsRespected
    BY <1>6, BillSets DEF BillsRespected
  <2>14. ASSUME NEW q \in Requests \ {r} PROVE Respects(locks[q])
    <3>1. WorkOrderLock(w) \notin locks[q]
      BY <1>4, <1>5, Alone
    <3>2. OrdersRespected(locks[q])
      BY <1>6, <2>6, <3>1 DEF OrdersRespected, Created
    <3>3. \A x \in WorkOrders : DOMAIN material[x] \subseteq DOMAIN material'[x]
      BY <2>7, <2>8
    <3>4. \A v \in Variants : stock'[v] >= stock[v]
      BY <1>4, <1>6 DEF RowsRight, StockRight, StockTypes
    <3> QED BY <2>13, <3>2, <3>3, <3>4 DEF Respects, ShopRespected
  <2> QED BY <1>6, <2>12, <2>14, EndStep
<1> QED BY <1>7, <1>8

-----------------------------------------------------------------------------
(* The operations of a work order.                                         *)
LEMMA MoveOperationStep ==
    ASSUME IInv, NEW r \in Requests, NEW before,
           NEW after \in {"pending", "in_progress", "completed"},
           MoveOperation(r, before, after)
    PROVE  IInv'
<1>1. PICK w \in WorkOrders : \E o \in DOMAIN process[w] :
        /\ Autocommit(r, <<"operation", w, o>>)
        /\ process' = [process EXCEPT ![w][o] = after]
        /\ UNCHANGED <<bomTables, orders, material, moved, consumed, results, journal,
                       stock, summary>>
  BY DEF MoveOperation
<1>2. PICK o \in DOMAIN process[w] :
        /\ Autocommit(r, <<"operation", w, o>>)
        /\ process' = [process EXCEPT ![w][o] = after]
        /\ UNCHANGED <<bomTables, orders, material, moved, consumed, results, journal,
                       stock, summary>>
  BY <1>1
<1>3. /\ headers' = headers /\ version' = version /\ item' = item /\ extra' = extra
      /\ referenced' = referenced /\ planned' = planned /\ bought' = bought
      /\ workOrder' = workOrder /\ material' = material /\ moved' = moved
      /\ consumed' = consumed /\ results' = results /\ journal' = journal
      /\ stock' = stock /\ summary' = summary
  BY <1>2 DEF bomTables, orders
<1>4. RowsRight /\ process = [x \in WorkOrders |-> process[x]]
  BY Parts DEF RowsRight, RefsRight
<1>5. process[w] \in [DOMAIN process[w] -> {"pending", "in_progress", "completed"}]
  BY <1>4 DEF RowsRight, RefsRight
<1>6. PICK ops : ops = [process[w] EXCEPT ![o] = after]
  OBVIOUS
<1>7. /\ ops \in [DOMAIN process[w] -> {"pending", "in_progress", "completed"}]
      /\ DOMAIN ops = DOMAIN process[w]
  BY <1>5, <1>6
<1>8. /\ process' = [x \in WorkOrders |-> process'[x]] /\ process'[w] = ops
      /\ \A x \in WorkOrders \ {w} : process'[x] = process[x]
  BY <1>2, <1>4, <1>6
<1>9. RefsRight'
  <2>1. \A x \in WorkOrders :
          /\ DOMAIN process'[x] = DOMAIN process[x]
          /\ process'[x] \in [DOMAIN process'[x] -> {"pending", "in_progress", "completed"}]
    BY <1>4, <1>7, <1>8 DEF RowsRight, RefsRight
  <2>2. RowsReferenced' = RowsReferenced
    BY <1>3, <2>1 DEF RowsReferenced
  <2>3. Stored' = Stored
    BY <1>3 DEF Stored
  <2>4. NothingBeforeConfirm'
    BY <1>3, <1>4, <2>1 DEF RowsRight, RefsRight, NothingBeforeConfirm
  <2> QED BY <1>3, <1>4, <1>8, <2>1, <2>2, <2>3, <2>4 DEF RowsRight, RefsRight
<1>10. RowsRight'
  BY <1>3, <1>4, <1>9, BillsSame, OrdersSame, StockSame DEF RowsRight
<1>11. ASSUME NEW held PROVE Respects(held)
  <2>1. BillsRespected
    BY <1>3, BillSets DEF BillsRespected
  <2>2. OrdersRespected(held)
    BY <1>3 DEF OrdersRespected, Created
  <2>3. \A v \in Variants : stock'[v] >= stock[v]
    BY <1>3, <1>4 DEF RowsRight, StockRight, StockTypes
  <2> QED BY <1>3, <2>1, <2>2, <2>3 DEF Respects, ShopRespected
<1> QED BY <1>2, <1>10, <1>11, AutoStep

-----------------------------------------------------------------------------
(* WorkOrderService.consumeMaterials.                                      *)
LEMMA ConsumptionFacts ==
    ASSUME RowsRight, NEW lines \in Consumptions
    PROVE  /\ \A v \in Variants : Taken(lines)[v] \in Nat
           /\ Taken(lines) = [v \in Variants |-> Taken(lines)[v]]
           /\ Minus(stock, Taken(lines)) \in Levels
           /\ \A v \in Variants : Minus(stock, Taken(lines))[v] = stock[v] - Taken(lines)[v]
<1>1. \A v \in Variants : Taken(lines)[v] = TakenFrom(item, lines, v)
  BY DEF Taken
<1>2. \A v \in Variants : Taken(lines)[v] \in Nat
  BY <1>1, TakenNat
<1>3. stock \in [Variants -> Nat]
  BY DEF RowsRight, StockRight, StockTypes
<1>4. Taken(lines) = [v \in Variants |-> Taken(lines)[v]]
  BY DEF Taken
<1>5. Minus(stock, Taken(lines)) = [v \in Variants |-> stock[v] - Taken(lines)[v]]
  BY <1>3 DEF Minus
<1> QED BY <1>2, <1>3, <1>4, <1>5 DEF Levels

LEMMA LockConsumeStep == ASSUME IInv, NEW r \in Requests, LockConsume(r) PROVE IInv'
<1>1. PICK w : w = tx[r].id
  OBVIOUS
<1>2. PICK lines : lines = tx[r].lines
  OBVIOUS
<1>3. RowsRight /\ ConsumeKnows(r) /\ pc[r] = "consume" /\ tables' = tables
      /\ \A x \in needs[r] : Free(r, x)
  BY Parts, ConsumeAt DEF LockConsume, At
<1>4. w \in Created /\ lines \in Consumptions /\ needs[r] = {WorkOrderLock(w)}
  BY <1>1, <1>2, <1>3 DEF ConsumeKnows
<1>5. CASE ~ (AcceptsWork(w) /\ LineItems(lines) \subseteq DOMAIN material[w])
  BY <1>1, <1>2, <1>3, <1>5, RollbackStep DEF LockConsume
<1>6. CASE AcceptsWork(w) /\ LineItems(lines) \subseteq DOMAIN material[w]
  <2>1. PICK need : need = StockLocks(lines)
    OBVIOUS
  <2>2. PICK t : t = tx[r]
    OBVIOUS
  <2>3. Continue(r, "stock", need, t)
    BY <1>1, <1>2, <1>6, <2>1, <2>2 DEF LockConsume, StockLocks
  <2>4. /\ Created' = Created /\ workOrder' = workOrder /\ material' = material
        /\ StockLocks(lines)' = StockLocks(lines)
    BY <1>3, SameTables DEF Created, StockLocks
  <2>5. Open(w)'
    BY <1>6, <2>4 DEF AcceptsWork, Open
  <2>6. ASSUME pc'[r] = "stock", needs'[r] = need, tx'[r] = t,
               locks'[r] = locks[r] \union needs[r]
        PROVE  Knows(r)'
    <3>1. tx'[r].id = w /\ tx'[r].lines = lines /\ WorkOrderLock(w) \in locks'[r]
      BY <1>1, <1>2, <1>4, <2>2, <2>6
    <3>2. needs'[r] = StockLocks(lines)'
      BY <2>1, <2>4, <2>6
    <3> QED BY <1>4, <1>6, <2>4, <2>5, <2>6, <3>1, <3>2 DEF Knows, ConsumeKnows
  <2> QED BY <1>3, <2>3, <2>6, ContinueStep
<1> QED BY <1>5, <1>6

LEMMA CheckStockStep == ASSUME IInv, NEW r \in Requests, CheckStock(r) PROVE IInv'
<1>1. PICK w : w = tx[r].id
  OBVIOUS
<1>2. PICK lines : lines = tx[r].lines
  OBVIOUS
<1>3. RowsRight /\ ConsumeKnows(r) /\ pc[r] = "stock" /\ tables' = tables
      /\ \A x \in needs[r] : Free(r, x)
  BY Parts, ConsumeAt DEF CheckStock, At
<1>4. /\ w \in Created /\ lines \in Consumptions /\ needs[r] = StockLocks(lines)
      /\ WorkOrderLock(w) \in locks[r] /\ Open(w)
      /\ LineItems(lines) \subseteq DOMAIN material[w]
  BY <1>1, <1>2, <1>3 DEF ConsumeKnows
<1>5. CASE ~ (Covered(lines) /\ ReferenceFree(w))
  BY <1>1, <1>2, <1>3, <1>5, RollbackStep DEF CheckStock
<1>6. CASE Covered(lines) /\ ReferenceFree(w)
  <2>1. PICK left : left = Minus(stock, Taken(lines))
    OBVIOUS
  <2>2. PICK t : t = [op |-> "consume", id |-> w, lines |-> lines, seen |-> left]
    OBVIOUS
  <2>3. Continue(r, "refreshConsume", {SummaryView}, t)
    BY <1>1, <1>2, <1>6, <2>1, <2>2 DEF CheckStock
  <2>4. left \in Levels
    BY <1>3, <1>4, <2>1, ConsumptionFacts
  <2>5. /\ Created' = Created /\ workOrder' = workOrder /\ material' = material
        /\ StockLocks(lines)' = StockLocks(lines)
    BY <1>3, SameTables DEF Created, StockLocks
  <2>6. Open(w)' /\ Covered(lines)'
    BY <1>3, <1>4, <1>6, <2>5, SameTables DEF Open, Covered, Taken
  <2>7. ASSUME pc'[r] = "refreshConsume", tx'[r] = t, locks'[r] = locks[r] \union needs[r]
        PROVE  Knows(r)'
    <3>1. /\ tx'[r].id = w /\ tx'[r].lines = lines /\ tx'[r].seen = left
          /\ WorkOrderLock(w) \in locks'[r] /\ StockLocks(lines)' \subseteq locks'[r]
      BY <1>4, <2>2, <2>5, <2>7
    <3> QED BY <1>4, <2>4, <2>5, <2>6, <2>7, <3>1 DEF Knows, ConsumeKnows
  <2> QED BY <1>3, <2>3, <2>7, ContinueStep
<1> QED BY <1>5, <1>6

LEMMA LastLineNat ==
    ASSUME NEW lines \in Consumptions, NEW i \in LineItems(lines)
    PROVE  LastLine(lines, i) \in Nat
<1> DEFINE S == {k \in DOMAIN lines : lines[k].item = i}
<1>1. S \in SUBSET DOMAIN lines /\ S # {}
  BY DEF LineItems
<1>2. IsFiniteSet(S) /\ \A k \in S : k \in Nat
  BY <1>1, LinesFacts, FS_Subset
<1>3. LastLine(lines, i) = lines[Max(S)].quantity
  BY DEF LastLine
<1> HIDE DEF S
<1>4. Max(S) \in DOMAIN lines
  BY <1>1, <1>2, MaxIn
<1> QED BY <1>3, <1>4, LinesFacts

LEMMA CommitConsumeStep == ASSUME IInv, NEW r \in Requests, CommitConsume(r) PROVE IInv'
<1>1. PICK w : w = tx[r].id
  OBVIOUS
<1>2. PICK lines : lines = tx[r].lines
  OBVIOUS
<1>3. PICK taken : taken = Taken(lines)
  OBVIOUS
<1>4. RowsRight /\ RequestsRight /\ ConsumeKnows(r) /\ pc[r] = "refreshConsume"
  BY Parts, ConsumeAt DEF CommitConsume, At
<1>5. /\ w \in Created /\ w \in WorkOrders /\ lines \in Consumptions
      /\ StockLocks(lines) \subseteq locks[r]
      /\ WorkOrderLock(w) \in locks[r] /\ Open(w) /\ tx[r].seen \in Levels /\ Covered(lines)
      /\ LineItems(lines) \subseteq DOMAIN material[w]
  BY <1>1, <1>2, <1>4 DEF ConsumeKnows, Created
<1>6. /\ \A v \in Variants : taken[v] \in Nat /\ taken[v] <= stock[v]
      /\ Minus(stock, taken) \in Levels
      /\ \A v \in Variants : Minus(stock, taken)[v] = stock[v] - taken[v]
  BY <1>3, <1>4, <1>5, ConsumptionFacts DEF Covered
<1>7. PICK rows : rows = AfterLines(material[w], lines)
  OBVIOUS
<1>8. PICK used : used = [v \in Variants |-> consumed[w][v] + taken[v]]
  OBVIOUS
<1>9. /\ material' = [material EXCEPT ![w] = rows]
      /\ moved' = [moved EXCEPT ![w] = @ \union {"out"}]
      /\ consumed' = [consumed EXCEPT ![w] = used]
      /\ stock' = Minus(stock, taken) /\ summary' \in {tx[r].seen, Minus(stock, taken)}
      /\ End(r)
      /\ headers' = headers /\ version' = version /\ item' = item /\ extra' = extra
      /\ referenced' = referenced /\ planned' = planned /\ bought' = bought
      /\ workOrder' = workOrder /\ process' = process /\ results' = results
      /\ journal' = journal
  <2>1. material' = [material EXCEPT ![w] = rows]
    BY <1>1, <1>2, <1>7 DEF CommitConsume
  <2>2. consumed' = [consumed EXCEPT ![w] = used]
    BY <1>1, <1>2, <1>3, <1>8 DEF CommitConsume
  <2>3. /\ moved' = [moved EXCEPT ![w] = @ \union {"out"}]
        /\ stock' = Minus(stock, taken) /\ summary' \in {tx[r].seen, Minus(stock, taken)}
    BY <1>1, <1>2, <1>3 DEF CommitConsume
  <2>4. /\ End(r) /\ headers' = headers /\ version' = version /\ item' = item
        /\ extra' = extra /\ referenced' = referenced /\ planned' = planned
        /\ bought' = bought /\ workOrder' = workOrder /\ process' = process
        /\ results' = results /\ journal' = journal
    BY DEF CommitConsume, bomTables, orders
  <2> QED BY <2>1, <2>2, <2>3, <2>4
<1>10. /\ material = [x \in WorkOrders |-> material[x]]
       /\ \A i \in DOMAIN material[w] : material[w][i] \in MaterialRow
  BY <1>4, <1>5 DEF RowsRight, RefsRight
<1>11. DOMAIN rows = DOMAIN material[w] /\ \A i \in DOMAIN rows : rows[i] \in MaterialRow
  <2>1. ASSUME NEW i \in DOMAIN material[w] PROVE rows[i] \in MaterialRow
    <3>1. CASE i \notin LineItems(lines)
      BY <1>7, <1>10, <3>1 DEF AfterLines
    <3>2. CASE i \in LineItems(lines)
      <4>1. LastLine(lines, i) \in Nat
        BY <1>5, <3>2, LastLineNat
      <4>2. rows[i] = [material[w][i] EXCEPT !.consumed = @ + LastLine(lines, i)]
        BY <1>7, <3>2 DEF AfterLines
      <4> QED BY <1>10, <4>1, <4>2 DEF MaterialRow
    <3> QED BY <3>1, <3>2
  <2> QED BY <1>7, <2>1 DEF AfterLines
<1>12. /\ material' = [x \in WorkOrders |-> material'[x]] /\ material'[w] = rows
       /\ \A x \in WorkOrders \ {w} : material'[x] = material[x]
  BY <1>5, <1>9, <1>10
<1>13. RefsRight'
  <2>1. \A x \in WorkOrders :
          /\ DOMAIN material'[x] = DOMAIN material[x]
          /\ \A i \in DOMAIN material'[x] : material'[x][i] \in MaterialRow
    BY <1>4, <1>11, <1>12 DEF RowsRight, RefsRight
  <2>2. RowsReferenced' = RowsReferenced
    BY <1>9, <2>1 DEF RowsReferenced
  <2>3. Stored' = Stored
    BY <1>9 DEF Stored
  <2>4. NothingBeforeConfirm'
    BY <1>4, <1>9, <2>1 DEF RowsRight, RefsRight, NothingBeforeConfirm
  <2> QED BY <1>4, <1>9, <1>12, <2>1, <2>2, <2>3, <2>4 DEF RowsRight, RefsRight
<1>14. StockTypes /\ stock \in [Variants -> Nat] /\ consumed \in [WorkOrders -> [Variants -> Nat]]
       /\ results \in [WorkOrders -> Nat]
  BY <1>4 DEF RowsRight, StockRight, StockTypes
<1>15. used \in [Variants -> Nat]
  BY <1>5, <1>6, <1>8, <1>14
<1>16. /\ consumed' \in [WorkOrders -> [Variants -> Nat]] /\ consumed'[w] = used
       /\ \A x \in WorkOrders \ {w} : consumed'[x] = consumed[x]
  BY <1>5, <1>9, <1>14, <1>15
<1>17. StockRight'
  <2>1. StockTypes'
    <3>1. stock' \in [Variants -> Nat]
      <4>1. \A v \in Variants : stock[v] - taken[v] \in Nat
        BY <1>6, <1>14
      <4> QED BY <1>6, <1>9, <4>1 DEF Minus
    <3>2. summary' \in Levels
      BY <1>5, <1>6, <1>9
    <3>3. moved' \in [WorkOrders -> SUBSET {"out", "in"}]
      BY <1>5, <1>9, <1>14 DEF StockTypes
    <3> QED BY <1>9, <1>14, <1>16, <3>1, <3>2, <3>3 DEF StockTypes
  <2>2. ASSUME NEW v \in Variants
        PROVE  stock'[v] = OnHand[v] + NetOf(workOrder, results, consumed, v)'
    <3>1. \A x \in WorkOrders : /\ results[x] \in Int /\ consumed[x][v] \in Int
                                /\ consumed'[x][v] \in Int
      BY <1>14, <1>16
    <3>2. \A x \in WorkOrders \ {w} : NetRows(workOrder, results, consumed', v)[x]
                                      = NetRows(workOrder, results, consumed, v)[x]
      BY <1>16 DEF NetRows
    <3>3. /\ NetOf(workOrder, results, consumed', v) = NetOf(workOrder, results, consumed, v)
               + (NetRows(workOrder, results, consumed', v)[w]
                  - NetRows(workOrder, results, consumed, v)[w])
          /\ NetOf(workOrder, results, consumed, v) \in Int
      BY <1>5, <3>1, <3>2, NetUpdate
    <3>4. NetRows(workOrder, results, consumed', v)[w]
            - NetRows(workOrder, results, consumed, v)[w] = - taken[v]
      <4>1. consumed'[w][v] = consumed[w][v] + taken[v] /\ consumed[w][v] \in Nat
            /\ taken[v] \in Nat /\ results[w] \in Nat
        BY <1>5, <1>6, <1>8, <1>14, <1>16
      <4> QED BY <1>5, <4>1 DEF NetRows
    <3>5. stock[v] = OnHand[v] + NetOf(workOrder, results, consumed, v)
          /\ stock'[v] = stock[v] - taken[v]
      BY <1>4, <1>6, <1>9 DEF RowsRight, StockRight
    <3>6. OnHand[v] \in Nat /\ taken[v] \in Nat
      BY <1>6, ProductionConstants
    <3> QED BY <1>9, <3>3, <3>4, <3>5, <3>6
  <2>3. \A x \in WorkOrders : /\ workOrder'[x].produced = results'[x]
                              /\ workOrder'[x].status = "completed" => Paid(x)'
    BY <1>4, <1>9 DEF RowsRight, StockRight, Paid
  <2> QED BY <2>1, <2>2, <2>3 DEF StockRight
<1>18. RowsRight'
  BY <1>4, <1>9, <1>13, <1>17, BillsSame, OrdersSame DEF RowsRight
<1>19. ASSUME NEW q \in Requests \ {r} PROVE Respects(locks[q])
  <2>1. BillsRespected
    BY <1>9, BillSets DEF BillsRespected
  <2>2. OrdersRespected(locks[q])
    BY <1>9 DEF OrdersRespected, Created
  <2>3. \A x \in WorkOrders : DOMAIN material[x] \subseteq DOMAIN material'[x]
    BY <1>11, <1>12
  <2>4. ASSUME NEW v \in Variants, StockLock(v) \in locks[q] PROVE stock'[v] >= stock[v]
    <3>1. StockLock(v) \notin locks[r]
      BY <1>4, <2>4 DEF RequestsRight, LocksExclusive
    <3>2. \A i \in LineItems(lines) : item[i].variant # v
      BY <1>5, <3>1 DEF StockLocks
    <3>3. taken[v] = 0
      BY <1>3, <1>5, <3>2, TakenNothing DEF Taken
    <3> QED BY <1>6, <1>9, <1>14, <3>3
  <2> QED BY <2>1, <2>2, <2>3, <2>4 DEF Respects, ShopRespected
<1> QED BY <1>9, <1>18, <1>19, EndStep

-----------------------------------------------------------------------------
(* WorkOrderService.recordResult.                                          *)
LEMMA MoreStock ==
    ASSUME RowsRight, NEW variant, NEW n \in Nat
    PROVE  /\ Plus(stock, variant, n) \in [Variants -> Nat]
           /\ Plus(stock, variant, n) \in Levels
           /\ \A v \in Variants : Plus(stock, variant, n)[v]
                                  = IF v = variant THEN stock[v] + n ELSE stock[v]
<1>1. stock \in [Variants -> Nat]
  BY DEF RowsRight, StockRight, StockTypes
<1>2. PICK made : made = Plus(stock, variant, n)
  OBVIOUS
<1>3. made = [stock EXCEPT ![variant] = stock[variant] + n]
  BY <1>2 DEF Plus
<1>4. \A v \in Variants : /\ made[v] = IF v = variant THEN stock[v] + n ELSE stock[v]
                          /\ made[v] \in Nat /\ made[v] \in Int
  BY <1>1, <1>3
<1>5. made = [v \in Variants |-> made[v]]
  BY <1>1, <1>3
<1> QED BY <1>2, <1>4, <1>5 DEF Levels

LEMMA LockResultStep == ASSUME IInv, NEW r \in Requests, LockResult(r) PROVE IInv'
<1>1. PICK w : w = tx[r].id
  OBVIOUS
<1>2. PICK n : n = tx[r].quantity
  OBVIOUS
<1>3. RowsRight /\ ResultKnows(r) /\ pc[r] = "result" /\ tables' = tables
      /\ \A x \in needs[r] : Free(r, x)
  BY Parts, ResultAt DEF LockResult, At
<1>4. w \in Created /\ n \in Quantities /\ needs[r] = {WorkOrderLock(w)}
  BY <1>1, <1>2, <1>3 DEF ResultKnows
<1>5. CASE ~ (AcceptsWork(w) /\ ReferenceFree(w))
  BY <1>1, <1>3, <1>5, RollbackStep DEF LockResult
<1>6. CASE AcceptsWork(w) /\ ReferenceFree(w)
  <2>1. PICK seen : seen = Plus(stock, workOrder[w].variant, n)
    OBVIOUS
  <2>2. PICK t : t = [op |-> "result", id |-> w, quantity |-> n, seen |-> seen]
    OBVIOUS
  <2>3. Continue(r, "refreshResult", {SummaryView}, t)
    BY <1>1, <1>2, <1>6, <2>1, <2>2 DEF LockResult
  <2>4. seen \in Levels
    BY <1>3, <1>4, <2>1, MoreStock, ProductionConstants
  <2>5. Created' = Created /\ Open(w)'
    BY <1>3, <1>6, SameTables DEF Created, AcceptsWork, Open
  <2>6. ASSUME pc'[r] = "refreshResult", tx'[r] = t, locks'[r] = locks[r] \union needs[r]
        PROVE  Knows(r)'
    <3>1. /\ tx'[r].id = w /\ tx'[r].quantity = n /\ tx'[r].seen = seen
          /\ WorkOrderLock(w) \in locks'[r]
      BY <1>4, <2>2, <2>6
    <3> QED BY <1>4, <2>4, <2>5, <2>6, <3>1 DEF Knows, ResultKnows
  <2> QED BY <1>3, <2>3, <2>6, ContinueStep
<1> QED BY <1>5, <1>6

LEMMA NoFreeLunch ==
    ASSUME NEW c \in Nat, NEW n \in Nat \ {0}, c * n = 0, NEW m \in Nat
    PROVE  m * c = 0
<1>1. c = 0
  <2>1. CASE c \in Nat \ {0}
    <3>1. c * n \in Nat \ {0}
      BY <2>1, PositiveProduct
    <3> QED BY <3>1
  <2> QED BY <2>1
<1> QED BY <1>1

LEMMA UsedNat == ASSUME RowsRight, NEW w \in WorkOrders, IsFiniteSet(DOMAIN material[w])
                 PROVE Used(w) \in Nat
<1> DEFINE F == MaterialCosts(w)  S == DOMAIN material[w]
<1>1. ASSUME NEW i \in S PROVE F[i] \in Nat
  <2>1. material[w][i].consumed \in Nat /\ i \in Stored
    BY <1>1 DEF RowsRight, RefsRight, MaterialRow
  <2>2. CostPrice[item[i].variant] \in Nat
    BY <2>1, StoredRows, ProductionConstants DEF RowsRight, ItemRow
  <2> QED BY <2>1, <2>2 DEF MaterialCosts
<1>2. Used(w) = SumOver(F, S) /\ IsFiniteSet(S)
  BY UsedSum
<1> HIDE DEF F, S
<1> QED BY <1>1, <1>2, SumNat

LEMMA CostFacts ==
    ASSUME RowsRight, NEW w \in Created, NEW n \in Nat \ {0}
    PROVE  /\ Cost(w, n) \in Nat
           /\ ~ (Cost(w, n) > 0) => CostPrice[workOrder[w].variant] * n = 0
<1>1. w \in WorkOrders /\ workOrder[w] \in WorkOrderRow
  BY OrderRow
<1>2. IsFiniteSet(DOMAIN material[w])
  <2>1. DOMAIN material[w] \in SUBSET BomItems
    BY <1>1, StoredRows DEF RowsRight, RefsRight
  <2> QED BY <2>1, BomConstants, FS_Subset
<1>3. Used(w) \in Nat
  BY <1>1, <1>2, UsedNat
<1>4. CostPrice[workOrder[w].variant] \in Nat
  BY <1>1, ProductionConstants DEF WorkOrderRow
<1>5. PICK c : c = CostPrice[workOrder[w].variant]
  OBVIOUS
<1>6. c * n \in Nat
  BY <1>4, <1>5
<1>7. Cost(w, n) = IF Used(w) = 0 THEN c * n ELSE Used(w)
  BY <1>5 DEF Cost
<1>8. CASE Used(w) = 0
  BY <1>5, <1>6, <1>7, <1>8
<1>9. CASE Used(w) # 0
  BY <1>3, <1>5, <1>7, <1>9
<1> QED BY <1>8, <1>9

LEMMA CommitResultStep == ASSUME IInv, NEW r \in Requests, CommitResult(r) PROVE IInv'
<1>1. PICK w : w = tx[r].id
  OBVIOUS
<1>2. PICK n : n = tx[r].quantity
  OBVIOUS
<1>3. PICK made : made = Plus(stock, workOrder[w].variant, n)
  OBVIOUS
<1>4. RowsRight /\ RequestsRight /\ ResultKnows(r) /\ pc[r] = "refreshResult"
  BY Parts, ResultAt DEF CommitResult, At
<1>5. /\ w \in Created /\ n \in Nat \ {0} /\ tx[r].seen \in Levels
      /\ WorkOrderLock(w) \in locks[r] /\ Open(w)
  BY <1>1, <1>2, <1>4, ProductionConstants DEF ResultKnows
<1>6. w \in WorkOrders /\ workOrder[w] \in WorkOrderRow
  BY <1>4, <1>5, OrderRow
<1>7. PICK done : done = (Total(w, n) >= workOrder[w].planned)
  OBVIOUS
<1>8. PICK row : row = [workOrder[w] EXCEPT !.produced = Total(w, n),
                          !.status = IF done THEN "completed" ELSE "partially_done"]
  OBVIOUS
<1>9. /\ workOrder' = [workOrder EXCEPT ![w] = row]
      /\ moved' = [moved EXCEPT ![w] = @ \union {"in"}]
      /\ results' = [results EXCEPT ![w] = @ + n]
      /\ stock' = made /\ summary' \in {tx[r].seen, made}
      /\ journal' = IF done /\ Cost(w, n) > 0 THEN [journal EXCEPT ![w] = Cost(w, n)]
                    ELSE journal
      /\ End(r)
      /\ headers' = headers /\ version' = version /\ item' = item /\ extra' = extra
      /\ referenced' = referenced /\ planned' = planned /\ bought' = bought
      /\ material' = material /\ process' = process /\ consumed' = consumed
  BY <1>1, <1>2, <1>3, <1>7, <1>8 DEF CommitResult, bomTables
<1>10. StockTypes /\ workOrder[w].produced = results[w] /\ results[w] \in Nat
  BY <1>4, <1>6 DEF RowsRight, StockRight, StockTypes
<1>11. /\ row \in WorkOrderRow
       /\ row.from = workOrder[w].from /\ row.variant = workOrder[w].variant
       /\ row.produced = results[w] + n
       /\ row.status = IF done THEN "completed" ELSE "partially_done"
  <2>1. Total(w, n) = results[w] + n /\ Total(w, n) \in Nat
    BY <1>5, <1>10 DEF Total
  <2> QED BY <1>6, <1>8, <2>1 DEF WorkOrderRow
<1>12. /\ OrdersRight' /\ Created' = Created
       /\ workOrder'[w] = row /\ \A x \in WorkOrders \ {w} : workOrder'[x] = workOrder[x]
  BY <1>4, <1>5, <1>9, <1>11, OrdersKept DEF RowsRight
<1>13. /\ made \in [Variants -> Nat] /\ made \in Levels
       /\ \A v \in Variants : made[v] = IF v = row.variant THEN stock[v] + n ELSE stock[v]
  BY <1>3, <1>4, <1>5, <1>11, MoreStock
<1>14. /\ results' \in [WorkOrders -> Nat] /\ results'[w] = results[w] + n
       /\ \A x \in WorkOrders \ {w} : results'[x] = results[x]
  BY <1>5, <1>6, <1>9, <1>10 DEF StockTypes
<1>15. /\ Cost(w, n) \in Nat
       /\ ~ (Cost(w, n) > 0) => CostPrice[row.variant] * n = 0
       /\ CostPrice[row.variant] \in Nat
  BY <1>4, <1>5, <1>11, CostFacts, ProductionConstants DEF WorkOrderRow
<1>16. RefsRight'
  <2>1. Stored' = Stored /\ RowsReferenced' = RowsReferenced
    BY <1>9 DEF Stored, RowsReferenced
  <2>2. NothingBeforeConfirm'
    BY <1>4, <1>9, <1>11, <1>12 DEF RowsRight, RefsRight, NothingBeforeConfirm
  <2> QED BY <1>4, <1>9, <2>1, <2>2 DEF RowsRight, RefsRight
<1>17. journal \in [WorkOrders -> Nat \union {None}] /\ None \notin Nat
  BY <1>10, BomConstants DEF StockTypes
<1>18. /\ journal' \in [WorkOrders -> Nat \union {None}]
       /\ done => journal'[w] # None \/ CostPrice[row.variant] * n = 0
       /\ \A x \in WorkOrders \ {w} : journal'[x] = journal[x]
  <2>1. CASE done /\ Cost(w, n) > 0
    <3>1. journal' = [journal EXCEPT ![w] = Cost(w, n)]
      BY <1>9, <2>1
    <3> QED BY <1>6, <1>15, <1>17, <3>1
  <2>2. CASE ~ (done /\ Cost(w, n) > 0)
    <3>1. journal' = journal
      BY <1>9, <2>2
    <3> QED BY <1>15, <1>17, <2>2, <3>1
  <2> QED BY <2>1, <2>2
<1>19. StockRight'
  <2>1. StockTypes'
    <3>1. summary' \in Levels /\ stock' \in [Variants -> Nat]
      BY <1>5, <1>9, <1>13
    <3>2. moved' \in [WorkOrders -> SUBSET {"out", "in"}]
      BY <1>6, <1>9, <1>10 DEF StockTypes
    <3> QED BY <1>9, <1>10, <1>14, <1>18, <3>1, <3>2 DEF StockTypes
  <2>2. ASSUME NEW v \in Variants
        PROVE  stock'[v] = OnHand[v] + NetOf(workOrder, results, consumed, v)'
    <3>1. \A x \in WorkOrders : /\ results[x] \in Int /\ results'[x] \in Int
                                /\ consumed[x][v] \in Int
      BY <1>10, <1>14 DEF StockTypes
    <3>2. \A x \in WorkOrders \ {w} : NetRows(workOrder', results', consumed, v)[x]
                                      = NetRows(workOrder, results, consumed, v)[x]
      BY <1>12, <1>14 DEF NetRows
    <3>3. /\ NetOf(workOrder', results', consumed, v) = NetOf(workOrder, results, consumed, v)
               + (NetRows(workOrder', results', consumed, v)[w]
                  - NetRows(workOrder, results, consumed, v)[w])
          /\ NetOf(workOrder, results, consumed, v) \in Int
      <4>1. PICK rows2 : rows2 = workOrder'
        OBVIOUS
      <4>2. PICK made2 : made2 = results'
        OBVIOUS
      <4>3. PICK F : F = NetRows(workOrder, results, consumed, v)
        OBVIOUS
      <4>4. PICK G : G = NetRows(rows2, made2, consumed, v)
        OBVIOUS
      <4>5. \A x \in WorkOrders : F[x] \in Int /\ G[x] \in Int
        BY <3>1, <4>2, <4>3, <4>4 DEF NetRows
      <4>6. \A x \in WorkOrders \ {w} : G[x] = F[x]
        BY <3>2, <4>1, <4>2, <4>3, <4>4
      <4>7. /\ NetOf(workOrder, results, consumed, v) = SumOver(F, WorkOrders)
            /\ NetOf(rows2, made2, consumed, v) = SumOver(G, WorkOrders)
        BY <4>3, <4>4, NetSum
      <4>8. IsFiniteSet(WorkOrders)
        BY ProductionConstants
      <4>9. SumOver(G, WorkOrders) = SumOver(F, WorkOrders) + (G[w] - F[w])
        BY <1>6, <4>5, <4>6, <4>8, SumUpdate
      <4>10. SumOver(F, WorkOrders) \in Int
        BY <4>5, <4>8, SumType
      <4> QED BY <4>1, <4>2, <4>3, <4>4, <4>7, <4>9, <4>10
    <3>4. NetRows(workOrder', results', consumed, v)[w]
            - NetRows(workOrder, results, consumed, v)[w] = IF v = row.variant THEN n ELSE 0
      <4>1. consumed[w][v] \in Int /\ results[w] \in Int /\ results'[w] = results[w] + n
            /\ workOrder'[w].variant = row.variant /\ workOrder[w].variant = row.variant
            /\ n \in Int
        BY <1>5, <1>6, <1>11, <1>12, <1>14, <3>1
      <4>2. /\ NetRows(workOrder', results', consumed, v)[w]
                 = (IF row.variant = v THEN results'[w] ELSE 0) - consumed[w][v]
            /\ NetRows(workOrder, results, consumed, v)[w]
                 = (IF row.variant = v THEN results[w] ELSE 0) - consumed[w][v]
        BY <1>6, <4>1 DEF NetRows
      <4>3. CASE row.variant = v
        BY <4>1, <4>2, <4>3
      <4>4. CASE row.variant # v
        BY <4>1, <4>2, <4>4
      <4> QED BY <4>3, <4>4
    <3>5. stock[v] = OnHand[v] + NetOf(workOrder, results, consumed, v)
          /\ stock'[v] = IF v = row.variant THEN stock[v] + n ELSE stock[v]
      BY <1>4, <1>9, <1>13 DEF RowsRight, StockRight
    <3>6. OnHand[v] \in Nat /\ n \in Int
      BY <1>5, ProductionConstants
    <3>7. NetOf(workOrder, results, consumed, v)' = NetOf(workOrder', results', consumed, v)
      BY <1>9
    <3>8. CASE v = row.variant
      BY <3>3, <3>4, <3>5, <3>6, <3>7, <3>8
    <3>9. CASE v # row.variant
      BY <3>3, <3>4, <3>5, <3>6, <3>7, <3>9
    <3> QED BY <3>8, <3>9
  <2>3. ASSUME NEW x \in WorkOrders
        PROVE  /\ workOrder'[x].produced = results'[x]
               /\ workOrder'[x].status = "completed" => Paid(x)'
    <3>1. CASE x = w
      <4>1. workOrder'[x].produced = results'[x]
        BY <1>11, <1>12, <1>14, <3>1
      <4>2. ASSUME workOrder'[x].status = "completed" PROVE Paid(x)'
        <5>1. done
          BY <1>11, <1>12, <3>1, <4>2
        <5>2. CASE journal'[w] # None
          BY <3>1, <5>2 DEF Paid
        <5>3. CASE CostPrice[row.variant] * n = 0
          <6>1. results'[w] * CostPrice[row.variant] = 0
            <7>1. PICK c : c = CostPrice[row.variant]
              OBVIOUS
            <7>2. PICK m : m = results'[w]
              OBVIOUS
            <7>3. m \in Nat /\ c \in Nat /\ c * n = 0
              BY <1>6, <1>14, <1>15, <5>3, <7>1, <7>2
            <7>4. m * c = 0
              BY <1>5, <7>3, NoFreeLunch
            <7> QED BY <7>1, <7>2, <7>4
          <6> QED BY <1>12, <3>1, <6>1 DEF Paid
        <5> QED BY <1>18, <5>1, <5>2, <5>3
      <4> QED BY <4>1, <4>2
    <3>2. CASE x # w
      <4>1. workOrder'[x] = workOrder[x] /\ results'[x] = results[x] /\ journal'[x] = journal[x]
        BY <1>12, <1>14, <1>18, <3>2
      <4> QED BY <1>4, <4>1 DEF RowsRight, StockRight, Paid
    <3> QED BY <3>1, <3>2
  <2> QED BY <2>1, <2>2, <2>3 DEF StockRight
<1>20. RowsRight'
  BY <1>4, <1>9, <1>12, <1>16, <1>19, BillsSame DEF RowsRight
<1>21. ASSUME NEW q \in Requests \ {r} PROVE Respects(locks[q])
  <2>1. BillsRespected
    BY <1>9, BillSets DEF BillsRespected
  <2>2. WorkOrderLock(w) \notin locks[q]
    BY <1>4, <1>5, Alone
  <2>3. OrdersRespected(locks[q])
    BY <1>9, <1>12, <2>2 DEF OrdersRespected, Created
  <2>4. \A v \in Variants : stock'[v] >= stock[v]
    BY <1>5, <1>9, <1>10, <1>13 DEF StockTypes
  <2> QED BY <1>9, <2>1, <2>3, <2>4 DEF Respects, ShopRespected
<1> QED BY <1>9, <1>20, <1>21, EndStep

-----------------------------------------------------------------------------
(* The whole invariant, from the initial state through every step.         *)
LEMMA InitIsRight == ASSUME Init PROVE IInv
<1>1. BillsRight
  <2>1. /\ headers = {} /\ version = [v \in Versions |-> NoVersion]
        /\ item = [i \in BomItems |-> NoItem] /\ extra = [x \in Extras |-> None]
    BY DEF Init, NoBills
  <2>2. Stored = {} /\ CreatedVersions = {}
    BY <2>1 DEF Stored, CreatedVersions, NoItem, NoVersion
  <2>3. OneActiveVersion
    BY <2>1 DEF OneActiveVersion
  <2>4. ParentsFirst /\ IdsInOrder
    BY <2>1, <2>2 DEF ParentsFirst, IdsInOrder
  <2> QED BY <2>1, <2>2, <2>3, <2>4 DEF BillsRight
<1>2. OrdersRight
  <2>1. /\ planned = [p \in PlannedOrders |-> [status |-> "proposed", workOrder |-> None,
                                               purchased |-> FALSE]]
        /\ bought = [p \in PlannedOrders |-> 0]
        /\ workOrder = [w \in WorkOrders |-> NoWorkOrder]
    BY DEF Init, NoWork
  <2>2. ApprovalsMatchOrders
    BY <2>1 DEF ApprovalsMatchOrders
  <2>3. OrdersExist
    BY <2>1 DEF OrdersExist
  <2> QED BY <2>1, <2>2, <2>3 DEF OrdersRight, PlannedRow
<1>3. RefsRight
  <2>1. /\ material = [w \in WorkOrders |-> [i \in {} |-> 0]]
        /\ process = [w \in WorkOrders |-> [o \in {} |-> "pending"]]
        /\ referenced = {}
    BY DEF Init, NoBills, NoWork
  <2>2. \A w \in WorkOrders : /\ DOMAIN material[w] = {} /\ DOMAIN process[w] = {}
                              /\ process[w] = [o \in DOMAIN process[w] |-> process[w][o]]
    BY <2>1
  <2>3. RowsReferenced = {}
    BY <2>2 DEF RowsReferenced
  <2>4. \A w \in WorkOrders :
          process[w] \in [DOMAIN process[w] -> {"pending", "in_progress", "completed"}]
    BY <2>2
  <2> QED BY <2>1, <2>2, <2>3, <2>4 DEF RefsRight, NothingBeforeConfirm
<1>4. StockRight
  <2>1. /\ moved = [w \in WorkOrders |-> {}]
        /\ consumed = [w \in WorkOrders |-> [v \in Variants |-> 0]]
        /\ results = [w \in WorkOrders |-> 0] /\ journal = [w \in WorkOrders |-> None]
        /\ stock = OnHand /\ summary = OnHand
        /\ workOrder = [w \in WorkOrders |-> NoWorkOrder]
    BY DEF Init, NoWork
  <2>2. StockTypes
    BY <2>1, ProductionConstants DEF StockTypes, Levels
  <2>3. \A w \in WorkOrders : workOrder[w].produced = results[w]
                              /\ workOrder[w].status # "completed"
    BY <2>1 DEF NoWorkOrder
  <2>4. ASSUME NEW v \in Variants
        PROVE  stock[v] = OnHand[v] + NetOf(workOrder, results, consumed, v)
    <3>1. PICK F : F = NetRows(workOrder, results, consumed, v)
      OBVIOUS
    <3>2. NetOf(workOrder, results, consumed, v) = SumOver(F, WorkOrders)
      BY <3>1, NetSum
    <3>3. \A w \in WorkOrders : F[w] = 0
      BY <2>1, <3>1 DEF NetRows
    <3>4. SumOver(F, WorkOrders) = 0
      BY <3>3, ProductionConstants, SumZero
    <3> QED BY <2>1, <3>2, <3>4, ProductionConstants
  <2> QED BY <2>2, <2>3, <2>4 DEF StockRight
<1>5. RequestsRight
  <2>1. begun = 0 /\ NoRequests
    BY DEF Init
  <2> QED BY <2>1, TransactionsConstants DEF NoRequests, RequestsRight, IdleHoldsNothing,
             LocksExclusive
<1>6. \A r \in Requests : Knows(r)
  BY DEF Init, NoRequests, Knows
<1> QED BY <1>1, <1>2, <1>3, <1>4, <1>5, <1>6, Parts DEF RowsRight

LEMMA BomHandleStep ==
    ASSUME IInv, NEW r \in Requests, BomHandle(r), UNCHANGED <<orders, shopFloor>>
    PROVE  IInv'
<1>1. CASE \/ BeginVersion(r) \/ BeginActivate(r) \/ BeginAddItem(r) \/ BeginItem(r)
           \/ BeginAddExtra(r)
  <2>1. bomTables' = bomTables
    BY <1>1 DEF BeginVersion, BeginActivate, BeginAddItem, BeginItem, BeginAddExtra
  <2>2. tables' = tables
    BY <2>1 DEF tables
  <2> QED BY <1>1, <2>2, BeginVersionStep, BeginActivateStep, BeginAddItemStep, BeginItemStep,
             BeginAddExtraStep
<1>2. CASE CreateHeader(r)
  BY <1>2, CreateHeaderStep
<1>3. CASE DeleteExtra(r)
  BY <1>3, DeleteExtraStep
<1> QED BY <1>1, <1>2, <1>3 DEF BomHandle

LEMMA BomStatementStep ==
    ASSUME IInv, NEW r \in Requests, BomStatement(r), UNCHANGED <<orders, shopFloor>>
    PROVE  IInv'
<1>1. CASE CountItems(r) \/ Obsolete(r)
  <2>1. bomTables' = bomTables
    BY <1>1 DEF CountItems, Obsolete
  <2>2. tables' = tables
    BY <2>1 DEF tables
  <2> QED BY <1>1, <2>2, CountItemsStep, ObsoleteStep
<1>2. CASE InsertVersion(r) \/ Activate(r) \/ InsertExtra(r)
  BY <1>2, InsertVersionStep, ActivateStep, InsertExtraStep
<1>3. CASE InsertItem(r) \/ UpdateItem(r)
  BY <1>3, InsertItemStep, UpdateItemStep
<1>4. CASE DeleteChildren(r) \/ DeleteItem(r)
  BY <1>4, DeleteChildrenStep, DeleteItemStep
<1> QED BY <1>1, <1>2, <1>3, <1>4 DEF BomStatement

LEMMA HandleStep == ASSUME IInv, NEW r \in Requests, Handle(r) PROVE IInv'
<1>1. CASE BomHandle(r) /\ UNCHANGED <<orders, shopFloor>>
  BY <1>1, BomHandleStep
<1>2. CASE BeginCreate(r) \/ BeginApprove(r) \/ CancelPlanned(r) \/ BeginChange(r)
  BY <1>2, BeginCreateStep, BeginApproveStep, CancelPlannedStep, BeginChangeStep
<1>3. CASE StartProduction(r) \/ BeginWork(r)
  BY <1>3, StartProductionStep, BeginWorkStep
<1>4. CASE StartOperation(r) \/ CompleteOperation(r)
  BY <1>4, MoveOperationStep DEF StartOperation, CompleteOperation
<1> QED BY <1>1, <1>2, <1>3, <1>4 DEF Handle

LEMMA StatementStep == ASSUME IInv, NEW r \in Requests, Statement(r) PROVE IInv'
<1>1. CASE BomStatement(r) /\ UNCHANGED <<orders, shopFloor>>
  BY <1>1, BomStatementStep
<1>2. CASE InsertOrder(r) \/ LockPlanned(r) \/ CommitApproval(r)
  BY <1>2, InsertOrderStep, LockPlannedStep, CommitApprovalStep
<1>3. CASE UpdateOrder(r) \/ CancelOrder(r) \/ LockConfirm(r) \/ CommitConfirm(r)
  BY <1>3, UpdateOrderStep, CancelOrderStep, LockConfirmStep, CommitConfirmStep
<1>4. CASE LockConsume(r) \/ CheckStock(r) \/ CommitConsume(r)
  BY <1>4, LockConsumeStep, CheckStockStep, CommitConsumeStep
<1>5. CASE LockResult(r) \/ CommitResult(r)
  BY <1>5, LockResultStep, CommitResultStep
<1> QED BY <1>1, <1>2, <1>3, <1>4, <1>5 DEF Statement

LEMMA IdleStep == ASSUME IInv, vars' = vars PROVE IInv'
<1>1. /\ tables' = tables /\ begun' = begun
      /\ pc' = pc /\ needs' = needs /\ tx' = tx /\ locks' = locks
  BY DEF vars, connections
<1>2. RowsRight' /\ RequestsRight'
  BY <1>1, Parts, RowsUnchanged DEF RequestsRight, IdleHoldsNothing, LocksExclusive
<1>3. ASSUME NEW q \in Requests PROVE Knows(q)'
  <2>1. RowsRight /\ Knows(q)
    BY <1>3, Parts
  <2>2. SameRequest(q)
    BY <1>1 DEF SameRequest
  <2>3. Respects(locks[q])
    BY <1>1, <2>1, TablesRespect
  <2> QED BY <1>2, <2>1, <2>2, <2>3, KnowsKept
<1> QED BY <1>2, <1>3, NextParts

LEMMA NextKeeps == ASSUME IInv, [Next]_vars PROVE IInv'
<1>1. CASE Next
  <2>1. PICK r \in Requests : Handle(r) \/ Statement(r) \/ (Fail(r) /\ UNCHANGED tables)
    BY <1>1 DEF Next
  <2>2. CASE Fail(r) /\ UNCHANGED tables
    BY <2>2, RollbackStep DEF Fail
  <2> QED BY <2>1, <2>2, HandleStep, StatementStep
<1> QED BY <1>1, IdleStep

(* The inductive invariant holds in every state of every behaviour.        *)
THEOREM Invariance == Spec => []IInv
<1>1. Init => IInv
  BY InitIsRight
<1>2. IInv /\ [Next]_vars => IInv'
  BY NextKeeps
<1> QED BY <1>1, <1>2, PTL DEF Spec

(* A header never has two active versions, nor the same version number     *)
(* twice, however many requests activate and create versions of it at the  *)
(* same time.                                                              *)
THEOREM OneActive == Spec => []OneActiveVersion
<1>1. IInv => OneActiveVersion
  BY DEF IInv
<1> QED BY <1>1, Invariance, PTL

LEMMA WholeTrees == ASSUME BillsRight PROVE TreesStayWhole
<1> SUFFICES ASSUME NEW v \in Versions
             PROVE  /\ Reached(v) = ItemsOfVersion(v)
                    /\ \A i \in Reached(v) : LET p == item[i].parent IN
                         item[i].level = IF p = None THEN 0 ELSE item[p].level + 1
  BY DEF TreesStayWhole
<1>1. Reached(v) = ItemsOfVersion(v)
  BY ReachedItems
<1>2. ASSUME NEW i \in Reached(v)
      PROVE  item[i].level = IF item[i].parent = None THEN 0 ELSE item[item[i].parent].level + 1
  <2>1. i \in Stored
    BY <1>1, <1>2 DEF ItemsOfVersion
  <2>2. Placed(i)
    BY <2>1 DEF BillsRight, ParentsFirst
  <2>3. None \notin Stored
    BY StoredRows
  <2> QED BY <2>2, <2>3 DEF Placed, BelowParent
<1> QED BY <1>1, <1>2

(* What explodeBom finds of a version is all of its items, each one level  *)
(* below its parent: no item loses its parent, whoever deletes items while *)
(* others are added below them.                                            *)
THEOREM WholeBills == Spec => []TreesStayWhole
<1>1. IInv => TreesStayWhole
  BY Parts, WholeTrees DEF RowsRight
<1> QED BY <1>1, Invariance, PTL

(* A planned order leads to at most one work order or one purchase order,  *)
(* and to one exactly when it is approved, whoever else approves, cancels  *)
(* or changes it at the same time.                                         *)
THEOREM ApprovedOnce == Spec => []ApprovalsMatchOrders
<1>1. IInv => ApprovalsMatchOrders
  BY DEF IInv
<1> QED BY <1>1, Invariance, PTL

(* The stock of every variant is what there was, with what the work orders *)
(* brought in and without what they took out, and never negative; and a    *)
(* completed work order has its journal, unless it cost nothing.           *)
THEOREM StockFollowsProduction == Spec => []ProductionAddsUp
<1>1. IInv => ProductionAddsUp
  BY DEF IInv
<1> QED BY <1>1, Invariance, PTL

-----------------------------------------------------------------------------
(* What a step does to cancelled work orders: nothing.                     *)
Rests ==
    \A w \in WorkOrders : workOrder[w].status = "cancelled" =>
      /\ workOrder'[w] = workOrder[w]
      /\ consumed'[w] = consumed[w] /\ results'[w] = results[w]

LEMMA QuietRests ==
    ASSUME workOrder' = workOrder, consumed' = consumed, results' = results
    PROVE  Rests
BY DEF Rests

LEMMA TablesRest == ASSUME tables' = tables PROVE Rests
BY SameTables, QuietRests

LEMMA BillRests == ASSUME UNCHANGED <<orders, shopFloor>> PROVE Rests
<1>1. workOrder' = workOrder /\ consumed' = consumed /\ results' = results
  BY DEF orders, shopFloor
<1> QED BY <1>1, QuietRests

(* One row changes, and what is counted for it.                            *)
LEMMA WorkRests ==
    ASSUME NEW w, workOrder[w].status = "cancelled" =>
                    /\ workOrder'[w] = workOrder[w]
                    /\ consumed'[w] = consumed[w] /\ results'[w] = results[w],
           \A x \in WorkOrders \ {w} : /\ workOrder'[x] = workOrder[x]
                                       /\ consumed'[x] = consumed[x]
                                       /\ results'[x] = results[x]
    PROVE  Rests
BY DEF Rests

LEMMA RowRests ==
    ASSUME RowsRight, NEW w \in WorkOrders, NEW row, workOrder' = [workOrder EXCEPT ![w] = row],
           workOrder[w].status = "cancelled" => row = workOrder[w],
           consumed' = consumed, results' = results
    PROVE  Rests
<1>1. workOrder \in [WorkOrders -> WorkOrderRow \union {NoWorkOrder}]
  BY DEF RowsRight, OrdersRight
<1>2. workOrder'[w] = row /\ \A x \in WorkOrders \ {w} : workOrder'[x] = workOrder[x]
  BY <1>1
<1> QED BY <1>2, WorkRests

LEMMA NewRests ==
    ASSUME IInv, NEW row, FreeIds # {}, workOrder' = [workOrder EXCEPT ![Min(FreeIds)] = row],
           shopFloor' = shopFloor
    PROVE  Rests
<1>1. RowsRight
  BY Parts
<1>2. PICK w : w = Min(FreeIds)
  OBVIOUS
<1>3. w \in WorkOrders /\ workOrder[w] = NoWorkOrder
  BY <1>1, <1>2, FreeRow
<1>4. consumed' = consumed /\ results' = results
  BY DEF shopFloor
<1>5. workOrder[w].status # "cancelled"
  BY <1>3 DEF NoWorkOrder
<1> QED BY <1>1, <1>2, <1>3, <1>4, <1>5, RowRests

LEMMA CommitApprovalRests == ASSUME IInv, NEW r \in Requests, CommitApproval(r) PROVE Rests
<1>1. shopFloor' = shopFloor
  BY DEF CommitApproval
<1>2. CASE tx[r].id \in Production
  <2>1. PICK row : row = Draft(tx[r].id, VariantMade[tx[r].id], VersionMade[tx[r].id],
                               QuantityMade[tx[r].id])
    OBVIOUS
  <2>2. FreeIds # {} /\ workOrder' = [workOrder EXCEPT ![Min(FreeIds)] = row]
    BY <1>2, <2>1 DEF CommitApproval
  <2> QED BY <1>1, <2>2, NewRests
<1>3. CASE tx[r].id \notin Production
  <2>1. workOrder' = workOrder
    BY <1>3 DEF CommitApproval
  <2> QED BY <1>1, <2>1, QuietRests DEF shopFloor
<1> QED BY <1>2, <1>3

LEMMA UpdateOrderRests == ASSUME IInv, NEW r \in Requests, UpdateOrder(r) PROVE Rests
<1>1. PICK w : w = tx[r].id
  OBVIOUS
<1>2. RowsRight /\ OrderKnows(r) /\ pc[r] = "updateOrder"
  BY Parts, OrderAt DEF UpdateOrder, At
<1>3. w \in WorkOrders
  BY <1>1, <1>2 DEF OrderKnows, Created
<1>4. consumed' = consumed /\ results' = results
  BY DEF UpdateOrder, shopFloor
<1>5. CASE workOrder[w].status \in {"completed", "cancelled"}
  BY <1>1, <1>4, <1>5, QuietRests DEF UpdateOrder
<1>6. CASE workOrder[w].status \notin {"completed", "cancelled"}
  <2>1. PICK row : row = [workOrder[w] EXCEPT !.planned = tx[r].planned]
    OBVIOUS
  <2>2. workOrder' = [workOrder EXCEPT ![w] = row]
    BY <1>1, <1>6, <2>1 DEF UpdateOrder
  <2> QED BY <1>2, <1>3, <1>4, <1>6, <2>2, RowRests
<1> QED BY <1>5, <1>6

(* A cancelled work order that is cancelled again is as it was.            *)
LEMMA CancelOrderRests == ASSUME IInv, NEW r \in Requests, CancelOrder(r) PROVE Rests
<1>1. PICK w : w = tx[r].id
  OBVIOUS
<1>2. RowsRight /\ OrderKnows(r) /\ pc[r] = "cancelOrder"
  BY Parts, OrderAt DEF CancelOrder, At
<1>3. w \in Created /\ w \in WorkOrders
  BY <1>1, <1>2 DEF OrderKnows, Created
<1>4. consumed' = consumed /\ results' = results
  BY DEF CancelOrder, shopFloor
<1>5. PICK row : row = [workOrder[w] EXCEPT !.status = "cancelled"]
  OBVIOUS
<1>6. workOrder' = [workOrder EXCEPT ![w] = row]
  BY <1>1, <1>5 DEF CancelOrder
<1>7. workOrder[w].status = "cancelled" => row = workOrder[w]
  BY <1>2, <1>3, <1>5, OrderRow DEF WorkOrderRow
<1> QED BY <1>2, <1>3, <1>4, <1>6, <1>7, RowRests

LEMMA StartProductionRests == ASSUME IInv, NEW r \in Requests, StartProduction(r) PROVE Rests
<1>1. PICK w \in WorkOrders :
        /\ workOrder[w].status = "confirmed"
        /\ workOrder' = [workOrder EXCEPT ![w].status = "in_progress"]
  BY DEF StartProduction
<1>2. PICK row : row = [workOrder[w] EXCEPT !.status = "in_progress"]
  OBVIOUS
<1>3. workOrder' = [workOrder EXCEPT ![w] = row]
  BY <1>1, <1>2
<1>4. RowsRight /\ consumed' = consumed /\ results' = results
  BY Parts DEF StartProduction, shopFloor
<1> QED BY <1>1, <1>3, <1>4, RowRests

LEMMA CommitConfirmRests == ASSUME IInv, NEW r \in Requests, CommitConfirm(r) PROVE Rests
<1>1. PICK w : w = tx[r].id
  OBVIOUS
<1>2. RowsRight /\ ConfirmKnows(r) /\ pc[r] = "commitWork"
  BY Parts, ConfirmAt DEF CommitConfirm, At
<1>3. w \in WorkOrders /\ workOrder[w].status = "draft"
  BY <1>1, <1>2 DEF ConfirmKnows, Created
<1>4. consumed' = consumed /\ results' = results
  BY DEF CommitConfirm
<1>5. PICK row : row = [workOrder[w] EXCEPT !.status = "confirmed"]
  OBVIOUS
<1>6. workOrder' = workOrder \/ workOrder' = [workOrder EXCEPT ![w] = row]
  BY <1>1, <1>5 DEF CommitConfirm
<1>7. workOrder[w].status # "cancelled"
  BY <1>3
<1> QED BY <1>2, <1>3, <1>4, <1>6, <1>7, QuietRests, RowRests

(* The status of the order is the one that was seen under its lock.        *)
LEMMA CommitConsumeRests == ASSUME IInv, NEW r \in Requests, CommitConsume(r) PROVE Rests
<1>1. PICK w : w = tx[r].id
  OBVIOUS
<1>2. RowsRight /\ ConsumeKnows(r) /\ pc[r] = "refreshConsume"
  BY Parts, ConsumeAt DEF CommitConsume, At
<1>3. w \in WorkOrders /\ workOrder[w].status # "cancelled"
  BY <1>1, <1>2 DEF ConsumeKnows, Created, Open
<1>4. workOrder' = workOrder /\ results' = results
  BY DEF CommitConsume, orders
<1>5. PICK used : consumed' = [consumed EXCEPT ![w] = used]
  BY <1>1 DEF CommitConsume
<1>6. \A x \in WorkOrders \ {w} : consumed'[x] = consumed[x]
  BY <1>2, <1>5 DEF RowsRight, StockRight, StockTypes
<1> QED BY <1>3, <1>4, <1>6, WorkRests

LEMMA CommitResultRests == ASSUME IInv, NEW r \in Requests, CommitResult(r) PROVE Rests
<1>1. PICK w : w = tx[r].id
  OBVIOUS
<1>2. RowsRight /\ ResultKnows(r) /\ pc[r] = "refreshResult"
  BY Parts, ResultAt DEF CommitResult, At
<1>3. w \in WorkOrders /\ workOrder[w].status # "cancelled"
  BY <1>1, <1>2 DEF ResultKnows, Created, Open
<1>4. PICK row : workOrder' = [workOrder EXCEPT ![w] = row]
  <2>1. PICK done : done = (Total(w, tx[r].quantity) >= workOrder[w].planned)
    OBVIOUS
  <2>2. PICK row : row = [workOrder[w] EXCEPT !.produced = Total(w, tx[r].quantity),
                            !.status = IF done THEN "completed" ELSE "partially_done"]
    OBVIOUS
  <2>3. workOrder' = [workOrder EXCEPT ![w] = row]
    BY <1>1, <2>1, <2>2 DEF CommitResult
  <2> QED BY <2>3
<1>5. PICK n : results' = [results EXCEPT ![w] = n]
  BY <1>1 DEF CommitResult
<1>6. consumed' = consumed
  BY DEF CommitResult
<1>7. \A x \in WorkOrders \ {w} : workOrder'[x] = workOrder[x] /\ results'[x] = results[x]
  BY <1>2, <1>4, <1>5 DEF RowsRight, OrdersRight, StockRight, StockTypes
<1> QED BY <1>3, <1>6, <1>7, WorkRests

LEMMA InsertOrderRests == ASSUME IInv, NEW r \in Requests, InsertOrder(r) PROVE Rests
<1>1. /\ FreeIds # {} /\ workOrder' = [workOrder EXCEPT ![Min(FreeIds)] = tx[r].row]
      /\ shopFloor' = shopFloor
  BY DEF InsertOrder
<1> QED BY <1>1, NewRests

LEMMA HandleRests == ASSUME IInv, NEW r \in Requests, Handle(r) PROVE Rests
<1>1. CASE BomHandle(r) /\ UNCHANGED <<orders, shopFloor>>
  BY <1>1, BillRests
<1>2. CASE BeginCreate(r) \/ BeginApprove(r) \/ BeginChange(r) \/ BeginWork(r)
  BY <1>2, TablesRest DEF BeginCreate, BeginApprove, BeginChange, BeginWork
<1>3. CASE CancelPlanned(r)
  BY <1>3, QuietRests DEF CancelPlanned, shopFloor
<1>4. CASE StartOperation(r) \/ CompleteOperation(r)
  BY <1>4, QuietRests DEF StartOperation, CompleteOperation, MoveOperation, orders
<1> QED BY <1>1, <1>2, <1>3, <1>4, StartProductionRests DEF Handle

LEMMA StatementRests == ASSUME IInv, NEW r \in Requests, Statement(r) PROVE Rests
<1>1. CASE BomStatement(r) /\ UNCHANGED <<orders, shopFloor>>
  BY <1>1, BillRests
<1>2. CASE \/ LockPlanned(r) \/ LockConfirm(r) \/ LockConsume(r) \/ CheckStock(r)
           \/ LockResult(r)
  BY <1>2, TablesRest DEF LockPlanned, LockConfirm, LockConsume, CheckStock, LockResult
<1>3. CASE InsertOrder(r) \/ CommitApproval(r)
  BY <1>3, InsertOrderRests, CommitApprovalRests
<1>4. CASE UpdateOrder(r) \/ CancelOrder(r) \/ CommitConfirm(r)
  BY <1>4, UpdateOrderRests, CancelOrderRests, CommitConfirmRests
<1>5. CASE CommitConsume(r) \/ CommitResult(r)
  BY <1>5, CommitConsumeRests, CommitResultRests
<1> QED BY <1>1, <1>2, <1>3, <1>4, <1>5 DEF Statement

LEMMA NextRests == ASSUME IInv, [Next]_vars PROVE [Rests]_vars
<1> SUFFICES ASSUME Next PROVE Rests
  OBVIOUS
<1>1. PICK r \in Requests : Handle(r) \/ Statement(r) \/ (Fail(r) /\ UNCHANGED tables)
  BY DEF Next
<1>2. CASE Fail(r) /\ UNCHANGED tables
  BY <1>2, TablesRest
<1> QED BY <1>1, <1>2, HandleRests, StatementRests

(* Nothing is consumed or produced for a cancelled work order, nor is it   *)
(* changed, by a request that saw it open before either.                   *)
THEOREM CancelledForGood == Spec => CancelledOrdersRest
<1>1. IInv /\ [Next]_vars => [Rests]_vars
  BY NextRests
<1>2. Spec => [][Rests]_vars
  BY <1>1, Invariance, PTL DEF Spec
<1> QED BY <1>2 DEF CancelledOrdersRest, Rests
================================================================================
