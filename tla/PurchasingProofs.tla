--------------------------- MODULE PurchasingProofs ----------------------------
(***************************************************************************)
(* Proofs about Purchasing.                                                *)
(***************************************************************************)
EXTENDS Purchasing, Sums, SequenceTheorems

-----------------------------------------------------------------------------
(* The sums of the specification as sums of functions.                     *)
LinesOf(lines, i) ==
    [k \in DOMAIN lines |-> IF lines[k].item = i THEN lines[k].quantity ELSE 0]

LEMMA QuantitySum ==
    ASSUME NEW lines, NEW i
    PROVE  QuantityIn(lines, i) = SumOver(LinesOf(lines, i), DOMAIN lines)
<1> DEFINE S == DOMAIN lines
           F == LinesOf(lines, i)
           e(k) == IF lines[k].item = i THEN lines[k].quantity ELSE 0
           P(g) == g = [s \in SUBSET S |-> IF s = {} THEN 0 ELSE e(Choice(s)) + g[s \ {Choice(s)}]]
<1>1. QuantityIn(lines, i) = (CHOOSE g : P(g))[S]
  BY Zenon DEF QuantityIn, MapThenSumSet, MapThenFoldSet, Choice
<1>2. ASSUME NEW s \in SUBSET S, s # {} PROVE F[Choice(s)] = e(Choice(s))
  BY <1>2, ChoiceIn DEF LinesOf
<1> HIDE DEF S, F, e
<1>3. \A g : P(g) <=> IsSum(g, F, S)
  BY <1>2 DEF IsSum, Partial
<1> QED BY Zenon, <1>1, <1>3, SumIsChosen DEF F, S

PiecesOf(lines) == [k \in DOMAIN lines |-> lines[k].quantity]

LEMMA PiecesSum ==
    ASSUME NEW lines
    PROVE  Pieces(lines) = SumOver(PiecesOf(lines), DOMAIN lines)
<1> DEFINE S == DOMAIN lines
           F == PiecesOf(lines)
           e(k) == lines[k].quantity
           P(g) == g = [s \in SUBSET S |-> IF s = {} THEN 0 ELSE e(Choice(s)) + g[s \ {Choice(s)}]]
<1>1. Pieces(lines) = (CHOOSE g : P(g))[S]
  BY Zenon DEF Pieces, MapThenSumSet, MapThenFoldSet, Choice
<1>2. ASSUME NEW s \in SUBSET S, s # {} PROVE F[Choice(s)] = e(Choice(s))
  BY <1>2, ChoiceIn DEF PiecesOf
<1> HIDE DEF S, F, e
<1>3. \A g : P(g) <=> IsSum(g, F, S)
  BY <1>2 DEF IsSum, Partial
<1> QED BY Zenon, <1>1, <1>3, SumIsChosen DEF F, S

(* What receipts brought, whichever rows of goods_receipts there are.      *)
QuantitiesOf(rows, i) == [g \in DOMAIN rows |-> QuantityIn(rows[g].lines, i)]

LEMMA BroughtSum ==
    ASSUME NEW rows, NEW i, NEW S \in SUBSET DOMAIN rows
    PROVE  Brought(rows, S, i) = SumOver(QuantitiesOf(rows, i), S)
<1> DEFINE F == QuantitiesOf(rows, i)
           e(k) == QuantityIn(rows[k].lines, i)
           P(g) == g = [s \in SUBSET S |-> IF s = {} THEN 0 ELSE e(Choice(s)) + g[s \ {Choice(s)}]]
<1>1. Brought(rows, S, i) = (CHOOSE g : P(g))[S]
  BY Zenon DEF Brought, MapThenSumSet, MapThenFoldSet, Choice
<1>2. ASSUME NEW s \in SUBSET S, s # {} PROVE F[Choice(s)] = e(Choice(s))
  BY <1>2, ChoiceIn DEF QuantitiesOf
<1> HIDE DEF F, e
<1>3. \A g : P(g) <=> IsSum(g, F, S)
  BY <1>2 DEF IsSum, Partial
<1> QED BY Zenon, <1>1, <1>3, SumIsChosen DEF F

AllPieces(rows) == [g \in DOMAIN rows |-> Pieces(rows[g].lines)]

LEMMA AmountSum ==
    ASSUME NEW S \in SUBSET DOMAIN receipt
    PROVE  AmountOf(S) = Price * SumOver(AllPieces(receipt), S)
<1> DEFINE F == AllPieces(receipt)
           e(k) == Pieces(receipt[k].lines)
           P(g) == g = [s \in SUBSET S |-> IF s = {} THEN 0 ELSE e(Choice(s)) + g[s \ {Choice(s)}]]
<1>1. AmountOf(S) = Price * ((CHOOSE g : P(g))[S])
  BY Zenon DEF AmountOf, MapThenSumSet, MapThenFoldSet, Choice
<1>2. ASSUME NEW s \in SUBSET S, s # {} PROVE F[Choice(s)] = e(Choice(s))
  BY <1>2, ChoiceIn DEF AllPieces
<1> HIDE DEF F, e
<1>3. \A g : P(g) <=> IsSum(g, F, S)
  BY <1>2 DEF IsSum, Partial
<1> QED BY Zenon, <1>1, <1>3, SumIsChosen DEF F

LEMMA IdsFinite == IsFiniteSet(Receipts) /\ Receipts \subseteq Nat /\ Invoices = Receipts
<1>1. MaxRequests \in Nat
  BY PurchasingConstants
<1>2. IsFiniteSet(1 .. MaxRequests) /\ 1 .. MaxRequests \subseteq Nat
  BY <1>1, FS_Interval
<1> QED BY <1>2 DEF Receipts, Invoices

LEMMA LinesFinite ==
    ASSUME NEW lines \in Seq(Line)
    PROVE  /\ IsFiniteSet(DOMAIN lines) /\ DOMAIN lines \subseteq Nat
           /\ \A k \in DOMAIN lines : lines[k].quantity \in Nat
<1> DEFINE n == Len(lines)
<1>1. DOMAIN lines = 1 .. n /\ n \in Nat /\ \A k \in DOMAIN lines : lines[k] \in Line
  OBVIOUS
<1> HIDE DEF n
<1>2. IsFiniteSet(1 .. n) /\ 1 .. n \subseteq Nat
  BY <1>1, FS_Interval
<1>3. \A k \in DOMAIN lines : lines[k].quantity \in Nat
  BY <1>1 DEF Line
<1> QED BY <1>1, <1>2, <1>3

(* Quantities are natural numbers.                                         *)
LEMMA LinesNat ==
    ASSUME NEW lines \in Seq(Line), NEW i
    PROVE  QuantityIn(lines, i) \in Nat /\ Pieces(lines) \in Nat
<1> DEFINE S == DOMAIN lines
           F == LinesOf(lines, i)
           G == PiecesOf(lines)
<1>1. IsFiniteSet(S)
  BY LinesFinite
<1>2. \A k \in S : F[k] \in Nat /\ G[k] \in Nat
  BY LinesFinite DEF LinesOf, PiecesOf
<1>3. QuantityIn(lines, i) = SumOver(F, S) /\ Pieces(lines) = SumOver(G, S)
  BY QuantitySum, PiecesSum
<1> HIDE DEF S, F, G
<1> QED BY <1>1, <1>2, <1>3, SumNat

LEMMA RowLines ==
    ASSUME NEW row \in ReceiptRow
    PROVE  row.lines \in Seq(Line) /\ row.status \in {"none", "draft", "confirmed"}
           /\ (row.status # "none" => row.order \in Orders)
<1>1. CASE row = NoReceipt
  <2>1. <<>> \in Seq(Line)
    BY EmptySeq
  <2> QED BY <1>1, <2>1 DEF NoReceipt
<1>2. CASE row \in [status : {"draft", "confirmed"}, order : Orders, lines : Seq(Line)]
  BY <1>2
<1> QED BY <1>1, <1>2 DEF ReceiptRow

LEMMA BroughtNat ==
    ASSUME NEW rows \in [Receipts -> ReceiptRow], NEW S \in SUBSET Receipts, NEW i
    PROVE  Brought(rows, S, i) \in Nat
<1> DEFINE F == QuantitiesOf(rows, i)
<1>1. IsFiniteSet(S)
  BY IdsFinite, FS_Subset
<1>2. \A g \in S : F[g] \in Nat
  BY RowLines, LinesNat DEF QuantitiesOf
<1>3. Brought(rows, S, i) = SumOver(F, S)
  BY BroughtSum
<1> HIDE DEF F
<1> QED BY <1>1, <1>2, <1>3, SumNat

(* Only the lines of the receipts matter.                                  *)
LEMMA BroughtSame ==
    ASSUME NEW rows \in [Receipts -> ReceiptRow], NEW next \in [Receipts -> ReceiptRow],
           NEW S \in SUBSET Receipts, NEW i,
           \A g \in S : next[g].lines = rows[g].lines
    PROVE  Brought(next, S, i) = Brought(rows, S, i)
<1> DEFINE F == QuantitiesOf(rows, i)
           G == QuantitiesOf(next, i)
<1>1. IsFiniteSet(S)
  BY IdsFinite, FS_Subset
<1>2. \A g \in S : F[g] = G[g]
  BY DEF QuantitiesOf
<1>3. Brought(rows, S, i) = SumOver(F, S) /\ Brought(next, S, i) = SumOver(G, S)
  BY BroughtSum
<1> HIDE DEF F, G
<1>4. SumOver(F, S) = SumOver(G, S)
  BY <1>1, <1>2, SumSame
<1> QED BY <1>3, <1>4

LEMMA AmountNat ==
    ASSUME receipt \in [Receipts -> ReceiptRow], NEW S \in SUBSET Receipts
    PROVE  AmountOf(S) \in Nat
<1> DEFINE F == AllPieces(receipt)
<1>1. IsFiniteSet(S)
  BY IdsFinite, FS_Subset
<1>2. \A g \in S : F[g] \in Nat
  BY RowLines, LinesNat DEF AllPieces
<1>3. AmountOf(S) = Price * SumOver(F, S)
  BY AmountSum
<1> HIDE DEF F
<1>4. SumOver(F, S) \in Nat /\ Price \in Nat
  BY <1>1, <1>2, SumNat, PurchasingConstants
<1>5. \A m, n \in Nat : m * n \in Nat
  OBVIOUS
<1> QED BY <1>3, <1>4, <1>5

(* The least of a set of numbers is one of them.                           *)
LEMMA MinIn ==
    ASSUME NEW S \in SUBSET Nat, S # {}
    PROVE  Min(S) \in S
<1>1. \E n \in S : \A m \in S : n <= m
  BY LeastNatural
<1> QED BY <1>1 DEF Min

-----------------------------------------------------------------------------
(* Locks.                                                                  *)
LEMMA AcquireExclusive ==
    ASSUME LocksExclusive, locks \in [Requests -> SUBSET Lockable],
           NEW r \in Requests, NEW taken \in SUBSET Lockable,
           \A x \in taken : Free(r, x),
           locks' = [locks EXCEPT ![r] = locks[r] \union taken]
    PROVE  locks' \in [Requests -> SUBSET Lockable] /\ LocksExclusive'
<1>1. \A q \in Requests \ {r} : taken \intersect locks[q] = {}
  BY DEF Free, Taken
<1>2. locks' \in [Requests -> SUBSET Lockable]
  OBVIOUS
<1>3. ASSUME NEW p \in Requests, NEW q \in Requests, p # q
      PROVE  locks'[p] \intersect locks'[q] = {}
  <2>1. CASE p = r
    BY <1>1, <1>3, <2>1 DEF LocksExclusive
  <2>2. CASE q = r
    BY <1>1, <1>3, <2>2 DEF LocksExclusive
  <2>3. CASE p # r /\ q # r
    BY <1>3, <2>3 DEF LocksExclusive
  <2> QED BY <2>1, <2>2, <2>3
<1> QED BY <1>2, <1>3 DEF LocksExclusive

LEMMA ReleaseExclusive ==
    ASSUME LocksExclusive, locks \in [Requests -> SUBSET Lockable],
           NEW r \in Requests, locks' = [locks EXCEPT ![r] = {}]
    PROVE  locks' \in [Requests -> SUBSET Lockable] /\ LocksExclusive'
BY DEF LocksExclusive

LEMMA LockNames ==
    /\ \A o \in Orders : OrderLock(o) \in Lockable
    /\ \A i \in Items : ItemLock(i) \in Lockable
    /\ \A g \in Receipts : ReceiptLock(g) \in Lockable
    /\ \A v \in Invoices : PayableLock(v) \in Lockable /\ InvoiceLock(v) \in Lockable
    /\ ViewLock \in Lockable
BY DEF Lockable

(* What a request knows stays true as long as the other requests respect   *)
(* its locks.                                                              *)
LEMMA KnowsKept ==
    ASSUME TypeOK, TypeOK', NEW q \in Requests, Knows(q), IsTransaction(tx[q]),
           pc'[q] = pc[q], tx'[q] = tx[q], locks'[q] = locks[q],
           \A g \in Receipts : receipt[g].status # "none" =>
             /\ receipt'[g].status # "none" /\ receipt'[g].order = receipt[g].order
             /\ receipt'[g].lines = receipt[g].lines,
           \A g \in Receipts : receipt[g].status # "none" /\ ReceiptLock(g) \in locks[q] =>
             receipt'[g].status = receipt[g].status,
           \A o \in Orders : OrderLock(o) \in locks[q] =>
             order'[o] = order[o] /\ Confirmed(o)' = Confirmed(o),
           \A v \in Invoices : payable[v].status # "none" =>
             /\ payable'[v].status # "none" /\ payable'[v].amount = payable[v].amount
             /\ invoice'[v].amount = invoice[v].amount,
           \A v \in Invoices : PayableLock(v) \in locks[q] => allocated'[v] = allocated[v],
           \A v \in Invoices : InvoiceLock(v) \in locks[q] =>
             (invoice[v].status # "cancelled" => invoice'[v].status # "cancelled")
    PROVE  Knows(q)'
<1>1. OpOfStep(q)'
  BY DEF Knows, OpOfStep
<1>2. tx'[q].op = "update" => UpdateKnows(q)'
  BY DEF Knows, UpdateKnows
<1>3. tx'[q].op = "receive" => ReceiveKnows(q)'
  BY DEF Knows, ReceiveKnows
<1>4. ASSUME tx'[q].op = "confirm" PROVE ConfirmKnows(q)'
  <2> DEFINE o == tx[q].order
             held == pc[q] \in {"items", "commit"}
  <2>1. ConfirmKnows(q) /\ o \in Orders /\ tx[q].id \in Receipts
    BY <1>4 DEF Knows, ConfirmKnows
  <2>2. ASSUME held, NEW i \in ItemsOf(o)
        PROVE  Received(Summed(q), i)' = Received(Summed(q), i)
    <3> DEFINE S == Summed(q)
    <3>1. Summed(q)' = S
      BY <2>1, <2>2 DEF ConfirmKnows, Summed
    <3>2. S \in SUBSET Receipts /\ \A g \in S : receipt[g].status # "none"
      BY <2>1 DEF Summed, Confirmed, ConfirmKnows
    <3>3. \A g \in S : receipt'[g].lines = receipt[g].lines
      BY <3>2
    <3>4. receipt \in [Receipts -> ReceiptRow] /\ receipt' \in [Receipts -> ReceiptRow]
      BY DEF TypeOK
    <3> DEFINE next == receipt'
    <3> HIDE DEF S, next
    <3>5. Brought(next, S, i) = Brought(receipt, S, i)
      BY <3>2, <3>3, <3>4, BroughtSame DEF next
    <3>6. Received(Summed(q), i)' = Brought(next, S, i)
      BY Zenon, <3>1 DEF Received, next
    <3>7. Received(Summed(q), i) = Brought(receipt, S, i)
      BY Zenon DEF Received, S
    <3> QED BY <3>5, <3>6, <3>7
  <2>3. held => /\ DOMAIN tx'[q].set = ItemsOf(o)
                /\ \A i \in ItemsOf(o) : tx'[q].set[i] = Received(Summed(q), i)'
    BY <2>1, <2>2 DEF ConfirmKnows
  <2>4. /\ receipt'[tx[q].id].status # "none" /\ receipt'[tx[q].id].order = o
        /\ pc[q] # "confirm" => receipt'[tx[q].id].status = "draft"
    BY <2>1 DEF ConfirmKnows
  <2>5. pc[q] \in {"refresh", "sum", "items", "commit"} => order'[o] = order[o]
    BY <2>1 DEF ConfirmKnows
  <2> QED BY <2>1, <2>3, <2>4, <2>5 DEF ConfirmKnows, ItemsOf
<1>5. tx'[q].op = "invoice" => InvoiceKnows(q)'
  <2>1. tx[q].receipts \in SUBSET Receipts
    BY DEF IsTransaction, TransactionOf
  <2> QED BY <2>1 DEF Knows, InvoiceKnows
<1>6. ASSUME tx'[q].op = "pay" PROVE PayKnows(q)'
  <2>1. PayKnows(q)
    BY <1>6 DEF Knows
  <2>2. \A v \in DOMAIN tx[q].set : v \in Invoices /\ payable[v].status # "none"
    BY <2>1 DEF PayKnows
  <2>3. pc[q] = "commit" =>
          /\ tx[q].todo = {}
          /\ \A v \in DOMAIN tx[q].set : PayableLock(v) \in locks[q]
    BY <2>1 DEF PayKnows
  <2>4. pc[q] = "commit" => \A v \in DOMAIN tx[q].set : allocated'[v] = allocated[v]
    BY <2>2, <2>3
  <2>5. \A v \in DOMAIN tx[q].set : WithinAmount(v, tx[q].paid[v])' <=> WithinAmount(v, tx[q].paid[v])
    BY <2>2 DEF WithinAmount
  <2>6. \A v \in DOMAIN tx[q].set : payable'[v].status # "none"
    BY <2>2
  <2>7. pc[q] \in {"allocate", "commit"} =>
          \A v \in DOMAIN tx[q].set : InvoiceLock(v) \in locks[q] /\ invoice'[v].status # "cancelled"
    BY <2>1, <2>2 DEF PayKnows
  <2> QED BY <2>1, <2>4, <2>5, <2>6, <2>7 DEF PayKnows
<1> QED BY <1>1, <1>2, <1>3, <1>4, <1>5, <1>6 DEF Knows

-----------------------------------------------------------------------------
(* Steps that change no table.                                             *)
LEMMA RowsUnchanged ==
    ASSUME ReceivedIsSumOfReceipts, PaymentsAddUp, NothingReceived,
           begun' \in 0 .. MaxRequests, tables' = tables,
           pc' \in [Requests -> Steps], locks' \in [Requests -> SUBSET Lockable],
           \A r \in Requests : pc'[r] = "idle" => tx'[r] = NoTx /\ locks'[r] = {}
    PROVE  ReceivedIsSumOfReceipts' /\ PaymentsAddUp' /\ NothingReceived'
<1>1. order' = order /\ item' = item /\ receipt' = receipt /\ invoice' = invoice
      /\ payable' = payable /\ allocated' = allocated
  BY DEF tables
<1>2. TypeOK'
  BY <1>1 DEF ReceivedIsSumOfReceipts, TypeOK
<1>3. \A i \in Items : Received(Confirmed(OrderOf[i]), i)' = Received(Confirmed(OrderOf[i]), i)
  BY <1>1 DEF Received, Confirmed
<1>4. ReceivedIsSumOfReceipts'
  BY <1>1, <1>2, <1>3 DEF ReceivedIsSumOfReceipts
<1>5. PaymentsAddUp' /\ NothingReceived'
  BY <1>1 DEF PaymentsAddUp, NothingReceived
<1> QED BY <1>4, <1>5

LEMMA LocalStep ==
    ASSUME IInv, NEW r \in Requests, NEW step \in Steps, NEW t, IsTransaction(t),
           NEW held \in SUBSET Lockable,
           begun' \in 0 .. MaxRequests, tables' = tables,
           pc' = [pc EXCEPT ![r] = step], tx' = [tx EXCEPT ![r] = t],
           locks' = [locks EXCEPT ![r] = held], LocksExclusive',
           step = "idle" => t = NoTx /\ held = {},
           Knows(r)'
    PROVE  IInv'
<1>1. /\ ReceivedIsSumOfReceipts /\ PaymentsAddUp /\ NothingReceived /\ TypeOK
      /\ tx = [q \in Requests |-> tx[q]]
      /\ \A q \in Requests : IsTransaction(tx[q]) /\ Knows(q)
  BY DEF IInv, ReceivedIsSumOfReceipts
<1>2. /\ pc'[r] = step /\ tx'[r] = t /\ locks'[r] = held
      /\ \A q \in Requests \ {r} :
           pc'[q] = pc[q] /\ tx'[q] = tx[q] /\ locks'[q] = locks[q]
  BY <1>1 DEF TypeOK
<1>3. pc' \in [Requests -> Steps] /\ locks' \in [Requests -> SUBSET Lockable]
      /\ tx' = [q \in Requests |-> tx'[q]]
  BY <1>1 DEF TypeOK
<1>4. \A q \in Requests : pc'[q] = "idle" => tx'[q] = NoTx /\ locks'[q] = {}
  BY <1>1, <1>2 DEF TypeOK
<1>5. ReceivedIsSumOfReceipts' /\ PaymentsAddUp' /\ NothingReceived'
  BY <1>1, <1>3, <1>4, RowsUnchanged
<1>6. \A q \in Requests : IsTransaction(tx[q])'
  <2>1. \A q \in Requests : IsTransaction(tx'[q])
    BY <1>1, <1>2
  <2> QED BY <2>1 DEF IsTransaction, TransactionOf
<1>7. ASSUME NEW q \in Requests PROVE Knows(q)'
  <2>1. CASE q = r
    BY <2>1
  <2>2. CASE q # r
    <3>1. /\ order' = order /\ receipt' = receipt /\ invoice' = invoice
          /\ payable' = payable /\ allocated' = allocated
      BY DEF tables
    <3>2. \A o \in Orders : Confirmed(o)' = Confirmed(o)
      BY <3>1 DEF Confirmed
    <3>3. TypeOK'
      BY <1>5 DEF ReceivedIsSumOfReceipts
    <3> QED BY <1>1, <1>2, <2>2, <3>1, <3>2, <3>3, KnowsKept
  <2> QED BY <2>1, <2>2
<1> QED BY <1>3, <1>5, <1>6, <1>7 DEF IInv

LEMMA NoTxFacts ==
    /\ IsTransaction(NoTx) /\ NoTx.op = "none" /\ NoTx.todo = {}
    /\ NoTx.id = 0 /\ NoTx.order = None /\ NoTx.lines = <<>> /\ NoTx.receipts = {}
BY DEF IsTransaction, TransactionOf, NoTx

LEMMA EndedKnows ==
    ASSUME NEW r \in Requests, pc'[r] = "idle", tx'[r] = NoTx
    PROVE  Knows(r)'
BY NoTxFacts DEF Knows, OpOfStep

LEMMA RollbackStep ==
    ASSUME IInv, NEW r \in Requests, Rollback(r)
    PROVE  IInv'
<1>1. TypeOK /\ LocksExclusive /\ tx = [q \in Requests |-> tx[q]]
  BY DEF IInv, ReceivedIsSumOfReceipts
<1>2. /\ begun' = begun /\ tables' = tables
      /\ pc' = [pc EXCEPT ![r] = "idle"] /\ tx' = [tx EXCEPT ![r] = NoTx]
      /\ locks' = [locks EXCEPT ![r] = {}]
  BY DEF Rollback, End, Goto, tables
<1>3. LocksExclusive' /\ begun' \in 0 .. MaxRequests
  BY <1>1, <1>2, ReleaseExclusive DEF TypeOK
<1>4. Knows(r)'
  BY <1>1, <1>2, EndedKnows DEF TypeOK
<1>5. "idle" \in Steps /\ {} \in SUBSET Lockable
  BY DEF Steps
<1> QED BY <1>2, <1>3, <1>4, <1>5, NoTxFacts, LocalStep

LEMMA BegunOnce ==
    ASSUME TypeOK, begun < MaxRequests, begun' = begun + 1
    PROVE  begun' \in 0 .. MaxRequests
<1>1. begun \in 0 .. MaxRequests /\ MaxRequests \in Nat
  BY PurchasingConstants DEF TypeOK
<1> QED BY <1>1

(* A request begins without a lock.                                        *)
LEMMA BeginStep ==
    ASSUME IInv, NEW r \in Requests, NEW t, IsTransaction(t), NEW step \in Steps \ {"idle"},
           Begin(r, step, t),
           pc'[r] = step /\ tx'[r] = t /\ tables' = tables => Knows(r)'
    PROVE  IInv'
<1>1. TypeOK /\ LocksExclusive /\ tx = [q \in Requests |-> tx[q]]
  BY DEF IInv, ReceivedIsSumOfReceipts
<1>2. /\ pc[r] = "idle" /\ begun' = begun + 1 /\ begun < MaxRequests /\ tables' = tables
      /\ pc' = [pc EXCEPT ![r] = step] /\ tx' = [tx EXCEPT ![r] = t] /\ locks' = locks
  BY DEF Begin, Goto, tables
<1>3. locks[r] = {} /\ locks' = [locks EXCEPT ![r] = {}]
  BY <1>1, <1>2 DEF TypeOK
<1>4. LocksExclusive' /\ begun' \in 0 .. MaxRequests
  BY <1>1, <1>2, <1>3, ReleaseExclusive, BegunOnce DEF TypeOK
<1>5. Knows(r)'
  BY <1>1, <1>2 DEF TypeOK
<1> QED BY <1>2, <1>3, <1>4, <1>5, LocalStep

(* A step of a request that ends in a step of its own, and may lock.       *)
LEMMA InnerStep ==
    ASSUME IInv, NEW r \in Requests, NEW t, IsTransaction(t), NEW step \in Steps \ {"idle"},
           NEW taken \in SUBSET Lockable, \A x \in taken : Free(r, x),
           locks' = [locks EXCEPT ![r] = locks[r] \union taken],
           pc' = [pc EXCEPT ![r] = step], tx' = [tx EXCEPT ![r] = t],
           begun' = begun, tables' = tables,
           pc'[r] = step /\ tx'[r] = t /\ locks'[r] = locks[r] \union taken => Knows(r)'
    PROVE  IInv'
<1>1. TypeOK /\ LocksExclusive /\ tx = [q \in Requests |-> tx[q]]
  BY DEF IInv, ReceivedIsSumOfReceipts
<1>2. pc'[r] = step /\ tx'[r] = t /\ locks'[r] = locks[r] \union taken
      /\ locks[r] \union taken \in SUBSET Lockable /\ begun' \in 0 .. MaxRequests
  BY <1>1 DEF TypeOK
<1>3. LocksExclusive'
  BY <1>1, AcquireExclusive DEF TypeOK
<1>4. Knows(r)'
  BY <1>2
<1> QED BY <1>2, <1>3, <1>4, LocalStep

-----------------------------------------------------------------------------
(* Requests begin.                                                         *)
LEMMA BeginUpdateStep ==
    ASSUME IInv, NEW r \in Requests, BeginUpdate(r)
    PROVE  IInv'
<1>7. PICK o \in Orders :
        \E items \in (SUBSET ItemsOf(o)) \ {{}} : \E set \in [items -> Quantities] :
          Begin(r, "items", [NoTx EXCEPT !.op = "update", !.order = o,
                                         !.todo = items, !.set = set])
  BY Zenon DEF BeginUpdate
<1>8. PICK items \in (SUBSET ItemsOf(o)) \ {{}} : \E set \in [items -> Quantities] :
        Begin(r, "items", [NoTx EXCEPT !.op = "update", !.order = o,
                                       !.todo = items, !.set = set])
  BY Zenon, <1>7
<1>1. PICK set \in [items -> Quantities] :
        Begin(r, "items", [NoTx EXCEPT !.op = "update", !.order = o,
                                       !.todo = items, !.set = set])
  BY Zenon, <1>8
<1> DEFINE t == [NoTx EXCEPT !.op = "update", !.order = o, !.todo = items, !.set = set]
<1>2. items \subseteq Items /\ items \subseteq ItemsOf(o) /\ DOMAIN set = items
      /\ \A i \in items : set[i] \in Quantities
  BY DEF ItemsOf
<1>3. t.op = "update" /\ t.order = o /\ t.todo = items /\ t.set = set
      /\ IsTransaction(t)
  BY <1>2, NoTxFacts DEF IsTransaction, TransactionOf
<1>4. IsTransaction(t)
  BY <1>3
<1> HIDE DEF t
<1>5. ASSUME pc'[r] = "items", tx'[r] = t PROVE Knows(r)'
  BY <1>2, <1>3, <1>5 DEF Knows, OpOfStep, UpdateKnows, ItemsOf
<1>6. "items" \in Steps \ {"idle"}
  BY DEF Steps
<1> QED BY <1>1, <1>4, <1>5, <1>6, BeginStep DEF t

LEMMA BeginReceiptStep ==
    ASSUME IInv, NEW r \in Requests, BeginReceipt(r)
    PROVE  IInv'
<1>1. PICK o \in Orders, lines \in Deliveries :
        Begin(r, "validate", [NoTx EXCEPT !.op = "receive", !.order = o,
                                          !.lines = lines, !.todo = DOMAIN lines])
  BY DEF BeginReceipt
<1> DEFINE t == [NoTx EXCEPT !.op = "receive", !.order = o,
                             !.lines = lines, !.todo = DOMAIN lines]
<1>2. lines \in Seq(Line) /\ DOMAIN lines \subseteq Nat
  BY PurchasingConstants, LinesFinite
<1>3. t.op = "receive" /\ t.order = o /\ IsTransaction(t)
  BY <1>2, NoTxFacts DEF IsTransaction, TransactionOf
<1>4. IsTransaction(t)
  BY <1>3
<1> HIDE DEF t
<1>5. ASSUME pc'[r] = "validate", tx'[r] = t PROVE Knows(r)'
  BY <1>3, <1>5 DEF Knows, OpOfStep, ReceiveKnows
<1>6. "validate" \in Steps \ {"idle"}
  BY DEF Steps
<1> QED BY <1>1, <1>4, <1>5, <1>6, BeginStep DEF t

LEMMA BeginConfirmStep ==
    ASSUME IInv, NEW r \in Requests, BeginConfirm(r)
    PROVE  IInv'
<1>1. PICK g \in Receipts :
        /\ receipt[g].status # "none"
        /\ Begin(r, "confirm", [NoTx EXCEPT !.op = "confirm", !.id = g,
                                            !.order = receipt[g].order])
  BY DEF BeginConfirm
<1> DEFINE t == [NoTx EXCEPT !.op = "confirm", !.id = g, !.order = receipt[g].order]
<1>2. receipt[g].order \in Orders /\ g \in Nat
  BY <1>1, RowLines, IdsFinite DEF IInv, ReceivedIsSumOfReceipts, TypeOK
<1>3. t.op = "confirm" /\ t.id = g /\ t.order = receipt[g].order /\ t.todo = {}
      /\ IsTransaction(t)
  BY <1>2, NoTxFacts DEF IsTransaction, TransactionOf
<1>4. IsTransaction(t)
  BY <1>3
<1> HIDE DEF t
<1>5. ASSUME pc'[r] = "confirm", tx'[r] = t, tables' = tables PROVE Knows(r)'
  BY <1>1, <1>2, <1>3, <1>5 DEF Knows, OpOfStep, ConfirmKnows, tables
<1>6. "confirm" \in Steps \ {"idle"}
  BY DEF Steps
<1> QED BY <1>1, <1>4, <1>5, <1>6, BeginStep DEF t

LEMMA BeginInvoiceStep ==
    ASSUME IInv, NEW r \in Requests, BeginInvoice(r)
    PROVE  IInv'
<1>1. PICK o \in Orders,
           receipts \in (SUBSET {g \in Receipts : receipt[g].status # "none"}) \ {{}} :
        Begin(r, "receipts", [NoTx EXCEPT !.op = "invoice", !.order = o,
                                          !.receipts = receipts])
  BY DEF BeginInvoice
<1> DEFINE t == [NoTx EXCEPT !.op = "invoice", !.order = o, !.receipts = receipts]
<1>2. receipts \subseteq Receipts /\ \A g \in receipts : receipt[g].status # "none"
  OBVIOUS
<1>3. t.op = "invoice" /\ t.order = o /\ t.receipts = receipts /\ IsTransaction(t)
  BY <1>2, NoTxFacts DEF IsTransaction, TransactionOf
<1>4. IsTransaction(t)
  BY <1>3
<1> HIDE DEF t
<1>5. ASSUME pc'[r] = "receipts", tx'[r] = t, tables' = tables PROVE Knows(r)'
  BY <1>2, <1>3, <1>5 DEF Knows, OpOfStep, InvoiceKnows, tables
<1>6. "receipts" \in Steps \ {"idle"}
  BY DEF Steps
<1> QED BY <1>1, <1>4, <1>5, <1>6, BeginStep DEF t

LEMMA BeginPaymentStep ==
    ASSUME IInv, NEW r \in Requests, BeginPayment(r)
    PROVE  IInv'
<1>7. PICK payables \in (SUBSET Unpaid) \ {{}} : \E set \in [payables -> Payments] :
        Begin(r, "payables", [NoTx EXCEPT !.op = "pay", !.todo = payables, !.set = set])
  BY Zenon DEF BeginPayment
<1>1. PICK set \in [payables -> Payments] :
        Begin(r, "payables", [NoTx EXCEPT !.op = "pay", !.todo = payables, !.set = set])
  BY Zenon, <1>7
<1> DEFINE t == [NoTx EXCEPT !.op = "pay", !.todo = payables, !.set = set]
<1>2. payables \subseteq Invoices /\ payables \subseteq Nat /\ payables # {}
      /\ DOMAIN set = payables
      /\ \A v \in payables : payable[v].status # "none" /\ set[v] \in Payments
  BY IdsFinite DEF Unpaid
<1>3. t.op = "pay" /\ t.todo = payables /\ t.set = set /\ IsTransaction(t)
  BY <1>2, NoTxFacts DEF IsTransaction, TransactionOf
<1>4. IsTransaction(t)
  BY <1>3
<1> HIDE DEF t
<1>5. ASSUME pc'[r] = "payables", tx'[r] = t, tables' = tables PROVE Knows(r)'
  <2>1. PayKnows(r)'
    BY <1>2, <1>3, <1>5 DEF PayKnows, tables
  <2> QED BY <1>3, <1>5, <2>1 DEF Knows, OpOfStep
<1>6. "payables" \in Steps \ {"idle"}
  BY DEF Steps
<1> QED BY <1>1, <1>4, <1>5, <1>6, BeginStep DEF t

-----------------------------------------------------------------------------
(* Statements that read and lock.                                          *)
LEMMA OpOf ==
    ASSUME IInv, NEW r \in Requests
    PROVE  /\ TypeOK /\ LocksExclusive /\ IsTransaction(tx[r]) /\ Knows(r)
           /\ tx = [q \in Requests |-> tx[q]] /\ receipt \in [Receipts -> ReceiptRow]
           /\ pc[r] = "items" => tx[r].op \in {"update", "confirm"}
           /\ pc[r] = "header" => tx[r].op = "update"
           /\ pc[r] \in {"validate", "insertReceipt"} => tx[r].op = "receive"
           /\ pc[r] \in {"confirm", "lockOrder", "refresh", "sum"} => tx[r].op = "confirm"
           /\ pc[r] \in {"receipts", "invoiced", "insertInvoice"} => tx[r].op = "invoice"
           /\ pc[r] \in {"payables", "invoices", "allocate"} => tx[r].op = "pay"
<1>1. TypeOK /\ LocksExclusive /\ IsTransaction(tx[r]) /\ Knows(r) /\ OpOfStep(r)
      /\ tx = [q \in Requests |-> tx[q]] /\ receipt \in [Receipts -> ReceiptRow]
  BY DEF IInv, ReceivedIsSumOfReceipts, Knows, TypeOK
<1>2. tx[r].op \in {"none", "update", "receive", "confirm", "invoice", "pay"}
  BY <1>1 DEF IsTransaction, TransactionOf
<1> QED BY <1>1, <1>2 DEF OpOfStep

LEMMA LockItemStep ==
    ASSUME IInv, NEW r \in Requests, LockItem(r)
    PROVE  IInv'
<1>1. IsTransaction(tx[r]) /\ Knows(r) /\ pc[r] = "items" /\ tx[r].op \in {"update", "confirm"}
      /\ tx = [q \in Requests |-> tx[q]]
  BY OpOf DEF LockItem
<1>2. PICK i \in tx[r].todo :
        /\ Acquire(r, ItemLock(i))
        /\ tx' = [tx EXCEPT ![r].todo = @ \ {i}]
        /\ Goto(r, IF tx[r].todo # {i} THEN "items"
                   ELSE IF tx[r].op = "update" THEN "header" ELSE "commit")
        /\ UNCHANGED <<begun, tables>>
  BY DEF LockItem
<1> DEFINE t == [tx[r] EXCEPT !.todo = @ \ {i}]
           step == IF tx[r].todo # {i} THEN "items"
                   ELSE IF tx[r].op = "update" THEN "header" ELSE "commit"
           taken == {ItemLock(i)}
<1>3. /\ t.op = tx[r].op /\ t.order = tx[r].order /\ t.id = tx[r].id
      /\ t.todo = tx[r].todo \ {i} /\ t.set = tx[r].set /\ t.paid = tx[r].paid
      /\ IsTransaction(t)
  BY <1>1 DEF IsTransaction, TransactionOf
<1>4. i \in Items /\ tx[r].todo \subseteq Items
  BY <1>1 DEF Knows, UpdateKnows, ConfirmKnows
<1>5. tx' = [tx EXCEPT ![r] = t]
  BY Zenon, <1>1, <1>2
<1>6. taken \in SUBSET Lockable /\ (\A x \in taken : Free(r, x))
      /\ locks' = [locks EXCEPT ![r] = locks[r] \union taken]
  BY <1>2, <1>4, LockNames DEF Acquire
<1>7. pc' = [pc EXCEPT ![r] = step] /\ step \in Steps \ {"idle"}
  BY <1>2 DEF Goto, Steps
<1>8. step \in {"items", "header", "commit"} /\ (tx[r].op = "update" => step # "confirm")
      /\ (tx[r].op = "confirm" => step \in {"items", "commit"})
  BY <1>1
<1> HIDE DEF t, step, taken
<1>9. ASSUME pc'[r] = step, tx'[r] = t, locks'[r] = locks[r] \union taken PROVE Knows(r)'
  <2>1. tables' = tables
    BY <1>2
  <2>2. OpOfStep(r)'
    BY <1>1, <1>3, <1>8, <1>9 DEF OpOfStep
  <2>3. tx[r].op = "update" => UpdateKnows(r)'
    BY <1>1, <1>3, <1>4, <1>9 DEF Knows, UpdateKnows, ItemsOf
  <2>4. tx[r].op = "confirm" => ConfirmKnows(r)'
    <3> SUFFICES ASSUME tx[r].op = "confirm" PROVE ConfirmKnows(r)'
      OBVIOUS
    <3>1. ConfirmKnows(r)
      BY <1>1 DEF Knows
    <3>2. \A j \in Items : Received(Summed(r), j)' = Received(Summed(r), j)
      BY <1>3, <1>9, <2>1 DEF Received, Summed, Confirmed, tables
    <3> QED BY <1>1, <1>3, <1>4, <1>8, <1>9, <2>1, <3>1, <3>2
            DEF ConfirmKnows, ItemsOf, tables
  <2> QED BY <1>1, <1>3, <1>9, <2>2, <2>3, <2>4 DEF Knows
<1> QED BY <1>2, <1>3, <1>5, <1>6, <1>7, <1>9, InnerStep

LEMMA LockHeaderStep ==
    ASSUME IInv, NEW r \in Requests, LockHeader(r)
    PROVE  IInv'
<1>1. IsTransaction(tx[r]) /\ Knows(r) /\ tx[r].op = "update" /\ UpdateKnows(r)
      /\ tx = [q \in Requests |-> tx[q]]
  BY OpOf DEF LockHeader, Knows
<1> DEFINE taken == {OrderLock(tx[r].order)}
           t == tx[r]
<1>2. taken \in SUBSET Lockable /\ (\A x \in taken : Free(r, x))
      /\ locks' = [locks EXCEPT ![r] = locks[r] \union taken]
  BY <1>1, LockNames DEF LockHeader, Acquire, UpdateKnows
<1>3. pc' = [pc EXCEPT ![r] = "commit"] /\ tx' = tx /\ begun' = begun /\ tables' = tables
      /\ "commit" \in Steps \ {"idle"}
  BY DEF LockHeader, Goto, Steps
<1>4. tx' = [tx EXCEPT ![r] = t]
  BY <1>1, <1>3
<1> HIDE DEF taken
<1>5. ASSUME pc'[r] = "commit" PROVE Knows(r)'
  BY <1>1, <1>3, <1>5 DEF Knows, OpOfStep, UpdateKnows, ItemsOf
<1> HIDE DEF t
<1>6. IsTransaction(t)
  BY <1>1 DEF t
<1> QED BY <1>2, <1>3, <1>4, <1>5, <1>6, InnerStep

(* A step that takes a lock and leaves the transaction as it is.           *)
LEMMA LockStep ==
    ASSUME IInv, NEW r \in Requests, NEW x \in Lockable, Acquire(r, x),
           NEW step \in Steps \ {"idle"}, Goto(r, step), UNCHANGED <<begun, tables, tx>>,
           pc'[r] = step /\ tx'[r] = tx[r] /\ locks'[r] = locks[r] \union {x} => Knows(r)'
    PROVE  IInv'
<1> DEFINE t == tx[r]  taken == {x}
<1>1. IsTransaction(t) /\ tx' = [tx EXCEPT ![r] = t]
  BY OpOf
<1>2. /\ taken \in SUBSET Lockable /\ (\A y \in taken : Free(r, y))
      /\ locks' = [locks EXCEPT ![r] = locks[r] \union taken]
      /\ pc' = [pc EXCEPT ![r] = step]
  BY DEF Acquire, Goto
<1>3. ASSUME pc'[r] = step, tx'[r] = t, locks'[r] = locks[r] \union taken PROVE Knows(r)'
  BY <1>3
<1> HIDE DEF t, taken
<1> QED BY <1>1, <1>2, <1>3, InnerStep

(* A step that only reads.                                                 *)
LEMMA ReadStep ==
    ASSUME IInv, NEW r \in Requests, NEW t, IsTransaction(t), tx' = [tx EXCEPT ![r] = t],
           NEW step \in Steps \ {"idle"}, Goto(r, step), UNCHANGED <<begun, tables, locks>>,
           pc'[r] = step /\ tx'[r] = t /\ locks'[r] = locks[r] => Knows(r)'
    PROVE  IInv'
<1> DEFINE taken == {}
<1>1. TypeOK
  BY OpOf
<1>2. /\ taken \in SUBSET Lockable /\ (\A y \in taken : Free(r, y))
      /\ locks' = [locks EXCEPT ![r] = locks[r] \union taken]
      /\ pc' = [pc EXCEPT ![r] = step]
  BY <1>1 DEF TypeOK, Goto
<1>3. ASSUME pc'[r] = step, tx'[r] = t, locks'[r] = locks[r] \union taken PROVE Knows(r)'
  BY <1>3
<1> HIDE DEF taken
<1> QED BY <1>2, <1>3, InnerStep

LEMMA ValidateLineStep ==
    ASSUME IInv, NEW r \in Requests, ValidateLine(r)
    PROVE  IInv'
<1>1. CASE Rollback(r)
  BY <1>1, RollbackStep
<1>2. CASE ~ Rollback(r)
  <2> DEFINE k == Min(tx[r].todo)
             t == [tx[r] EXCEPT !.todo = @ \ {k}]
             step == IF tx[r].todo = {k} THEN "insertReceipt" ELSE "validate"
  <2>1. IsTransaction(tx[r]) /\ Knows(r) /\ tx[r].op = "receive" /\ ReceiveKnows(r)
        /\ tx = [q \in Requests |-> tx[q]] /\ TypeOK
    BY OpOf DEF ValidateLine, Knows
  <2>2. /\ tx' = [tx EXCEPT ![r].todo = @ \ {k}]
        /\ pc' = [pc EXCEPT ![r] = step]
        /\ begun' = begun /\ tables' = tables /\ locks' = locks
    BY <1>2 DEF ValidateLine, Goto
  <2>3. t.op = "receive" /\ t.order = tx[r].order /\ IsTransaction(t)
    BY <2>1 DEF IsTransaction, TransactionOf
  <2>4. tx' = [tx EXCEPT ![r] = t]
    BY Zenon, <2>1, <2>2
  <2>5. step \in Steps \ {"idle"} /\ step \in {"insertReceipt", "validate"}
    BY DEF Steps
  <2>6. Goto(r, step) /\ UNCHANGED <<begun, tables, locks>>
    BY <2>2 DEF Goto
  <2> HIDE DEF t, step, k
  <2>7. ASSUME pc'[r] = step, tx'[r] = t PROVE Knows(r)'
    BY <2>1, <2>3, <2>5, <2>7 DEF Knows, OpOfStep, ReceiveKnows
  <2> QED BY <2>2, <2>3, <2>4, <2>5, <2>6, <2>7, ReadStep
<1> QED BY <1>1, <1>2

LEMMA ConfirmOp ==
    ASSUME NEW r \in Requests, Knows(r), tx[r].op = "confirm"
    PROVE  ConfirmKnows(r) /\ tx[r].id \in Receipts /\ tx[r].order \in Orders
           /\ ReceiptLock(tx[r].id) \in Lockable /\ OrderLock(tx[r].order) \in Lockable
BY LockNames DEF Knows, ConfirmKnows

LEMMA LockReceiptStep ==
    ASSUME IInv, NEW r \in Requests, LockReceipt(r)
    PROVE  IInv'
<1>1. CASE Rollback(r)
  BY <1>1, RollbackStep
<1>2. CASE ~ Rollback(r)
  <2>1. tx[r].op = "confirm" /\ Knows(r) /\ pc[r] = "confirm"
    BY OpOf DEF LockReceipt
  <2> DEFINE x == ReceiptLock(tx[r].id)
  <2>2. ConfirmKnows(r) /\ x \in Lockable
    BY <2>1, ConfirmOp
  <2>3. /\ receipt[tx[r].id].status = "draft" /\ Acquire(r, x)
        /\ Goto(r, "lockOrder") /\ UNCHANGED <<begun, tables, tx>>
    BY <1>2 DEF LockReceipt
  <2>4. ASSUME pc'[r] = "lockOrder", tx'[r] = tx[r], locks'[r] = locks[r] \union {x}
        PROVE  Knows(r)'
    <3>1. ConfirmKnows(r)'
      BY <2>2, <2>3, <2>4 DEF ConfirmKnows, tables
    <3> QED BY <2>1, <2>4, <3>1 DEF Knows, OpOfStep
  <2>5. "lockOrder" \in Steps \ {"idle"}
    BY DEF Steps
  <2> HIDE DEF x
  <2> QED BY <2>2, <2>3, <2>4, <2>5, LockStep
<1> QED BY <1>1, <1>2

LEMMA LockOrderStep ==
    ASSUME IInv, NEW r \in Requests, LockOrder(r)
    PROVE  IInv'
<1>1. CASE Rollback(r)
  BY <1>1, RollbackStep
<1>2. CASE ~ Rollback(r)
  <2>1. tx[r].op = "confirm" /\ Knows(r) /\ pc[r] = "lockOrder"
    BY OpOf DEF LockOrder
  <2> DEFINE x == OrderLock(tx[r].order)
  <2>2. ConfirmKnows(r) /\ x \in Lockable
    BY <2>1, ConfirmOp
  <2>3. /\ order[tx[r].order] \in {"confirmed", "partial"} /\ Acquire(r, x)
        /\ Goto(r, "refresh") /\ UNCHANGED <<begun, tables, tx>>
    BY <1>2 DEF LockOrder
  <2>4. ASSUME pc'[r] = "refresh", tx'[r] = tx[r], locks'[r] = locks[r] \union {x}
        PROVE  Knows(r)'
    <3>1. ConfirmKnows(r)'
      BY <2>1, <2>2, <2>3, <2>4 DEF ConfirmKnows, tables
    <3> QED BY <2>1, <2>4, <3>1 DEF Knows, OpOfStep
  <2>5. "refresh" \in Steps \ {"idle"}
    BY DEF Steps
  <2> HIDE DEF x
  <2> QED BY <2>2, <2>3, <2>4, <2>5, LockStep
<1> QED BY <1>1, <1>2

LEMMA RefreshStep ==
    ASSUME IInv, NEW r \in Requests, Refresh(r)
    PROVE  IInv'
<1>1. tx[r].op = "confirm" /\ Knows(r) /\ pc[r] = "refresh"
  BY OpOf DEF Refresh
<1>2. ConfirmKnows(r) /\ ViewLock \in Lockable
  BY <1>1, ConfirmOp, LockNames
<1>3. Acquire(r, ViewLock) /\ Goto(r, "sum") /\ UNCHANGED <<begun, tables, tx>>
  BY DEF Refresh
<1>4. ASSUME pc'[r] = "sum", tx'[r] = tx[r], locks'[r] = locks[r] \union {ViewLock}
      PROVE  Knows(r)'
  <2>1. ConfirmKnows(r)'
    BY <1>1, <1>2, <1>3, <1>4 DEF ConfirmKnows, tables
  <2> QED BY <1>1, <1>4, <2>1 DEF Knows, OpOfStep
<1>5. "sum" \in Steps \ {"idle"}
  BY DEF Steps
<1> QED BY <1>2, <1>3, <1>4, <1>5, LockStep

LEMMA SumReceivedStep ==
    ASSUME IInv, NEW r \in Requests, SumReceived(r)
    PROVE  IInv'
<1>1. tx[r].op = "confirm" /\ Knows(r) /\ pc[r] = "sum" /\ IsTransaction(tx[r])
      /\ tx = [q \in Requests |-> tx[q]]
  BY OpOf DEF SumReceived
<1>2. ConfirmKnows(r)
  BY <1>1, ConfirmOp
<1> DEFINE items == ItemsOf(tx[r].order)
           set == [i \in items |-> Received(Summed(r), i)]
           t == [tx[r] EXCEPT !.set = set, !.todo = items]
<1>3. /\ tx' = [tx EXCEPT ![r].set = set, ![r].todo = items]
      /\ Goto(r, "items") /\ UNCHANGED <<begun, tables, locks>>
  BY DEF SumReceived
<1>4. items \subseteq Items
  BY DEF ItemsOf
<1>5. DOMAIN set = items /\ \A i \in items : set[i] = Received(Summed(r), i)
  OBVIOUS
<1> HIDE DEF set, items
<1>6. /\ t.op = "confirm" /\ t.order = tx[r].order /\ t.id = tx[r].id
      /\ t.todo = items /\ t.set = set /\ IsTransaction(t)
  BY <1>1, <1>4 DEF IsTransaction, TransactionOf
<1>7. tx' = [tx EXCEPT ![r] = t]
  BY Zenon, <1>1, <1>3
<1> HIDE DEF t
<1>8. ASSUME pc'[r] = "items", tx'[r] = t, locks'[r] = locks[r] PROVE Knows(r)'
  <2>1. \A i \in Items : Received(Summed(r), i)' = Received(Summed(r), i)
    BY <1>3, <1>6, <1>8 DEF Received, Summed, Confirmed, tables
  <2>2. /\ DOMAIN tx'[r].set = ItemsOf(tx'[r].order)
        /\ \A i \in ItemsOf(tx'[r].order) : tx'[r].set[i] = Received(Summed(r), i)'
    BY <1>4, <1>5, <1>6, <1>8, <2>1 DEF items
  <2>3. ConfirmKnows(r)'
    BY <1>1, <1>2, <1>3, <1>4, <1>6, <1>8, <2>2 DEF ConfirmKnows, tables, ItemsOf
  <2> QED BY <1>6, <1>8, <2>3 DEF Knows, OpOfStep
<1>9. "items" \in Steps \ {"idle"}
  BY DEF Steps
<1> QED BY <1>3, <1>6, <1>7, <1>8, <1>9, ReadStep

LEMMA CheckReceiptsStep ==
    ASSUME IInv, NEW r \in Requests, CheckReceipts(r) \/ CheckInvoiced(r)
    PROVE  IInv'
<1>1. CASE Rollback(r)
  BY <1>1, RollbackStep
<1>2. CASE ~ Rollback(r)
  <2>1. tx[r].op = "invoice" /\ Knows(r) /\ InvoiceKnows(r) /\ IsTransaction(tx[r])
        /\ tx = [q \in Requests |-> tx[q]]
    BY OpOf DEF CheckReceipts, CheckInvoiced, Knows
  <2>2. PICK step \in {"invoiced", "insertInvoice"} :
          Goto(r, step) /\ UNCHANGED <<begun, tables, tx, locks>>
    BY <1>2 DEF CheckReceipts, CheckInvoiced
  <2> DEFINE t == tx[r]
  <2>3. tx' = [tx EXCEPT ![r] = t] /\ IsTransaction(t)
    BY <2>1, <2>2
  <2>4. ASSUME pc'[r] = step, tx'[r] = t PROVE Knows(r)'
    BY <2>1, <2>2, <2>4 DEF Knows, OpOfStep, InvoiceKnows, tables
  <2>5. step \in Steps \ {"idle"}
    BY DEF Steps
  <2> HIDE DEF t
  <2> QED BY <2>2, <2>3, <2>4, <2>5, ReadStep
<1> QED BY <1>1, <1>2

LEMMA PayOp ==
    ASSUME IInv, NEW r \in Requests, tx[r].op = "pay"
    PROVE  /\ PayKnows(r) /\ Knows(r) /\ IsTransaction(tx[r]) /\ TypeOK
           /\ tx = [q \in Requests |-> tx[q]]
           /\ DOMAIN tx[r].set \subseteq Invoices /\ tx[r].todo \subseteq DOMAIN tx[r].set
BY OpOf DEF Knows, PayKnows

LEMMA LockPayableStep ==
    ASSUME IInv, NEW r \in Requests, LockPayable(r)
    PROVE  IInv'
<1>1. CASE Rollback(r)
  BY <1>1, RollbackStep
<1>2. CASE ~ Rollback(r)
  <2>1. tx[r].op = "pay" /\ pc[r] = "payables"
    BY OpOf DEF LockPayable
  <2>2. /\ PayKnows(r) /\ Knows(r) /\ IsTransaction(tx[r]) /\ TypeOK
        /\ tx = [q \in Requests |-> tx[q]]
        /\ DOMAIN tx[r].set \subseteq Invoices /\ tx[r].todo \subseteq DOMAIN tx[r].set
    BY <2>1, PayOp
  <2> DEFINE v == Min(tx[r].todo)
             t == [tx[r] EXCEPT !.todo = @ \ {v}]
             step == IF tx[r].todo = {v} THEN "invoices" ELSE "payables"
             taken == {PayableLock(v)}
  <2>3. /\ Acquire(r, PayableLock(v)) /\ tx' = [tx EXCEPT ![r].todo = @ \ {v}]
        /\ Goto(r, step) /\ UNCHANGED <<begun, tables>>
    BY <1>2 DEF LockPayable, NextSorted
  <2>4. v \in tx[r].todo
    <3>1. tx[r].todo # {} /\ tx[r].todo \subseteq Nat
      BY <2>1, <2>2, IdsFinite DEF PayKnows
    <3> QED BY <3>1, MinIn
  <2> HIDE DEF v
  <2>5. /\ t.op = "pay" /\ t.todo = tx[r].todo \ {v} /\ t.set = tx[r].set
        /\ IsTransaction(t)
    BY <2>1, <2>2 DEF IsTransaction, TransactionOf
  <2>6. tx' = [tx EXCEPT ![r] = t]
    BY Zenon, <2>2, <2>3
  <2>7. taken \in SUBSET Lockable /\ (\A x \in taken : Free(r, x))
        /\ locks' = [locks EXCEPT ![r] = locks[r] \union taken]
    BY <2>2, <2>3, <2>4, LockNames DEF Acquire
  <2>8. pc' = [pc EXCEPT ![r] = step] /\ step \in Steps \ {"idle"}
    BY <2>3 DEF Goto, Steps
  <2>9. step \in {"invoices", "payables"} /\ (step = "payables" <=> tx[r].todo \ {v} # {})
    BY <2>4
  <2>10. PayableLock(v) \in taken
    OBVIOUS
  <2> HIDE DEF t, step, taken
  <2>11. ASSUME pc'[r] = step, tx'[r] = t, locks'[r] = locks[r] \union taken
         PROVE  Knows(r)'
    <3>1. PayKnows(r)'
      BY <2>2, <2>3, <2>4, <2>5, <2>9, <2>10, <2>11 DEF PayKnows, tables
    <3> QED BY <2>5, <2>9, <2>11, <3>1 DEF Knows, OpOfStep
  <2> QED BY <2>3, <2>5, <2>6, <2>7, <2>8, <2>11, InnerStep
<1> QED BY <1>1, <1>2

LEMMA LockInvoicesStep ==
    ASSUME IInv, NEW r \in Requests, LockInvoices(r)
    PROVE  IInv'
<1>1. CASE Rollback(r)
  BY <1>1, RollbackStep
<1>2. CASE ~ Rollback(r)
  <2>1. tx[r].op = "pay" /\ pc[r] = "invoices"
    BY OpOf DEF LockInvoices
  <2>2. /\ PayKnows(r) /\ Knows(r) /\ IsTransaction(tx[r]) /\ TypeOK
        /\ tx = [q \in Requests |-> tx[q]] /\ DOMAIN tx[r].set \subseteq Invoices
    BY <2>1, PayOp
  <2> DEFINE wanted == DOMAIN tx[r].set
             taken == {InvoiceLock(v) : v \in wanted}
             t == tx[r]
  <2>3. /\ \A v \in wanted : Free(r, InvoiceLock(v))
        /\ \A v \in wanted : invoice[v].status # "cancelled"
        /\ locks' = [locks EXCEPT ![r] = locks[r] \union taken]
        /\ Goto(r, "allocate") /\ UNCHANGED <<begun, tables, tx>>
    BY <1>2 DEF LockInvoices
  <2>4. taken \in SUBSET Lockable /\ (\A x \in taken : Free(r, x))
        /\ \A v \in wanted : InvoiceLock(v) \in taken
    BY <2>2, <2>3, LockNames
  <2>5. pc' = [pc EXCEPT ![r] = "allocate"] /\ "allocate" \in Steps \ {"idle"}
    BY <2>3 DEF Goto, Steps
  <2>6. tx' = [tx EXCEPT ![r] = t] /\ IsTransaction(t)
    BY <2>2, <2>3
  <2> HIDE DEF taken
  <2>7. ASSUME pc'[r] = "allocate", tx'[r] = tx[r], locks'[r] = locks[r] \union taken
        PROVE  Knows(r)'
    <3>1. PayKnows(r)'
      BY <2>1, <2>2, <2>3, <2>4, <2>7 DEF PayKnows, tables
    <3> QED BY <2>1, <2>7, <3>1 DEF Knows, OpOfStep
  <2> HIDE DEF t
  <2> QED BY <2>3, <2>4, <2>5, <2>6, <2>7, InnerStep DEF t
<1> QED BY <1>1, <1>2

LEMMA AllocateStep ==
    ASSUME IInv, NEW r \in Requests, Allocate(r)
    PROVE  IInv'
<1>1. CASE Rollback(r)
  BY <1>1, RollbackStep
<1>2. CASE ~ Rollback(r)
  <2>1. tx[r].op = "pay" /\ pc[r] = "allocate"
    BY OpOf DEF Allocate
  <2>2. /\ PayKnows(r) /\ Knows(r) /\ IsTransaction(tx[r]) /\ TypeOK
        /\ tx = [q \in Requests |-> tx[q]] /\ DOMAIN tx[r].set \subseteq Invoices
    BY <2>1, PayOp
  <2> DEFINE paid == [v \in DOMAIN tx[r].set |-> allocated[v] + tx[r].set[v]]
             t == [tx[r] EXCEPT !.paid = paid]
  <2>3. /\ \A v \in DOMAIN paid : WithinAmount(v, paid[v])
        /\ tx' = [tx EXCEPT ![r].paid = paid]
        /\ Goto(r, "commit") /\ UNCHANGED <<begun, tables, locks>>
    BY <1>2 DEF Allocate
  <2>4. DOMAIN paid = DOMAIN tx[r].set
        /\ \A v \in DOMAIN tx[r].set : paid[v] = allocated[v] + tx[r].set[v]
    OBVIOUS
  <2> HIDE DEF paid
  <2>5. /\ t.op = "pay" /\ t.todo = tx[r].todo /\ t.set = tx[r].set /\ t.paid = paid
        /\ IsTransaction(t)
    BY <2>1, <2>2 DEF IsTransaction, TransactionOf
  <2>6. tx' = [tx EXCEPT ![r] = t]
    BY Zenon, <2>2, <2>3
  <2> HIDE DEF t
  <2>7. ASSUME pc'[r] = "commit", tx'[r] = t, locks'[r] = locks[r] PROVE Knows(r)'
    <3>1. PayKnows(r)'
      BY <2>1, <2>2, <2>3, <2>4, <2>5, <2>7 DEF PayKnows, tables, WithinAmount
    <3> QED BY <2>5, <2>7, <3>1 DEF Knows, OpOfStep
  <2>8. "commit" \in Steps \ {"idle"}
    BY DEF Steps
  <2> QED BY <2>3, <2>5, <2>6, <2>7, <2>8, ReadStep
<1> QED BY <1>1, <1>2

-----------------------------------------------------------------------------
(* Steps that write tables: the request is idle afterwards.                *)
Respects(held) ==
    /\ \A g \in Receipts : receipt[g].status # "none" =>
         /\ receipt'[g].status # "none" /\ receipt'[g].order = receipt[g].order
         /\ receipt'[g].lines = receipt[g].lines
    /\ \A g \in Receipts : receipt[g].status # "none" /\ ReceiptLock(g) \in held =>
         receipt'[g].status = receipt[g].status
    /\ \A o \in Orders : OrderLock(o) \in held =>
         order'[o] = order[o] /\ Confirmed(o)' = Confirmed(o)
    /\ \A v \in Invoices : payable[v].status # "none" =>
         /\ payable'[v].status # "none" /\ payable'[v].amount = payable[v].amount
         /\ invoice'[v].amount = invoice[v].amount
    /\ \A v \in Invoices : PayableLock(v) \in held => allocated'[v] = allocated[v]
    /\ \A v \in Invoices : InvoiceLock(v) \in held =>
         (invoice[v].status # "cancelled" => invoice'[v].status # "cancelled")

RowTypes ==
    /\ order \in [Orders -> OrderStatuses] /\ item \in [Items -> ItemRow]
    /\ receipt \in [Receipts -> ReceiptRow] /\ invoice \in [Invoices -> InvoiceRow]
    /\ payable \in [Invoices -> PayableRow] /\ allocated \in [Invoices -> Nat]
    /\ \A v \in Invoices : invoice[v].status = "none" <=> payable[v].status = "none"

RowsRight ==
    /\ RowTypes
    /\ \A i \in Items : item[i].received = Received(Confirmed(OrderOf[i]), i)
    /\ PaymentsAddUp /\ NothingReceived

Idle(r) ==
    /\ pc' = [pc EXCEPT ![r] = "idle"] /\ tx' = [tx EXCEPT ![r] = NoTx]
    /\ locks' = [locks EXCEPT ![r] = {}] /\ begun' \in 0 .. MaxRequests

LEMMA RowsOf ==
    ASSUME IInv
    PROVE  RowsRight /\ RowTypes
BY DEF IInv, ReceivedIsSumOfReceipts, TypeOK, RowsRight, RowTypes

LEMMA TableStep ==
    ASSUME IInv, NEW r \in Requests, Idle(r), RowsRight',
           \A q \in Requests \ {r} : Respects(locks[q])
    PROVE  IInv'
<1>1. /\ TypeOK /\ LocksExclusive /\ tx = [q \in Requests |-> tx[q]]
      /\ \A q \in Requests : IsTransaction(tx[q]) /\ Knows(q)
  BY DEF IInv, ReceivedIsSumOfReceipts
<1>2. /\ pc'[r] = "idle" /\ tx'[r] = NoTx /\ locks'[r] = {}
      /\ \A q \in Requests \ {r} :
           pc'[q] = pc[q] /\ tx'[q] = tx[q] /\ locks'[q] = locks[q]
  BY <1>1 DEF Idle, TypeOK
<1>3. LocksExclusive' /\ locks' \in [Requests -> SUBSET Lockable]
  BY <1>1, ReleaseExclusive DEF Idle, TypeOK
<1>4. pc' \in [Requests -> Steps] /\ tx' = [q \in Requests |-> tx'[q]]
  BY <1>1 DEF Idle, TypeOK, Steps
<1>5. \A q \in Requests : pc'[q] = "idle" => tx'[q] = NoTx /\ locks'[q] = {}
  BY <1>1, <1>2 DEF TypeOK
<1>6. TypeOK'
  BY <1>3, <1>4, <1>5 DEF TypeOK, RowsRight, RowTypes, Idle
<1>7. ReceivedIsSumOfReceipts' /\ PaymentsAddUp' /\ NothingReceived'
  BY <1>6 DEF RowsRight, ReceivedIsSumOfReceipts
<1>8. \A q \in Requests : IsTransaction(tx[q])'
  <2>1. \A q \in Requests : IsTransaction(tx'[q])
    BY <1>1, <1>2, NoTxFacts
  <2> QED BY <2>1 DEF IsTransaction, TransactionOf
<1>9. ASSUME NEW q \in Requests PROVE Knows(q)'
  <2>1. CASE q = r
    BY <1>2, <2>1, EndedKnows
  <2>2. CASE q # r
    <3>1. Respects(locks[q]) /\ Knows(q) /\ IsTransaction(tx[q])
          /\ pc'[q] = pc[q] /\ tx'[q] = tx[q] /\ locks'[q] = locks[q]
      BY <1>1, <1>2, <2>2
    <3> QED BY <1>1, <1>6, <3>1, KnowsKept DEF Respects
  <2> QED BY <2>1, <2>2
<1> QED BY <1>3, <1>4, <1>7, <1>8, <1>9 DEF IInv

LEMMA EndIdle ==
    ASSUME IInv, NEW r \in Requests, End(r)
    PROVE  Idle(r)
BY OpOf DEF End, Goto, Idle, TypeOK

LEMMA AutocommitIdle ==
    ASSUME IInv, NEW r \in Requests, Autocommit(r)
    PROVE  Idle(r)
<1>1. TypeOK /\ tx = [q \in Requests |-> tx[q]]
  BY OpOf
<1>2. pc[r] = "idle" /\ begun < MaxRequests /\ begun' = begun + 1
      /\ pc' = pc /\ tx' = tx /\ locks' = locks
  BY DEF Autocommit
<1>3. tx[r] = NoTx /\ locks[r] = {}
  BY <1>1, <1>2 DEF TypeOK
<1>4. pc' = [pc EXCEPT ![r] = "idle"] /\ locks' = [locks EXCEPT ![r] = {}]
  BY <1>1, <1>2, <1>3 DEF TypeOK
<1>5. tx' = [tx EXCEPT ![r] = NoTx]
  BY <1>1, <1>2, <1>3
<1> QED BY <1>1, <1>2, <1>4, <1>5, BegunOnce DEF Idle

LEMMA ReceivedUnchanged ==
    ASSUME receipt' = receipt
    PROVE  /\ \A o \in Orders : Confirmed(o)' = Confirmed(o)
           /\ \A i \in Items : Received(Confirmed(OrderOf[i]), i)'
                                 = Received(Confirmed(OrderOf[i]), i)
BY DEF Received, Confirmed

LEMMA Receives == \A i \in Items : OrderOf[i] \in Orders
BY PurchasingConstants

LEMMA ConfirmOrderStep ==
    ASSUME IInv, NEW r \in Requests, ConfirmOrder(r)
    PROVE  IInv'
<1>1. PICK o \in Orders :
        /\ Free(r, OrderLock(o)) /\ order[o] = "draft"
        /\ order' = [order EXCEPT ![o] = "confirmed"]
  BY DEF ConfirmOrder
<1>2. Autocommit(r) /\ UNCHANGED <<item, receipt, invoice, payable, allocated>>
  BY DEF ConfirmOrder
<1>3. RowsRight
  BY RowsOf
<1>4. RowsRight'
  <2>1. RowTypes'
    BY <1>1, <1>2, <1>3 DEF RowsRight, RowTypes, OrderStatuses
  <2>2. \A i \in Items : item'[i].received = Received(Confirmed(OrderOf[i]), i)'
    BY <1>2, <1>3, ReceivedUnchanged DEF RowsRight
  <2>3. PaymentsAddUp'
    BY <1>2, <1>3 DEF RowsRight, PaymentsAddUp
  <2>4. NothingReceived'
    BY <1>1, <1>2, <1>3, Receives DEF RowsRight, RowTypes, NothingReceived
  <2> QED BY <2>1, <2>2, <2>3, <2>4 DEF RowsRight
<1>5. ASSUME NEW q \in Requests \ {r} PROVE Respects(locks[q])
  <2>1. OrderLock(o) \notin locks[q]
    BY <1>1 DEF Free, Taken
  <2> QED BY <1>1, <1>2, <1>3, <2>1, ReceivedUnchanged DEF Respects, RowsRight, RowTypes
<1> QED BY <1>2, <1>4, <1>5, AutocommitIdle, TableStep

LEMMA CancelOrderStep ==
    ASSUME IInv, NEW r \in Requests, CancelOrder(r)
    PROVE  IInv'
<1>1. PICK o \in Orders :
        /\ Free(r, OrderLock(o)) /\ order[o] \in {"draft", "confirmed"}
        /\ order' = [order EXCEPT ![o] = "cancelled"]
  BY DEF CancelOrder, OrderCancellable
<1>2. Autocommit(r) /\ UNCHANGED <<item, receipt, invoice, payable, allocated>>
  BY DEF CancelOrder
<1>3. RowsRight
  BY RowsOf
<1>4. RowsRight'
  <2>1. RowTypes'
    BY <1>1, <1>2, <1>3 DEF RowsRight, RowTypes, OrderStatuses
  <2>2. \A i \in Items : item'[i].received = Received(Confirmed(OrderOf[i]), i)'
    BY <1>2, <1>3, ReceivedUnchanged DEF RowsRight
  <2>3. PaymentsAddUp'
    BY <1>2, <1>3 DEF RowsRight, PaymentsAddUp
  <2>4. NothingReceived'
    BY <1>1, <1>2, <1>3, Receives DEF RowsRight, RowTypes, NothingReceived
  <2> QED BY <2>1, <2>2, <2>3, <2>4 DEF RowsRight
<1>5. ASSUME NEW q \in Requests \ {r} PROVE Respects(locks[q])
  <2>1. OrderLock(o) \notin locks[q]
    BY <1>1 DEF Free, Taken
  <2> QED BY <1>1, <1>2, <1>3, <2>1, ReceivedUnchanged DEF Respects, RowsRight, RowTypes
<1> QED BY <1>2, <1>4, <1>5, AutocommitIdle, TableStep

LEMMA CancelInvoiceStep ==
    ASSUME IInv, NEW r \in Requests, CancelInvoice(r)
    PROVE  IInv'
<1>1. PICK v \in Invoices :
        /\ Free(r, InvoiceLock(v)) /\ InvoiceCancellable(v)
        /\ invoice' = [invoice EXCEPT ![v].status = "cancelled"]
  BY DEF CancelInvoice
<1>2. Autocommit(r) /\ UNCHANGED <<order, item, receipt, payable, allocated>>
  BY DEF CancelInvoice
<1>3. RowsRight
  BY RowsOf
<1> DEFINE row == [invoice[v] EXCEPT !.status = "cancelled"]
<1>4. invoice[v] \in InvoiceRow /\ invoice[v].status # "none" /\ invoice[v].paid = 0
  BY <1>1, <1>3 DEF RowsRight, RowTypes, InvoiceCancellable
<1>5. invoice[v] \in [status : {"unpaid", "partial", "paid", "cancelled"},
                      receipts : SUBSET Receipts, amount : Nat, paid : Nat]
  BY <1>4 DEF InvoiceRow, NoInvoice
<1>6. /\ row.status = "cancelled" /\ row.amount = invoice[v].amount /\ row.paid = 0
      /\ row \in InvoiceRow
  BY <1>4, <1>5 DEF InvoiceRow
<1>7. invoice' = [invoice EXCEPT ![v] = row]
  BY <1>1, <1>3 DEF RowsRight, RowTypes
<1> HIDE DEF row
<1>8. /\ invoice' \in [Invoices -> InvoiceRow] /\ invoice'[v] = row
      /\ \A w \in Invoices \ {v} : invoice'[w] = invoice[w]
  BY <1>3, <1>6, <1>7 DEF RowsRight, RowTypes
<1>9. RowsRight'
  <2>1. RowTypes'
    BY <1>2, <1>3, <1>4, <1>6, <1>8 DEF RowsRight, RowTypes
  <2>2. \A i \in Items : item'[i].received = Received(Confirmed(OrderOf[i]), i)'
    BY <1>2, <1>3, ReceivedUnchanged DEF RowsRight
  <2>3. PaymentsAddUp'
    BY <1>2, <1>3, <1>4, <1>6, <1>8 DEF RowsRight, PaymentsAddUp
  <2>4. NothingReceived'
    BY <1>2, <1>3 DEF RowsRight, NothingReceived
  <2> QED BY <2>1, <2>2, <2>3, <2>4 DEF RowsRight
<1>10. ASSUME NEW q \in Requests \ {r} PROVE Respects(locks[q])
  <2>1. InvoiceLock(v) \notin locks[q]
    BY <1>1 DEF Free, Taken
  <2>2. \A w \in Invoices : invoice'[w].amount = invoice[w].amount
    BY <1>6, <1>8
  <2> QED BY <1>2, <1>8, <2>1, <2>2, ReceivedUnchanged DEF Respects
<1> QED BY <1>2, <1>9, <1>10, AutocommitIdle, TableStep

LEMMA CommitUpdateStep ==
    ASSUME IInv, NEW r \in Requests, CommitUpdate(r)
    PROVE  IInv'
<1>1. UpdateKnows(r) /\ RowsRight
  BY OpOf, RowsOf DEF CommitUpdate, Knows
<1>2. End(r) /\ UNCHANGED <<order, receipt, invoice, payable, allocated>>
  BY DEF CommitUpdate
<1> DEFINE set == tx[r].set
           row(i) == IF i \in DOMAIN set THEN [item[i] EXCEPT !.quantity = set[i]]
                     ELSE item[i]
<1>3. item' = [i \in Items |-> row(i)]
  BY DEF CommitUpdate
<1>4. ASSUME NEW i \in Items
      PROVE  row(i) \in ItemRow /\ row(i).received = item[i].received
  <2>1. item[i] \in ItemRow
    BY <1>1 DEF RowsRight, RowTypes
  <2>2. i \in DOMAIN set => set[i] \in Nat \ {0}
    BY <1>1, PurchasingConstants DEF UpdateKnows
  <2> QED BY <2>1, <2>2 DEF ItemRow
<1> HIDE DEF row, set
<1>5. item' \in [Items -> ItemRow] /\ \A i \in Items : item'[i].received = item[i].received
  BY <1>3, <1>4
<1>6. RowsRight'
  <2>1. RowTypes'
    BY <1>1, <1>2, <1>5 DEF RowsRight, RowTypes
  <2>2. \A i \in Items : item'[i].received = Received(Confirmed(OrderOf[i]), i)'
    BY <1>1, <1>2, <1>5, ReceivedUnchanged DEF RowsRight
  <2>3. PaymentsAddUp' /\ NothingReceived'
    BY <1>1, <1>2, <1>5 DEF RowsRight, PaymentsAddUp, NothingReceived
  <2> QED BY <2>1, <2>2, <2>3 DEF RowsRight
<1>7. ASSUME NEW q \in Requests \ {r} PROVE Respects(locks[q])
  BY <1>2, ReceivedUnchanged DEF Respects
<1> QED BY <1>2, <1>6, <1>7, EndIdle, TableStep

(* A new or a confirmed receipt, and what has been received then.          *)
LEMMA InsertedReceipt ==
    ASSUME IInv, NEW r \in Requests, InsertReceipt(r)
    PROVE  /\ receipt \in [Receipts -> ReceiptRow] /\ receipt' \in [Receipts -> ReceiptRow]
           /\ \A o \in Orders : Confirmed(o)' = Confirmed(o)
           /\ \A g \in Receipts :
                receipt[g].status # "none" => receipt'[g] = receipt[g]
<1> DEFINE fresh == {g \in Receipts : receipt[g].status = "none"}
           f == Min(fresh)
           row == [status |-> "draft", order |-> tx[r].order, lines |-> tx[r].lines]
<1>1. ReceiveKnows(r) /\ RowsRight /\ tx[r].lines \in Seq(Line)
  BY OpOf, RowsOf DEF InsertReceipt, Knows, IsTransaction, TransactionOf
<1>2. fresh # {} /\ receipt' = [receipt EXCEPT ![f] = row]
  BY DEF InsertReceipt
<1>3. f \in Receipts /\ receipt[f].status = "none"
  <2>1. fresh \in SUBSET Nat
    BY IdsFinite
  <2>2. f \in fresh
    BY <1>2, <2>1, MinIn
  <2> QED BY <2>2
<1>4. row \in ReceiptRow /\ row.status = "draft"
  BY <1>1 DEF ReceiveKnows, ReceiptRow
<1> HIDE DEF f, fresh, row
<1>5. /\ receipt \in [Receipts -> ReceiptRow] /\ receipt' \in [Receipts -> ReceiptRow]
      /\ receipt'[f] = row /\ \A g \in Receipts \ {f} : receipt'[g] = receipt[g]
  BY <1>1, <1>2, <1>3, <1>4 DEF RowsRight, RowTypes
<1>6. \A o \in Orders : Confirmed(o)' = Confirmed(o)
  BY <1>3, <1>4, <1>5 DEF Confirmed
<1> QED BY <1>3, <1>5, <1>6

LEMMA InsertReceiptStep ==
    ASSUME IInv, NEW r \in Requests, InsertReceipt(r)
    PROVE  IInv'
<1>1. RowsRight
  BY RowsOf
<1>2. End(r) /\ UNCHANGED <<order, item, invoice, payable, allocated>>
  BY DEF InsertReceipt
<1>5. /\ receipt \in [Receipts -> ReceiptRow] /\ receipt' \in [Receipts -> ReceiptRow]
      /\ \A g \in Receipts : receipt[g].status # "none" => receipt'[g] = receipt[g]
  BY InsertedReceipt
<1>6. \A o \in Orders : Confirmed(o)' = Confirmed(o)
  BY InsertedReceipt
<1>7. ASSUME NEW i \in Items
      PROVE  Received(Confirmed(OrderOf[i]), i)' = Received(Confirmed(OrderOf[i]), i)
  <2> DEFINE S == Confirmed(OrderOf[i])  next == receipt'
  <2>1. /\ S \in SUBSET Receipts /\ Confirmed(OrderOf[i])' = S
        /\ \A g \in S : receipt[g].status # "none"
    BY <1>6, Receives DEF Confirmed
  <2> HIDE DEF S, next
  <2>2. Received(Confirmed(OrderOf[i]), i)' = Brought(next, S, i)
    BY Zenon, <2>1 DEF Received, next
  <2>3. Received(Confirmed(OrderOf[i]), i) = Brought(receipt, S, i)
    BY Zenon DEF Received, S
  <2>4. \A g \in S : next[g].lines = receipt[g].lines
    BY <1>5, <2>1 DEF next
  <2>5. next \in [Receipts -> ReceiptRow]
    BY <1>5 DEF next
  <2>6. Brought(next, S, i) = Brought(receipt, S, i)
    BY <1>5, <2>1, <2>4, <2>5, BroughtSame
  <2> QED BY <2>2, <2>3, <2>6
<1>8. RowsRight'
  <2>1. RowTypes'
    BY <1>1, <1>2, <1>5 DEF RowsRight, RowTypes
  <2>2. \A i \in Items : item'[i].received = Received(Confirmed(OrderOf[i]), i)'
    BY <1>1, <1>2, <1>7 DEF RowsRight
  <2>3. PaymentsAddUp' /\ NothingReceived'
    BY <1>1, <1>2 DEF RowsRight, PaymentsAddUp, NothingReceived
  <2> QED BY <2>1, <2>2, <2>3 DEF RowsRight
<1>9. ASSUME NEW q \in Requests \ {r} PROVE Respects(locks[q])
  BY <1>2, <1>5, <1>6 DEF Respects
<1> QED BY <1>2, <1>8, <1>9, EndIdle, TableStep

(* What CommitConfirm writes.                                              *)
LEMMA Confirming ==
    ASSUME IInv, NEW r \in Requests, CommitConfirm(r)
    PROVE  LET o == tx[r].order  g == tx[r].id  received == tx[r].set IN
           /\ ConfirmKnows(r) /\ o \in Orders /\ g \in Receipts
           /\ order[o] \in {"confirmed", "partial"}
           /\ receipt[g].status = "draft" /\ receipt[g].order = o
           /\ receipt' \in [Receipts -> ReceiptRow]
           /\ receipt'[g].status = "confirmed"
           /\ \A f \in Receipts \ {g} : receipt'[f] = receipt[f]
           /\ \A f \in Receipts :
                receipt'[f].lines = receipt[f].lines /\ receipt'[f].order = receipt[f].order
           /\ \A p \in Orders : Confirmed(p)' = IF p = o THEN Summed(r) ELSE Confirmed(p)
           /\ item' \in [Items -> ItemRow]
           /\ \A i \in Items :
                /\ i \in ItemsOf(o) => item'[i].received = received[i]
                /\ i \notin ItemsOf(o) => item'[i].received = item[i].received
                /\ item'[i].quantity = item[i].quantity
           /\ \A i \in ItemsOf(o) : received[i] \in Nat
                                    /\ received[i] = Brought(receipt, Summed(r), i)
           /\ order' = [order EXCEPT ![o] = StatusFrom(o, received)]
<1> DEFINE o == tx[r].order  g == tx[r].id  received == tx[r].set
           row == [receipt[g] EXCEPT !.status = "confirmed"]
           irow(i) == IF i \in ItemsOf(o) THEN [item[i] EXCEPT !.received = received[i]]
                      ELSE item[i]
<1>1. ConfirmKnows(r) /\ RowsRight /\ pc[r] = "commit"
  BY OpOf, RowsOf DEF CommitConfirm, Knows
<1>2. /\ o \in Orders /\ g \in Receipts /\ receipt[g].status = "draft" /\ receipt[g].order = o
      /\ order[o] \in {"confirmed", "partial"}
      /\ \A i \in ItemsOf(o) : received[i] = Received(Summed(r), i)
  BY <1>1 DEF ConfirmKnows
<1>3. receipt \in [Receipts -> ReceiptRow] /\ item \in [Items -> ItemRow]
  BY <1>1 DEF RowsRight, RowTypes
<1>4. /\ receipt' = [receipt EXCEPT ![g].status = "confirmed"]
      /\ item' = [i \in Items |-> irow(i)]
      /\ order' = [order EXCEPT ![o] = StatusFrom(o, received)]
  BY DEF CommitConfirm
<1>5. receipt[g] \in [status : {"draft", "confirmed"}, order : Orders, lines : Seq(Line)]
  BY <1>2, <1>3 DEF ReceiptRow, NoReceipt
<1>6. row \in ReceiptRow /\ row.status = "confirmed" /\ row.order = o
      /\ row.lines = receipt[g].lines
  BY <1>2, <1>5 DEF ReceiptRow
<1>7. receipt' = [receipt EXCEPT ![g] = row]
  BY <1>3, <1>4
<1> HIDE DEF row
<1>8. /\ receipt' \in [Receipts -> ReceiptRow] /\ receipt'[g] = row
      /\ \A f \in Receipts \ {g} : receipt'[f] = receipt[f]
  BY <1>2, <1>3, <1>6, <1>7
<1>9. \A f \in Receipts :
        receipt'[f].lines = receipt[f].lines /\ receipt'[f].order = receipt[f].order
  BY <1>2, <1>6, <1>8
<1>10. \A p \in Orders : Confirmed(p)' = IF p = o THEN Summed(r) ELSE Confirmed(p)
  BY <1>2, <1>6, <1>8 DEF Confirmed, Summed
<1>11. \A i \in ItemsOf(o) : received[i] = Brought(receipt, Summed(r), i)
  BY <1>2 DEF Received
<1>12. \A i \in ItemsOf(o) : received[i] \in Nat
  <2>1. Summed(r) \in SUBSET Receipts
    BY <1>2 DEF Summed, Confirmed
  <2> QED BY <1>3, <1>11, <2>1, BroughtNat
<1>13. ASSUME NEW i \in Items
       PROVE  /\ irow(i) \in ItemRow
              /\ i \in ItemsOf(o) => irow(i).received = received[i]
              /\ i \notin ItemsOf(o) => irow(i).received = item[i].received
              /\ irow(i).quantity = item[i].quantity
  <2>1. item[i] \in ItemRow
    BY <1>3
  <2> QED BY <1>12, <2>1 DEF ItemRow
<1> HIDE DEF irow
<1>14. /\ item' \in [Items -> ItemRow]
       /\ \A i \in Items :
            /\ i \in ItemsOf(o) => item'[i].received = received[i]
            /\ i \notin ItemsOf(o) => item'[i].received = item[i].received
            /\ item'[i].quantity = item[i].quantity
  BY <1>4, <1>13
<1> QED BY <1>1, <1>2, <1>4, <1>6, <1>8, <1>9, <1>10, <1>11, <1>12, <1>14

LEMMA CommitConfirmStep ==
    ASSUME IInv, NEW r \in Requests, CommitConfirm(r)
    PROVE  IInv'
<1> DEFINE o == tx[r].order  g == tx[r].id  received == tx[r].set
<1>1. /\ ConfirmKnows(r) /\ o \in Orders /\ g \in Receipts
      /\ order[o] \in {"confirmed", "partial"}
      /\ receipt[g].status = "draft" /\ receipt[g].order = o
      /\ receipt' \in [Receipts -> ReceiptRow] /\ receipt'[g].status = "confirmed"
      /\ \A f \in Receipts \ {g} : receipt'[f] = receipt[f]
      /\ \A f \in Receipts :
           receipt'[f].lines = receipt[f].lines /\ receipt'[f].order = receipt[f].order
      /\ \A p \in Orders : Confirmed(p)' = IF p = o THEN Summed(r) ELSE Confirmed(p)
  BY Confirming
<1>2. /\ item' \in [Items -> ItemRow]
      /\ \A i \in Items :
           /\ i \in ItemsOf(o) => item'[i].received = received[i]
           /\ i \notin ItemsOf(o) => item'[i].received = item[i].received
      /\ \A i \in ItemsOf(o) : received[i] \in Nat
                               /\ received[i] = Brought(receipt, Summed(r), i)
      /\ order' = [order EXCEPT ![o] = StatusFrom(o, received)]
  BY Confirming
<1>3. End(r) /\ UNCHANGED <<invoice, payable, allocated>> /\ pc[r] = "commit"
  BY DEF CommitConfirm
<1>4. RowsRight /\ receipt \in [Receipts -> ReceiptRow] /\ order \in [Orders -> OrderStatuses]
  BY RowsOf DEF RowTypes
<1>5. /\ StatusFrom(o, received) \in {"confirmed", "partial", "received"}
      /\ StatusFrom(o, received) = "confirmed" =>
           \A i \in ItemsOf(o) : ~ (received[i] > 0)
  BY <1>1 DEF StatusFrom
<1>6. ASSUME NEW i \in Items
      PROVE  item'[i].received = Received(Confirmed(OrderOf[i]), i)'
  <2> DEFINE p == OrderOf[i]  S == Confirmed(p)'  next == receipt'
  <2>1. p \in Orders /\ (i \in ItemsOf(o) <=> p = o)
    BY Receives DEF ItemsOf
  <2>2. S \in SUBSET Receipts
    BY <1>1 DEF Confirmed
  <2>3. Received(Confirmed(p), i)' = Brought(next, S, i)
    BY Zenon DEF Received, next, S
  <2> HIDE DEF S, next
  <2>4. next \in [Receipts -> ReceiptRow] /\ \A f \in S : next[f].lines = receipt[f].lines
    BY <1>1, <2>2 DEF next
  <2>5. Brought(next, S, i) = Brought(receipt, S, i)
    BY <1>4, <2>2, <2>4, BroughtSame
  <2>6. CASE p = o
    BY <1>1, <1>2, <2>1, <2>3, <2>5, <2>6 DEF S
  <2>7. CASE p # o
    <3>1. S = Confirmed(p) /\ item[i].received = Received(Confirmed(p), i)
      BY <1>1, <1>4, <2>1, <2>7 DEF S, RowsRight
    <3>2. item[i].received = Brought(receipt, S, i)
      BY Zenon, <3>1 DEF Received
    <3> QED BY <1>2, <2>1, <2>3, <2>5, <2>7, <3>2
  <2> QED BY <2>6, <2>7
<1>7. RowsRight'
  <2>1. RowTypes'
    BY <1>1, <1>2, <1>3, <1>4, <1>5 DEF RowsRight, RowTypes, OrderStatuses
  <2>2. PaymentsAddUp'
    BY <1>3, <1>4 DEF RowsRight, PaymentsAddUp
  <2>3. NothingReceived'
    <3> SUFFICES ASSUME NEW i \in Items,
                        order'[OrderOf[i]] \in {"draft", "confirmed", "cancelled"}
                 PROVE  item'[i].received = 0
      BY DEF NothingReceived
    <3>1. CASE OrderOf[i] = o
      <4>1. i \in ItemsOf(o)
        BY <3>1 DEF ItemsOf
      <4>2. order'[o] = StatusFrom(o, received)
        BY <1>1, <1>2, <1>4
      <4>3. ~ (received[i] > 0) /\ received[i] \in Nat
        BY <1>2, <1>5, <3>1, <4>1, <4>2
      <4> QED BY <1>2, <4>1, <4>3
    <3>2. CASE OrderOf[i] # o
      <4>1. order'[OrderOf[i]] = order[OrderOf[i]] /\ i \notin ItemsOf(o)
        BY <1>2, <1>4, <3>2, Receives DEF ItemsOf
      <4> QED BY <1>2, <1>4, <4>1 DEF RowsRight, NothingReceived
    <3> QED BY <3>1, <3>2
  <2> QED BY <1>6, <2>1, <2>2, <2>3 DEF RowsRight
<1>8. ASSUME NEW q \in Requests \ {r} PROVE Respects(locks[q])
  <2>1. ReceiptLock(g) \notin locks[q] /\ OrderLock(o) \notin locks[q]
    BY <1>1, <1>3, OpOf DEF ConfirmKnows, LocksExclusive
  <2>2. \A f \in Receipts : receipt[f].status # "none" => receipt'[f].status # "none"
    BY <1>1
  <2>3. \A f \in Receipts : ReceiptLock(f) \in locks[q] => receipt'[f].status = receipt[f].status
    BY <1>1, <2>1
  <2>4. \A p \in Orders : OrderLock(p) \in locks[q] =>
          order'[p] = order[p] /\ Confirmed(p)' = Confirmed(p)
    BY <1>1, <1>2, <1>4, <2>1
  <2> QED BY <1>1, <1>3, <2>2, <2>3, <2>4 DEF Respects
<1> QED BY <1>3, <1>7, <1>8, EndIdle, TableStep

LEMMA InsertInvoiceStep ==
    ASSUME IInv, NEW r \in Requests, InsertInvoice(r)
    PROVE  IInv'
<1> DEFINE fresh == {w \in Invoices : invoice[w].status = "none"}
           v == Min(fresh)
           amount == AmountOf(tx[r].receipts)
           row == [status |-> "unpaid", amount |-> amount, receipts |-> tx[r].receipts,
                   paid |-> 0]
           prow == [status |-> "open", amount |-> amount, paid |-> 0]
<1>1. RowsRight /\ RowTypes /\ tx[r].receipts \subseteq Receipts
  BY OpOf, RowsOf DEF IsTransaction, TransactionOf
<1>2. End(r) /\ UNCHANGED <<order, item, receipt, allocated>>
      /\ fresh # {} /\ invoice' = [invoice EXCEPT ![v] = row]
      /\ payable' = [payable EXCEPT ![v] = prow]
  BY DEF InsertInvoice
<1>3. v \in Invoices /\ invoice[v].status = "none" /\ payable[v].status = "none"
  <2>1. fresh \in SUBSET Nat
    BY IdsFinite
  <2>2. v \in fresh
    BY <1>2, <2>1, MinIn
  <2> QED BY <1>1, <2>2 DEF RowTypes
<1>4. amount \in Nat
  BY <1>1, AmountNat DEF RowTypes
<1> HIDE DEF amount
<1>5. /\ row \in InvoiceRow /\ row.status = "unpaid" /\ row.paid = 0 /\ row.amount = amount
      /\ prow \in PayableRow /\ prow.status = "open" /\ prow.paid = 0
  BY <1>1, <1>4 DEF InvoiceRow, PayableRow
<1>6. allocated[v] = 0
  <2>1. invoice[v].paid = 0
    BY <1>1, <1>3 DEF RowTypes, InvoiceRow, NoInvoice
  <2> QED BY <1>1, <1>3, <2>1 DEF RowsRight, PaymentsAddUp
<1> HIDE DEF v, fresh, row, prow
<1>7. /\ invoice' \in [Invoices -> InvoiceRow] /\ invoice'[v] = row
      /\ payable' \in [Invoices -> PayableRow] /\ payable'[v] = prow
      /\ \A w \in Invoices \ {v} : invoice'[w] = invoice[w] /\ payable'[w] = payable[w]
  BY <1>1, <1>2, <1>3, <1>5 DEF RowTypes
<1>8. RowsRight'
  <2>1. RowTypes'
    BY <1>1, <1>2, <1>5, <1>7 DEF RowTypes
  <2>2. \A i \in Items : item'[i].received = Received(Confirmed(OrderOf[i]), i)'
    BY <1>1, <1>2, ReceivedUnchanged DEF RowsRight
  <2>3. PaymentsAddUp'
    BY <1>1, <1>2, <1>4, <1>5, <1>6, <1>7 DEF RowsRight, PaymentsAddUp
  <2>4. NothingReceived'
    BY <1>1, <1>2 DEF RowsRight, NothingReceived
  <2> QED BY <2>1, <2>2, <2>3, <2>4 DEF RowsRight
<1>9. ASSUME NEW q \in Requests \ {r} PROVE Respects(locks[q])
  BY <1>2, <1>3, <1>5, <1>7, ReceivedUnchanged DEF Respects
<1> QED BY <1>2, <1>8, <1>9, EndIdle, TableStep

LEMMA CommitPaymentStep ==
    ASSUME IInv, NEW r \in Requests, CommitPayment(r)
    PROVE  IInv'
<1> DEFINE paid == tx[r].paid  set == tx[r].set  D == DOMAIN set
           sum(v) == allocated[v] + (IF v \in DOMAIN paid THEN set[v] ELSE 0)
           prow(v) == IF v \notin DOMAIN paid THEN payable[v] ELSE
              [payable[v] EXCEPT !.paid = paid[v],
                 !.status = PaidStatus(payable[v].amount, paid[v], "open")]
           irow(v) == IF v \notin DOMAIN paid THEN invoice[v] ELSE
              [invoice[v] EXCEPT !.paid = paid[v],
                 !.status = PaidStatus(payable[v].amount, paid[v], "unpaid")]
<1>1. RowsRight /\ RowTypes /\ LocksExclusive /\ tx[r].op = "pay" /\ pc[r] = "commit"
  BY OpOf, RowsOf DEF CommitPayment
<1>2. PayKnows(r) /\ D \subseteq Invoices
  BY <1>1, PayOp
<1>3. /\ End(r) /\ UNCHANGED <<order, item, receipt>>
      /\ allocated' = [v \in Invoices |-> sum(v)]
      /\ payable' = [v \in Invoices |-> prow(v)] /\ invoice' = [v \in Invoices |-> irow(v)]
  BY DEF CommitPayment
<1>4. /\ DOMAIN paid = D
      /\ \A v \in D : /\ PayableLock(v) \in locks[r] /\ InvoiceLock(v) \in locks[r]
                      /\ payable[v].status # "none" /\ invoice[v].status # "cancelled"
                      /\ paid[v] = allocated[v] + set[v] /\ set[v] \in Payments
                      /\ paid[v] <= invoice[v].amount
  BY <1>1, <1>2 DEF PayKnows, WithinAmount
<1>5. \A v \in D : paid[v] \in Nat /\ invoice[v].status \notin {"none", "cancelled"}
  <2> SUFFICES ASSUME NEW v \in D
               PROVE  paid[v] \in Nat /\ invoice[v].status \notin {"none", "cancelled"}
    OBVIOUS
  <2>1. v \in Invoices /\ paid[v] = allocated[v] + set[v] /\ set[v] \in Nat
    BY <1>2, <1>4, PurchasingConstants
  <2>2. allocated[v] \in Nat /\ invoice[v].status # "none"
    BY <1>1, <1>4, <2>1 DEF RowTypes
  <2> HIDE DEF paid, set, D
  <2>3. paid[v] \in Nat
    BY <2>1, <2>2
  <2> QED BY <1>4, <2>2, <2>3
<1> HIDE DEF paid, set, D
<1>6. ASSUME NEW v \in Invoices, v \notin D
      PROVE  allocated'[v] = allocated[v] /\ payable'[v] = payable[v] /\ invoice'[v] = invoice[v]
  <2>1. v \notin DOMAIN paid
    BY <1>4, <1>6
  <2>2. allocated[v] \in Nat
    BY <1>1 DEF RowTypes
  <2>3. allocated'[v] = allocated[v] + 0
    BY <1>3, <2>1
  <2>4. payable'[v] = payable[v] /\ invoice'[v] = invoice[v]
    BY <1>3, <2>1
  <2> QED BY <2>2, <2>3, <2>4
<1>7. ASSUME NEW v \in D
      PROVE  /\ v \in Invoices /\ allocated'[v] = paid[v]
             /\ payable'[v] \in PayableRow /\ payable'[v].status # "none"
             /\ payable'[v].paid = paid[v] /\ payable'[v].amount = payable[v].amount
             /\ invoice'[v] \in InvoiceRow /\ invoice'[v].status \notin {"none", "cancelled"}
             /\ invoice'[v].paid = paid[v] /\ invoice'[v].amount = invoice[v].amount
  <2>1. v \in Invoices /\ v \in DOMAIN paid /\ allocated'[v] = paid[v]
    BY <1>2, <1>3, <1>4
  <2>2. payable[v] \in [status : {"open", "partial", "paid"}, amount : Nat, paid : Nat]
    BY <1>1, <1>4, <2>1 DEF RowTypes, PayableRow, NoPayable
  <2>3. invoice[v] \in [status : {"unpaid", "partial", "paid", "cancelled"},
                        receipts : SUBSET Receipts, amount : Nat, paid : Nat]
    BY <1>1, <1>5, <2>1 DEF RowTypes, InvoiceRow, NoInvoice
  <2> DEFINE p == paid[v]
             ps == PaidStatus(payable[v].amount, p, "open")
             is == PaidStatus(payable[v].amount, p, "unpaid")
  <2>4. p \in Nat /\ ps \in {"open", "partial", "paid"} /\ is \in {"unpaid", "partial", "paid"}
    BY <1>5 DEF PaidStatus
  <2>5. payable'[v] = [payable[v] EXCEPT !.paid = p, !.status = ps]
        /\ invoice'[v] = [invoice[v] EXCEPT !.paid = p, !.status = is]
    BY <1>3, <2>1
  <2> HIDE DEF p, ps, is
  <2>6. /\ payable'[v] \in PayableRow /\ payable'[v].status # "none"
        /\ payable'[v].paid = p /\ payable'[v].amount = payable[v].amount
    BY <2>2, <2>4, <2>5 DEF PayableRow
  <2>7. /\ invoice'[v] \in InvoiceRow /\ invoice'[v].status \notin {"none", "cancelled"}
        /\ invoice'[v].paid = p /\ invoice'[v].amount = invoice[v].amount
    BY <2>3, <2>4, <2>5 DEF InvoiceRow
  <2> QED BY <2>1, <2>6, <2>7 DEF p
<1>8. RowsRight'
  <2>1. RowTypes'
    <3>1. /\ allocated' = [v \in Invoices |-> allocated'[v]]
          /\ payable' = [v \in Invoices |-> payable'[v]]
          /\ invoice' = [v \in Invoices |-> invoice'[v]]
      BY <1>3
    <3>2. \A v \in Invoices :
            /\ allocated'[v] \in Nat /\ payable'[v] \in PayableRow /\ invoice'[v] \in InvoiceRow
            /\ invoice'[v].status = "none" <=> payable'[v].status = "none"
      BY <1>1, <1>5, <1>6, <1>7 DEF RowTypes
    <3>3. /\ allocated' \in [Invoices -> Nat] /\ payable' \in [Invoices -> PayableRow]
          /\ invoice' \in [Invoices -> InvoiceRow]
      BY <3>1, <3>2
    <3> QED BY <1>1, <1>3, <3>2, <3>3 DEF RowTypes
  <2>2. \A i \in Items : item'[i].received = Received(Confirmed(OrderOf[i]), i)'
    BY <1>1, <1>3, ReceivedUnchanged DEF RowsRight
  <2>3. PaymentsAddUp'
    <3> SUFFICES ASSUME NEW v \in Invoices
                 PROVE  /\ payable'[v].paid = allocated'[v] /\ invoice'[v].paid = allocated'[v]
                        /\ allocated'[v] <= invoice'[v].amount
                        /\ invoice'[v].status = "cancelled" => allocated'[v] = 0
      BY DEF PaymentsAddUp
    <3>1. CASE v \in D
      BY <1>4, <1>7, <3>1
    <3>2. CASE v \notin D
      BY <1>1, <1>6, <3>2 DEF RowsRight, PaymentsAddUp
    <3> QED BY <3>1, <3>2
  <2>4. NothingReceived'
    BY <1>1, <1>3 DEF RowsRight, NothingReceived
  <2> QED BY <2>1, <2>2, <2>3, <2>4 DEF RowsRight
<1>9. ASSUME NEW q \in Requests \ {r} PROVE Respects(locks[q])
  <2>1. \A v \in D : PayableLock(v) \notin locks[q]
    BY <1>1, <1>4 DEF LocksExclusive
  <2>2. \A v \in Invoices : PayableLock(v) \in locks[q] => allocated'[v] = allocated[v]
    BY <1>6, <2>1
  <2>3. \A v \in Invoices : payable[v].status # "none" =>
          /\ payable'[v].status # "none" /\ payable'[v].amount = payable[v].amount
          /\ invoice'[v].amount = invoice[v].amount
    BY <1>6, <1>7
  <2>4. \A v \in Invoices : invoice[v].status # "cancelled" => invoice'[v].status # "cancelled"
    BY <1>6, <1>7
  <2> QED BY <1>3, <2>2, <2>3, <2>4, ReceivedUnchanged DEF Respects
<1> QED BY <1>3, <1>8, <1>9, EndIdle, TableStep

-----------------------------------------------------------------------------
(* The initial state, and every step.                                      *)
LEMMA InitInv ==
    ASSUME Init
    PROVE  IInv
<1>1. /\ begun = 0 /\ order = [o \in Orders |-> "draft"]
      /\ item = [i \in Items |-> [quantity |-> Ordered[i], received |-> 0]]
      /\ receipt = [g \in Receipts |-> NoReceipt] /\ invoice = [v \in Invoices |-> NoInvoice]
      /\ payable = [v \in Invoices |-> NoPayable] /\ allocated = [v \in Invoices |-> 0]
      /\ pc = [r \in Requests |-> "idle"] /\ tx = [r \in Requests |-> NoTx]
      /\ locks = [r \in Requests |-> {}]
  BY DEF Init
<1>2. TypeOK
  <2>1. begun \in 0 .. MaxRequests /\ order \in [Orders -> OrderStatuses]
    BY <1>1, PurchasingConstants DEF OrderStatuses
  <2>2. item \in [Items -> ItemRow]
    BY <1>1, PurchasingConstants DEF ItemRow
  <2>3. /\ receipt \in [Receipts -> ReceiptRow] /\ invoice \in [Invoices -> InvoiceRow]
        /\ payable \in [Invoices -> PayableRow] /\ allocated \in [Invoices -> Nat]
    BY <1>1 DEF ReceiptRow, InvoiceRow, PayableRow
  <2>4. \A v \in Invoices : invoice[v].status = "none" <=> payable[v].status = "none"
    BY <1>1 DEF NoInvoice, NoPayable
  <2>5. /\ pc \in [Requests -> Steps] /\ locks \in [Requests -> SUBSET Lockable]
        /\ \A r \in Requests : pc[r] = "idle" => tx[r] = NoTx /\ locks[r] = {}
    BY <1>1 DEF Steps
  <2> QED BY <2>1, <2>2, <2>3, <2>4, <2>5 DEF TypeOK
<1>3. ASSUME NEW i \in Items PROVE item[i].received = Received(Confirmed(OrderOf[i]), i)
  <2>1. Confirmed(OrderOf[i]) = {}
    BY <1>1 DEF Confirmed, NoReceipt
  <2>2. Received({}, i) = SumOver(QuantitiesOf(receipt, i), {})
    BY BroughtSum DEF Received
  <2> QED BY <1>1, <2>1, <2>2, SumEmpty
<1>4. PaymentsAddUp /\ NothingReceived /\ LocksExclusive
  BY <1>1 DEF PaymentsAddUp, NoInvoice, NoPayable, NothingReceived, LocksExclusive
<1>5. \A r \in Requests : IsTransaction(tx[r]) /\ Knows(r)
  BY <1>1, NoTxFacts DEF Knows, OpOfStep
<1>6. tx = [r \in Requests |-> tx[r]]
  BY <1>1
<1> QED BY <1>2, <1>3, <1>4, <1>5, <1>6 DEF IInv, ReceivedIsSumOfReceipts

LEMMA StutterInv ==
    ASSUME IInv, UNCHANGED vars
    PROVE  IInv'
<1>1. /\ ReceivedIsSumOfReceipts /\ PaymentsAddUp /\ NothingReceived /\ LocksExclusive /\ TypeOK
      /\ tx = [q \in Requests |-> tx[q]]
      /\ \A q \in Requests : IsTransaction(tx[q]) /\ Knows(q)
  BY DEF IInv, ReceivedIsSumOfReceipts
<1>2. /\ begun' = begun /\ pc' = pc /\ tx' = tx /\ locks' = locks /\ tables' = tables
      /\ order' = order /\ receipt' = receipt /\ invoice' = invoice
      /\ payable' = payable /\ allocated' = allocated
  BY DEF vars, tables
<1>3. ReceivedIsSumOfReceipts' /\ PaymentsAddUp' /\ NothingReceived'
  BY <1>1, <1>2, RowsUnchanged DEF TypeOK
<1>4. LocksExclusive'
  BY <1>1, <1>2 DEF LocksExclusive
<1>5. \A q \in Requests : IsTransaction(tx[q])'
  BY <1>1, <1>2 DEF IsTransaction, TransactionOf
<1>6. \A q \in Requests : Knows(q)'
  <2>1. TypeOK' /\ \A o \in Orders : Confirmed(o)' = Confirmed(o)
    BY <1>2, <1>3 DEF ReceivedIsSumOfReceipts, Confirmed
  <2> QED BY <1>1, <1>2, <2>1, KnowsKept
<1> QED BY <1>1, <1>2, <1>3, <1>4, <1>5, <1>6 DEF IInv

LEMMA NextInv ==
    ASSUME IInv, [Next]_vars
    PROVE  IInv'
<1>1. CASE UNCHANGED vars
  BY <1>1, StutterInv
<1>2. ASSUME NEW r \in Requests, Arrive(r) PROVE IInv'
  BY <1>2, ConfirmOrderStep, CancelOrderStep, BeginUpdateStep, BeginReceiptStep,
     BeginConfirmStep, BeginInvoiceStep, CancelInvoiceStep, BeginPaymentStep DEF Arrive
<1>3. ASSUME NEW r \in Requests, Statement(r) PROVE IInv'
  <2>1. CASE LockItem(r) \/ LockHeader(r) \/ CommitUpdate(r)
    BY <2>1, LockItemStep, LockHeaderStep, CommitUpdateStep
  <2>2. CASE ValidateLine(r) \/ InsertReceipt(r) \/ LockReceipt(r) \/ LockOrder(r)
    BY <2>2, ValidateLineStep, InsertReceiptStep, LockReceiptStep, LockOrderStep
  <2>3. CASE Refresh(r) \/ SumReceived(r) \/ CommitConfirm(r)
    BY <2>3, RefreshStep, SumReceivedStep, CommitConfirmStep
  <2>4. CASE CheckReceipts(r) \/ CheckInvoiced(r) \/ InsertInvoice(r)
    BY <2>4, CheckReceiptsStep, InsertInvoiceStep
  <2>5. CASE LockPayable(r) \/ LockInvoices(r) \/ Allocate(r) \/ CommitPayment(r)
    BY <2>5, LockPayableStep, LockInvoicesStep, AllocateStep, CommitPaymentStep
  <2>6. CASE DeadlockVictim(r)
    BY <2>6, RollbackStep DEF DeadlockVictim
  <2> QED BY <1>3, <2>1, <2>2, <2>3, <2>4, <2>5, <2>6 DEF Statement
<1>4. ASSUME NEW r \in Requests, Fail(r) PROVE IInv'
  BY <1>4, RollbackStep DEF Fail
<1> QED BY <1>1, <1>2, <1>3, <1>4 DEF Next

-----------------------------------------------------------------------------
(* The inductive invariant holds in every reachable state: a request that  *)
(* confirms a receipt or pays holds the locks of what it has read, and what *)
(* it is about to write is still what the tables say.                      *)
THEOREM Invariance == Spec => []IInv
<1>1. Init => IInv
  BY InitInv
<1>2. IInv /\ [Next]_vars => IInv'
  BY NextInv
<1> QED BY <1>1, <1>2, PTL DEF Spec

(* The received quantity of every item is what the confirmed receipts of   *)
(* its order brought, for any number of requests that confirm receipts of  *)
(* one order (updateReceivedQuantity sums and writes in two statements).   *)
THEOREM ReceivedAddsUp == Spec => []ReceivedIsSumOfReceipts
<1>1. IInv => ReceivedIsSumOfReceipts
  BY DEF IInv
<1> QED BY <1>1, Invariance, PTL

(* Invoice, payable and allocations tell the same paid amount, never more  *)
(* than the invoice's and nothing on a cancelled one, however payments and *)
(* cancels are interleaved (createPayment under its FOR UPDATE locks).     *)
THEOREM PaymentsStayWhole == Spec => []PaymentsAddUp
<1>1. IInv => PaymentsAddUp
  BY DEF IInv
<1> QED BY <1>1, Invariance, PTL

(* Which receipts are confirmed, and which orders change, step by step.    *)
LEMMA ConfirmedOnlyByConfirm ==
    ASSUME IInv, [Next]_vars, NEW o \in Orders
    PROVE  \/ Confirmed(o)' = Confirmed(o)
           \/ \E r \in Requests : CommitConfirm(r) /\ tx[r].order = o
<1>1. CASE receipt' = receipt
  BY <1>1, ReceivedUnchanged
<1>2. CASE receipt' # receipt
  <2>1. PICK r \in Requests : InsertReceipt(r) \/ CommitConfirm(r)
    <3>1. ~ UNCHANGED vars /\ \A r \in Requests : ~ Rollback(r)
      BY <1>2 DEF vars, tables, Rollback
    <3>2. PICK r \in Requests : Arrive(r) \/ Statement(r)
      BY <3>1 DEF Next, Fail
    <3>3. ~ Arrive(r)
      BY <1>2 DEF Arrive, ConfirmOrder, CancelOrder, BeginUpdate, BeginReceipt, BeginConfirm,
                  BeginInvoice, CancelInvoice, BeginPayment, Begin, tables
    <3>4. ~ (LockItem(r) \/ LockHeader(r) \/ CommitUpdate(r) \/ ValidateLine(r)
             \/ LockReceipt(r) \/ LockOrder(r) \/ Refresh(r) \/ SumReceived(r))
      BY <1>2, <3>1 DEF LockItem, LockHeader, CommitUpdate, ValidateLine, LockReceipt,
                        LockOrder, Refresh, SumReceived, tables
    <3>5. ~ (CheckReceipts(r) \/ CheckInvoiced(r) \/ InsertInvoice(r) \/ LockPayable(r)
             \/ LockInvoices(r) \/ Allocate(r) \/ CommitPayment(r) \/ DeadlockVictim(r))
      BY <1>2, <3>1 DEF CheckReceipts, CheckInvoiced, InsertInvoice, LockPayable,
                        LockInvoices, Allocate, CommitPayment, DeadlockVictim, tables
    <3> QED BY <3>2, <3>3, <3>4, <3>5 DEF Statement
  <2>2. CASE InsertReceipt(r)
    BY <2>2, InsertedReceipt
  <2>3. CASE CommitConfirm(r)
    BY <2>3, Confirming
  <2> QED BY <2>1, <2>2, <2>3
<1> QED BY <1>1, <1>2

(* In the step that confirms a receipt of an order, the order becomes      *)
(* received exactly if nothing of it is pending any more.                  *)
LEMMA StatusStep ==
    ASSUME IInv, [Next]_vars, NEW o \in Orders, Confirmed(o)' # Confirmed(o)
    PROVE  order'[o] = "received" <=> (\A i \in ItemsOf(o) : Pending(i) <= 0)'
<1>1. PICK r \in Requests : CommitConfirm(r) /\ tx[r].order = o
  BY ConfirmedOnlyByConfirm
<1> DEFINE received == tx[r].set
<1>2. /\ order[o] \in {"confirmed", "partial"}
      /\ item' \in [Items -> ItemRow]
      /\ \A i \in ItemsOf(o) : item'[i].received = received[i] /\ item'[i].quantity = item[i].quantity
      /\ \A i \in ItemsOf(o) : received[i] \in Nat
      /\ order' = [order EXCEPT ![o] = StatusFrom(o, received)]
  BY <1>1, Confirming DEF ItemsOf
<1>3. order \in [Orders -> OrderStatuses]
  BY RowsOf DEF RowTypes
<1>4. order'[o] = StatusFrom(o, received)
  BY <1>2, <1>3
<1>5. order'[o] = "received" <=> \A i \in ItemsOf(o) : received[i] >= item[i].quantity
  BY <1>2, <1>4 DEF StatusFrom
<1>6. ASSUME NEW i \in ItemsOf(o)
      PROVE  received[i] >= item[i].quantity <=> item'[i].quantity - item'[i].received <= 0
  <2>1. item'[i].quantity \in Nat /\ item'[i].received \in Nat
    BY <1>2 DEF ItemRow, ItemsOf
  <2>2. item'[i].received = received[i] /\ item'[i].quantity = item[i].quantity
    BY <1>2
  <2> HIDE DEF received
  <2> QED BY <2>1, <2>2
<1> HIDE DEF received
<1>7. (\A i \in ItemsOf(o) : Pending(i) <= 0)' <=>
        \A i \in ItemsOf(o) : item'[i].quantity - item'[i].received <= 0
  BY DEF Pending, ItemsOf
<1> QED BY <1>5, <1>6, <1>7

(* StatusFollowsReceipts, whatever updates and receipts run in parallel.   *)
THEOREM OrdersFollowReceipts == Spec => StatusFollowsReceipts
<1>1. IInv /\ [Next]_vars =>
        [\A o \in Orders : Confirmed(o)' # Confirmed(o) =>
           (order'[o] = "received" <=> (\A i \in ItemsOf(o) : Pending(i) <= 0)')]_vars
  BY StatusStep
<1> QED BY <1>1, Invariance, PTL DEF Spec, StatusFollowsReceipts

(* Only these steps change the status of an order.                         *)
LEMMA OrderSteps ==
    ASSUME IInv, [Next]_vars, NEW o \in Orders
    PROVE  \/ order'[o] = order[o]
           \/ order[o] = "draft" /\ order'[o] = "confirmed"
           \/ order[o] \in {"draft", "confirmed"} /\ order'[o] = "cancelled"
           \/ order[o] \in {"confirmed", "partial"} /\ order'[o] \in {"confirmed", "partial", "received"}
<1>0. order \in [Orders -> OrderStatuses]
  BY RowsOf DEF RowTypes
<1>1. CASE order' = order
  BY <1>1
<1>2. CASE order' # order
  <2>1. PICK r \in Requests : ConfirmOrder(r) \/ CancelOrder(r) \/ CommitConfirm(r)
    <3>1. ~ UNCHANGED vars /\ \A r \in Requests : ~ Rollback(r)
      BY <1>2 DEF vars, tables, Rollback
    <3>2. PICK r \in Requests : Arrive(r) \/ Statement(r)
      BY <3>1 DEF Next, Fail
    <3>3. ~ (BeginUpdate(r) \/ BeginReceipt(r) \/ BeginConfirm(r) \/ BeginInvoice(r)
             \/ CancelInvoice(r) \/ BeginPayment(r))
      BY <1>2 DEF BeginUpdate, BeginReceipt, BeginConfirm,
                  BeginInvoice, CancelInvoice, BeginPayment, Begin, tables
    <3>4. ~ (LockItem(r) \/ LockHeader(r) \/ CommitUpdate(r) \/ ValidateLine(r) \/ InsertReceipt(r)
             \/ LockReceipt(r) \/ LockOrder(r) \/ Refresh(r) \/ SumReceived(r))
      BY <1>2, <3>1 DEF LockItem, LockHeader, CommitUpdate, ValidateLine, LockReceipt,
                        InsertReceipt, LockOrder, Refresh, SumReceived, tables
    <3>5. ~ (CheckReceipts(r) \/ CheckInvoiced(r) \/ InsertInvoice(r) \/ LockPayable(r)
             \/ LockInvoices(r) \/ Allocate(r) \/ CommitPayment(r) \/ DeadlockVictim(r))
      BY <1>2, <3>1 DEF CheckReceipts, CheckInvoiced, InsertInvoice, LockPayable,
                        LockInvoices, Allocate, CommitPayment, DeadlockVictim, tables
    <3> QED BY <3>2, <3>3, <3>4, <3>5 DEF Statement, Arrive
  <2>2. CASE ConfirmOrder(r)
    BY <1>0, <2>2 DEF ConfirmOrder
  <2>3. CASE CancelOrder(r)
    BY <1>0, <2>3 DEF CancelOrder, OrderCancellable
  <2>4. CASE CommitConfirm(r)
    <3> DEFINE p == tx[r].order  received == tx[r].set
    <3>1. /\ p \in Orders /\ order[p] \in {"confirmed", "partial"}
          /\ order' = [order EXCEPT ![p] = StatusFrom(p, received)]
      BY <2>4, Confirming
    <3>2. StatusFrom(p, received) \in {"confirmed", "partial", "received"}
      BY <3>1 DEF StatusFrom
    <3> QED BY <1>0, <3>1, <3>2
  <2> QED BY <2>1, <2>2, <2>3, <2>4
<1> QED BY <1>1, <1>2

(* Cancelled and received orders stay that way, and nothing has been       *)
(* received for an order that is cancelled: of a cancel and a confirmed    *)
(* receipt one loses.                                                      *)
THEOREM OrdersEndOnce == Spec => FinalOrders
<1> DEFINE Final(o) ==
      /\ order[o] \in {"cancelled", "received"} => order'[o] = order[o]
      /\ order'[o] = "cancelled" => \A i \in ItemsOf(o) : item'[i].received = 0
<1>1. ASSUME IInv, [Next]_vars PROVE \A o \in Orders : Final(o)
  <2>1. IInv'
    BY <1>1, NextInv
  <2>2. NothingReceived'
    BY <2>1 DEF IInv
  <2>3. TAKE o \in Orders
  <2>4. order[o] \in {"cancelled", "received"} => order'[o] = order[o]
    BY <1>1, OrderSteps
  <2>5. order'[o] = "cancelled" => \A i \in ItemsOf(o) : item'[i].received = 0
    BY <2>2 DEF NothingReceived, ItemsOf
  <2> QED BY <2>4, <2>5
<1>2. IInv /\ [Next]_vars => [\A o \in Orders : Final(o)]_vars
  BY <1>1
<1> QED BY <1>2, Invariance, PTL DEF Spec, FinalOrders
=============================================================================
