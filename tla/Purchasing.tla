----------------------------- MODULE Purchasing ------------------------------
(***************************************************************************)
(* Purchase orders, goods receipts, vendor invoices, payables and their    *)
(* payments of one tenant: PurchaseOrderService, GoodsReceiptService,      *)
(* VendorInvoiceService and ApService.                                     *)
(*                                                                         *)
(* A request is modelled as in GeneralLedger.  Several handlers read       *)
(* before their transaction begins: those reads are steps of their own.    *)
(* The movement and the journals these handlers post are the subject of    *)
(* StockLedger and GeneralLedger; here they are a reason to fail.          *)
(***************************************************************************)
EXTENDS Integers, Sequences, FiniteSetsExt

CONSTANTS
    Requests,       \* request slots
    Orders,
    Items,          \* purchase_order_items
    OrderOf,        \* [Items -> Orders]
    Ordered,        \* [Items -> Nat], the quantities orders are created with
    Quantities,     \* the quantities an update may set
    Deliveries,     \* the lines a receipt may have: sequences of item, quantity
    Payments,       \* the amounts a payment may allocate to a payable
    Price,          \* amount of one piece on an invoice
    Tolerance,      \* 0.01 in the code
    None,           \* SQL NULL
    MaxRequests     \* bound: requests begun in a behaviour

(* Ids: a request inserts at most one receipt or one invoice.  The payable *)
(* of an invoice has its id: ap_transactions is UNIQUE(vendor_invoice_id). *)
Receipts == 1 .. MaxRequests
Invoices == 1 .. MaxRequests

Line == [item : Items, quantity : Nat \ {0}]

ASSUME PurchasingConstants ==
    /\ OrderOf \in [Items -> Orders] /\ Ordered \in [Items -> Nat \ {0}]
    /\ Quantities \subseteq Nat \ {0} /\ Payments \subseteq Nat \ {0}
    /\ Deliveries \subseteq Seq(Line)
    /\ Price \in Nat /\ Tolerance \in Nat /\ MaxRequests \in Nat

VARIABLES
    begun,          \* number of requests begun
    order,          \* status of purchase_orders
    item,           \* quantity and quantity_received of purchase_order_items
    receipt,        \* goods_receipts with their items
    invoice,        \* vendor_invoices with their receipts
    payable,        \* ap_transactions
    allocated,      \* sum of the ap_payment_allocations of each payable
    pc, tx, locks   \* as in GeneralLedger

tables == <<order, item, receipt, invoice, payable, allocated>>
vars == <<begun, tables, pc, tx, locks>>

-----------------------------------------------------------------------------
(* Rows.                                                                   *)

NoReceipt == [status |-> "none", order |-> None, lines |-> <<>>]
NoInvoice == [status |-> "none", receipts |-> {}, amount |-> 0, paid |-> 0]
NoPayable == [status |-> "none", amount |-> 0, paid |-> 0]

ItemsOf(o) == {i \in Items : OrderOf[i] = o}

(* quantity_pending, a generated column.                                   *)
Pending(i) == item[i].quantity - item[i].received

(* outstanding_amount, a generated column.                                 *)
Outstanding(v) == payable[v].amount - payable[v].paid

QuantityIn(lines, i) ==
    MapThenSumSet(LAMBDA k : IF lines[k].item = i THEN lines[k].quantity ELSE 0,
                  DOMAIN lines)
Pieces(lines) == MapThenSumSet(LAMBDA k : lines[k].quantity, DOMAIN lines)

Confirmed(o) == {g \in Receipts : receipt[g].status = "confirmed" /\ receipt[g].order = o}

(* SUM(quantity_received) of an item over receipts of its order.           *)
Brought(rows, receipts, i) ==
    MapThenSumSet(LAMBDA g : QuantityIn(rows[g].lines, i), receipts)
Received(receipts, i) == Brought(receipt, receipts, i)

(* The receipts of invoices that are not cancelled.                        *)
Invoiced == UNION {invoice[v].receipts : v \in {v \in Invoices :
                                                 invoice[v].status # "cancelled"}}

-----------------------------------------------------------------------------
(* Row locks, and the lock of the view stock_summary that REFRESH takes.   *)

OrderLock(o) == <<"order", o>>
ItemLock(i) == <<"item", i>>
ReceiptLock(g) == <<"receipt", g>>
PayableLock(v) == <<"payable", v>>
InvoiceLock(v) == <<"invoice", v>>
ViewLock == <<"view", "stock_summary">>

Lockable ==
    {OrderLock(o) : o \in Orders} \union {ItemLock(i) : i \in Items}
      \union {ReceiptLock(g) : g \in Receipts}
      \union {PayableLock(v) : v \in Invoices}
      \union {InvoiceLock(v) : v \in Invoices} \union {ViewLock}

(* Mutants: a confirmation takes neither its order nor the view; payables  *)
(* and invoices are read without FOR UPDATE.                               *)
TakenNoOrders(q) == {x \in locks[q] : x[1] \notin {"order", "view"}}
TakenNoPayments(q) == {x \in locks[q] : x[1] \notin {"payable", "invoice"}}
Taken(q) == locks[q]

Free(r, x) == \A q \in Requests \ {r} : x \notin Taken(q)
(* A row that refers to the order waits for FOR UPDATE, which only a        *)
(* confirmed receipt takes, and not for an UPDATE of its other columns.    *)
Referable(o) == \A q \in Requests : tx[q].op = "confirm" => OrderLock(o) \notin Taken(q)
Acquire(r, x) == Free(r, x) /\ locks' = [locks EXCEPT ![r] = @ \union {x}]

-----------------------------------------------------------------------------
(* Transactions.  "id" is the receipt that is confirmed, "todo" what a     *)
(* loop has still to do, "set" the quantities, sums or amounts to write,   *)
(* "paid" what the allocations of each payable sum up to.                   *)

NoTx == [op |-> "none", id |-> 0, order |-> None, lines |-> <<>>, receipts |-> {},
         todo |-> {}, set |-> <<>>, paid |-> <<>>]

Goto(r, step) == pc' = [pc EXCEPT ![r] = step]

Begin(r, step, args) ==
    /\ pc[r] = "idle"
    /\ begun < MaxRequests
    /\ begun' = begun + 1
    /\ Goto(r, step)
    /\ tx' = [tx EXCEPT ![r] = args]
    /\ UNCHANGED <<tables, locks>>

(* COMMIT and ROLLBACK release the locks.                                  *)
End(r) ==
    /\ Goto(r, "idle")
    /\ tx' = [tx EXCEPT ![r] = NoTx]
    /\ locks' = [locks EXCEPT ![r] = {}]
    /\ UNCHANGED begun
Rollback(r) == End(r) /\ UNCHANGED tables

(* Any failure before COMMIT, as in GeneralLedger: here also that of the   *)
(* movement, the document number or the journal.                           *)
Fail(r) == pc[r] # "idle" /\ Rollback(r)

(* A handler that is one UPDATE with a condition on the status.            *)
Autocommit(r) ==
    /\ pc[r] = "idle"
    /\ begun < MaxRequests /\ begun' = begun + 1
    /\ UNCHANGED <<pc, tx, locks>>

-----------------------------------------------------------------------------
(* PurchaseOrderService: confirm, cancel and update.  The read with which  *)
(* cancel begins is decided again by the condition of its UPDATE.          *)

ConfirmOrder(r) ==
    /\ Autocommit(r)
    /\ \E o \in Orders :
         /\ Free(r, OrderLock(o))
         /\ order[o] = "draft"
         /\ order' = [order EXCEPT ![o] = "confirmed"]
    /\ UNCHANGED <<item, receipt, invoice, payable, allocated>>

(* Mutant: the UPDATE trusts the read.                                     *)
OrderCancellableStale(o) == order[o] \in {"draft", "confirmed", "partial"}
OrderCancellable(o) == order[o] \in {"draft", "confirmed"}
CancelOrder(r) ==
    /\ Autocommit(r)
    /\ \E o \in Orders :
         /\ Free(r, OrderLock(o))
         /\ OrderCancellable(o)
         /\ order' = [order EXCEPT ![o] = "cancelled"]
    /\ UNCHANGED <<item, receipt, invoice, payable, allocated>>

(* The status is read before the transaction and not again.                *)
BeginUpdate(r) ==
    \E o \in Orders :
      /\ order[o] = "draft"
      /\ \E items \in (SUBSET ItemsOf(o)) \ {{}} : \E set \in [items -> Quantities] :
           Begin(r, "items", [NoTx EXCEPT !.op = "update", !.order = o,
                                          !.todo = items, !.set = set])

(* UPDATE purchase_order_items, one statement per item of the request or,  *)
(* in updateReceivedQuantity, per item of the order.                       *)
LockItem(r) ==
    /\ pc[r] = "items"
    /\ \E i \in tx[r].todo :
         /\ Acquire(r, ItemLock(i))
         /\ tx' = [tx EXCEPT ![r].todo = @ \ {i}]
         /\ Goto(r, IF tx[r].todo # {i} THEN "items"
                    ELSE IF tx[r].op = "update" THEN "header" ELSE "commit")
    /\ UNCHANGED <<begun, tables>>

(* The totals and the header are written last.                             *)
LockHeader(r) ==
    /\ pc[r] = "header"
    /\ Acquire(r, OrderLock(tx[r].order))
    /\ Goto(r, "commit")
    /\ UNCHANGED <<begun, tables, tx>>

CommitUpdate(r) ==
    /\ pc[r] = "commit" /\ tx[r].op = "update"
    /\ item' = [i \in Items |-> IF i \in DOMAIN tx[r].set
                                THEN [item[i] EXCEPT !.quantity = tx[r].set[i]]
                                ELSE item[i]]
    /\ End(r)
    /\ UNCHANGED <<order, receipt, invoice, payable, allocated>>

-----------------------------------------------------------------------------
(* GoodsReceiptService.create: the order and each line are checked before  *)
(* the transaction.  The item of a line may be of another order.           *)

BeginReceipt(r) ==
    \E o \in Orders, lines \in Deliveries :
      /\ order[o] \in {"confirmed", "partial"}
      /\ Begin(r, "validate", [NoTx EXCEPT !.op = "receive", !.order = o,
                                           !.lines = lines, !.todo = DOMAIN lines])

ValidateLine(r) ==
    LET k == Min(tx[r].todo)  line == tx[r].lines[k] IN
    /\ pc[r] = "validate"
    /\ IF line.quantity <= Pending(line.item)
       THEN /\ tx' = [tx EXCEPT ![r].todo = @ \ {k}]
            /\ Goto(r, IF tx[r].todo = {k} THEN "insertReceipt" ELSE "validate")
            /\ UNCHANGED <<begun, tables, locks>>
       ELSE Rollback(r)

InsertReceipt(r) ==
    LET fresh == {g \in Receipts : receipt[g].status = "none"} IN
    /\ pc[r] = "insertReceipt" /\ fresh # {}
    /\ Referable(tx[r].order)
    /\ receipt' = [receipt EXCEPT ![Min(fresh)] =
                     [status |-> "draft", order |-> tx[r].order, lines |-> tx[r].lines]]
    /\ End(r)
    /\ UNCHANGED <<order, item, invoice, payable, allocated>>

-----------------------------------------------------------------------------
(* GoodsReceiptService.confirm with PurchaseOrderService's                 *)
(* updateReceivedQuantity.                                                 *)

BeginConfirm(r) ==
    \E g \in Receipts :
      /\ receipt[g].status # "none"
      /\ Begin(r, "confirm", [NoTx EXCEPT !.op = "confirm", !.id = g,
                                          !.order = receipt[g].order])

LockReceipt(r) ==
    /\ pc[r] = "confirm"
    /\ IF receipt[tx[r].id].status = "draft"
       THEN /\ Acquire(r, ReceiptLock(tx[r].id))
            /\ Goto(r, "lockOrder")
            /\ UNCHANGED <<begun, tables, tx>>
       ELSE Free(r, ReceiptLock(tx[r].id)) /\ Rollback(r)

LockOrder(r) ==
    /\ pc[r] = "lockOrder"
    /\ IF order[tx[r].order] \in {"confirmed", "partial"}
       THEN /\ Acquire(r, OrderLock(tx[r].order))
            /\ Goto(r, "refresh")
            /\ UNCHANGED <<begun, tables, tx>>
       ELSE Free(r, OrderLock(tx[r].order)) /\ Rollback(r)

(* REFRESH of stock_summary, whose lock is kept to the end.                *)
Refresh(r) ==
    /\ pc[r] = "refresh"
    /\ Acquire(r, ViewLock)
    /\ Goto(r, "sum")
    /\ UNCHANGED <<begun, tables, tx>>

(* What the query sums: committed receipts and the one confirmed here.     *)
Summed(r) == Confirmed(tx[r].order) \union {tx[r].id}

SumReceived(r) ==
    LET items == ItemsOf(tx[r].order) IN
    /\ pc[r] = "sum"
    /\ tx' = [tx EXCEPT ![r].set = [i \in items |-> Received(Summed(r), i)],
                        ![r].todo = items]
    /\ Goto(r, "items")
    /\ UNCHANGED <<begun, tables, locks>>

(* The status that follows from the quantities.  Mutant: one item that is  *)
(* complete makes the order complete.                                      *)
StatusFromAny(o, received) ==
    IF \E i \in ItemsOf(o) : received[i] >= item[i].quantity THEN "received"
    ELSE IF \E i \in ItemsOf(o) : received[i] > 0 THEN "partial" ELSE order[o]
StatusFrom(o, received) ==
    IF \A i \in ItemsOf(o) : received[i] >= item[i].quantity THEN "received"
    ELSE IF \E i \in ItemsOf(o) : received[i] > 0 THEN "partial" ELSE order[o]

CommitConfirm(r) ==
    LET o == tx[r].order  received == tx[r].set IN
    /\ pc[r] = "commit" /\ tx[r].op = "confirm"
    /\ receipt' = [receipt EXCEPT ![tx[r].id].status = "confirmed"]
    /\ item' = [i \in Items |-> IF i \in ItemsOf(o)
                                THEN [item[i] EXCEPT !.received = received[i]]
                                ELSE item[i]]
    /\ order' = [order EXCEPT ![o] = StatusFrom(o, received)]
    /\ End(r)
    /\ UNCHANGED <<invoice, payable, allocated>>

-----------------------------------------------------------------------------
(* VendorInvoiceService.create with ApService.createTransaction, and       *)
(* cancel.  Three reads come before the transaction.                       *)

BeginInvoice(r) ==
    \E o \in Orders,
       receipts \in (SUBSET {g \in Receipts : receipt[g].status # "none"}) \ {{}} :
      /\ order[o] \in {"confirmed", "partial", "received"}
      /\ Begin(r, "receipts", [NoTx EXCEPT !.op = "invoice", !.order = o,
                                           !.receipts = receipts])

CheckReceipts(r) ==
    /\ pc[r] = "receipts"
    /\ IF tx[r].receipts \subseteq Confirmed(tx[r].order)
       THEN Goto(r, "invoiced") /\ UNCHANGED <<begun, tables, tx, locks>>
       ELSE Rollback(r)

CheckInvoiced(r) ==
    /\ pc[r] = "invoiced"
    /\ IF tx[r].receipts \intersect Invoiced = {}
       THEN Goto(r, "insertInvoice") /\ UNCHANGED <<begun, tables, tx, locks>>
       ELSE Rollback(r)

AmountOf(receipts) ==
    Price * MapThenSumSet(LAMBDA g : Pieces(receipt[g].lines), receipts)

InsertInvoice(r) ==
    LET fresh == {v \in Invoices : invoice[v].status = "none"}
        v == Min(fresh)
        amount == AmountOf(tx[r].receipts)
    IN
    /\ pc[r] = "insertInvoice" /\ fresh # {}
    /\ Referable(tx[r].order)
    /\ invoice' = [invoice EXCEPT ![v] = [status |-> "unpaid", amount |-> amount,
                                          receipts |-> tx[r].receipts, paid |-> 0]]
    /\ payable' = [payable EXCEPT ![v] =
                     [status |-> "open", amount |-> amount, paid |-> 0]]
    /\ End(r)
    /\ UNCHANGED <<order, item, receipt, allocated>>

(* UPDATE ... WHERE status <> 'cancelled' AND paid_amount = 0; the payable *)
(* stays as it is.                                                         *)
InvoiceCancellable(v) ==
    invoice[v].status \notin {"none", "cancelled", "paid"} /\ invoice[v].paid = 0

CancelInvoice(r) ==
    /\ Autocommit(r)
    /\ \E v \in Invoices :
         /\ Free(r, InvoiceLock(v))
         /\ InvoiceCancellable(v)
         /\ invoice' = [invoice EXCEPT ![v].status = "cancelled"]
    /\ UNCHANGED <<order, item, receipt, payable, allocated>>

-----------------------------------------------------------------------------
(* ApService.createPayment.  The checks before the transaction are those   *)
(* under the locks.                                                        *)

Unpaid == {v \in Invoices : payable[v].status \in {"open", "partial"}}
Allocatable(v, amount) == v \in Unpaid /\ amount <= Outstanding(v) + Tolerance

BeginPayment(r) ==
    \E payables \in (SUBSET Unpaid) \ {{}} : \E set \in [payables -> Payments] :
      /\ \A v \in payables : Allocatable(v, set[v])
      /\ Begin(r, "payables", [NoTx EXCEPT !.op = "pay", !.todo = payables,
                                           !.set = set])

(* SELECT ... ORDER BY id FOR UPDATE.                                      *)
NextSorted(payables) == {Min(payables)}

LockPayable(r) ==
    /\ pc[r] = "payables"
    /\ \E v \in NextSorted(tx[r].todo) :
         IF Allocatable(v, tx[r].set[v])
         THEN /\ Acquire(r, PayableLock(v))
              /\ tx' = [tx EXCEPT ![r].todo = @ \ {v}]
              /\ Goto(r, IF tx[r].todo = {v} THEN "invoices" ELSE "payables")
              /\ UNCHANGED <<begun, tables>>
         ELSE Free(r, PayableLock(v)) /\ Rollback(r)

LockInvoices(r) ==
    LET wanted == DOMAIN tx[r].set IN
    /\ pc[r] = "invoices"
    /\ \A v \in wanted : Free(r, InvoiceLock(v))
    /\ IF \E v \in wanted : invoice[v].status = "cancelled"
       THEN Rollback(r)
       ELSE /\ locks' = [locks EXCEPT ![r] = @ \union {InvoiceLock(v) : v \in wanted}]
            /\ Goto(r, "allocate")
            /\ UNCHANGED <<begun, tables, tx>>

(* The CHECKs of migration 014.                                            *)
WithinAmount(v, paid) == paid <= payable[v].amount /\ paid <= invoice[v].amount

(* The allocations are inserted and summed again.                          *)
Allocate(r) ==
    LET paid == [v \in DOMAIN tx[r].set |-> allocated[v] + tx[r].set[v]] IN
    /\ pc[r] = "allocate"
    /\ IF \A v \in DOMAIN paid : WithinAmount(v, paid[v])
       THEN /\ tx' = [tx EXCEPT ![r].paid = paid]
            /\ Goto(r, "commit")
            /\ UNCHANGED <<begun, tables, locks>>
       ELSE Rollback(r)

PaidStatus(amount, paid, unpaid) ==
    IF paid >= amount THEN "paid" ELSE IF paid > 0 THEN "partial" ELSE unpaid

CommitPayment(r) ==
    LET paid == tx[r].paid IN
    /\ pc[r] = "commit" /\ tx[r].op = "pay"
    /\ allocated' = [v \in Invoices |-> allocated[v] +
                        (IF v \in DOMAIN paid THEN tx[r].set[v] ELSE 0)]
    /\ payable' = [v \in Invoices |-> IF v \notin DOMAIN paid THEN payable[v] ELSE
          [payable[v] EXCEPT !.paid = paid[v],
             !.status = PaidStatus(payable[v].amount, paid[v], "open")]]
    /\ invoice' = [v \in Invoices |-> IF v \notin DOMAIN paid THEN invoice[v] ELSE
          [invoice[v] EXCEPT !.paid = paid[v],
             !.status = PaidStatus(payable[v].amount, paid[v], "unpaid")]]
    /\ End(r)
    /\ UNCHANGED <<order, item, receipt>>

-----------------------------------------------------------------------------
(* An update holds an item and wants the order, a receipt that is being    *)
(* confirmed holds the order and wants the item: the deadlock detector     *)
(* aborts one.  With two connections every cycle is one of two.            *)
Wants(r) ==
    CASE pc[r] = "items" -> {ItemLock(i) : i \in tx[r].todo}
      [] pc[r] = "header" -> {OrderLock(tx[r].order)}
      [] pc[r] = "confirm" -> {ReceiptLock(tx[r].id)}
      [] pc[r] = "lockOrder" -> {OrderLock(tx[r].order)}
      [] pc[r] = "refresh" -> {ViewLock}
      [] pc[r] = "payables" -> {PayableLock(v) : v \in NextSorted(tx[r].todo)}
      [] OTHER -> {}
BlockedBy(r, q) == Wants(r) # {} /\ Wants(r) \subseteq locks[q]
Deadlocked(r, q) == r # q /\ BlockedBy(r, q) /\ BlockedBy(q, r)

(* Mutant: no deadlock detector.                                           *)
DeadlockVictimNever(r) == FALSE
DeadlockVictim(r) == (\E q \in Requests : Deadlocked(r, q)) /\ Rollback(r)

-----------------------------------------------------------------------------
Init ==
    /\ begun = 0
    /\ order = [o \in Orders |-> "draft"]
    /\ item = [i \in Items |-> [quantity |-> Ordered[i], received |-> 0]]
    /\ receipt = [g \in Receipts |-> NoReceipt]
    /\ invoice = [v \in Invoices |-> NoInvoice]
    /\ payable = [v \in Invoices |-> NoPayable]
    /\ allocated = [v \in Invoices |-> 0]
    /\ pc = [r \in Requests |-> "idle"]
    /\ tx = [r \in Requests |-> NoTx]
    /\ locks = [r \in Requests |-> {}]

Arrive(r) ==
    \/ ConfirmOrder(r) \/ CancelOrder(r) \/ BeginUpdate(r)
    \/ BeginReceipt(r) \/ BeginConfirm(r)
    \/ BeginInvoice(r) \/ CancelInvoice(r) \/ BeginPayment(r)

Statement(r) ==
    \/ LockItem(r) \/ LockHeader(r) \/ CommitUpdate(r)
    \/ ValidateLine(r) \/ InsertReceipt(r)
    \/ LockReceipt(r) \/ LockOrder(r) \/ Refresh(r) \/ SumReceived(r) \/ CommitConfirm(r)
    \/ CheckReceipts(r) \/ CheckInvoiced(r) \/ InsertInvoice(r)
    \/ LockPayable(r) \/ LockInvoices(r) \/ Allocate(r) \/ CommitPayment(r)
    \/ DeadlockVictim(r)

Next == \E r \in Requests : Arrive(r) \/ Statement(r) \/ Fail(r)

Spec == Init /\ [][Next]_vars

(* As in GeneralLedger: a request in progress keeps executing.             *)
Fairness == \A r \in Requests : WF_vars(Statement(r))
FairSpec == Spec /\ Fairness

-----------------------------------------------------------------------------
(* The type of every table; a request that is not in progress has neither a *)
(* transaction nor a lock.                                                 *)
Steps == {"idle", "items", "header", "validate", "insertReceipt", "confirm",
          "lockOrder", "refresh", "sum", "receipts", "invoiced", "insertInvoice",
          "payables", "invoices", "allocate", "commit"}

OrderStatuses == {"draft", "confirmed", "partial", "received", "cancelled"}
ItemRow == [quantity : Nat \ {0}, received : Nat]
ReceiptRow == {NoReceipt} \union
    [status : {"draft", "confirmed"}, order : Orders, lines : Seq(Line)]
InvoiceRow == {NoInvoice} \union
    [status : {"unpaid", "partial", "paid", "cancelled"},
     receipts : SUBSET Receipts, amount : Nat, paid : Nat]
PayableRow == {NoPayable} \union
    [status : {"open", "partial", "paid"}, amount : Nat, paid : Nat]

TypeOK ==
    /\ begun \in 0 .. MaxRequests
    /\ order \in [Orders -> OrderStatuses]
    /\ item \in [Items -> ItemRow]
    /\ receipt \in [Receipts -> ReceiptRow]
    /\ invoice \in [Invoices -> InvoiceRow]
    /\ payable \in [Invoices -> PayableRow]
    /\ \A v \in Invoices : invoice[v].status = "none" <=> payable[v].status = "none"
    /\ allocated \in [Invoices -> Nat]
    /\ pc \in [Requests -> Steps]
    /\ locks \in [Requests -> SUBSET Lockable]
    /\ \A r \in Requests : pc[r] = "idle" => tx[r] = NoTx /\ locks[r] = {}

(* quantity_received of an item is what the confirmed receipts of its      *)
(* order brought, although updateReceivedQuantity sums and writes in two   *)
(* statements and receipts of one order are confirmed in parallel.  The    *)
(* tables keep their types.                                                *)
ReceivedIsSumOfReceipts ==
    TypeOK /\ \A i \in Items : item[i].received = Received(Confirmed(OrderOf[i]), i)

(* When a receipt is confirmed the order becomes received exactly if no    *)
(* item is pending any more, as the quantities stand when it commits: an   *)
(* update of the order's items in parallel changes nothing of that.        *)
StatusFollowsReceipts ==
    [][\A o \in Orders : Confirmed(o)' # Confirmed(o) =>
          (order'[o] = "received" <=> (\A i \in ItemsOf(o) : Pending(i) <= 0)')]_vars

(* Cancelled and received are final, whoever read the order before, and    *)
(* nothing has been received for an order that is cancelled: a cancel that *)
(* meets a confirmed receipt loses, or the receipt does.                   *)
FinalOrders ==
    [][\A o \in Orders :
         /\ order[o] \in {"cancelled", "received"} => order'[o] = order[o]
         /\ order'[o] = "cancelled" => \A i \in ItemsOf(o) : item'[i].received = 0]_vars

(* Invoice, payable and allocations tell the same paid amount, however     *)
(* many payments of one payable run in parallel: never more than was       *)
(* invoiced, not even by the tolerance createPayment grants each           *)
(* allocation, and nothing for an invoice that is cancelled meanwhile.     *)
PaymentsAddUp ==
    \A v \in Invoices :
      /\ payable[v].paid = allocated[v]
      /\ invoice[v].paid = allocated[v]
      /\ allocated[v] <= invoice[v].amount
      /\ invoice[v].status = "cancelled" => allocated[v] = 0

(* An order of which something was received is partial or received.       *)
NothingReceived ==
    \A i \in Items :
      order[OrderOf[i]] \in {"draft", "confirmed", "cancelled"} => item[i].received = 0

(* No two requests hold the same lock.                                     *)
LocksExclusive ==
    \A r, q \in Requests : r # q => locks[r] \intersect locks[q] = {}

(* A transaction in progress and the steps its kind of request has.        *)
TransactionOf(set, paid) ==
    [op : {"none", "update", "receive", "confirm", "invoice", "pay"},
     id : Nat, order : Orders \union {None}, lines : Seq(Line),
     receipts : SUBSET Receipts, todo : SUBSET (Items \union Nat),
     set : {set}, paid : {paid}]
IsTransaction(t) == t \in TransactionOf(t.set, t.paid)
OpOfStep(r) ==
    /\ tx[r].op = "none" => pc[r] = "idle"
    /\ tx[r].op = "update" => pc[r] \in {"items", "header", "commit"}
    /\ tx[r].op = "receive" => pc[r] \in {"validate", "insertReceipt"}
    /\ tx[r].op = "confirm" =>
         pc[r] \in {"confirm", "lockOrder", "refresh", "sum", "items", "commit"}
    /\ tx[r].op = "invoice" => pc[r] \in {"receipts", "invoiced", "insertInvoice"}
    /\ tx[r].op = "pay" => pc[r] \in {"payables", "invoices", "allocate", "commit"}

(* What a request of each kind knows: it holds the locks of the rows it    *)
(* has read, and what it is about to write is what these rows still say.   *)
UpdateKnows(r) ==
    /\ tx[r].order \in Orders /\ tx[r].todo \subseteq Items
    /\ DOMAIN tx[r].set \subseteq ItemsOf(tx[r].order)
    /\ \A i \in DOMAIN tx[r].set : tx[r].set[i] \in Quantities
ReceiveKnows(r) == tx[r].order \in Orders
ConfirmKnows(r) ==
    /\ tx[r].id \in Receipts /\ tx[r].order \in Orders /\ tx[r].todo \subseteq Items
    /\ receipt[tx[r].id].status # "none" /\ receipt[tx[r].id].order = tx[r].order
    /\ pc[r] # "confirm" =>
         ReceiptLock(tx[r].id) \in locks[r] /\ receipt[tx[r].id].status = "draft"
    /\ pc[r] \in {"refresh", "sum", "items", "commit"} =>
         /\ OrderLock(tx[r].order) \in locks[r]
         /\ order[tx[r].order] \in {"confirmed", "partial"}
    /\ pc[r] \in {"items", "commit"} =>
         /\ DOMAIN tx[r].set = ItemsOf(tx[r].order)
         /\ \A i \in ItemsOf(tx[r].order) : tx[r].set[i] = Received(Summed(r), i)
InvoiceKnows(r) ==
    /\ tx[r].order \in Orders
    /\ \A g \in tx[r].receipts : receipt[g].status # "none"
PayKnows(r) ==
    LET payables == DOMAIN tx[r].set IN
    /\ tx[r].todo \subseteq payables /\ payables \subseteq Invoices
    /\ \A v \in payables : payable[v].status # "none"
    /\ \A v \in payables : tx[r].set[v] \in Payments
    /\ pc[r] = "payables" <=> tx[r].todo # {}
    /\ \A v \in payables \ tx[r].todo : PayableLock(v) \in locks[r]
    /\ pc[r] \in {"allocate", "commit"} =>
         \A v \in payables : /\ InvoiceLock(v) \in locks[r]
                            /\ invoice[v].status # "cancelled"
    /\ pc[r] = "commit" =>
         /\ DOMAIN tx[r].paid = payables
         /\ \A v \in payables : /\ tx[r].paid[v] = allocated[v] + tx[r].set[v]
                                /\ WithinAmount(v, tx[r].paid[v])

Knows(r) ==
    /\ OpOfStep(r)
    /\ tx[r].op = "update" => UpdateKnows(r)
    /\ tx[r].op = "receive" => ReceiveKnows(r)
    /\ tx[r].op = "confirm" => ConfirmKnows(r)
    /\ tx[r].op = "invoice" => InvoiceKnows(r)
    /\ tx[r].op = "pay" => PayKnows(r)

(* The inductive invariant.                                                *)
IInv ==
    /\ ReceivedIsSumOfReceipts /\ PaymentsAddUp /\ NothingReceived /\ LocksExclusive
    /\ tx = [r \in Requests |-> tx[r]]
    /\ \A r \in Requests : IsTransaction(tx[r]) /\ Knows(r)

(* Every request ends.                                                     *)
RequestsEnd == \A r \in Requests : pc[r] # "idle" ~> pc[r] = "idle"

(* A receipt is on one invoice that is not cancelled.                      *)
ReceiptInvoicedOnce ==
    \A v, w \in Invoices :
      v # w /\ invoice[v].status # "cancelled" /\ invoice[w].status # "cancelled" =>
        invoice[v].receipts \intersect invoice[w].receipts = {}
=============================================================================
