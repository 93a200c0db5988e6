-------------------------------- MODULE Sales --------------------------------
(***************************************************************************)
(* Sales orders, their soft reservations, delivery orders, customer        *)
(* invoices, receivables and receipts of one tenant: SalesOrderService,    *)
(* DeliveryOrderService, CustomerInvoiceService, PaymentReceiptService and *)
(* ArService, with the demands MrpDemandService creates for an order.      *)
(*                                                                         *)
(* One warehouse.  The movement of a delivery is its effect on the stock   *)
(* (StockLedger has the rest) and its journal a reason to fail.            *)
(***************************************************************************)
EXTENDS Transactions

CONSTANTS
    Orders,
    Items,          \* sales_order_items
    OrderOf,        \* [Items -> Orders]
    Ordered,        \* [Items -> Nat], their quantities: nothing updates them
    VariantOf,      \* [Items -> Variants]
    Manufactured,   \* the items whose product can be manufactured
    OnHand,         \* [Variants -> Nat], the stock of the warehouse at first
    Arrivals,       \* the pieces a goods receipt may bring
    Dispatches,     \* the lines of a delivery: sequences of item, quantity
    Bundles,        \* the deliveries an invoice may name
    Payments,       \* the amounts a receipt may allocate to an invoice
    Price,          \* amount of one piece on an invoice
    Tolerance,      \* 0.01 in the code
    None            \* SQL NULL

Variants == {VariantOf[i] : i \in Items}

(* Ids: a request inserts at most one delivery or one invoice.  The        *)
(* receivable of an invoice has its id.                                    *)
Deliveries == 1 .. MaxRequests
Invoices == 1 .. MaxRequests

Line == [item : Items, quantity : Nat \ {0}]

ASSUME SalesConstants ==
    /\ IsFiniteSet(Items) /\ OrderOf \in [Items -> Orders] /\ Ordered \in [Items -> Nat \ {0}]
    /\ Manufactured \subseteq Items
    /\ OnHand \in [Variants -> Nat] /\ Arrivals \subseteq Nat \ {0}
    /\ Dispatches \subseteq Seq(Line) /\ Payments \subseteq Nat \ {0}
    /\ Bundles \subseteq (SUBSET Deliveries) \ {{}}
    /\ Price \in Nat /\ Tolerance \in Nat

VARIABLES
    order,          \* status of sales_orders
    delivered,      \* quantity_delivered of sales_order_items
    demand,         \* status of the mrp_demands of each item
    delivery,       \* delivery_orders with their items
    invoice,        \* customer_invoices with their deliveries
    receivable,     \* ar_transactions
    allocated,      \* sum of the payment_receipt_allocations of each invoice
    arrived,        \* pieces of each variant that goods receipts brought
    stock,          \* quantity on hand by confirmed movements
    summary,        \* the view stock_summary
    available       \* the view available_stock, quantity_available

papers == <<delivery, invoice, receivable, allocated>>
goods == <<arrived, stock, summary>>
tables == <<order, delivered, demand, papers, goods, available>>
vars == <<connections, tables>>

-----------------------------------------------------------------------------
(* Rows.                                                                   *)

NoDelivery == [status |-> "none", order |-> None, lines |-> <<>>]
NoInvoice == [status |-> "none", order |-> None, deliveries |-> {},
              amount |-> 0, paid |-> 0]
NoReceivable == [status |-> "none", amount |-> 0, received |-> 0]

ItemsOf(o) == {i \in Items : OrderOf[i] = o}

(* quantity_pending and outstanding_amount, generated columns.             *)
Pending(i) == Ordered[i] - delivered[i]
Outstanding(v) == invoice[v].amount - invoice[v].paid

QuantityIn(lines, i) ==
    MapThenSumSet(LAMBDA k : IF lines[k].item = i THEN lines[k].quantity ELSE 0,
                  DOMAIN lines)
VariantIn(lines, v) ==
    MapThenSumSet(LAMBDA i : IF VariantOf[i] = v THEN QuantityIn(lines, i) ELSE 0, Items)
Pieces(lines) == MapThenSumSet(LAMBDA k : lines[k].quantity, DOMAIN lines)

(* The same of several deliveries, in given rows of delivery_orders.       *)
ListedIn(rows, deliveries, i) ==
    MapThenSumSet(LAMBDA d : QuantityIn(rows[d].lines, i), deliveries)
LeftIn(rows, deliveries, v) ==
    MapThenSumSet(LAMBDA d : VariantIn(rows[d].lines, v), deliveries)
PiecesIn(rows, deliveries) ==
    MapThenSumSet(LAMBDA d : Pieces(rows[d].lines), deliveries)

Confirmed(o) == {d \in Deliveries : delivery[d].status = "confirmed"
                                      /\ delivery[d].order = o}
QuantityOf(deliveries, i) == ListedIn(delivery, deliveries, i)

ActiveInvoices == {v \in Invoices : invoice[v].status \notin {"none", "cancelled"}}
Invoiced == UNION {invoice[v].deliveries : v \in ActiveInvoices}

(* What the orders of the given statuses and delivered quantities reserve. *)
Reserved(status, done) ==
    [v \in Variants |->
       MapThenSumSet(LAMBDA i : IF /\ VariantOf[i] = v
                                   /\ status[OrderOf[i]] \in {"confirmed", "partial"}
                                   /\ Ordered[i] > done[i]
                                THEN Ordered[i] - done[i] ELSE 0, Items)]
Minus(f, g) == [v \in Variants |-> f[v] - g[v]]

-----------------------------------------------------------------------------
(* Locks: rows, the stock keys of StockLedger, and the exclusive lock that *)
(* REFRESH takes on a view, and a reader of the view waits for.            *)

OrderLock(o) == <<"order", o>>
DeliveryLock(d) == <<"delivery", d>>
InvoiceLock(v) == <<"invoice", v>>
StockLock(v) == <<"stock", v>>
SummaryView == <<"view", "stock_summary">>
AvailableView == <<"view", "available_stock">>

(* A row that refers to the order waits for FOR UPDATE, and not for the    *)
(* UPDATE with which cancel begins.                                        *)
Referable(r, o) ==
    \A q \in Requests \ {r} : tx[q].op # "cancelled" => OrderLock(o) \notin locks[q]

-----------------------------------------------------------------------------
(* SalesOrderService.confirm and cancel.                                   *)

BeginStatus(r) ==
    \E o \in Orders, op \in {"confirmed", "cancelled"} :
      /\ Begin(r, "order", {OrderLock(o)}, [op |-> op, order |-> o])
      /\ UNCHANGED tables

StatusAllows(o, op) ==
    IF op = "confirmed" THEN order[o] = "draft"
    ELSE order[o] \notin {"delivered", "invoiced", "cancelled"}

(* The row is locked and its status changed; then REFRESH of               *)
(* available_stock begins, with its snapshot.                              *)
ReservedAfter(o, status) == Reserved([order EXCEPT ![o] = status], delivered)
ChangeStatus(r) ==
    LET o == tx[r].order IN
    /\ At(r, "order")
    /\ IF StatusAllows(o, tx[r].op)
       THEN Continue(r, "refresh", {AvailableView},
                     [op |-> tx[r].op, order |-> o,
                      seen |-> ReservedAfter(o, tx[r].op)])
       ELSE End(r)
    /\ UNCHANGED tables

(* The orders are read as they were when the REFRESH began, or later: it   *)
(* may have waited for its lock.                                           *)
RefreshAvailable(r) ==
    /\ At(r, "refresh") /\ tx[r].op \in {"confirmed", "cancelled"}
    /\ \E seen \in {tx[r].seen, ReservedAfter(tx[r].order, tx[r].op)} :
         Continue(r, "commitStatus", {SummaryView}, [tx[r] EXCEPT !.seen = seen])
    /\ UNCHANGED tables

(* createFromSalesOrder finds the demand of an item or inserts it.         *)
Demanded(i) == IF demand[i] \in {"none", "cancelled"} THEN "open" ELSE demand[i]

CommitStatus(r) ==
    LET o == tx[r].order IN
    /\ At(r, "commitStatus")
    /\ order' = [order EXCEPT ![o] = tx[r].op]
    /\ demand' = [i \in Items |->
                    IF tx[r].op = "confirmed" /\ i \in ItemsOf(o) \intersect Manufactured
                    THEN Demanded(i) ELSE demand[i]]
    /\ available' = Minus(summary, tx[r].seen)
    /\ End(r)
    /\ UNCHANGED <<delivered, papers, goods>>

(* MrpDemandService.cancel: nothing in the backend makes a demand          *)
(* fulfilled, so its check never refuses here.  The MRP engine, which may  *)
(* (migration 013 grants it the UPDATE), is left out.                      *)
CancelDemand(r) ==
    \E i \in Items :
      /\ Autocommit(r, <<"demand", i>>)
      /\ demand[i] # "none"
      /\ demand' = [demand EXCEPT ![i] = "cancelled"]
      /\ UNCHANGED <<order, delivered, papers, goods, available>>

-----------------------------------------------------------------------------
(* Goods come in: a confirmed receipt refreshes stock_summary and not      *)
(* available_stock.                                                        *)
Arrive(r) ==
    \E v \in Variants, n \in Arrivals :
      /\ Autocommit(r, SummaryView)
      /\ stock' = [stock EXCEPT ![v] = @ + n]
      /\ arrived' = [arrived EXCEPT ![v] = @ + n]
      /\ summary' = stock'
      /\ UNCHANGED <<order, delivered, demand, papers, available>>

-----------------------------------------------------------------------------
(* DeliveryOrderService.create: the order and each line are checked before *)
(* the transaction.  The item of a line may be of another order.           *)

BeginDelivery(r) ==
    \E o \in Orders, lines \in Dispatches :
      /\ order[o] \in {"confirmed", "partial"}
      /\ Begin(r, "validate", {AvailableView},
               [op |-> "deliver", order |-> o, lines |-> lines, todo |-> DOMAIN lines])
      /\ UNCHANGED tables

(* The quantity that the order itself reserves counts against the line.    *)
Deliverable(line) ==
    /\ line.quantity <= Pending(line.item)
    /\ line.quantity <= available[VariantOf[line.item]]

(* Outside a transaction the view is not kept locked.                      *)
Validate(r) ==
    LET k == Min(tx[r].todo)  rest == tx[r].todo \ {k} IN
    /\ At(r, "validate")
    /\ IF ~ Deliverable(tx[r].lines[k])
       THEN End(r)
       ELSE /\ tx' = [tx EXCEPT ![r].todo = rest]
            /\ pc' = [pc EXCEPT ![r] = IF rest = {} THEN "insert" ELSE "validate"]
            /\ needs' = [needs EXCEPT ![r] = IF rest = {} THEN {} ELSE @]
            /\ UNCHANGED <<begun, locks>>
    /\ UNCHANGED tables

InsertDelivery(r) ==
    LET fresh == {d \in Deliveries : delivery[d].status = "none"} IN
    /\ pc[r] = "insert" /\ fresh # {}
    /\ Referable(r, tx[r].order)
    /\ delivery' = [delivery EXCEPT ![Min(fresh)] =
                      [status |-> "draft", order |-> tx[r].order, lines |-> tx[r].lines]]
    /\ End(r)
    /\ UNCHANGED <<order, delivered, demand, invoice, receivable, allocated,
                   goods, available>>

(* cancel: the condition of the UPDATE decides again.                      *)
DeliveryCancellable(d) == delivery[d].status = "draft"
CancelDelivery(r) ==
    \E d \in Deliveries :
      /\ Autocommit(r, DeliveryLock(d))
      /\ DeliveryCancellable(d)
      /\ delivery' = [delivery EXCEPT ![d].status = "cancelled"]
      /\ UNCHANGED <<order, delivered, demand, invoice, receivable, allocated,
                     goods, available>>

-----------------------------------------------------------------------------
(* DeliveryOrderService.confirm with updateDeliveredQuantity.              *)

BeginConfirm(r) ==
    \E d \in Deliveries :
      /\ delivery[d].status # "none"
      /\ Begin(r, "delivery", {DeliveryLock(d)}, [op |-> "confirm", id |-> d])
      /\ UNCHANGED tables

LockDelivery(r) ==
    LET d == tx[r].id IN
    /\ At(r, "delivery")
    /\ IF delivery[d].status = "draft"
       THEN Continue(r, "lockOrder", {OrderLock(delivery[d].order)}, tx[r])
       ELSE End(r)
    /\ UNCHANGED tables

(* Mutant: the status of the order is not looked at again.                 *)
OrderOpenAlways(o) == TRUE
OrderOpen(o) == order[o] \in {"confirmed", "partial"}

Moved(d) == {v \in Variants : VariantIn(delivery[d].lines, v) > 0}
LockOrder(r) ==
    LET d == tx[r].id IN
    /\ At(r, "lockOrder")
    /\ IF OrderOpen(delivery[d].order)
       THEN Continue(r, "stock", {StockLock(v) : v \in Moved(d)}, tx[r])
       ELSE End(r)
    /\ UNCHANGED tables

(* Stock of all lines of a variant together.  The REFRESH of stock_summary *)
(* that follows begins with its snapshot.                                  *)
Covered(d) == \A v \in Variants : VariantIn(delivery[d].lines, v) <= stock[v]

Leaving(d) == [v \in Variants |-> VariantIn(delivery[d].lines, v)]
CheckStock(r) ==
    LET d == tx[r].id IN
    /\ At(r, "stock")
    /\ IF Covered(d)
       THEN Continue(r, "summary", {SummaryView},
                     [op |-> "confirm", id |-> d, onHand |-> Minus(stock, Leaving(d))])
       ELSE End(r)
    /\ UNCHANGED tables

RefreshSummary(r) ==
    LET d == tx[r].id IN
    /\ At(r, "summary")
    /\ \E onHand \in {tx[r].onHand, Minus(stock, Leaving(d))} :
         Continue(r, "refresh", {AvailableView},
                  [op |-> "confirm", id |-> d, onHand |-> onHand,
                   seen |-> Reserved(order, delivered)])
    /\ UNCHANGED tables

(* available_stock is refreshed before the delivered quantities change.    *)
RefreshReserved(r) ==
    /\ At(r, "refresh") /\ tx[r].op = "confirm"
    /\ \E seen \in {tx[r].seen, Reserved(order, delivered)} :
         Continue(r, "sum", {}, [tx[r] EXCEPT !.seen = seen])
    /\ UNCHANGED tables

(* What the query sums: committed deliveries and the one confirmed here.   *)
Summed(d) == Confirmed(delivery[d].order) \union {d}

SumDelivered(r) ==
    LET d == tx[r].id IN
    /\ At(r, "sum")
    /\ Continue(r, "commitConfirm", {},
                [op |-> "confirm", id |-> d, onHand |-> tx[r].onHand, seen |-> tx[r].seen,
                 done |-> [i \in ItemsOf(delivery[d].order) |-> QuantityOf(Summed(d), i)]])
    /\ UNCHANGED tables

StatusFrom(o, done) ==
    IF \A i \in ItemsOf(o) : done[i] >= Ordered[i] THEN "delivered"
    ELSE IF \E i \in ItemsOf(o) : done[i] > 0 THEN "partial" ELSE order[o]

(* The sums are written to the items, and then the status.                 *)
CommitConfirm(r) ==
    LET d == tx[r].id  o == delivery[d].order
        done == [i \in Items |-> IF i \in ItemsOf(o) THEN tx[r].done[i] ELSE delivered[i]]
    IN
    /\ At(r, "commitConfirm")
    /\ delivery' = [delivery EXCEPT ![d].status = "confirmed"]
    /\ stock' = Minus(stock, Leaving(d))
    /\ summary' = tx[r].onHand
    /\ available' = Minus(tx[r].onHand, tx[r].seen)
    /\ delivered' = done
    /\ order' = [order EXCEPT ![o] = StatusFrom(o, done)]
    /\ End(r)
    /\ UNCHANGED <<demand, invoice, receivable, allocated, arrived>>

-----------------------------------------------------------------------------
(* CustomerInvoiceService.createInvoice with ArService.createTransaction.  *)

BeginInvoice(r) ==
    \E o \in Orders, deliveries \in Bundles :
      /\ \A d \in deliveries : delivery[d].status # "none"
      /\ Begin(r, "invoiceOrder", {OrderLock(o)},
               [op |-> "invoice", order |-> o, deliveries |-> deliveries])
      /\ UNCHANGED tables

LockInvoiceOrder(r) ==
    /\ At(r, "invoiceOrder")
    /\ IF order[tx[r].order] \in {"confirmed", "partial", "delivered"}
       THEN Continue(r, "deliveries", {DeliveryLock(d) : d \in tx[r].deliveries}, tx[r])
       ELSE End(r)
    /\ UNCHANGED tables

LockDeliveries(r) ==
    /\ At(r, "deliveries")
    /\ IF tx[r].deliveries \subseteq Confirmed(tx[r].order)
       THEN Continue(r, "invoiced", {}, tx[r])
       ELSE End(r)
    /\ UNCHANGED tables

(* Mutant: the check is left to the status of the order.                   *)
AlreadyInvoicedNever(deliveries) == FALSE
AlreadyInvoiced(deliveries) == deliveries \intersect Invoiced # {}
CheckInvoiced(r) ==
    /\ At(r, "invoiced")
    /\ IF AlreadyInvoiced(tx[r].deliveries)
       THEN End(r) ELSE Continue(r, "commitInvoice", {}, tx[r])
    /\ UNCHANGED tables

AmountOf(deliveries) == Price * PiecesIn(delivery, deliveries)

(* What is delivered of every item of the order is invoiced.               *)
FullyInvoiced(o, deliveries) ==
    \A i \in ItemsOf(o) : QuantityOf(deliveries, i) >= delivered[i]

CommitInvoice(r) ==
    LET o == tx[r].order
        fresh == {v \in Invoices : invoice[v].status = "none"}
        amount == AmountOf(tx[r].deliveries)
    IN
    /\ At(r, "commitInvoice") /\ fresh # {}
    /\ invoice' = [invoice EXCEPT ![Min(fresh)] =
                     [status |-> "unpaid", order |-> o, amount |-> amount,
                      deliveries |-> tx[r].deliveries, paid |-> 0]]
    /\ receivable' = [receivable EXCEPT ![Min(fresh)] =
                        [status |-> "open", amount |-> amount, received |-> 0]]
    /\ order' = [order EXCEPT ![o] =
                   IF FullyInvoiced(o, Invoiced \union tx[r].deliveries)
                   THEN "invoiced" ELSE "partial"]
    /\ End(r)
    /\ UNCHANGED <<delivered, demand, delivery, allocated, goods, available>>

-----------------------------------------------------------------------------
(* PaymentReceiptService.create with updatePaidAmount.  The invoices are   *)
(* read before the transaction, and again when they are locked, by id.     *)

Payable(v) == invoice[v].status \in {"unpaid", "partial"}

BeginReceipt(r) ==
    \E wanted \in (SUBSET {v \in Invoices : Payable(v)}) \ {{}} :
      \E set \in [wanted -> Payments] :
        /\ \A v \in wanted : set[v] <= Outstanding(v)
        /\ Begin(r, "invoices", {InvoiceLock(Min(wanted))},
                 [op |-> "receipt", set |-> set, todo |-> wanted])
        /\ UNCHANGED tables

Allocatable(v, amount) == Payable(v) /\ amount <= Outstanding(v) + Tolerance
LockInvoices(r) ==
    LET v == Min(tx[r].todo)  rest == tx[r].todo \ {v} IN
    /\ At(r, "invoices")
    /\ IF ~ Allocatable(v, tx[r].set[v])
       THEN End(r)
       ELSE IF rest = {} THEN Continue(r, "commitReceipt", {}, tx[r])
       ELSE Continue(r, "invoices", {InvoiceLock(Min(rest))}, [tx[r] EXCEPT !.todo = rest])
    /\ UNCHANGED tables

(* The CHECK of migration 014.  Mutant: without it.                        *)
WithinTotalAlways(v, paid) == TRUE
WithinTotal(v, paid) == paid <= invoice[v].amount

PaidStatus(amount, paid) ==
    IF paid >= amount THEN "paid" ELSE IF paid > 0 THEN "partial" ELSE "unpaid"

(* The allocations are inserted, summed and written to the invoices; the   *)
(* receivables stay as they are.                                           *)
CommitReceipt(r) ==
    LET set == tx[r].set
        paid == [v \in DOMAIN set |-> allocated[v] + set[v]]
    IN
    /\ At(r, "commitReceipt")
    /\ IF \A v \in DOMAIN set : WithinTotal(v, paid[v])
       THEN /\ allocated' = [v \in Invoices |->
                               IF v \in DOMAIN set THEN paid[v] ELSE allocated[v]]
            /\ invoice' = [v \in Invoices |-> IF v \notin DOMAIN set THEN invoice[v] ELSE
                 [invoice[v] EXCEPT !.paid = paid[v],
                                    !.status = PaidStatus(invoice[v].amount, paid[v])]]
       ELSE UNCHANGED <<allocated, invoice>>
    /\ End(r)
    /\ UNCHANGED <<order, delivered, demand, delivery, receivable, goods, available>>

-----------------------------------------------------------------------------
(* Orders are created as drafts, in one transaction each.                  *)
Drafts ==
    /\ NoRequests
    /\ order = [o \in Orders |-> "draft"]
    /\ delivered = [i \in Items |-> 0]
    /\ demand = [i \in Items |-> "none"]
    /\ delivery = [d \in Deliveries |-> NoDelivery]
    /\ invoice = [v \in Invoices |-> NoInvoice]
    /\ receivable = [v \in Invoices |-> NoReceivable]
    /\ allocated = [v \in Invoices |-> 0]
    /\ arrived = [v \in Variants |-> 0]
    /\ stock = OnHand
    /\ summary = OnHand
    /\ available = OnHand

Init == begun = 0 /\ Drafts

Handle(r) ==
    \/ BeginStatus(r) \/ CancelDemand(r) \/ Arrive(r)
    \/ BeginDelivery(r) \/ CancelDelivery(r) \/ BeginConfirm(r)
    \/ BeginInvoice(r) \/ BeginReceipt(r)

Statement(r) ==
    \/ ChangeStatus(r) \/ RefreshAvailable(r) \/ CommitStatus(r)
    \/ Validate(r) \/ InsertDelivery(r)
    \/ LockDelivery(r) \/ LockOrder(r) \/ CheckStock(r)
    \/ RefreshSummary(r) \/ RefreshReserved(r) \/ SumDelivered(r) \/ CommitConfirm(r)
    \/ LockInvoiceOrder(r) \/ LockDeliveries(r) \/ CheckInvoiced(r) \/ CommitInvoice(r)
    \/ LockInvoices(r) \/ CommitReceipt(r)
    \/ DeadlockVictim(r) /\ UNCHANGED tables

Next == \E r \in Requests : Handle(r) \/ Statement(r) \/ (Fail(r) /\ UNCHANGED tables)

Fairness == \A r \in Requests : WF_vars(Statement(r))
Spec == Init /\ [][Next]_vars

-----------------------------------------------------------------------------
DeliveryRow ==
    {NoDelivery} \union [status : {"draft", "confirmed", "cancelled"}, order : Orders,
                         lines : Seq(Line)]
InvoiceRow ==
    {NoInvoice} \union [status : {"unpaid", "partial", "paid"}, order : Orders,
                        deliveries : SUBSET Deliveries, amount : Nat, paid : Nat]
ReceivableRow == {NoReceivable} \union [status : {"open"}, amount : Nat, received : {0}]

(* The type of every table.                                                *)
TypeOK ==
    /\ IdleHoldsNothing
    /\ order \in [Orders -> {"draft", "confirmed", "partial", "delivered", "invoiced",
                             "cancelled"}]
    /\ delivered \in [Items -> Nat]
    /\ demand \in [Items -> {"none", "open", "cancelled"}]
    /\ delivery \in [Deliveries -> DeliveryRow]
    /\ invoice \in [Invoices -> InvoiceRow]
    /\ receivable \in [Invoices -> ReceivableRow]
    /\ \A v \in Invoices : invoice[v] = NoInvoice <=> receivable[v] = NoReceivable
    /\ allocated \in [Invoices -> Nat]
    /\ {arrived, stock} \subseteq [Variants -> Nat]
    /\ {summary, available} \subseteq [Variants -> Int]

(* What has left the warehouse is what the confirmed deliveries list, and  *)
(* quantity_delivered of an item is what those of its order list, although *)
(* updateDeliveredQuantity sums and writes while other deliveries are      *)
(* created, confirmed and cancelled.  The tables keep their types.         *)
DeliveriesAddUp ==
    /\ TypeOK
    /\ \A i \in Items : delivered[i] = QuantityOf(Confirmed(OrderOf[i]), i)
    /\ \A v \in Variants :
         stock[v] + LeftIn(delivery, UNION {Confirmed(o) : o \in Orders}, v)
           = OnHand[v] + arrived[v]

(* A delivery is on one invoice at most, and an order counts as invoiced   *)
(* only when everything delivered for it is: a delivery that is confirmed  *)
(* while an invoice is made is either on time or refused.                  *)
InvoicesCoverDeliveries ==
    /\ \A v, w \in ActiveInvoices :
         v # w => invoice[v].deliveries \intersect invoice[w].deliveries = {}
    /\ \A o \in Orders : order[o] = "invoiced" => FullyInvoiced(o, Invoiced)

(* Cancelled and invoiced are final, and nothing is delivered for such an  *)
(* order any more, whoever read it before.                                 *)
ClosedOrdersRest ==
    [][\A o \in Orders : order[o] \in {"cancelled", "invoiced"} =>
          order'[o] = order[o] /\ Confirmed(o)' = Confirmed(o)]_vars

(* An invoice is paid what its receipts allocate, never more than its      *)
(* amount, not even by the tolerance each allocation is granted; and what  *)
(* it charges is what its deliveries brought.                              *)
ReceiptsAddUp ==
    \A v \in ActiveInvoices :
      /\ invoice[v].paid = allocated[v]
      /\ allocated[v] <= invoice[v].amount
      /\ invoice[v].amount = AmountOf(invoice[v].deliveries)
      /\ receivable[v].amount = invoice[v].amount

(***************************************************************************)
(* The inductive invariant behind the properties above: what each handler  *)
(* knows, statement by statement, of the rows it has locked.               *)
(***************************************************************************)
LocksExclusive ==
    \A r, q \in Requests : r # q => locks[r] \intersect locks[q] = {}
InvoicedAreConfirmed ==
    \A v \in ActiveInvoices : \A d \in invoice[v].deliveries :
      delivery[d].status = "confirmed"
AllocatedToIssued == \A v \in Invoices \ ActiveInvoices : allocated[v] = 0

Levels == [Variants -> Int]

StatusKnows(r) ==
    LET o == tx[r].order  ops == {"confirmed", "cancelled"} IN
    \/ /\ pc[r] = "order"
       /\ tx[r] \in [op : ops, order : Orders] /\ needs[r] = {OrderLock(o)}
    \/ /\ pc[r] \in {"refresh", "commitStatus"}
       /\ tx[r] \in [op : ops, order : Orders, seen : Levels]
       /\ OrderLock(o) \in locks[r] /\ StatusAllows(o, tx[r].op)

DeliverKnows(r) ==
    /\ pc[r] \in {"validate", "insert"}
    /\ tx[r] \in [op : {"deliver"}, order : Orders, lines : Seq(Line), todo : SUBSET Nat]

ConfirmKnows(r) ==
    LET d == tx[r].id  o == delivery[d].order
        locked == /\ DeliveryLock(d) \in locks[r] /\ delivery[d].status = "draft"
        open == locked /\ OrderLock(o) \in locks[r] /\ OrderOpen(o)
        taken == open /\ Covered(d) /\ \A v \in Moved(d) : StockLock(v) \in locks[r]
    IN
    /\ tx[r].op = "confirm" /\ d \in Deliveries /\ delivery[d].status # "none"
    /\ \/ /\ pc[r] = "delivery" /\ needs[r] = {DeliveryLock(d)}
          /\ tx[r] \in [op : {"confirm"}, id : Deliveries]
       \/ /\ pc[r] = "lockOrder" /\ needs[r] = {OrderLock(o)} /\ locked
          /\ tx[r] \in [op : {"confirm"}, id : Deliveries]
       \/ /\ pc[r] = "stock" /\ needs[r] = {StockLock(v) : v \in Moved(d)} /\ open
          /\ tx[r] \in [op : {"confirm"}, id : Deliveries]
       \/ /\ pc[r] = "summary" /\ taken
          /\ tx[r] \in [op : {"confirm"}, id : Deliveries, onHand : Levels]
       \/ /\ pc[r] \in {"refresh", "sum"} /\ taken
          /\ tx[r] \in [op : {"confirm"}, id : Deliveries, onHand : Levels, seen : Levels]
       \/ /\ pc[r] = "commitConfirm" /\ taken
          /\ tx[r] \in [op : {"confirm"}, id : Deliveries, onHand : Levels, seen : Levels,
                        done : [ItemsOf(o) -> Nat]]
          /\ \A i \in ItemsOf(o) : tx[r].done[i] = QuantityOf(Summed(d), i)

InvoiceKnows(r) ==
    LET o == tx[r].order  billed == tx[r].deliveries
        locked == /\ OrderLock(o) \in locks[r]
                  /\ order[o] \in {"confirmed", "partial", "delivered"}
    IN
    /\ tx[r] \in [op : {"invoice"}, order : Orders, deliveries : SUBSET Deliveries]
    /\ \/ pc[r] = "invoiceOrder" /\ needs[r] = {OrderLock(o)}
       \/ /\ pc[r] = "deliveries" /\ locked
          /\ needs[r] = {DeliveryLock(d) : d \in billed}
       \/ /\ pc[r] \in {"invoiced", "commitInvoice"} /\ locked
          /\ billed \subseteq Confirmed(o)
          /\ \A d \in billed : DeliveryLock(d) \in locks[r]
          /\ pc[r] = "commitInvoice" => billed \intersect Invoiced = {}

ReceiptKnows(r) ==
    /\ pc[r] \in {"invoices", "commitReceipt"}
    /\ tx[r] = [op |-> "receipt", set |-> tx[r].set, todo |-> tx[r].todo]
    /\ \A v \in DOMAIN tx[r].set :
         v \in ActiveInvoices /\ tx[r].set[v] \in Payments

Knows(r) ==
    \/ pc[r] = "idle"
    \/ StatusKnows(r) \/ DeliverKnows(r) \/ ConfirmKnows(r)
    \/ InvoiceKnows(r) \/ ReceiptKnows(r)

IInv ==
    /\ DeliveriesAddUp /\ InvoicesCoverDeliveries /\ ReceiptsAddUp
    /\ InvoicedAreConfirmed /\ AllocatedToIssued /\ LocksExclusive
    /\ pc = [r \in Requests |-> pc[r]] /\ needs = [r \in Requests |-> needs[r]]
    /\ tx = [r \in Requests |-> tx[r]] /\ locks = [r \in Requests |-> locks[r]]
    /\ \A r \in Requests : Knows(r)

(* An item whose pieces are on hand, and not reserved by other items, can  *)
(* be put on a delivery when no request is in progress.                    *)
ReservationServesItsOrder ==
    (\A r \in Requests : pc[r] = "idle") =>
      \A i \in Items :
        LET v == VariantOf[i]
            others == Reserved(order, delivered)[v] - Pending(i)
        IN  /\ order[OrderOf[i]] \in {"confirmed", "partial"}
            /\ Pending(i) > 0
            /\ stock[v] - others >= Pending(i)
            => Deliverable([item |-> i, quantity |-> Pending(i)])
=============================================================================
