------------------------------ MODULE Production ------------------------------
(***************************************************************************)
(* Planned orders and work orders of one tenant: PlannedOrderService and   *)
(* WorkOrderService, over the bills of material.                           *)
(*                                                                         *)
(* One warehouse and no batches.  The planned orders are those that an MRP *)
(* run has inserted (MrpRuns); a purchase order made from one is counted   *)
(* here and lives in Purchasing.  Of stock there is what the movements of  *)
(* work orders change, with stock_summary; available_stock is in Sales.    *)
(***************************************************************************)
EXTENDS BillOfMaterials

CONSTANTS
    PlannedOrders,
    Production,     \* those of order_type production; the others: purchase
    VariantMade,    \* [PlannedOrders -> Variants]
    QuantityMade,   \* [PlannedOrders -> Nat]
    VersionMade,    \* [PlannedOrders -> Versions and NULL], bom_version_id
    Supplied,       \* those with a suggested_supplier_id
    WorkOrders,     \* bound: ids of work_orders, 1 .. n
    Quantities,     \* quantities of a work order or a result a client sends
    Consumptions,   \* sequences of item, quantity: the lines of a consumption
    OnHand,         \* [Variants -> Nat], the stock at first
    CostPrice       \* [Variants -> Nat], cost_price of product_variants

ASSUME ProductionConstants ==
    /\ Production \subseteq PlannedOrders /\ Supplied \subseteq PlannedOrders
    /\ VariantMade \in [PlannedOrders -> Variants]
    /\ QuantityMade \in [PlannedOrders -> Nat \ {0}]
    /\ VersionMade \in [PlannedOrders -> Versions \union {None}]
    /\ WorkOrders \subseteq Nat \ {0} /\ IsFiniteSet(WorkOrders)
    /\ Quantities \subseteq Nat \ {0}
    /\ Consumptions \subseteq Seq([item : BomItems, quantity : Nat \ {0}])
    /\ OnHand \in [Variants -> Nat] /\ CostPrice \in [Variants -> Nat]

VARIABLES
    planned,        \* planned_orders: status and the orders made from them
    bought,         \* purchase orders created from each planned order
    workOrder,      \* work_orders
    material,       \* work_order_materials: item -> planned, consumed
    process,        \* work_order_operations: operation -> status
    moved,          \* the inventory movements with reference (work_order, id)
    consumed,       \* what they took out, of each variant
    results,        \* sum of the production_results, which they brought in
    journal,        \* amount of the journal of each work order, or NULL
    stock, summary  \* quantity on hand, and the view stock_summary

orders == <<planned, bought, workOrder>>
shopFloor == <<material, process, moved, consumed, results, journal, stock, summary>>
tables == <<bomTables, orders, shopFloor>>
vars == <<connections, tables>>

-----------------------------------------------------------------------------
NoWorkOrder == [status |-> "none", from |-> None, variant |-> None,
                version |-> None, planned |-> 0, produced |-> 0]

PlannedLock(p) == <<"planned order", p>>
WorkOrderLock(w) == <<"work order", w>>
StockLock(v) == <<"stock", v>>
SummaryView == <<"view", "stock_summary">>

FreeIds == {w \in WorkOrders : workOrder[w].status = "none"}
Open(w) == workOrder[w].status \in {"confirmed", "in_progress", "partially_done"}

(* WorkOrderService.create inserts a draft.                                *)
Draft(p, variant, v, quantity) ==
    [status |-> "draft", from |-> p, variant |-> variant, version |-> v,
     planned |-> quantity, produced |-> 0]

-----------------------------------------------------------------------------
(* create, for a client: the version is looked at before the transaction.  *)
(* The client may name a planned order, and any variant.                   *)
BeginCreate(r) ==
    \E v \in Versions, variant \in Variants, n \in Quantities :
      \E p \in PlannedOrders \union {None} :
        /\ version[v].status = "active"
        /\ Begin(r, "insertOrder", {}, [op |-> "create", row |-> Draft(p, variant, v, n)])
        /\ UNCHANGED tables

(* A row that names a planned order waits for the one who approves it.     *)
InsertOrder(r) ==
    /\ pc[r] = "insertOrder"
    /\ Free(r, PlannedLock(tx[r].row.from))
    /\ FreeIds # {}
    /\ workOrder' = [workOrder EXCEPT ![Min(FreeIds)] = tx[r].row]
    /\ End(r)
    /\ UNCHANGED <<bomTables, planned, bought, shopFloor>>

-----------------------------------------------------------------------------
(* PlannedOrderService.approve; bulkApprove calls it for one proposed      *)
(* order after the other, each with a transaction of its own.              *)
BeginApprove(r) ==
    \E p \in PlannedOrders :
      /\ Begin(r, "approve", {PlannedLock(p)}, [op |-> "approve", id |-> p])
      /\ UNCHANGED tables

(* Mutant: the status is not looked at under the lock.                     *)
ApprovableAlways(p) == TRUE
Approvable(p) == planned[p].status = "proposed"

(* What the order needs: an active version, or a supplier.                 *)
Complete(p) ==
    IF p \in Production
    THEN VersionMade[p] # None /\ version[VersionMade[p]].status = "active"
    ELSE p \in Supplied

LockPlanned(r) ==
    LET p == tx[r].id IN
    /\ At(r, "approve")
    /\ IF Approvable(p) /\ Complete(p)
       THEN Continue(r, "commitApproval", {}, tx[r]) ELSE End(r)
    /\ UNCHANGED tables

CommitApproval(r) ==
    LET p == tx[r].id  w == Min(FreeIds) IN
    /\ At(r, "commitApproval")
    /\ IF p \in Production
       THEN /\ FreeIds # {}
            /\ workOrder' = [workOrder EXCEPT ![w] =
                 Draft(p, VariantMade[p], VersionMade[p], QuantityMade[p])]
            /\ planned' = [planned EXCEPT ![p] =
                 [status |-> "approved", workOrder |-> w, purchased |-> FALSE]]
            /\ UNCHANGED bought
       ELSE /\ bought' = [bought EXCEPT ![p] = @ + 1]
            /\ planned' = [planned EXCEPT ![p] =
                 [status |-> "approved", workOrder |-> None, purchased |-> TRUE]]
            /\ UNCHANGED workOrder
    /\ End(r)
    /\ UNCHANGED <<bomTables, shopFloor>>

(* cancel: the condition of the UPDATE decides again.                      *)
CancelPlanned(r) ==
    \E p \in PlannedOrders :
      /\ Autocommit(r, PlannedLock(p))
      /\ Approvable(p)
      /\ planned' = [planned EXCEPT ![p].status = "cancelled"]
      /\ UNCHANGED <<bomTables, bought, workOrder, shopFloor>>

-----------------------------------------------------------------------------
(* update and cancel of a work order: a read, and an UPDATE later, which   *)
(* for cancel is unconditional.                                            *)
BeginChange(r) ==
    \E w \in WorkOrders :
      /\ \/ /\ workOrder[w].status = "draft"
            /\ \E n \in Quantities :
                 Begin(r, "updateOrder", {WorkOrderLock(w)},
                       [op |-> "update", id |-> w, planned |-> n])
         \/ /\ workOrder[w].status \notin {"none", "completed", "cancelled"}
            /\ Begin(r, "cancelOrder", {WorkOrderLock(w)}, [op |-> "cancel", id |-> w])
      /\ UNCHANGED tables

UpdateOrder(r) ==
    LET w == tx[r].id IN
    /\ At(r, "updateOrder")
    /\ workOrder' = IF workOrder[w].status \in {"completed", "cancelled"} THEN workOrder
                    ELSE [workOrder EXCEPT ![w].planned = tx[r].planned]
    /\ End(r)
    /\ UNCHANGED <<bomTables, planned, bought, shopFloor>>

CancelOrder(r) ==
    /\ At(r, "cancelOrder")
    /\ workOrder' = [workOrder EXCEPT ![tx[r].id].status = "cancelled"]
    /\ End(r)
    /\ UNCHANGED <<bomTables, planned, bought, shopFloor>>

(* startProduction.                                                        *)
StartProduction(r) ==
    \E w \in WorkOrders :
      /\ Autocommit(r, WorkOrderLock(w))
      /\ workOrder[w].status = "confirmed"
      /\ workOrder' = [workOrder EXCEPT ![w].status = "in_progress"]
      /\ UNCHANGED <<bomTables, planned, bought, shopFloor>>

-----------------------------------------------------------------------------
(* confirm, consumeMaterials and recordResult lock the work order and look *)
(* at its status.                                                          *)
BeginWork(r) ==
    \E w \in WorkOrders :
      /\ workOrder[w].status # "none"
      /\ \/ Begin(r, "confirm", {WorkOrderLock(w)}, [op |-> "confirm", id |-> w])
         \/ \E lines \in Consumptions :
              Begin(r, "consume", {WorkOrderLock(w)},
                    [op |-> "consume", id |-> w, lines |-> lines])
         \/ \E n \in Quantities :
              Begin(r, "result", {WorkOrderLock(w)},
                    [op |-> "result", id |-> w, quantity |-> n])
      /\ UNCHANGED tables

(* The items of the version as they are now, whatever its status.  Phantom *)
(* items are dropped at the top of the tree only.                          *)
Materials(w) ==
    LET all == Explode(workOrder[w].version, workOrder[w].planned) IN
    [i \in {i \in DOMAIN all : ~ item[i].phantom \/ item[i].level > 0} |-> all[i]]

LockConfirm(r) ==
    /\ At(r, "confirm")
    /\ IF workOrder[tx[r].id].status = "draft"
       THEN Continue(r, "commitWork", {}, [op |-> "confirm", id |-> tx[r].id,
                                           needed |-> Materials(tx[r].id)])
       ELSE End(r)
    /\ UNCHANGED tables

(* The materials are inserted, with their foreign keys, and the operations *)
(* the version has by now.                                                 *)
CommitConfirm(r) ==
    LET w == tx[r].id
        needed == tx[r].needed
        steps == {o \in Operations : extra[o] = workOrder[w].version}
    IN
    /\ At(r, "commitWork")
    /\ IF DOMAIN needed \subseteq Stored
       THEN /\ material' = [material EXCEPT ![w] =
                 [i \in DOMAIN needed |-> [planned |-> needed[i], consumed |-> 0]]]
            /\ process' = [process EXCEPT ![w] = [o \in steps |-> "pending"]]
            /\ referenced' = referenced \union DOMAIN needed \union steps
            /\ workOrder' = [workOrder EXCEPT ![w].status = "confirmed"]
       ELSE UNCHANGED <<material, process, referenced, workOrder>>
    /\ End(r)
    /\ UNCHANGED <<headers, version, item, extra, planned, bought,
                   moved, consumed, results, journal, stock, summary>>

-----------------------------------------------------------------------------
(* Lines of a consumption name the materials of the work order; a material *)
(* may be on several.  Each line counts from the row that was read first.  *)
LineItems(lines) == {lines[k].item : k \in DOMAIN lines}
LastLine(lines, i) == lines[Max({k \in DOMAIN lines : lines[k].item = i})].quantity
AfterLines(rows, lines) ==
    [i \in DOMAIN rows |->
       IF i \notin LineItems(lines) THEN rows[i]
       ELSE [rows[i] EXCEPT !.consumed = @ + LastLine(lines, i)]]
TakenFrom(items, lines, v) ==
    MapThenSumSet(LAMBDA k : IF items[lines[k].item].variant = v
                             THEN lines[k].quantity ELSE 0, DOMAIN lines)
Taken(lines) == [v \in Variants |-> TakenFrom(item, lines, v)]

(* Mutant: the status is not looked at under the lock.                     *)
AcceptsWorkAlways(w) == TRUE
AcceptsWork(w) == Open(w)

LockConsume(r) ==
    LET w == tx[r].id  lines == tx[r].lines IN
    /\ At(r, "consume")
    /\ IF AcceptsWork(w) /\ LineItems(lines) \subseteq DOMAIN material[w]
       THEN Continue(r, "stock", {StockLock(item[i].variant) : i \in LineItems(lines)},
                     tx[r])
       ELSE End(r)
    /\ UNCHANGED tables

(* The stock of all lines of a variant together.  Mutant: of each line.    *)
CoveredByLine(lines) ==
    \A k \in DOMAIN lines : lines[k].quantity <= stock[item[lines[k].item].variant]
Covered(lines) == \A v \in Variants : Taken(lines)[v] <= stock[v]

(* The unique reference of migration 014: one movement of a work order.    *)
ReferenceFree(w) == moved[w] = {}

Minus(f, g) == [v \in Variants |-> f[v] - g[v]]
Plus(f, variant, n) == [f EXCEPT ![variant] = @ + n]

CheckStock(r) ==
    LET left == Minus(stock, Taken(tx[r].lines)) IN
    /\ At(r, "stock")
    /\ IF Covered(tx[r].lines) /\ ReferenceFree(tx[r].id)
       THEN Continue(r, "refreshConsume", {SummaryView},
                     [op |-> "consume", id |-> tx[r].id, lines |-> tx[r].lines,
                      seen |-> left])
       ELSE End(r)
    /\ UNCHANGED tables

CommitConsume(r) ==
    LET w == tx[r].id  lines == tx[r].lines  left == Minus(stock, Taken(lines)) IN
    /\ At(r, "refreshConsume")
    /\ material' = [material EXCEPT ![w] = AfterLines(@, lines)]
    /\ moved' = [moved EXCEPT ![w] = @ \union {"out"}]
    /\ consumed' = [consumed EXCEPT ![w] = [v \in Variants |-> @[v] + Taken(lines)[v]]]
    /\ stock' = left
    /\ summary' \in {tx[r].seen, left}
    /\ End(r)
    /\ UNCHANGED <<bomTables, orders, process, results, journal>>

LockResult(r) ==
    LET w == tx[r].id IN
    /\ At(r, "result")
    /\ IF AcceptsWork(w) /\ ReferenceFree(w)
       THEN Continue(r, "refreshResult", {SummaryView},
                     [op |-> "result", id |-> w, quantity |-> tx[r].quantity,
                      seen |-> Plus(stock, workOrder[w].variant, tx[r].quantity)])
       ELSE End(r)
    /\ UNCHANGED tables

(* The materials at cost, or the product when none was consumed.           *)
Used(w) ==
    MapThenSumSet(LAMBDA i : material[w][i].consumed * CostPrice[item[i].variant],
                  DOMAIN material[w])
Cost(w, n) ==
    IF Used(w) = 0 THEN CostPrice[workOrder[w].variant] * n ELSE Used(w)

(* A work order whose quantity is reached is completed, with a journal     *)
(* unless it costs nothing.                                                *)
Total(w, n) == workOrder[w].produced + n

CommitResult(r) ==
    LET w == tx[r].id  n == tx[r].quantity
        made == Plus(stock, workOrder[w].variant, n)
        done == Total(w, n) >= workOrder[w].planned
    IN
    /\ At(r, "refreshResult")
    /\ workOrder' = [workOrder EXCEPT ![w].produced = Total(w, n),
                       ![w].status = IF done THEN "completed" ELSE "partially_done"]
    /\ moved' = [moved EXCEPT ![w] = @ \union {"in"}]
    /\ results' = [results EXCEPT ![w] = @ + n]
    /\ stock' = made
    /\ summary' \in {tx[r].seen, made}
    /\ journal' = IF done /\ Cost(w, n) > 0 THEN [journal EXCEPT ![w] = Cost(w, n)]
                  ELSE journal
    /\ End(r)
    /\ UNCHANGED <<bomTables, planned, bought, material, process, consumed>>

-----------------------------------------------------------------------------
(* startOperation and completeOperation, whatever the status of the order. *)
MoveOperation(r, before, after) ==
    \E w \in WorkOrders : \E o \in DOMAIN process[w] :
      /\ Autocommit(r, <<"operation", w, o>>)
      /\ process[w][o] = before
      /\ process' = [process EXCEPT ![w][o] = after]
      /\ UNCHANGED <<bomTables, orders, material, moved, consumed, results, journal, stock, summary>>

StartOperation(r) == MoveOperation(r, "pending", "in_progress")
CompleteOperation(r) == MoveOperation(r, "in_progress", "completed")

-----------------------------------------------------------------------------
NoWork ==
    /\ planned = [p \in PlannedOrders |->
                    [status |-> "proposed", workOrder |-> None, purchased |-> FALSE]]
    /\ bought = [p \in PlannedOrders |-> 0]
    /\ workOrder = [w \in WorkOrders |-> NoWorkOrder]
    /\ material = [w \in WorkOrders |-> [i \in {} |-> 0]]
    /\ process = [w \in WorkOrders |-> [o \in {} |-> "pending"]]
    /\ moved = [w \in WorkOrders |-> {}]
    /\ consumed = [w \in WorkOrders |-> [v \in Variants |-> 0]]
    /\ results = [w \in WorkOrders |-> 0]
    /\ journal = [w \in WorkOrders |-> None]
    /\ stock = OnHand /\ summary = OnHand

Init == begun = 0 /\ NoRequests /\ NoBills /\ NoWork

Handle(r) ==
    \/ BomHandle(r) /\ UNCHANGED <<orders, shopFloor>>
    \/ BeginCreate(r) \/ BeginApprove(r) \/ CancelPlanned(r) \/ BeginChange(r)
    \/ StartProduction(r) \/ BeginWork(r) \/ StartOperation(r) \/ CompleteOperation(r)

(* Work orders are locked before stock keys and these before the view, so  *)
(* nothing waits in a circle.                                              *)
Statement(r) ==
    \/ BomStatement(r) /\ UNCHANGED <<orders, shopFloor>>
    \/ InsertOrder(r) \/ LockPlanned(r) \/ CommitApproval(r)
    \/ UpdateOrder(r) \/ CancelOrder(r)
    \/ LockConfirm(r) \/ CommitConfirm(r)
    \/ LockConsume(r) \/ CheckStock(r) \/ CommitConsume(r)
    \/ LockResult(r) \/ CommitResult(r)

Next == \E r \in Requests : Handle(r) \/ Statement(r) \/ (Fail(r) /\ UNCHANGED tables)

Spec == Init /\ [][Next]_vars

-----------------------------------------------------------------------------
WorkOrderRow ==
    [status : {"draft", "confirmed", "in_progress", "completed", "partially_done",
               "cancelled"},
     from : PlannedOrders \union {None}, variant : Variants, version : Versions,
     planned : Nat \ {0}, produced : Nat]

(* The type of every table; the rows of work orders name the items and     *)
(* operations that are referenced, which are stored.                       *)
TypeOK ==
    /\ IdleHoldsNothing /\ BomTypeOK
    /\ planned \in [PlannedOrders -> [status : {"proposed", "approved", "cancelled"},
                                      workOrder : WorkOrders \union {None},
                                      purchased : BOOLEAN]]
    /\ bought \in [PlannedOrders -> Nat]
    /\ workOrder \in [WorkOrders -> WorkOrderRow \union {NoWorkOrder}]
    /\ \A w \in WorkOrders :
         /\ DOMAIN material[w] \subseteq Stored
         /\ \A i \in DOMAIN material[w] :
              material[w][i] \in [planned : Nat \ {0}, consumed : Nat]
         /\ process[w] \in [DOMAIN process[w] -> {"pending", "in_progress", "completed"}]
         /\ \A o \in DOMAIN process[w] : extra[o] # None
    /\ referenced = UNION {DOMAIN material[w] \union DOMAIN process[w] : w \in WorkOrders}
    /\ moved \in [WorkOrders -> SUBSET {"out", "in"}]
    /\ consumed \in [WorkOrders -> [Variants -> Nat]]
    /\ results \in [WorkOrders -> Nat]
    /\ journal \in [WorkOrders -> Nat \union {None}]
    /\ stock \in [Variants -> Nat] /\ summary \in [Variants -> Int]

(* A planned order is approved once: it names the one work order or the    *)
(* one purchase order that was made from it, and no other planned order    *)
(* names the same; one that is not approved led to nothing, whoever else   *)
(* approved or cancelled it at the same time.                              *)
ApprovalsMatchOrders ==
    /\ \A p \in PlannedOrders : LET w == planned[p].workOrder IN
         /\ planned[p].status = "approved" <=> (w # None \/ planned[p].purchased)
         /\ w # None => /\ p \in Production /\ workOrder[w].from = p
                        /\ workOrder[w].variant = VariantMade[p]
         /\ bought[p] = IF planned[p].purchased THEN 1 ELSE 0
    /\ \A p, q \in PlannedOrders :
         planned[p].workOrder = planned[q].workOrder => p = q \/ planned[p].workOrder = None

NetOf(rows, made, used, v) ==
    MapThenSumSet(LAMBDA w : (IF rows[w].variant = v THEN made[w] ELSE 0) - used[w][v],
                  WorkOrders)

(* Stock is what there was, with the results of the work orders and        *)
(* without what they consumed; it never went below zero; a work order      *)
(* counts what its results brought, and one that is completed has a        *)
(* journal, unless it costs nothing.  The tables keep their types.         *)
ProductionAddsUp ==
    /\ TypeOK
    /\ \A v \in Variants :
         /\ stock[v] = OnHand[v] + NetOf(workOrder, results, consumed, v)
         /\ stock[v] >= 0
    /\ \A w \in WorkOrders :
         /\ workOrder[w].produced = results[w]
         /\ workOrder[w].status = "completed" =>
              \/ journal[w] # None
              \/ results[w] * CostPrice[workOrder[w].variant] = 0

(* A cancelled work order stays so, and nothing is consumed or produced    *)
(* for it any more, by a request that saw it open either.                  *)
CancelledOrdersRest ==
    [][\A w \in WorkOrders : workOrder[w].status = "cancelled" =>
          /\ workOrder'[w] = workOrder[w]
          /\ consumed'[w] = consumed[w] /\ results'[w] = results[w]]_vars

(***************************************************************************)
(* The inductive invariant behind the properties above: what each handler  *)
(* knows, statement by statement, of the rows it has locked.               *)
(***************************************************************************)
LocksExclusive ==
    \A r, q \in Requests : r # q => locks[r] \intersect locks[q] = {}

Created == {w \in WorkOrders : workOrder[w].status # "none"}

NothingBeforeConfirm ==
    \A w \in WorkOrders : workOrder[w].status \in {"none", "draft"} =>
      DOMAIN material[w] = {} /\ DOMAIN process[w] = {}
OrdersExist ==
    \A p \in PlannedOrders : planned[p].workOrder \in Created \union {None}

Levels == [Variants -> Int]

OrderKnows(r) ==
    LET p == tx[r].id IN
    \/ /\ pc[r] = "insertOrder"
       /\ tx[r].row \in WorkOrderRow
       /\ tx[r].row.status = "draft" /\ tx[r].row.produced = 0
    \/ /\ pc[r] = "approve" /\ needs[r] = {PlannedLock(p)}
       /\ tx[r] \in [op : {"approve"}, id : PlannedOrders]
    \/ /\ pc[r] = "commitApproval" /\ PlannedLock(p) \in locks[r]
       /\ tx[r] \in [op : {"approve"}, id : PlannedOrders]
       /\ Approvable(p) /\ (p \in Production => VersionMade[p] # None)
    \/ /\ pc[r] = "updateOrder" /\ needs[r] = {WorkOrderLock(p)}
       /\ tx[r] \in [op : {"update"}, id : Created, planned : Nat \ {0}]
    \/ /\ pc[r] = "cancelOrder" /\ needs[r] = {WorkOrderLock(p)}
       /\ tx[r] \in [op : {"cancel"}, id : Created]

ConfirmKnows(r) ==
    LET w == tx[r].id IN
    /\ pc[r] \in {"confirm", "commitWork"} /\ w \in Created
    /\ \/ pc[r] = "confirm" /\ needs[r] = {WorkOrderLock(w)}
       \/ /\ pc[r] = "commitWork" /\ WorkOrderLock(w) \in locks[r]
          /\ workOrder[w].status = "draft"
          /\ DOMAIN tx[r].needed \subseteq BomItems
          /\ \A i \in DOMAIN tx[r].needed : tx[r].needed[i] \in Nat \ {0}

StockLocks(lines) == {StockLock(item[i].variant) : i \in LineItems(lines)}

ConsumeKnows(r) ==
    LET w == tx[r].id  lines == tx[r].lines
        open == /\ WorkOrderLock(w) \in locks[r] /\ Open(w)
                /\ LineItems(lines) \subseteq DOMAIN material[w]
    IN
    /\ pc[r] \in {"consume", "stock", "refreshConsume"}
    /\ w \in Created /\ lines \in Consumptions
    /\ \/ pc[r] = "consume" /\ needs[r] = {WorkOrderLock(w)}
       \/ pc[r] = "stock" /\ open /\ needs[r] = StockLocks(lines)
       \/ /\ pc[r] = "refreshConsume" /\ open /\ tx[r].seen \in Levels
          /\ StockLocks(lines) \subseteq locks[r] /\ Covered(lines)

ResultKnows(r) ==
    LET w == tx[r].id IN
    /\ pc[r] \in {"result", "refreshResult"}
    /\ w \in Created /\ tx[r].quantity \in Quantities
    /\ \/ pc[r] = "result" /\ needs[r] = {WorkOrderLock(w)}
       \/ /\ pc[r] = "refreshResult" /\ tx[r].seen \in Levels
          /\ WorkOrderLock(w) \in locks[r] /\ Open(w)

Knows(r) ==
    \/ pc[r] = "idle"
    \/ BillKnows(r) \/ OrderKnows(r) \/ ConfirmKnows(r)
    \/ ConsumeKnows(r) \/ ResultKnows(r)

IInv ==
    /\ OneActiveVersion /\ ParentsFirst /\ IdsInOrder
    /\ ApprovalsMatchOrders /\ ProductionAddsUp
    /\ NothingBeforeConfirm /\ OrdersExist /\ LocksExclusive
    /\ material = [w \in WorkOrders |-> material[w]]
    /\ process = [w \in WorkOrders |-> process[w]]
    /\ pc = [r \in Requests |-> pc[r]] /\ needs = [r \in Requests |-> needs[r]]
    /\ tx = [r \in Requests |-> tx[r]] /\ locks = [r \in Requests |-> locks[r]]
    /\ \A r \in Requests : Knows(r)

(* A work order that is open accepts a movement: materials are consumed    *)
(* first, and results recorded, perhaps in several parts, afterwards.      *)
OpenOrdersAcceptWork ==
    \A w \in WorkOrders : Open(w) => ReferenceFree(w)
=============================================================================
