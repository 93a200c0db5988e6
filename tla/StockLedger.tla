----------------------------- MODULE StockLedger -----------------------------
(***************************************************************************)
(* Inventory movements, stock opnames and the stock_summary view of one    *)
(* tenant: InventoryMovementService, StockOpnameService, the advisory      *)
(* locks of stock-lock.ts, and the movements that goods receipts,          *)
(* deliveries and work orders post.                                        *)
(*                                                                         *)
(* Stock is not stored: it is the sum of the confirmed movements.  A       *)
(* request is one READ COMMITTED transaction, as in GeneralLedger: it      *)
(* takes locks statement by statement, holds them to the end, and its      *)
(* writes become visible at COMMIT.                                        *)
(***************************************************************************)
EXTENDS Integers, Sequences, FiniteSetsExt

CONSTANTS
    Requests,       \* request slots
    Skus,           \* variants (with their batch), as numbers
    Warehouses,     \* warehouses, as numbers
    Existing,       \* the movements and drafts that exist at the start
    Templates,      \* movements a client may submit as a draft
    Documents,      \* source documents ready to post: [ref, direction, items]
    None,           \* SQL NULL
    MaxCount,       \* bound: largest quantity counted in an opname
    MaxRequests     \* bound: requests begun in a behaviour

(* Ids: a request inserts at most one movement and at most one opname.     *)
Movements == 1 .. Len(Existing) + MaxRequests
Opnames == 1 .. MaxRequests
Keys == Skus \X Warehouses

Item == [sku : Skus, from : Warehouses \union {None},
         to : Warehouses \union {None}, quantity : Nat \ {0}]
OpnameRef(o) == <<"stock_opname", o>>
References == {d.ref : d \in Documents} \union {OpnameRef(o) : o \in Opnames}

(* A row of inventory_movements: only a confirmed one names a source, and  *)
(* a transfer was validated to have two sides.                             *)
MovementRow ==
    {m \in [status : {"none", "draft", "confirmed", "cancelled"},
            direction : {"in", "out", "transfer"}, items : Seq(Item),
            source : References \union {None}] :
       /\ m.source # None => m.status = "confirmed"
       /\ m.direction = "transfer" =>
            \A i \in DOMAIN m.items : m.items[i].from # m.items[i].to}

ASSUME StockConstants ==
    /\ Skus \subseteq Nat /\ Warehouses \subseteq Nat /\ None \notin Nat
    /\ IsFiniteSet(Skus) /\ None \notin References
    /\ MaxCount \in Nat /\ MaxRequests \in Nat
    /\ \A x \in Templates :
         x.direction \in {"in", "out", "transfer"} /\ x.items \in Seq(Item)
    /\ \A d \in Documents :
         /\ d.direction \in {"in", "out"} /\ d.items \in Seq(Item)
         /\ \A o \in Opnames : d.ref # OpnameRef(o)

VARIABLES
    begun,          \* number of requests begun
    movement,       \* inventory_movements with their items
    opname,         \* stock_opnames with their items
    summary,        \* rows of the materialized view stock_summary
    pc, tx, locks   \* as in GeneralLedger

vars == <<begun, movement, opname, summary, pc, tx, locks>>

-----------------------------------------------------------------------------
(* Stock on hand.                                                          *)

NoMovement == [status |-> "none", direction |-> "in", items |-> <<>>, source |-> None]
Movement(status, payload, source) ==
    [status |-> status, direction |-> payload.direction,
     items |-> payload.items, source |-> source]

(* The CASE of getStockOnHand for one item and one key.                    *)
ItemDelta(direction, item, k) ==
    IF item.sku # k[1] THEN 0
    ELSE CASE direction = "in" /\ item.to = k[2] -> item.quantity
           [] direction = "out" /\ item.from = k[2] -> -item.quantity
           [] direction = "transfer" /\ item.to = k[2] -> item.quantity
           [] direction = "transfer" /\ item.from = k[2] -> -item.quantity
           [] OTHER -> 0

Delta(m, k) ==
    MapThenSumSet(LAMBDA i : ItemDelta(m.direction, m.items[i], k), DOMAIN m.items)

ConfirmedIn(rows) == {m \in DOMAIN rows : rows[m].status = "confirmed"}
StockIn(rows, k) == MapThenSumSet(LAMBDA m : Delta(rows[m], k), ConfirmedIn(rows))

(* The tenant starts with stock that is not negative.                      *)
ASSUME ExistingMovements ==
    /\ Existing \in Seq(MovementRow)
    /\ \A m \in DOMAIN Existing :
         /\ \A o \in Opnames : Existing[m].source # OpnameRef(o)
         /\ \A n \in DOMAIN Existing :
              m # n /\ Existing[m].source # None => Existing[m].source # Existing[n].source
    /\ \A k \in Keys : StockIn(Existing, k) >= 0

Confirmed == ConfirmedIn(movement)

(* getStockOnHand over committed movements.                                *)
OnHand(k) == StockIn(movement, k)

(* The query of the view, written as a UNION of both sides of an item.     *)
(* Mutant: transfers as the first migration had them, outgoing side only.  *)
ViewDeltaWithoutTransferIn(m, k) ==
    MapThenSumSet(LAMBDA i :
        LET item == m.items[i] IN
        IF item.sku # k[1] THEN 0
        ELSE (IF item.to = k[2] /\ m.direction = "in" THEN item.quantity ELSE 0)
             - (IF item.from = k[2] /\ m.direction \in {"out", "transfer"}
                THEN item.quantity ELSE 0),
      DOMAIN m.items)
ViewDelta(m, k) ==
    MapThenSumSet(LAMBDA i :
        LET item == m.items[i] IN
        IF item.sku # k[1] THEN 0
        ELSE (IF item.to = k[2] /\ m.direction \in {"in", "transfer"}
              THEN item.quantity ELSE 0)
             - (IF item.from = k[2] /\ m.direction \in {"out", "transfer"}
                THEN item.quantity ELSE 0),
      DOMAIN m.items)

ViewOnHand(k) == MapThenSumSet(LAMBDA m : ViewDelta(movement[m], k), Confirmed)

(* What items take from a key, summed per key before it is compared.       *)
(* Mutant: only one item of the key is looked at.                          *)
TakenFrom(items, k) == {i \in DOMAIN items : items[i].sku = k[1] /\ items[i].from = k[2]}
RequiredOfOneItem(items, k) ==
    IF TakenFrom(items, k) = {} THEN 0
    ELSE items[CHOOSE i \in TakenFrom(items, k) : TRUE].quantity
Required(items, k) ==
    MapThenSumSet(LAMBDA i : items[i].quantity, TakenFrom(items, k))
SourceKeys(items) == {k \in Keys : TakenFrom(items, k) # {}}

-----------------------------------------------------------------------------
(* Locks: rows, one advisory lock per stock key, the unique index entry of *)
(* a source reference, and the view (SELECT shares it, REFRESH owns it).   *)

MovementLock(m) == <<"movement", m>>
OpnameLock(o) == <<"opname", o>>
KeyLock(k) == <<"key", k>>
SourceLock(ref) == <<"source", ref>>
DocumentLock(ref) == <<"document", ref>>
ViewLock == <<"view", "refresh">>
ViewShare == <<"view", "select">>

Lockable ==
    {MovementLock(m) : m \in Movements} \union {OpnameLock(o) : o \in Opnames}
      \union {KeyLock(k) : k \in Keys}
      \union {SourceLock(d.ref) : d \in Documents}
      \union {DocumentLock(d.ref) : d \in Documents}
      \union {SourceLock(OpnameRef(o)) : o \in Opnames}
      \union {ViewLock, ViewShare}

Conflicts(x) ==
    CASE x = ViewLock -> {ViewLock, ViewShare}
      [] x = ViewShare -> {ViewLock}
      [] OTHER -> {x}

Free(r, x) == \A q \in Requests \ {r} : locks[q] \intersect Conflicts(x) = {}
Acquire(r, x) == Free(r, x) /\ locks' = [locks EXCEPT ![r] = @ \union {x}]

(* lockStockKeys sorts the keys by their text, here by their numbers: what *)
(* matters is that all requests lock in one total order.                   *)
(* Mutant: it takes them in any order.                                     *)
Before(k, l) == k[1] < l[1] \/ (k[1] = l[1] /\ k[2] < l[2])
NextKeysUnsorted(keys) == keys
NextKeys(keys) == {k \in keys : \A l \in keys \ {k} : Before(k, l)}

-----------------------------------------------------------------------------
(* Transactions.  "adds" are the movements it inserts, "id" the movement   *)
(* or opname it works on, "keys" the stock keys it has still to lock and   *)
(* "snapshot" what its REFRESH has read.                                   *)

NoTx == [op |-> "none", id |-> 0, warehouse |-> None, ref |-> None,
         items |-> <<>>, adds |-> <<>>, keys |-> {}, opname |-> None,
         snapshot |-> None]

Goto(r, step) == pc' = [pc EXCEPT ![r] = step]

Begin(r, step, args) ==
    /\ pc[r] = "idle"
    /\ begun < MaxRequests
    /\ begun' = begun + 1
    /\ Goto(r, step)
    /\ tx' = [tx EXCEPT ![r] = args]
    /\ UNCHANGED <<movement, opname, summary, locks>>

Rollback(r) ==
    /\ Goto(r, "idle")
    /\ tx' = [tx EXCEPT ![r] = NoTx]
    /\ locks' = [locks EXCEPT ![r] = {}]
    /\ UNCHANGED <<begun, movement, opname, summary>>

Fail(r) == pc[r] # "idle" /\ Rollback(r)

FreshMovements == {m \in Movements : movement[m].status = "none"}
FreshMovement == Min(FreshMovements)

(* The sequence of the opnames does not give an id out twice.              *)
FreshOpnames ==
    {o \in Opnames : opname[o].status = "none"}
      \ {tx[q].id : q \in {p \in Requests : tx[p].op = "opname"}}

-----------------------------------------------------------------------------
(* InventoryMovementService                                                *)

(* validateMovementItems.                                                  *)
ValidItems(payload) ==
    /\ Len(payload.items) > 0
    /\ \A i \in DOMAIN payload.items :
         LET item == payload.items[i] IN
         /\ payload.direction \in {"in", "transfer"} => item.to # None
         /\ payload.direction \in {"out", "transfer"} => item.from # None
         /\ payload.direction = "transfer" => item.from # item.to

(* create: a draft; nothing it reads can change under it.                  *)
CreateMovement(r) ==
    /\ pc[r] = "idle" /\ begun < MaxRequests /\ FreshMovements # {}
    /\ \E payload \in Templates :
         /\ ValidItems(payload)
         /\ movement' = [movement EXCEPT ![FreshMovement] =
                           Movement("draft", payload, None)]
    /\ begun' = begun + 1
    /\ UNCHANGED <<opname, summary, pc, tx, locks>>

BeginConfirm(r) ==
    \E m \in Movements :
      /\ movement[m].status # "none"
      /\ Begin(r, "confirm", [NoTx EXCEPT !.op = "confirm", !.id = m])

(* SELECT ... FOR UPDATE; only "out" and "transfer" lock and check stock.  *)
ConfirmLockMovement(r) ==
    LET m == tx[r].id  row == movement[m] IN
    /\ pc[r] = "confirm"
    /\ IF row.status = "draft"
       THEN /\ Acquire(r, MovementLock(m))
            /\ tx' = [tx EXCEPT ![r].items = row.items,
                                ![r].keys = IF row.direction = "in" THEN {}
                                            ELSE SourceKeys(row.items)]
            /\ Goto(r, IF row.direction = "in" THEN "refresh" ELSE "lockKeys")
            /\ UNCHANGED <<begun, movement, opname, summary>>
       ELSE Free(r, MovementLock(m)) /\ Rollback(r)

(* lockStockKeys: one pg_advisory_xact_lock at a time.                     *)
LockKey(r) ==
    /\ pc[r] = "lockKeys"
    /\ \E k \in NextKeys(tx[r].keys) :
         /\ Acquire(r, KeyLock(k))
         /\ tx' = [tx EXCEPT ![r].keys = @ \ {k}]
    /\ UNCHANGED <<begun, movement, opname, summary, pc>>

(* With all keys locked, the stock of each is read and compared.  A        *)
(* delivery has inserted its movement before, but without items.           *)
Inserted(r) == SourceLock(tx[r].ref) \in locks[r]
CheckStock(r) ==
    /\ pc[r] = "lockKeys" /\ tx[r].keys = {}
    /\ IF \A k \in SourceKeys(tx[r].items) : OnHand(k) >= Required(tx[r].items, k)
       THEN /\ Goto(r, IF tx[r].op = "confirm" \/ Inserted(r) THEN "refresh"
                       ELSE "insert")
            /\ UNCHANGED <<begun, movement, opname, summary, tx, locks>>
       ELSE Rollback(r)

(* cancel reads the status without a lock and updates conditionally; the   *)
(* UPDATE waits for a confirm that holds the row.                          *)
BeginCancel(r) ==
    \E m \in Movements :
      /\ movement[m].status = "draft"
      /\ Begin(r, "cancel", [NoTx EXCEPT !.op = "cancel", !.id = m])

CancelMovementUnconditionally(r) ==  \* Mutant: UPDATE without the status.
    /\ pc[r] = "cancel"
    /\ Free(r, MovementLock(tx[r].id))
    /\ movement' = [movement EXCEPT ![tx[r].id].status = "cancelled"]
    /\ Goto(r, "idle")
    /\ tx' = [tx EXCEPT ![r] = NoTx]
    /\ UNCHANGED <<begun, opname, summary, locks>>
CancelMovement(r) ==
    LET m == tx[r].id IN
    /\ pc[r] = "cancel"
    /\ Free(r, MovementLock(m))
    /\ movement' = IF movement[m].status \in {"confirmed", "cancelled"} THEN movement
                   ELSE [movement EXCEPT ![m].status = "cancelled"]
    /\ Goto(r, "idle")
    /\ tx' = [tx EXCEPT ![r] = NoTx]
    /\ UNCHANGED <<begun, opname, summary, locks>>

-----------------------------------------------------------------------------
(* Movements posted by source documents: GoodsReceiptService.confirm,      *)
(* DeliveryOrderService.confirm, WorkOrderService.consumeMaterials and     *)
(* recordResult.  They lock their document and insert a confirmed movement *)
(* with its reference; a delivery does so before it locks its stock keys,  *)
(* a consumption after it has checked them.                                *)

BeginDocument(r) ==
    \E d \in Documents :
      Begin(r, "document",
            [NoTx EXCEPT !.op = "document", !.ref = d.ref, !.items = d.items,
                         !.adds = <<Movement("confirmed", d, d.ref)>>])

Posted(ref) == \E m \in Movements : movement[m].source = ref

(* The document FOR UPDATE.  A receipt or delivery that has been posted is *)
(* no longer a draft; a work order may consume and produce several times.  *)
LockDocument(r) ==
    LET t == tx[r]  incoming == t.adds[1].direction = "in" IN
    /\ pc[r] = "document"
    /\ IF Posted(t.ref) /\ t.ref[1] # "work_order"
       THEN Free(r, DocumentLock(t.ref)) /\ Rollback(r)
       ELSE /\ Acquire(r, DocumentLock(t.ref))
            /\ tx' = [tx EXCEPT ![r].keys = IF incoming THEN {}
                                            ELSE SourceKeys(t.items)]
            /\ Goto(r, IF incoming \/ t.ref[1] = "delivery_order" THEN "insert"
                       ELSE "lockKeys")
            /\ UNCHANGED <<begun, movement, opname, summary>>

(* uq_inventory_movement_source_document, checked row by row; an INSERT    *)
(* waits for an uncommitted one with the same reference.                   *)
ReferenceTaken(r) ==
    \/ Posted(tx[r].ref)
    \/ Len(tx[r].adds) > 1

InsertMovements(r) ==
    /\ pc[r] = "insert"
    /\ IF ReferenceTaken(r)
       THEN Free(r, SourceLock(tx[r].ref)) /\ Rollback(r)
       ELSE /\ Acquire(r, SourceLock(tx[r].ref))
            /\ Goto(r, IF tx[r].keys = {} THEN "refresh" ELSE "lockKeys")
            /\ UNCHANGED <<begun, movement, opname, summary, tx>>

-----------------------------------------------------------------------------
(* REFRESH MATERIALIZED VIEW stock_summary, the last statement of every    *)
(* stock transaction that concerns stock: what a document does after it    *)
(* (its order's quantities, its journal) may only make it fail.  REFRESH   *)
(* takes its snapshot when it starts and then waits for the view's lock,   *)
(* which is kept until COMMIT.                                             *)

OwnDelta(r, k) ==
    IF tx[r].op = "confirm" THEN ViewDelta(movement[tx[r].id], k)
    ELSE MapThenSumSet(LAMBDA i : ViewDelta(tx[r].adds[i], k), DOMAIN tx[r].adds)

RefreshSnapshot(r) ==
    /\ pc[r] = "refresh"
    /\ tx' = [tx EXCEPT ![r].snapshot =
                [k \in Keys |-> ViewOnHand(k) + OwnDelta(r, k)]]
    /\ Goto(r, "refreshLock")
    /\ UNCHANGED <<begun, movement, opname, summary, locks>>

RefreshLock(r) ==
    /\ pc[r] = "refreshLock"
    /\ Acquire(r, ViewLock)
    /\ Goto(r, "commit")
    /\ UNCHANGED <<begun, movement, opname, summary, tx>>

Commit(r) ==
    LET t == tx[r] IN
    /\ pc[r] = "commit"
    /\ Len(t.adds) = 1 => FreshMovements # {}
    /\ movement' =
         CASE t.op = "confirm" -> [movement EXCEPT ![t.id].status = "confirmed"]
           [] Len(t.adds) = 1 -> [movement EXCEPT ![FreshMovement] = t.adds[1]]
           [] OTHER -> movement
    /\ opname' = IF t.op \in {"opname", "complete"}
                 THEN [opname EXCEPT ![t.id] = t.opname] ELSE opname
    /\ summary' = IF t.snapshot = None THEN summary ELSE t.snapshot
    /\ Goto(r, "idle")
    /\ tx' = [tx EXCEPT ![r] = NoTx]
    /\ locks' = [locks EXCEPT ![r] = {}]
    /\ UNCHANGED begun

-----------------------------------------------------------------------------
(* StockOpnameService                                                      *)

NoOpname == [status |-> "none", warehouse |-> None, system |-> <<>>, actual |-> <<>>]

Active(w) == {o \in Opnames : opname[o].status = "counting" /\ opname[o].warehouse = w}

(* create looks for an active opname before its transaction begins.        *)
BeginOpname(r) ==
    \E w \in Warehouses :
      /\ Active(w) = {}
      /\ Begin(r, "opname", [NoTx EXCEPT !.op = "opname", !.warehouse = w])

(* Insert, with the positive rows of the view as system quantities.        *)
CreateOpname(r) ==
    LET w == tx[r].warehouse
        stocked == {s \in Skus : summary[<<s, w>>] > 0}
    IN
    /\ pc[r] = "opname" /\ FreshOpnames # {}
    /\ Acquire(r, ViewShare)
    /\ tx' = [tx EXCEPT
                ![r].id = Min(FreshOpnames),
                ![r].opname = [status |-> "counting", warehouse |-> w,
                               system |-> [s \in stocked |-> summary[<<s, w>>]],
                               actual |-> <<>>]]
    /\ Goto(r, "commit")
    /\ UNCHANGED <<begun, movement, opname, summary>>

BeginComplete(r) ==
    \E o \in Opnames :
      /\ opname[o].status # "none"
      /\ \E actual \in [DOMAIN opname[o].system -> 0 .. MaxCount] :
           Begin(r, "complete",
                 [NoTx EXCEPT !.op = "complete", !.id = o,
                              !.ref = OpnameRef(o),
                              !.opname = [opname[o] EXCEPT !.status = "completed",
                                                           !.actual = actual]])

(* The generated column "difference".                                      *)
Difference(o, s) == o.actual[s] - o.system[s]
Surplus(o) == {s \in DOMAIN o.actual : Difference(o, s) > 0}
Shortage(o) == {s \in DOMAIN o.actual : Difference(o, s) < 0}

(* One item per variant, in some order.                                    *)
ItemsFor(o, skus, from, to) ==
    [i \in 1 .. Cardinality(skus) |->
       LET s == CHOOSE s \in skus : Cardinality({t \in skus : t < s}) = i - 1
           d == Difference(o, s)
       IN [sku |-> s, from |-> from, to |-> to, quantity |-> IF d < 0 THEN -d ELSE d]]
SurplusMovement(o, ref) ==
    Movement("confirmed",
             [direction |-> "in",
              items |-> ItemsFor(o, Surplus(o), None, o.warehouse)], ref)
ShortageMovement(o, ref) ==
    Movement("confirmed",
             [direction |-> "out",
              items |-> ItemsFor(o, Shortage(o), o.warehouse, None)], ref)

(* Mutant: the shortages are the "else" of the surpluses.                  *)
AdjustmentsOfOneSide(o, ref) ==
    IF Surplus(o) # {} THEN <<SurplusMovement(o, ref)>>
    ELSE IF Shortage(o) = {} THEN <<>> ELSE <<ShortageMovement(o, ref)>>
(* One movement for all surpluses and one for all shortages, both with the *)
(* opname as their reference.                                              *)
Adjustments(o, ref) ==
    (IF Surplus(o) = {} THEN <<>> ELSE <<SurplusMovement(o, ref)>>)
      \o (IF Shortage(o) = {} THEN <<>> ELSE <<ShortageMovement(o, ref)>>)

CompleteLockOpname(r) ==
    LET o == tx[r].opname IN
    /\ pc[r] = "complete"
    /\ IF opname[tx[r].id].status = "counting"
       THEN /\ Acquire(r, OpnameLock(tx[r].id))
            /\ tx' = [tx EXCEPT
                 ![r].adds = Adjustments(o, tx[r].ref),
                 ![r].items = IF Shortage(o) = {} THEN <<>>
                              ELSE ShortageMovement(o, tx[r].ref).items,
                 ![r].keys = {<<s, o.warehouse>> : s \in Surplus(o) \union Shortage(o)}]
            /\ Goto(r, IF Surplus(o) \union Shortage(o) = {} THEN "refresh"
                       ELSE "lockKeys")
            /\ UNCHANGED <<begun, movement, opname, summary>>
       ELSE Free(r, OpnameLock(tx[r].id)) /\ Rollback(r)

BeginCancelOpname(r) ==
    \E o \in Opnames :
      /\ opname[o].status \in {"counting", "cancelled"}
      /\ Begin(r, "cancelOpname", [NoTx EXCEPT !.op = "cancelOpname", !.id = o])

CancelOpname(r) ==
    LET o == tx[r].id IN
    /\ pc[r] = "cancelOpname"
    /\ Free(r, OpnameLock(o))
    /\ opname' = IF opname[o].status = "counting"
                 THEN [opname EXCEPT ![o].status = "cancelled"] ELSE opname
    /\ Goto(r, "idle")
    /\ tx' = [tx EXCEPT ![r] = NoTx]
    /\ UNCHANGED <<begun, movement, summary, locks>>

-----------------------------------------------------------------------------
Init ==
    /\ begun = 0
    /\ movement = [m \in Movements |->
                     IF m <= Len(Existing) THEN Existing[m] ELSE NoMovement]
    /\ opname = [o \in Opnames |-> NoOpname]
    /\ summary = [k \in Keys |-> ViewOnHand(k)]
    /\ pc = [r \in Requests |-> "idle"]
    /\ tx = [r \in Requests |-> NoTx]
    /\ locks = [r \in Requests |-> {}]

Arrive(r) ==
    \/ CreateMovement(r) \/ BeginConfirm(r) \/ BeginCancel(r)
    \/ BeginDocument(r)
    \/ BeginOpname(r) \/ BeginComplete(r) \/ BeginCancelOpname(r)

Statement(r) ==
    \/ ConfirmLockMovement(r) \/ LockKey(r) \/ CheckStock(r)
    \/ CancelMovement(r) \/ LockDocument(r) \/ InsertMovements(r)
    \/ CreateOpname(r) \/ CompleteLockOpname(r) \/ CancelOpname(r)
    \/ RefreshSnapshot(r) \/ RefreshLock(r) \/ Commit(r)

Next == \E r \in Requests : Arrive(r) \/ Statement(r) \/ Fail(r)

Spec == Init /\ [][Next]_vars

(* As in GeneralLedger: a transaction in progress keeps executing.         *)
Fairness == \A r \in Requests : WF_vars(Statement(r))
FairSpec == Spec /\ Fairness

-----------------------------------------------------------------------------
Steps == {"idle", "confirm", "lockKeys", "cancel", "document", "insert", "opname",
          "complete", "cancelOpname", "refresh", "refreshLock", "commit"}
TypeOK ==
    /\ begun \in 0 .. MaxRequests
    /\ \A m \in Movements :
         /\ movement[m].status \in {"none", "draft", "confirmed", "cancelled"}
         /\ movement[m].direction \in {"in", "out", "transfer"}
         /\ \A i \in DOMAIN movement[m].items : movement[m].items[i] \in Item
         /\ movement[m].source \in References \union {None}
    /\ \A o \in Opnames :
         /\ opname[o].status \in {"none", "counting", "completed", "cancelled"}
         /\ opname[o].status = "completed" =>
              opname[o].actual \in [DOMAIN opname[o].system -> 0 .. MaxCount]
    /\ summary \in [Keys -> Int]
    /\ pc \in [Requests -> Steps]
    /\ locks \in [Requests -> SUBSET Lockable]

(* Stock on hand is never negative, whatever confirmed movements, receipts,*)
(* deliveries, consumptions and opname adjustments run in parallel on the  *)
(* same key: every path that takes stock checks it under the key's lock.   *)
(* The tables keep their types.                                            *)
NonNegativeStock == TypeOK /\ \A k \in Keys : OnHand(k) >= 0

(* A source document posts at most one movement, however often its         *)
(* confirmation is repeated or raced.                                      *)
SourceUnique ==
    \A m, n \in Movements :
      m # n /\ movement[m].source # None => movement[m].source # movement[n].source

(* Confirmed and cancelled are final, for a movement and for an opname: a  *)
(* cancel that read "draft" before the confirm committed does not win, and *)
(* no repeated confirmation posts a document again.                        *)
Final == {"confirmed", "completed", "cancelled"}
FinalStaysFinal ==
    [][/\ \A m \in Movements : movement[m].status \in Final =>
                                 movement'[m] = movement[m]
       /\ \A o \in Opnames : opname[o].status \in Final => opname'[o] = opname[o]
       /\ SourceUnique']_vars

(* What the confirmed movements of a source moved.                         *)
PostedIn(rows, ref, k) ==
    MapThenSumSet(LAMBDA m : Delta(rows[m], k),
                  {m \in ConfirmedIn(rows) : rows[m].source = ref})

(* The movements of a completed opname move each counted variant by the    *)
(* difference between the counted and the system quantity, never by half   *)
(* of the adjustments.                                                     *)
OpnameAdjustsDifference ==
    \A o \in Opnames : opname[o].status = "completed" =>
      \A s \in DOMAIN opname[o].actual :
        Difference(opname[o], s) =
          PostedIn(movement, OpnameRef(o), <<s, opname[o].warehouse>>)

(* The view's query and the helper that guards outgoing stock agree on the *)
(* quantity on hand of every key, transfers included.                      *)
ViewAgreesWithHelper == \A k \in Keys : ViewOnHand(k) = OnHand(k)

-----------------------------------------------------------------------------
(* The inductive invariant.  A movement about to be confirmed is the one a *)
(* request has locked, or the one it inserts.                              *)
IsCount(f) == \E skus \in SUBSET Skus : f \in [skus -> Int]
OpnameOf(system, actual) ==
    [status : {"none", "counting", "completed", "cancelled"},
     warehouse : Warehouses \union {None}, system : {system}, actual : {actual}]
IsOpname(o) ==
    /\ o \in OpnameOf(o.system, o.actual)
    /\ IsCount(o.system) /\ IsCount(o.actual)
    /\ o.status # "none" => o.warehouse \in Warehouses
    /\ o.status = "completed" => o.actual \in [DOMAIN o.system -> 0 .. MaxCount]

TransactionOf(counted) ==
    [op : {"none", "confirm", "cancel", "document", "opname", "complete",
           "cancelOpname"},
     id : Nat, warehouse : Warehouses \union {None}, ref : References \union {None},
     items : Seq(Item), adds : Seq(MovementRow), keys : SUBSET Keys,
     opname : {counted}, snapshot : [Keys -> Int] \union {None}]
IsTransaction(t) == t \in TransactionOf(t.opname)

Shapes ==
    /\ begun \in 0 .. MaxRequests
    /\ movement \in [Movements -> MovementRow]
    /\ opname = [o \in Opnames |-> opname[o]]
    /\ \A o \in Opnames : IsOpname(opname[o])
    /\ summary \in [Keys -> Int]
    /\ pc \in [Requests -> Steps]
    /\ tx = [r \in Requests |-> tx[r]]
    /\ \A r \in Requests : IsTransaction(tx[r])
    /\ locks \in [Requests -> SUBSET Lockable]

Writing(r) == pc[r] \in {"refresh", "refreshLock", "commit"}
Locked(r) == pc[r] \in {"lockKeys", "insert"} \/ Writing(r)

(* Which steps a handler has, and the variables it sets in them.           *)
OpOfStep(r) ==
    /\ pc[r] = "idle" => tx[r] = NoTx /\ locks[r] = {}
    /\ pc[r] \in {"confirm", "cancel", "document", "opname", "complete",
                  "cancelOpname"} => tx[r].op = pc[r] /\ locks[r] = {}
    /\ pc[r] \in {"lockKeys", "refresh", "refreshLock"} =>
         tx[r].op \in {"confirm", "document", "complete"}
    /\ pc[r] = "insert" => tx[r].op \in {"document", "complete"}
    /\ pc[r] = "commit" => tx[r].op \in {"confirm", "document", "complete", "opname"}

Arguments(r) ==
    LET t == tx[r] IN
    /\ t.op = "confirm" => t.id \in Movements /\ t.adds = <<>>
    /\ t.op = "cancel" => t.id \in Movements
    /\ t.op = "cancelOpname" => t.id \in Opnames
    /\ t.op = "document" =>
         /\ Len(t.adds) = 1
         /\ t.adds[1].status = "confirmed" /\ t.adds[1].items = t.items
         /\ t.adds[1].source = t.ref /\ t.ref \in {d.ref : d \in Documents}
    /\ t.op = "complete" =>
         /\ t.id \in Opnames /\ t.ref = OpnameRef(t.id)
         /\ IsOpname(t.opname) /\ t.opname.status = "completed"
         /\ t.adds = IF Locked(r) THEN Adjustments(t.opname, t.ref) ELSE <<>>
         /\ Locked(r) => t.items = IF Shortage(t.opname) = {} THEN <<>>
                                   ELSE ShortageMovement(t.opname, t.ref).items
    /\ t.op = "opname" =>
         /\ t.adds = <<>> /\ t.warehouse \in Warehouses
         /\ pc[r] = "commit" =>
              /\ t.id \in Opnames /\ IsOpname(t.opname)
              /\ t.opname.status = "counting"

(* Nobody changes the rows a request works on while it works on them.      *)
RowsHeld(r) ==
    LET t == tx[r] IN
    /\ t.op = "confirm" /\ Locked(r) =>
         /\ MovementLock(t.id) \in locks[r]
         /\ movement[t.id].status = "draft" /\ t.items = movement[t.id].items
    /\ t.op = "complete" /\ Locked(r) =>
         OpnameLock(t.id) \in locks[r] /\ opname[t.id].status = "counting"
    /\ t.op = "opname" /\ pc[r] = "commit" =>
         /\ opname[t.id].status = "none"
         /\ \A q \in Requests \ {r} :
              tx[q].op = "opname" /\ pc[q] = "commit" => tx[q].id # t.id

(* A source reference is free as long as its index entry is held, and it   *)
(* is held when a document or an opname writes a movement.                 *)
SourceHeld(r) ==
    tx[r].op \in {"document", "complete"} =>
      /\ Inserted(r) => Locked(r) /\ ~ Posted(tx[r].ref) /\ Len(tx[r].adds) <= 1
      /\ Writing(r) /\ Len(tx[r].adds) # 0 => Inserted(r)

(* Stock cannot leave a key between its check and the commit: the request  *)
(* holds the key's lock.                                                   *)
Posts(r) == tx[r].op = "confirm" \/ Len(tx[r].adds) = 1
Pending(r) == IF tx[r].op = "confirm" THEN movement[tx[r].id] ELSE tx[r].adds[1]
Takes(r) == Locked(r) /\ Posts(r) /\ Pending(r).direction # "in"
Checked(r) ==
    Takes(r) =>
      /\ Writing(r) => tx[r].keys = {}
      /\ \A k \in SourceKeys(Pending(r).items) :
           /\ k \in tx[r].keys \/ KeyLock(k) \in locks[r]
           /\ Writing(r) \/ (pc[r] = "insert" /\ tx[r].keys = {}) =>
                OnHand(k) >= Required(Pending(r).items, k)

LocksExclusive ==
    \A r \in Requests, q \in Requests : r # q =>
      locks[r] \intersect locks[q] \subseteq {ViewShare}

(* An opname that has not been completed has no movements.                 *)
CompletedOnly ==
    \A o \in Opnames : opname[o].status # "completed" => ~ Posted(OpnameRef(o))

RequestInv(r) ==
    OpOfStep(r) /\ Arguments(r) /\ RowsHeld(r) /\ SourceHeld(r) /\ Checked(r)
TablesInv ==
    /\ \A k \in Keys : OnHand(k) >= 0
    /\ SourceUnique /\ CompletedOnly /\ OpnameAdjustsDifference

IInv == Shapes /\ LocksExclusive /\ TablesInv /\ \A r \in Requests : RequestInv(r)

(* Every stock transaction ends: no order in which movements, documents    *)
(* and opnames take their keys makes them wait for each other for ever.    *)
RequestsEnd == \A r \in Requests : pc[r] # "idle" ~> pc[r] = "idle"
=============================================================================
