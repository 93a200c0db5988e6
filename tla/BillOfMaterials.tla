--------------------------- MODULE BillOfMaterials ---------------------------
(***************************************************************************)
(* Bills of material of one tenant: BomService.  A variant has a header, a *)
(* header has versions, of which one may be active, and a version has a    *)
(* tree of items, operations and by-products.                              *)
(*                                                                         *)
(* Names, notes, units, prices and validity dates are left out: nothing    *)
(* reads them.  The bill of a version yields one piece (output_quantity).  *)
(***************************************************************************)
EXTENDS Transactions

CONSTANTS
    Variants,       \* product_variants
    Versions,       \* bound: ids of bom_versions, 1 .. n
    BomItems,       \* bound: ids of bom_items, 1 .. n
    Operations,     \* bound: ids of bom_operations
    ByProducts,     \* bound: ids of bom_by_products
    Components,     \* the items a client may send
    None            \* SQL NULL

Extras == Operations \union ByProducts

(* The quantity is the one with scrap.                                     *)
Component == [variant : Variants, phantom : BOOLEAN, amount : Nat \ {0}]

ASSUME BomConstants ==
    /\ Versions \subseteq Nat \ {0} /\ IsFiniteSet(Versions)
    /\ BomItems \subseteq Nat \ {0} /\ IsFiniteSet(BomItems)
    /\ Components \subseteq Component
    /\ None \notin Nat

VARIABLES
    headers,        \* the variants that have a bom_headers row
    version,        \* bom_versions
    item,           \* bom_items
    extra,          \* the version of each operation and by-product
    referenced      \* the items and operations that rows of work orders name

bomTables == <<headers, version, item, extra, referenced>>

-----------------------------------------------------------------------------
NoVersion == [status |-> "none", header |-> None, number |-> 0]
NoItem == [version |-> None, parent |-> None, variant |-> None,
           phantom |-> FALSE, amount |-> 0, level |-> 0]
DeletedItem == [NoItem EXCEPT !.level = -1]     \* its id is not used again

VersionsOf(h) == {v \in Versions : version[v].status # "none" /\ version[v].header = h}
ActiveVersions(h) == {v \in VersionsOf(h) : version[v].status = "active"}
LastNumber(h) == Max({0} \union {version[v].number : v \in VersionsOf(h)})

Stored == {i \in BomItems : item[i].version # None}
ItemsOfVersion(v) == {i \in Stored : item[i].version = v}
Children(i) == {j \in Stored : item[j].parent = i}

Editable(v) == version[v].status \in {"draft", "obsolete"}

(* An entry of idx_bom_versions_one_active, and a stored item: whoever     *)
(* changes one keeps it locked.                                            *)
ActiveLock(h) == <<"active version", h>>
ItemLock(i) == <<"bom item", i>>

-----------------------------------------------------------------------------
(* createHeader: UNIQUE(variant_id) decides, whatever was read before.     *)
CreateHeader(r) ==
    \E h \in Variants \ headers :
      /\ Autocommit(r, <<"header", h>>)
      /\ headers' = headers \union {h}
      /\ UNCHANGED <<version, item, extra, referenced>>

(* createVersion: the greatest number is read, then the row is inserted.   *)
BeginVersion(r) ==
    \E h \in headers :
      /\ Begin(r, "insertVersion", {}, [op |-> "version", header |-> h,
                                        number |-> LastNumber(h) + 1])
      /\ UNCHANGED bomTables

(* UNIQUE(bom_header_id, version_number).                                  *)
NumberFree(h, n) == \A v \in VersionsOf(h) : version[v].number # n

InsertVersion(r) ==
    LET free == {v \in Versions : version[v].status = "none"} IN
    /\ pc[r] = "insertVersion"
    /\ version' = IF NumberFree(tx[r].header, tx[r].number) /\ free # {}
                  THEN [version EXCEPT ![Min(free)] =
                          [status |-> "draft", header |-> tx[r].header,
                           number |-> tx[r].number]]
                  ELSE version
    /\ End(r)
    /\ UNCHANGED <<headers, item, extra, referenced>>

(* activateVersion: the status and the items are looked at before the      *)
(* transaction, and not again in it.                                       *)
BeginActivate(r) ==
    \E v \in Versions :
      /\ version[v].status = "draft"
      /\ Begin(r, "countItems", {}, [op |-> "activate", id |-> v])
      /\ UNCHANGED bomTables

CountItems(r) ==
    LET h == version[tx[r].id].header IN
    /\ At(r, "countItems")
    /\ IF ItemsOfVersion(tx[r].id) = {} THEN End(r)
       ELSE Continue(r, "obsolete", {ActiveLock(h)},
                     [op |-> "activate", id |-> tx[r].id, seen |-> ActiveVersions(h)])
    /\ UNCHANGED bomTables

(* The UPDATE may have waited for the lock: it sees the versions that were *)
(* active when it began, if they still are, or those that are active now.  *)
Obsolete(r) ==
    LET active == ActiveVersions(version[tx[r].id].header) IN
    /\ At(r, "obsolete")
    /\ \E old \in {tx[r].seen \intersect active, active} :
         Continue(r, "activate", {}, [op |-> "activate", id |-> tx[r].id, old |-> old])
    /\ UNCHANGED bomTables

(* The unique index on the active versions.  Mutant: without it.           *)
IndexAllowsAlways(others) == TRUE
IndexAllows(others) == others = {}

Activate(r) ==
    LET v == tx[r].id
        others == ActiveVersions(version[v].header) \ (tx[r].old \union {v})
    IN
    /\ At(r, "activate")
    /\ version' = IF IndexAllows(others)
                  THEN [w \in Versions |->
                          IF w = v THEN [version[w] EXCEPT !.status = "active"]
                          ELSE IF w \in tx[r].old
                               THEN [version[w] EXCEPT !.status = "obsolete"]
                          ELSE version[w]]
                  ELSE version
    /\ End(r)
    /\ UNCHANGED <<headers, item, extra, referenced>>

-----------------------------------------------------------------------------
(* addItem: the status of the version and the parent are read first; the   *)
(* foreign key of parent_item_id is checked when the row is inserted.      *)
BeginAddItem(r) ==
    \E v \in Versions, new \in Components :
      \E parent \in ItemsOfVersion(v) \union {None} :
        /\ Editable(v)
        /\ parent # None => item[parent].variant # new.variant
        /\ Begin(r, "insertItem", {},
                 [op |-> "addItem",
                  row |-> [version |-> v, parent |-> parent, variant |-> new.variant,
                           phantom |-> new.phantom, amount |-> new.amount,
                           level |-> IF parent = None THEN 0 ELSE item[parent].level + 1]])
        /\ UNCHANGED bomTables

(* Mutant: no foreign key.                                                 *)
ParentStoredAlways(parent) == TRUE
ParentStored(parent) == parent \in Stored \union {None}

InsertItem(r) ==
    LET free == {i \in BomItems : item[i] = NoItem} IN
    /\ pc[r] = "insertItem"
    /\ item' = IF ParentStored(tx[r].row.parent) /\ free # {}
               THEN [item EXCEPT ![Min(free)] = tx[r].row] ELSE item
    /\ End(r)
    /\ UNCHANGED <<headers, version, extra, referenced>>

(* updateItem and deleteItem read the status of the item's version first.  *)
BeginItem(r) ==
    \E i \in Stored :
      /\ Editable(item[i].version)
      /\ \/ \E new \in Components :
              Begin(r, "updateItem", {ItemLock(i)},
                    [op |-> "updateItem", id |-> i, new |-> new])
         \/ Begin(r, "deleteChildren", {}, [op |-> "deleteItem", id |-> i])
      /\ UNCHANGED bomTables

UpdateItem(r) ==
    /\ At(r, "updateItem")
    /\ item' = IF tx[r].id \notin Stored THEN item
               ELSE [item EXCEPT ![tx[r].id].amount = tx[r].new.amount,
                                 ![tx[r].id].phantom = tx[r].new.phantom]
    /\ End(r)
    /\ UNCHANGED <<headers, version, extra, referenced>>

(* Rows that others refer to, children or materials, are not deleted.      *)
Deletable(items) ==
    \A i \in items : i \notin referenced /\ Children(i) \subseteq items

Without(items) == [i \in BomItems |-> IF i \in items THEN DeletedItem ELSE item[i]]

(* Two statements, outside of a transaction.                               *)
DeleteChildren(r) ==
    LET items == Children(tx[r].id) IN
    /\ At(r, "deleteChildren")
    /\ \A i \in items : Free(r, ItemLock(i))
    /\ IF Deletable(items)
       THEN /\ item' = Without(items)
            /\ pc' = [pc EXCEPT ![r] = "deleteItem"]
            /\ UNCHANGED <<begun, needs, tx, locks>>
       ELSE End(r) /\ UNCHANGED item
    /\ UNCHANGED <<headers, version, extra, referenced>>

DeleteItem(r) ==
    LET items == {tx[r].id} IN
    /\ At(r, "deleteItem")
    /\ Free(r, ItemLock(tx[r].id))
    /\ item' = IF Deletable(items) THEN Without(items) ELSE item
    /\ End(r)
    /\ UNCHANGED <<headers, version, extra, referenced>>

-----------------------------------------------------------------------------
(* addOperation and addByProduct look at the status of the version first,  *)
(* deleteOperation and deleteByProduct do not.                             *)
BeginAddExtra(r) ==
    \E v \in Versions, x \in Extras :
      /\ Editable(v)
      /\ Begin(r, "insertExtra", {}, [op |-> "addExtra", id |-> x, version |-> v])
      /\ UNCHANGED bomTables

InsertExtra(r) ==
    /\ pc[r] = "insertExtra"
    /\ extra' = IF extra[tx[r].id] = None THEN [extra EXCEPT ![tx[r].id] = tx[r].version]
                ELSE extra
    /\ End(r)
    /\ UNCHANGED <<headers, version, item, referenced>>

DeleteExtra(r) ==
    \E x \in Extras :
      /\ extra[x] # None /\ x \notin referenced
      /\ Autocommit(r, <<"extra", x>>)
      /\ extra' = [extra EXCEPT ![x] = None]
      /\ UNCHANGED <<headers, version, item, referenced>>

-----------------------------------------------------------------------------
(* explodeBom: the items the recursive query reaches from the roots of a   *)
(* version, whatever version the children name, each with its amount for   *)
(* the quantity to be produced.                                            *)
Reached(v) ==
    LET reached[i \in BomItems] ==
          /\ i \in Stored
          /\ IF item[i].parent = None THEN item[i].version = v
             ELSE item[i].parent < i /\ reached[item[i].parent]
    IN {i \in BomItems : reached[i]}

Explode(v, quantity) == [i \in Reached(v) |-> item[i].amount * quantity]

-----------------------------------------------------------------------------
BomHandle(r) ==
    \/ CreateHeader(r) \/ BeginVersion(r) \/ BeginActivate(r)
    \/ BeginAddItem(r) \/ BeginItem(r) \/ BeginAddExtra(r) \/ DeleteExtra(r)

BomStatement(r) ==
    \/ InsertVersion(r) \/ CountItems(r) \/ Obsolete(r) \/ Activate(r)
    \/ InsertItem(r) \/ UpdateItem(r) \/ DeleteChildren(r) \/ DeleteItem(r)
    \/ InsertExtra(r)

NoBills ==
    /\ headers = {}
    /\ version = [v \in Versions |-> NoVersion]
    /\ item = [i \in BomItems |-> NoItem]
    /\ extra = [x \in Extras |-> None]
    /\ referenced = {}

VersionRow == [status : {"draft", "active", "obsolete"}, header : Variants,
               number : Nat \ {0}]
ItemRow == [version : Versions, parent : BomItems \union {None}, variant : Variants,
            phantom : BOOLEAN, amount : Nat \ {0}, level : Nat]

CreatedVersions == {v \in Versions : version[v].status # "none"}

(* The type of every table.                                                *)
BomTypeOK ==
    /\ headers \subseteq Variants
    /\ version \in [Versions -> VersionRow \union {NoVersion}]
    /\ \A v \in CreatedVersions : version[v].header \in headers
    /\ item \in [BomItems -> ItemRow \union {NoItem, DeletedItem}]
    /\ extra \in [Extras -> Versions \union {None}]
    /\ referenced \subseteq BomItems \union Extras

(* A header has one active version, however many are activated at a time,  *)
(* and no version number twice.                                            *)
OneActiveVersion ==
    \A h \in headers :
      /\ Cardinality(ActiveVersions(h)) <= 1
      /\ \A v, w \in VersionsOf(h) : v # w => version[v].number # version[w].number

(* What explodeBom finds of a version is all of its items, each one below  *)
(* its parent, while items are added and deleted next to it.               *)
TreesStayWhole ==
    \A v \in Versions :
      /\ Reached(v) = ItemsOfVersion(v)
      /\ \A i \in Reached(v) : LET p == item[i].parent IN
           item[i].level = IF p = None THEN 0 ELSE item[p].level + 1

(***************************************************************************)
(* What the inductive invariant of Production says of bills: items are     *)
(* stored in the order of their ids, below a parent of their version, and  *)
(* what each handler knows, statement by statement.  None of them locks    *)
(* what it has read.                                                       *)
(***************************************************************************)
BelowParent(row, p) == row.version = item[p].version /\ row.level = item[p].level + 1

Placed(i) ==
    LET p == item[i].parent IN
    \/ p = None /\ item[i].level = 0
    \/ p \in Stored /\ p < i /\ BelowParent(item[i], p)
ParentsFirst == \A i \in Stored : Placed(i)
IdsInOrder == \A i, j \in BomItems : j < i /\ item[i] # NoItem => item[j] # NoItem

(* A parent may have been deleted since.                                   *)
RowFits(row) ==
    /\ row \in ItemRow
    /\ \/ row.parent = None /\ row.level = 0
       \/ /\ row.parent \in BomItems /\ item[row.parent] # NoItem
          /\ row.parent \in Stored => BelowParent(row, row.parent)

BillKnows(r) ==
    \/ pc[r] = "insertVersion"
       /\ tx[r] \in [op : {"version"}, header : headers, number : Nat \ {0}]
    \/ pc[r] = "countItems" /\ tx[r] \in [op : {"activate"}, id : CreatedVersions]
    \/ pc[r] = "obsolete"
       /\ tx[r] \in [op : {"activate"}, id : CreatedVersions, seen : SUBSET CreatedVersions]
    \/ pc[r] = "activate"
       /\ tx[r] \in [op : {"activate"}, id : CreatedVersions, old : SUBSET CreatedVersions]
    \/ pc[r] = "insertItem" /\ RowFits(tx[r].row)
    \/ pc[r] = "updateItem"
       /\ tx[r] \in [op : {"updateItem"}, id : BomItems, new : Component]
    \/ pc[r] \in {"deleteChildren", "deleteItem"}
       /\ tx[r] \in [op : {"deleteItem"}, id : BomItems] /\ item[tx[r].id] # NoItem
    \/ pc[r] = "insertExtra"
       /\ tx[r] \in [op : {"addExtra"}, id : Extras, version : Versions]
=============================================================================
