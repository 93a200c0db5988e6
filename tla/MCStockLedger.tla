---------------------------- MODULE MCStockLedger ----------------------------
(***************************************************************************)
(* Small tenants for StockLedger: two variants, two warehouses, a stock of *)
(* two and one pieces in the first, one draft transfer of both pieces and  *)
(* one draft issue that lists a variant twice.                             *)
(***************************************************************************)
EXTENDS StockLedger

CONSTANTS none

Piece(s, n, from, to) == [sku |-> s, from |-> from, to |-> to, quantity |-> n]
Row(status, direction, items) ==
    [status |-> status, direction |-> direction, items |-> items, source |-> none]

Receipt == Row("confirmed", "in", <<Piece(1, 2, none, 1), Piece(2, 1, none, 1)>>)
DraftTransfer == Row("draft", "transfer", <<Piece(1, 2, 1, 2)>>)
DraftIssue == Row("draft", "out", <<Piece(1, 1, 1, none), Piece(1, 2, 1, none)>>)
SmallIssue == Row("draft", "out", <<Piece(1, 1, 1, none)>>)

(* The draft issue succeeds only after the goods receipt below.            *)
SomeMovements == <<Receipt, DraftTransfer, DraftIssue>>
OneDraft == <<Receipt, SmallIssue>>
NoDraft == <<Receipt>>

(* An inbound item may name a source too, which neither query counts.      *)
Inbound == [direction |-> "in", items |-> <<Piece(2, 1, 2, 1)>>]
Invalid == [direction |-> "out", items |-> <<Piece(2, 1, none, 1)>>]
SomeTemplates == {Inbound, Invalid}
NoTemplates == {}

Document(type, direction, items) ==
    [ref |-> <<type, 1>>, direction |-> direction, items |-> items]
GoodsReceipt == Document("goods_receipt", "in", <<Piece(1, 1, none, 1)>>)
Delivery ==
    Document("delivery_order", "out", <<Piece(2, 1, 1, none), Piece(1, 1, 1, none)>>)
Consumption ==
    Document("work_order", "out", <<Piece(1, 1, 1, none), Piece(2, 1, 1, none)>>)
SomeDocuments == {GoodsReceipt, Delivery, Consumption}
OneReceipt == {GoodsReceipt}

TwoSkus == 1 .. 2
TwoWarehouses == 1 .. 2
OneWarehouse == {1}
=============================================================================
