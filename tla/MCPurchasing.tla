---------------------------- MODULE MCPurchasing ----------------------------
(***************************************************************************)
(* A small tenant for Purchasing: an order of two items, and one of a third *)
(* item that a receipt of the first order may name.  A behaviour starts    *)
(* with draft orders, with receipts that wait to be confirmed, or with     *)
(* receipts that are confirmed and invoiced.                               *)
(***************************************************************************)
EXTENDS Purchasing

CONSTANTS
    FreshRequests   \* bound: requests of a behaviour that starts with drafts

ThreeItems == 1 .. 3
OrderOfItem == <<1, 1, 2>>
OrderedPieces == <<1, 2, 1>>

Lines(i, n) == <<[item |-> i, quantity |-> n]>>
Both == <<[item |-> 1, quantity |-> 1], [item |-> 2, quantity |-> 2]>>
SomeDeliveries == {Lines(1, 1), Lines(2, 1), Lines(3, 1), Both}

(* The order that all is about, and the receipts of it.                    *)
Rows(status, receipts, received) ==
    /\ order = [o \in Orders |-> IF o = 1 THEN status ELSE "draft"]
    /\ item = [i \in Items |-> [quantity |-> Ordered[i],
                            received |-> IF OrderOf[i] = 1 THEN received ELSE 0]]
    /\ receipt = [g \in Receipts |->
                    IF g \in DOMAIN receipts THEN receipts[g] ELSE NoReceipt]
    /\ pc = [r \in Requests |-> "idle"]
    /\ tx = [r \in Requests |-> NoTx]
    /\ locks = [r \in Requests |-> {}]

Unbilled ==
    /\ invoice = [v \in Invoices |-> NoInvoice]
    /\ payable = [v \in Invoices |-> NoPayable]
    /\ allocated = [v \in Invoices |-> 0]

(* A draft, after requests that failed.                                    *)
Fresh == begun = MaxRequests - FreshRequests /\ Rows("draft", <<>>, 0) /\ Unbilled

(* Two receipts were created, each within what is pending, and more than   *)
(* that together.  Three requests lead here, and failed ones; three follow.*)
Draft(lines) == [status |-> "draft", order |-> 1, lines |-> lines]
Delivered ==
    /\ begun = 7
    /\ Rows("confirmed", <<Draft(Lines(2, 1)), Draft(Both)>>, 0) /\ Unbilled

(* Both receipts so far are confirmed, and invoiced one by one.  The seven *)
(* requests that lead here: confirm the order, create and confirm two      *)
(* receipts, create two invoices.                                          *)
History == <<[status |-> "confirmed", order |-> 1, lines |-> Lines(1, 1)],
             [status |-> "confirmed", order |-> 1, lines |-> Lines(2, 1)]>>
Settled ==
    /\ begun = 7
    /\ Rows("partial", History, 1)
    /\ invoice = [v \in Invoices |-> IF v \notin 1 .. 2 THEN NoInvoice ELSE
                    [status |-> "unpaid", receipts |-> {v}, amount |-> Price, paid |-> 0]]
    /\ payable = [v \in Invoices |-> IF v \notin 1 .. 2 THEN NoPayable ELSE
                    [status |-> "open", amount |-> Price, paid |-> 0]]
    /\ allocated = [v \in Invoices |-> 0]

StartedSpec == (Fresh \/ Delivered \/ Settled) /\ [][Next]_vars /\ Fairness
=============================================================================
