------------------------------- MODULE MCSales -------------------------------
(***************************************************************************)
(* A small tenant for Sales: two orders over two variants.  A behaviour    *)
(* starts with draft orders, or after deliveries and an invoice.           *)
(***************************************************************************)
EXTENDS Sales

CONSTANTS
    FreshRequests   \* bound: requests of a behaviour that starts with drafts

ThreeItems == 1 .. 3
OrderOfItem == <<1, 1, 2>>
OrderedPieces == <<2, 2, 1>>
VariantOfItem == <<1, 2, 1>>
PiecesOnHand == <<4, 4>>
NoPieces == <<0, 0>>
EnoughOnHand == <<2, 2>>

Lines(i, n) == <<[item |-> i, quantity |-> n]>>
Twice == Lines(1, 1) \o Lines(1, 1)
SomeDispatches == {Lines(1, 1), Lines(2, 1), Lines(3, 1), Twice}

SomeBundles == {{1}, {2}, {3}, {1, 2}, {2, 3}}

Fresh == begun = MaxRequests - FreshRequests /\ Drafts

(* Both orders are confirmed and two deliveries of the first one, of which *)
(* one is invoiced; two more deliveries are drafts.  The nine requests     *)
(* that lead here: two orders confirmed, four deliveries created, two      *)
(* confirmed, one invoiced.                                                *)
History == <<[status |-> "confirmed", order |-> 1, lines |-> Lines(1, 1)],
             [status |-> "confirmed", order |-> 1, lines |-> Lines(2, 1)],
             [status |-> "draft", order |-> 1, lines |-> Twice],
             [status |-> "draft", order |-> 2, lines |-> Lines(3, 1)]>>
Settled ==
    /\ begun = 9
    /\ NoRequests
    /\ order = [o \in Orders |-> IF o = 1 THEN "partial" ELSE "confirmed"]
    /\ delivered = <<1, 1, 0>>
    /\ demand = <<"open", "none", "none">>
    /\ delivery = [d \in Deliveries |-> IF d \in 1 .. 4 THEN History[d] ELSE NoDelivery]
    /\ invoice = [v \in Invoices |-> IF v # 1 THEN NoInvoice ELSE
                    [status |-> "unpaid", order |-> 1, deliveries |-> {1},
                     amount |-> Price, paid |-> 0]]
    /\ receivable = [v \in Invoices |-> IF v # 1 THEN NoReceivable ELSE
                       [status |-> "open", amount |-> Price, received |-> 0]]
    /\ allocated = [v \in Invoices |-> 0]
    /\ arrived = NoPieces
    /\ stock = <<3, 3>> /\ summary = <<3, 3>> /\ available = <<1, 1>>

StartedSpec == (Fresh \/ Settled) /\ [][Next]_vars /\ Fairness

=============================================================================
