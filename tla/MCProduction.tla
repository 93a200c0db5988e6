----------------------------- MODULE MCProduction -----------------------------
(***************************************************************************)
(* A small tenant for Production: variant 1 is made of variant 2.  A       *)
(* behaviour starts with two draft versions, or with an active one and     *)
(* work orders made from it.                                               *)
(***************************************************************************)
EXTENDS Production

CONSTANTS
    RecentRequests  \* bound: requests that follow one of the two histories

PiecesOnHand == <<0, 3>>
Costs == <<1, 1>>

(* The first and the third planned order are to be produced.               *)
Making == <<1, 2, 1>>
Pieces == <<1, 1, 1>>
BillOf == [p \in 1 .. 3 |-> IF p = 2 THEN None ELSE 1]

Kinds == {[variant |-> 2, phantom |-> FALSE, amount |-> 1],
          [variant |-> 1, phantom |-> TRUE, amount |-> 2]}

Line(i, n) == <<[item |-> i, quantity |-> n]>>
SomeConsumptions == {Line(1, 2), Line(1, 1) \o Line(1, 1), Line(1, 1) \o Line(2, 2)}

Item(v, parent, phantom, level) ==
    [version |-> v, parent |-> parent, variant |-> 2, phantom |-> phantom,
     amount |-> 1, level |-> level]
Tree == <<Item(1, None, FALSE, 0), [Item(1, 1, TRUE, 1) EXCEPT !.variant = 1, !.amount = 2],
          Item(2, None, FALSE, 0)>>
Bill(first) ==
    /\ headers = {1}
    /\ version = [v \in Versions |-> IF v > 2 THEN NoVersion ELSE
         [status |-> IF v = 1 THEN first ELSE "draft", header |-> 1, number |-> v]]
    /\ item = [i \in BomItems |-> IF i > 3 THEN NoItem ELSE Tree[i]]
    /\ extra = [x \in Extras |-> IF x = 11 THEN 1 ELSE None]

(* A header, two versions, three items and an operation were created.      *)
Drafts == NoRequests /\ Bill("draft") /\ referenced = {} /\ NoWork

(* Then version 1 was activated, two planned orders approved of which one  *)
(* is a work order that was confirmed, and another work order created.     *)
Working ==
    /\ NoRequests /\ Bill("active")
    /\ referenced = {1, 2, 11}
    /\ planned = <<[status |-> "approved", workOrder |-> 1, purchased |-> FALSE],
                   [status |-> "proposed", workOrder |-> None, purchased |-> FALSE],
                   [status |-> "proposed", workOrder |-> None, purchased |-> FALSE]>>
    /\ bought = [p \in PlannedOrders |-> 0]
    /\ workOrder = [w \in WorkOrders |->
         CASE w = 1 -> [Draft(1, 1, 1, 1) EXCEPT !.status = "confirmed"]
           [] w = 2 -> Draft(None, 1, 1, 2)
           [] OTHER -> NoWorkOrder]
    /\ material = [w \in WorkOrders |-> IF w = 1
                     THEN [i \in {1, 2} |-> [planned |-> i, consumed |-> 0]]
                     ELSE [i \in {} |-> 0]]
    /\ process = [w \in WorkOrders |-> IF w = 1 THEN [o \in {11} |-> "pending"]
                                       ELSE [o \in {} |-> "pending"]]
    /\ moved = [w \in WorkOrders |-> {}]
    /\ consumed = [w \in WorkOrders |-> [v \in Variants |-> 0]]
    /\ results = [w \in WorkOrders |-> 0]
    /\ journal = [w \in WorkOrders |-> None]
    /\ stock = OnHand /\ summary = OnHand

StartedSpec ==
    /\ begun = MaxRequests - RecentRequests
    /\ Drafts \/ Working
    /\ [][Next]_vars
=============================================================================
