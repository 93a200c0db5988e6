------------------------------- MODULE Sourcing -------------------------------
(***************************************************************************)
(* The papers that come before an order, of one tenant: purchase requests, *)
(* requests for quotation with the suppliers' quotes, and sales            *)
(* quotations.  PurchaseRequestService, RfqService, SalesQuotationService  *)
(* and the check of a quotation in SalesOrderService.create.               *)
(*                                                                         *)
(* Nothing here locks a paper to look at it: the status is read, and then  *)
(* written without a condition.  Prices, dates and notes are left out; the *)
(* lines of a quote are known by the answer of the supplier they came with.*)
(***************************************************************************)
EXTENDS Transactions

CONSTANTS
    PurchaseRequests,
    Rfqs,
    Suppliers,
    Quotations

(* Each kind of paper has a table of its own.                              *)
ASSUME SourcingConstants ==
    /\ PurchaseRequests \intersect Rfqs = {}
    /\ PurchaseRequests \intersect Quotations = {}
    /\ Rfqs \intersect Quotations = {}

VARIABLES
    paper,          \* status of purchase_requests, rfqs and sales_quotations
    quote,          \* rfq_supplier_quotes by rfq and supplier
    ordered         \* the quotations that sales orders were made from

sourcingTables == <<paper, quote, ordered>>

-----------------------------------------------------------------------------
Papers == PurchaseRequests \union Rfqs \union Quotations

(* A quote keeps the answers whose lines it has.                           *)
NoQuote == [status |-> "none", answers |-> {}]

Quotes == Rfqs \X Suppliers
StoredQuotes(f) == {q \in Quotes : q[1] = f /\ quote[q].status # "none"}

PaperLock(p) == <<"paper", p>>
QuoteLock(q) == <<"quote", q>>

-----------------------------------------------------------------------------
(* The handlers that move a paper: from where, and to where.               *)
RequestSteps ==
    {<<"draft", "submitted">>, <<"submitted", "approved">>, <<"submitted", "rejected">>}

(* accept and reject take a draft like a quotation that was sent, cancel   *)
(* refuses only what is accepted.                                          *)
QuotationSteps ==
    {<<"draft", "sent">>}
    \union {"sent", "draft"} \X {"accepted", "rejected"}
    \union {"draft", "sent", "rejected", "cancelled"} \X {"cancelled"}

RfqSteps == {<<"draft", "sent">>}

StepsOf(p) ==
    IF p \in PurchaseRequests THEN RequestSteps
    ELSE IF p \in Quotations THEN QuotationSteps ELSE RfqSteps

ReadPaper(r) ==
    \E p \in Papers, to \in {"submitted", "approved", "rejected", "sent", "accepted",
                             "cancelled"} :
      /\ <<paper[p], to>> \in StepsOf(p)
      /\ Begin(r, "writePaper", {PaperLock(p)}, [op |-> "move", id |-> p, to |-> to])
      /\ UNCHANGED sourcingTables

WritePaper(r) ==
    /\ At(r, "writePaper")
    /\ paper' = [paper EXCEPT ![tx[r].id] = tx[r].to]
    /\ End(r)
    /\ UNCHANGED <<quote, ordered>>

-----------------------------------------------------------------------------
(* The row of a quote is written, and so locked, before its lines.         *)
(* Mutant: after them.                                                     *)
LockedLast(q) == {}
LockedFirst(q) == {QuoteLock(q)}

(* submitQuote: the status of the RFQ, then the quote of the supplier, are *)
(* read before the transaction.                                            *)
BeginQuote(r) ==
    \E q \in Quotes :
      /\ paper[q[1]] \in {"sent", "draft"}
      /\ Begin(r, "findQuote", {}, [op |-> "quote", id |-> q, answer |-> begun])
      /\ UNCHANGED sourcingTables

FindQuote(r) ==
    LET q == tx[r].id IN
    /\ At(r, "findQuote")
    /\ Continue(r, "writeQuote", LockedFirst(q),
                [op |-> "quote", id |-> q, answer |-> tx[r].answer,
                 found |-> quote[q].status # "none", gone |-> {}])
    /\ UNCHANGED sourcingTables

(* UPDATE of the quote that was found, or INSERT: UNIQUE(rfq_id,           *)
(* supplier_id) waits for another insert, and refuses.                     *)
WriteQuote(r) ==
    LET q == tx[r].id IN
    /\ At(r, "writeQuote")
    /\ IF tx[r].found THEN Continue(r, "deleteLines", {}, tx[r])
       ELSE IF quote[q].status = "none" THEN Continue(r, "insertLines", {}, tx[r])
       ELSE End(r)
    /\ UNCHANGED sourcingTables

(* The old lines are deleted if a quote was found: those that the DELETE   *)
(* sees.                                                                   *)
DeleteLines(r) ==
    LET q == tx[r].id IN
    /\ At(r, "deleteLines")
    /\ Continue(r, "insertLines", {},
                [op |-> "quote", id |-> q, answer |-> tx[r].answer, gone |-> quote[q].answers])
    /\ UNCHANGED sourcingTables

(* The new lines are inserted, and the transaction commits.                *)
InsertLines(r) ==
    LET q == tx[r].id IN
    /\ At(r, "insertLines")
    /\ quote' = [quote EXCEPT ![q] =
                   [status |-> "received",
                    answers |-> (quote[q].answers \ tx[r].gone) \union {tx[r].answer}]]
    /\ End(r)
    /\ UNCHANGED <<paper, ordered>>

-----------------------------------------------------------------------------
(* selectQuote: the quote is read before the transaction, which rejects    *)
(* the others, selects this one and closes the RFQ.                        *)
Others(q) == StoredQuotes(q[1]) \ {q}
QuoteLocks(quotes) == {QuoteLock(o) : o \in quotes}

BeginSelect(r) ==
    \E q \in Quotes :
      /\ quote[q].status = "received"
      /\ Begin(r, "rejectOthers", QuoteLocks(Others(q)),
               [op |-> "select", id |-> q, seen |-> Others(q)])
      /\ UNCHANGED sourcingTables

(* A quote that is inserted while the UPDATE waits is not seen by it.      *)
RejectOthers(r) ==
    LET q == tx[r].id IN
    /\ At(r, "rejectOthers")
    /\ \E others \in {tx[r].seen, Others(q)} :
         /\ \A o \in others : Free(r, QuoteLock(o))
         /\ pc' = [pc EXCEPT ![r] = "selectOne"]
         /\ locks' = [locks EXCEPT ![r] = QuoteLocks(others)]
         /\ needs' = [needs EXCEPT ![r] = {QuoteLock(q)}]
         /\ tx' = [tx EXCEPT ![r].seen = others]
    /\ UNCHANGED <<begun, sourcingTables>>

SelectOne(r) ==
    /\ At(r, "selectOne")
    /\ Continue(r, "closeRfq", {PaperLock(tx[r].id[1])}, tx[r])
    /\ UNCHANGED sourcingTables

CloseRfq(r) ==
    LET q == tx[r].id IN
    /\ At(r, "closeRfq")
    /\ quote' = [o \in Quotes |->
                   IF o = q THEN [quote[o] EXCEPT !.status = "selected"]
                   ELSE IF o \in tx[r].seen THEN [quote[o] EXCEPT !.status = "rejected"]
                   ELSE quote[o]]
    /\ paper' = [paper EXCEPT ![q[1]] = "closed"]
    /\ End(r)
    /\ UNCHANGED ordered

-----------------------------------------------------------------------------
(* SalesOrderService.create with a quotation: it is accepted when it is    *)
(* read, and the order is inserted later.                                  *)
BeginOrder(r) ==
    \E s \in Quotations :
      /\ paper[s] = "accepted"
      /\ Begin(r, "insertOrder", {}, [op |-> "order", id |-> s])
      /\ UNCHANGED sourcingTables

InsertOrder(r) ==
    /\ At(r, "insertOrder")
    /\ ordered' = ordered \union {tx[r].id}
    /\ End(r)
    /\ UNCHANGED <<paper, quote>>

-----------------------------------------------------------------------------
SourcingHandle(r) == ReadPaper(r) \/ BeginQuote(r) \/ BeginSelect(r) \/ BeginOrder(r)

SourcingStatement(r) ==
    \/ WritePaper(r) \/ FindQuote(r) \/ WriteQuote(r) \/ DeleteLines(r) \/ InsertLines(r)
    \/ RejectOthers(r) \/ SelectOne(r) \/ CloseRfq(r) \/ InsertOrder(r)

(* Every paper is created as a draft, in one transaction.                  *)
DraftPapers ==
    /\ paper = [p \in Papers |-> "draft"]
    /\ quote = [q \in Quotes |-> NoQuote]
    /\ ordered = {}

SourcingTypeOK ==
    /\ \A p \in PurchaseRequests : paper[p] \in {"draft", "submitted", "approved", "rejected"}
    /\ \A f \in Rfqs : paper[f] \in {"draft", "sent", "closed"}
    /\ \A s \in Quotations :
         paper[s] \in {"draft", "sent", "accepted", "rejected", "cancelled"}
    /\ quote \in [Quotes -> [status : {"none", "received", "selected", "rejected"},
                             answers : SUBSET (0 .. MaxRequests)]]
    /\ ordered \subseteq Quotations

(* A quote has the lines of one answer of its supplier, whole: two answers *)
(* may be on their way at once, next to a selection, each deleting the     *)
(* lines it sees and inserting its own.  The tables keep their types.      *)
QuotesCarryOneAnswer ==
    SourcingTypeOK /\ \A q \in Quotes : quote[q].status # "none" => Cardinality(quote[q].answers) = 1

(***************************************************************************)
(* What each handler knows of the papers, statement by statement.  It      *)
(* locks a quote when it writes it and nothing that it reads: that a quote *)
(* does not disappear makes true later what it found.                      *)
(***************************************************************************)
PapersRight ==
    /\ paper = [p \in Papers |-> paper[p]]
    /\ \A q \in Quotes : quote[q].status = "none" => quote[q].answers = {}

FiledQuotes == {q \in Quotes : quote[q].status # "none"}

PaperKnows(r) ==
    /\ pc[r] = "writePaper" /\ tx[r].id \in Papers
    /\ \E step \in StepsOf(tx[r].id) : step[2] = tx[r].to

AnswerKnows(r) ==
    LET q == tx[r].id IN
    /\ pc[r] \in {"findQuote", "writeQuote", "deleteLines", "insertLines"}
    /\ q \in Quotes /\ tx[r].answer \in 0 .. MaxRequests
    /\ pc[r] = "writeQuote" => needs[r] = {QuoteLock(q)} /\ tx[r].gone = {}
    /\ pc[r] \in {"deleteLines", "insertLines"} => QuoteLock(q) \in locks[r]
    /\ pc[r] = "insertLines" => tx[r].gone = quote[q].answers

SelectKnows(r) ==
    \/ /\ pc[r] \in {"rejectOthers", "selectOne", "closeRfq"}
       /\ tx[r] \in [op : {"select"}, id : FiledQuotes, seen : SUBSET FiledQuotes]
    \/ pc[r] = "insertOrder" /\ tx[r] \in [op : {"order"}, id : Quotations]

SourcingKnows(r) == PaperKnows(r) \/ AnswerKnows(r) \/ SelectKnows(r)
=============================================================================
