----------------------------- MODULE MCPaperwork ------------------------------
(***************************************************************************)
(* Small instances for Paperwork.  Each desk starts where its requests can *)
(* meet: the calendar with two open years and periods, the papers with a   *)
(* quote on file, quality control with an inspection to be made.           *)
(***************************************************************************)
EXTENDS Paperwork, TLC

CONSTANTS
    RecentRequests,     \* bound: requests of a behaviour after its start
    Year, OtherYear, Bank, Rfq, Quotation, Supplier, Width, Height

Spans == (Year :> <<1, 6>>) @@ (OtherYear :> <<5, 9>>)

(* One is taken, two overlap, two share a day, one leaves the year.        *)
SomePeriods == {[number |-> 1, first |-> 3, last |-> 4],
                [number |-> 2, first |-> 3, last |-> 5],
                [number |-> 3, first |-> 4, last |-> 6],
                [number |-> 4, first |-> 6, last |-> 8]}

LowerLimits == (Width :> 1) @@ (Height :> 0)
UpperLimits == (Width :> 2) @@ (Height :> 0)
SomeForms == {[type |-> "incoming", all |-> {Width, Height}, required |-> {Width}],
              [type |-> "final", all |-> {Height}, required |-> {}]}
SomeAnswers == {Width :> 2, (Width :> 3) @@ (Height :> 0), <<>>}

(* Seven requests: two years, a period of each, a draft of the bank, an    *)
(* entry on its statement, one more period that is closed already.         *)
StartedCalendar ==
    /\ year = [y \in Years |-> "open"]
    /\ period = [p \in PeriodIds |->
         IF p = 1 THEN [status |-> "open", year |-> Year, number |-> 1,
                        first |-> 1, last |-> 3]
         ELSE IF p = 2 THEN [status |-> "closed", year |-> OtherYear, number |-> 1,
                             first |-> 5, last |-> 7]
         ELSE NoPeriod]
    /\ banked = [b \in BankIds |-> IF b = 1 THEN [account |-> Bank, reconciled |-> FALSE]
                                   ELSE NoBanked]
    /\ recon = [c \in ReconIds |->
         IF c = 1 THEN [status |-> "draft", account |-> Bank, period |-> 1,
                        difference |-> 1]
         ELSE NoRecon]

(* Three requests: the RFQ is sent, a supplier answers, the quotation is   *)
(* sent.                                                                   *)
StartedSourcing ==
    /\ paper = [p \in Papers |-> IF p \in {Rfq, Quotation} THEN "sent" ELSE "draft"]
    /\ quote = [q \in Quotes |-> IF q = <<Rfq, Supplier>>
                                 THEN [status |-> "received", answers |-> {1}] ELSE NoQuote]
    /\ ordered = {}

(* Four requests: two parameters, a checklist, an inspection.              *)
StartedQuality ==
    /\ parameter = [p \in Parameters |-> "active"]
    /\ checklist = [c \in Checklists |->
         IF c = 1 THEN [status |-> "active", type |-> "incoming",
                        all |-> {Width, Height}, required |-> {Width}] ELSE NoChecklist]
    /\ inspection = [i \in Inspections |->
         IF i = 1 THEN [status |-> "draft", checklist |-> 1] ELSE NoInspection]
    /\ result = [i \in Inspections |-> NoResult]
    /\ defects = [i \in Inspections |-> {}]

Fresh == EmptyCalendar /\ DraftPapers /\ NoInspections
Started ==
    \/ StartedCalendar /\ DraftPapers /\ NoInspections /\ desk = "calendar"
    \/ EmptyCalendar /\ StartedSourcing /\ NoInspections /\ desk = "sourcing"
    \/ EmptyCalendar /\ DraftPapers /\ StartedQuality /\ desk = "quality"

StartedInit ==
    /\ begun = MaxRequests - RecentRequests /\ NoRequests
    /\ desk \in Desks
    /\ Fresh \/ Started

StartedSpec == StartedInit /\ [][Next]_vars
=============================================================================
