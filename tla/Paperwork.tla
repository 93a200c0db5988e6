------------------------------ MODULE Paperwork -------------------------------
(***************************************************************************)
(* The components of a tenant that share connections and nothing else: the *)
(* fiscal calendar and the bank, the papers before an order, and quality   *)
(* control.  "desk" is the one that the requests of a behaviour are for:   *)
(* requests for different ones do not touch the same rows, so a behaviour  *)
(* that mixes them is an interleaving of behaviours that do not.           *)
(***************************************************************************)
EXTENDS FiscalCalendar, Sourcing, Quality

VARIABLE desk

vars == <<connections, calendarTables, sourcingTables, qualityTables, desk>>

Desks == {"calendar", "sourcing", "quality"}

-----------------------------------------------------------------------------
Init ==
    /\ begun = 0 /\ NoRequests
    /\ EmptyCalendar /\ DraftPapers /\ NoInspections
    /\ desk \in Desks

OnlyCalendar == desk = "calendar" /\ UNCHANGED <<sourcingTables, qualityTables>>
OnlySourcing == desk = "sourcing" /\ UNCHANGED <<calendarTables, qualityTables>>
OnlyQuality == desk = "quality" /\ UNCHANGED <<calendarTables, sourcingTables>>

Statement(r) ==
    /\ \/ CalendarStatement(r) /\ OnlyCalendar
       \/ SourcingStatement(r) /\ OnlySourcing
       \/ QualityStatement(r) /\ OnlyQuality
       \/ DeadlockVictim(r) /\ UNCHANGED <<calendarTables, sourcingTables, qualityTables>>
    /\ UNCHANGED desk

Handle(r) ==
    /\ \/ CalendarHandle(r) /\ OnlyCalendar
       \/ SourcingHandle(r) /\ OnlySourcing
       \/ QualityHandle(r) /\ OnlyQuality
       \/ Fail(r) /\ UNCHANGED <<calendarTables, sourcingTables, qualityTables>>
    /\ UNCHANGED desk

Next == \E r \in Requests : Handle(r) \/ Statement(r)

Spec == Init /\ [][Next]_vars

(***************************************************************************)
(* The inductive invariant behind the properties of the three components:  *)
(* what each handler knows of the rows of its desk.                        *)
(***************************************************************************)
LocksExclusive ==
    \A r, q \in Requests : r # q => locks[r] \intersect locks[q] = {}

Knows(r) ==
    \/ pc[r] = "idle"
    \/ desk = "calendar" /\ CalendarKnows(r)
    \/ desk = "sourcing" /\ SourcingKnows(r)
    \/ desk = "quality" /\ QualityKnows(r)

IInv ==
    /\ CalendarWhole /\ ReconciledByBalance
    /\ QuotesCarryOneAnswer /\ PapersRight /\ InspectionsRight
    /\ IdleHoldsNothing /\ LocksExclusive /\ desk \in Desks
    /\ pc = [r \in Requests |-> pc[r]] /\ needs = [r \in Requests |-> needs[r]]
    /\ tx = [r \in Requests |-> tx[r]] /\ locks = [r \in Requests |-> locks[r]]
    /\ \A r \in Requests : Knows(r)
=============================================================================
