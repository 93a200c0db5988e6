--------------------------- MODULE FiscalCalendar ----------------------------
(***************************************************************************)
(* Fiscal years and accounting periods of one tenant, and the bank         *)
(* reconciliations made per period: FiscalPeriodService and BankService.   *)
(*                                                                         *)
(* A date is a number of days.  The journals of a period are in            *)
(* GeneralLedger: here a draft among them is a reason to fail.  The        *)
(* accounts of the bank exist already.                                     *)
(***************************************************************************)
EXTENDS Transactions

CONSTANTS
    Years,          \* bound: ids of fiscal_years
    YearSpan,       \* [Years -> <<first day, last day>>]
    PeriodIds,      \* bound: ids of accounting_periods, 1 .. n
    PeriodRequests, \* the periods a client asks for: number, first, last
    BankAccounts,
    BankIds,        \* bound: ids of bank_transactions, 1 .. n
    ReconIds,       \* bound: ids of bank_reconciliations, 1 .. n
    Differences,    \* statement_balance - book_balance, in cents
    NoId            \* SQL NULL

Span == {s \in Nat \X Nat : s[1] < s[2]}

ASSUME CalendarConstants ==
    /\ \A y \in Years : YearSpan[y][1] < YearSpan[y][2]
    /\ PeriodIds \subseteq Nat \ {0}
    /\ BankIds \subseteq Nat \ {0} /\ ReconIds \subseteq Nat \ {0}
    /\ \A p \in PeriodRequests : p.first \in Nat /\ p.last \in Nat /\ p.number \in Nat
    /\ Differences \subseteq Int /\ NoId \notin BankAccounts

VARIABLES
    year,           \* status of fiscal_years
    period,         \* accounting_periods
    banked,         \* bank_transactions: account, is_reconciled
    recon           \* bank_reconciliations

calendarTables == <<year, period, banked, recon>>

-----------------------------------------------------------------------------
NoPeriod == [status |-> "none", year |-> NoId, number |-> 0, first |-> 0, last |-> 0]
NoBanked == [account |-> NoId, reconciled |-> FALSE]
NoRecon == [status |-> "none", account |-> NoId, period |-> NoId, difference |-> 0]

Periods == {p \in PeriodIds : period[p].status # "none"}
PeriodsOf(y) == {p \in Periods : period[p].year = y}
OpenPeriods(y) == {p \in PeriodsOf(y) : period[p].status = "open"}
Recons == {c \in ReconIds : recon[c].status # "none"}

YearLock(y) == <<"year", y>>
PeriodLock(p) == <<"period", p>>
ReconLock(c) == <<"reconciliation", c>>
BankedLock(b) == <<"bank transaction", b>>

Abort(r) == End(r) /\ UNCHANGED calendarTables
NextStatement(r, step, need, args) == Continue(r, step, need, args) /\ UNCHANGED calendarTables

-----------------------------------------------------------------------------
(* createFiscalYear: nothing compares the years with each other.           *)
CreateYear(r) ==
    \E y \in Years :
      /\ year[y] = "none"
      /\ Autocommit(r, YearLock(y))
      /\ year' = [year EXCEPT ![y] = "open"]
      /\ UNCHANGED <<period, banked, recon>>

(* createPeriod and closeFiscalYear begin with FOR UPDATE on the year.     *)
(* Mutant: a plain SELECT.                                                 *)
YearRowPlain(y) == {}
YearRow(y) == {YearLock(y)}

BeginPeriod(r) ==
    \E y \in Years, new \in PeriodRequests :
      /\ year[y] # "none" /\ new.first < new.last
      /\ Begin(r, "yearOfPeriod", YearRow(y), [op |-> "period", year |-> y, new |-> new])
      /\ UNCHANGED calendarTables

WithinYear(y, new) == new.first >= YearSpan[y][1] /\ new.last <= YearSpan[y][2]

YearOfPeriod(r) ==
    LET y == tx[r].year IN
    /\ At(r, "yearOfPeriod")
    /\ IF year[y] = "open" /\ WithinYear(y, tx[r].new)
       THEN NextStatement(r, "periodNumber", {}, tx[r])
       ELSE Abort(r)

NumberTaken(y, n) == \E p \in PeriodsOf(y) : period[p].number = n

PeriodNumber(r) ==
    /\ At(r, "periodNumber")
    /\ IF NumberTaken(tx[r].year, tx[r].new.number)
       THEN Abort(r) ELSE NextStatement(r, "periodRange", {}, tx[r])

(* Two periods may share the day on which one ends and the other begins.   *)
Overlaps(p, new) == period[p].first < new.last /\ period[p].last > new.first

PeriodRange(r) ==
    /\ At(r, "periodRange")
    /\ IF \E p \in PeriodsOf(tx[r].year) : Overlaps(p, tx[r].new)
       THEN Abort(r) ELSE NextStatement(r, "insertPeriod", {}, tx[r])

(* UNIQUE(fiscal_year_id, period_number) is checked again.                 *)
InsertPeriod(r) ==
    LET free == PeriodIds \ Periods  new == tx[r].new IN
    /\ At(r, "insertPeriod")
    /\ period' = IF free = {} \/ NumberTaken(tx[r].year, new.number) THEN period
                 ELSE [period EXCEPT ![Min(free)] =
                         [status |-> "open", year |-> tx[r].year, number |-> new.number,
                          first |-> new.first, last |-> new.last]]
    /\ End(r)
    /\ UNCHANGED <<year, banked, recon>>

-----------------------------------------------------------------------------
BeginCloseYear(r) ==
    \E y \in Years :
      /\ year[y] # "none"
      /\ Begin(r, "closedYear", YearRow(y), [op |-> "closeYear", year |-> y])
      /\ UNCHANGED calendarTables

(* Then the open periods, FOR UPDATE.                                      *)
CloseYear(r) ==
    LET y == tx[r].year IN
    /\ At(r, "closedYear")
    /\ IF year[y] = "closed" THEN Abort(r)
       ELSE NextStatement(r, "openPeriods", {PeriodLock(p) : p \in OpenPeriods(y)}, tx[r])

(* A period that was closed while its lock was awaited is open no longer.  *)
LockOpenPeriods(r) ==
    /\ At(r, "openPeriods")
    /\ IF OpenPeriods(tx[r].year) # {} THEN Abort(r)
       ELSE NextStatement(r, "writeYear", {}, tx[r])

WriteYear(r) ==
    /\ At(r, "writeYear")
    /\ year' = [year EXCEPT ![tx[r].year] = "closed"]
    /\ End(r)
    /\ UNCHANGED <<period, banked, recon>>

-----------------------------------------------------------------------------
(* updatePeriodStatus.                                                     *)
BeginPeriodStatus(r) ==
    \E p \in Periods, to \in {"closed", "locked"} :
      /\ Begin(r, "lockPeriod", {PeriodLock(p)}, [op |-> "status", id |-> p, to |-> to])
      /\ UNCHANGED calendarTables

AllowedFrom(status) ==
    CASE status = "open" -> {"closed", "locked"}
      [] status = "closed" -> {"locked"}
      [] OTHER -> {}

LockPeriod(r) ==
    /\ At(r, "lockPeriod")
    /\ IF tx[r].to \in AllowedFrom(period[tx[r].id].status)
       THEN NextStatement(r, "writePeriod", {}, tx[r]) ELSE Abort(r)

WritePeriod(r) ==
    /\ At(r, "writePeriod")
    /\ period' = [period EXCEPT ![tx[r].id].status = tx[r].to]
    /\ End(r)
    /\ UNCHANGED <<year, banked, recon>>

-----------------------------------------------------------------------------
(* BankService.  A transaction is recorded at once; a reconciliation is    *)
(* looked for and then inserted.                                           *)
CreateBanked(r) ==
    \E a \in BankAccounts :
      LET free == {b \in BankIds : banked[b] = NoBanked} IN
      /\ free # {}
      /\ Autocommit(r, BankedLock(Min(free)))
      /\ banked' = [banked EXCEPT ![Min(free)] = [account |-> a, reconciled |-> FALSE]]
      /\ UNCHANGED <<year, period, recon>>

ReconOf(a, p) == {c \in Recons : recon[c].account = a /\ recon[c].period = p}

BeginRecon(r) ==
    \E a \in BankAccounts, p \in Periods, d \in Differences :
      /\ ReconOf(a, p) = {}
      /\ Begin(r, "insertRecon", {}, [op |-> "recon",
               row |-> [status |-> "draft", account |-> a, period |-> p, difference |-> d]])
      /\ UNCHANGED calendarTables

(* UNIQUE(bank_account_id, period_id).  Mutant: without it.                *)
ReconAllowedAlways(a, p) == TRUE
ReconAllowed(a, p) == ReconOf(a, p) = {}

InsertRecon(r) ==
    LET free == ReconIds \ Recons  row == tx[r].row IN
    /\ At(r, "insertRecon")
    /\ recon' = IF free # {} /\ ReconAllowed(row.account, row.period)
                THEN [recon EXCEPT ![Min(free)] = row] ELSE recon
    /\ End(r)
    /\ UNCHANGED <<year, period, banked>>

BeginReconcile(r) ==
    \E c \in Recons :
      /\ Begin(r, "lockRecon", {ReconLock(c)}, [op |-> "reconcile", id |-> c])
      /\ UNCHANGED calendarTables

Completable(c) == recon[c].status = "draft" /\ recon[c].difference \in -1 .. 1

Unreconciled(a) ==
    {b \in BankIds : banked[b].account = a /\ ~ banked[b].reconciled}
BankedLocks(a) == {BankedLock(b) : b \in Unreconciled(a)}

LockRecon(r) ==
    LET a == recon[tx[r].id].account IN
    /\ At(r, "lockRecon")
    /\ IF Completable(tx[r].id)
       THEN NextStatement(r, "markBanked", BankedLocks(a),
                          [op |-> "reconcile", id |-> tx[r].id, seen |-> Unreconciled(a)])
       ELSE Abort(r)

(* Whatever the account has, of this period or another, as of the moment   *)
(* the UPDATE began or got its locks.                                      *)
MarkBanked(r) ==
    LET now == Unreconciled(recon[tx[r].id].account) IN
    /\ At(r, "markBanked")
    /\ \E seen \in {tx[r].seen \intersect now, now} :
         NextStatement(r, "commitRecon", {}, [tx[r] EXCEPT !.seen = seen])

CommitRecon(r) ==
    /\ At(r, "commitRecon")
    /\ recon' = [recon EXCEPT ![tx[r].id].status = "completed"]
    /\ banked' = [b \in BankIds |-> IF b \in tx[r].seen
                                    THEN [banked[b] EXCEPT !.reconciled = TRUE]
                                    ELSE banked[b]]
    /\ End(r)
    /\ UNCHANGED <<year, period>>

-----------------------------------------------------------------------------
CalendarHandle(r) ==
    \/ CreateYear(r) \/ BeginPeriod(r) \/ BeginCloseYear(r) \/ BeginPeriodStatus(r)
    \/ CreateBanked(r) \/ BeginRecon(r) \/ BeginReconcile(r)

CalendarStatement(r) ==
    \/ YearOfPeriod(r) \/ PeriodNumber(r) \/ PeriodRange(r) \/ InsertPeriod(r)
    \/ CloseYear(r) \/ LockOpenPeriods(r) \/ WriteYear(r)
    \/ LockPeriod(r) \/ WritePeriod(r)
    \/ InsertRecon(r) \/ LockRecon(r) \/ MarkBanked(r) \/ CommitRecon(r)

EmptyCalendar ==
    /\ year = [y \in Years |-> "none"]
    /\ period = [p \in PeriodIds |-> NoPeriod]
    /\ banked = [b \in BankIds |-> NoBanked]
    /\ recon = [c \in ReconIds |-> NoRecon]

PeriodRow == [status : {"open", "closed", "locked"}, year : Years,
              number : Nat, first : Nat, last : Nat]
BankedRow == [account : BankAccounts, reconciled : BOOLEAN]
ReconRow == [status : {"draft", "completed"}, account : BankAccounts,
             period : PeriodIds, difference : Differences]

CalendarTypeOK ==
    /\ year \in [Years -> {"none", "open", "closed"}]
    /\ period \in [PeriodIds -> PeriodRow \union {NoPeriod}]
    /\ banked \in [BankIds -> BankedRow \union {NoBanked}]
    /\ recon \in [ReconIds -> ReconRow \union {NoRecon}]
    /\ \A c \in Recons : recon[c].period \in Periods

(* The periods of a year lie in it, number and range apart but for the day *)
(* two of them share, and a closed year has no open period, however the    *)
(* requests that create periods, close them and close the year meet.  The  *)
(* tables keep their types.                                                *)
CalendarWhole ==
    CalendarTypeOK /\ \A y \in Years :
      /\ \A p \in PeriodsOf(y) : WithinYear(y, period[p])
      /\ \A p, q \in PeriodsOf(y) : p # q =>
           /\ period[p].number # period[q].number
           /\ period[p].last <= period[q].first \/ period[q].last <= period[p].first
      /\ year[y] = "closed" => OpenPeriods(y) = {}

(* A period of an account is reconciled once, and a bank transaction       *)
(* counts as reconciled only after a reconciliation of its account whose   *)
(* balances agree to the cent; one recorded while that is completed is     *)
(* either marked with the others or left for the next one.                 *)
ReconciledByBalance ==
    /\ \A c, d \in Recons : c # d =>
         <<recon[c].account, recon[c].period>> # <<recon[d].account, recon[d].period>>
    /\ \A b \in BankIds : banked[b].reconciled =>
         \E c \in Recons : /\ recon[c].status = "completed"
                           /\ recon[c].account = banked[b].account
                           /\ recon[c].difference \in -1 .. 1

(***************************************************************************)
(* What each handler knows of the calendar, statement by statement: the    *)
(* requests that create a period of a year or close the year have the row  *)
(* of the year locked from their first statement on.                       *)
(***************************************************************************)
PeriodOrder == [op : {"period"}, year : Years, new : PeriodRequests]
Marking == [op : {"reconcile"}, id : Recons, seen : SUBSET BankIds]

PeriodKnows(r) ==
    LET y == tx[r].year  new == tx[r].new IN
    /\ pc[r] \in {"yearOfPeriod", "periodNumber", "periodRange", "insertPeriod"}
    /\ tx[r] \in PeriodOrder /\ new.first < new.last
    /\ \/ pc[r] = "yearOfPeriod" /\ needs[r] = {YearLock(y)}
       \/ /\ pc[r] # "yearOfPeriod"
          /\ YearLock(y) \in locks[r] /\ year[y] = "open" /\ WithinYear(y, new)
          /\ pc[r] = "insertPeriod" => \A p \in PeriodsOf(y) : ~ Overlaps(p, new)

CloseKnows(r) ==
    LET y == tx[r].year IN
    /\ pc[r] \in {"closedYear", "openPeriods", "writeYear"}
    /\ tx[r] \in [op : {"closeYear"}, year : Years]
    /\ IF pc[r] = "closedYear" THEN needs[r] = {YearLock(y)} ELSE YearLock(y) \in locks[r]
    /\ pc[r] = "writeYear" => OpenPeriods(y) = {}

BankKnows(r) ==
    \/ /\ pc[r] \in {"lockPeriod", "writePeriod"}
       /\ tx[r] \in [op : {"status"}, id : Periods, to : {"closed", "locked"}]
    \/ /\ pc[r] = "insertRecon" /\ tx[r].row \in ReconRow
       /\ tx[r].row.status = "draft" /\ tx[r].row.period \in Periods
    \/ /\ pc[r] = "lockRecon" /\ tx[r] \in [op : {"reconcile"}, id : Recons]
    \/ /\ pc[r] \in {"markBanked", "commitRecon"}
       /\ tx[r] \in Marking /\ recon[tx[r].id].difference \in -1 .. 1
       /\ pc[r] = "commitRecon" =>
            \A b \in tx[r].seen : banked[b].account = recon[tx[r].id].account

CalendarKnows(r) == PeriodKnows(r) \/ CloseKnows(r) \/ BankKnows(r)
=============================================================================
