-------------------------------- MODULE Books ---------------------------------
(***************************************************************************)
(* What the accounting of a tenant promises to those who read it: journal  *)
(* entries are written into open periods, become posted whole or not at    *)
(* all, and the general ledger and the balances are never anything but the *)
(* posted entries, line by line and added up.  GeneralLedger has the       *)
(* statements, locks and connections by which the backend gets there.      *)
(***************************************************************************)
EXTENDS Integers, FiniteSetsExt

CONSTANTS
    Journals,       \* ids
    Periods,
    Accounts,
    Entries,        \* sequences of lines: account, amount (debit positive)
    Refs,           \* business references
    None

VARIABLES
    status,         \* of each period
    journal,        \* status, period, lines, reference
    ledger,         \* the posted lines
    totals          \* debit and credit of each account and period

books == <<status, journal, ledger, totals>>

-----------------------------------------------------------------------------
Balanced(lines) == MapThenSumSet(LAMBDA i : lines[i].amount, DOMAIN lines) = 0

(* The ledger rows of an entry, and what an account gets from it.          *)
RowsOfEntry(j, row) ==
    {[journal |-> j, line |-> i, period |-> row.period,
      account |-> row.lines[i].account, amount |-> row.lines[i].amount] :
     i \in DOMAIN row.lines}
Debits(rows) == MapThenSumSet(LAMBDA x : IF x.amount > 0 THEN x.amount ELSE 0, rows)
Credits(rows) == MapThenSumSet(LAMBDA x : IF x.amount < 0 THEN - x.amount ELSE 0, rows)
TotalsOf(rows) ==
    [x \in Accounts \X Periods |->
       LET own == {y \in rows : <<y.account, y.period>> = x}
       IN [debit |-> Debits(own), credit |-> Credits(own)]]

Draft(p) == {j \in Journals : journal[j].status = "draft" /\ journal[j].period = p}

-----------------------------------------------------------------------------
(* The books may have been kept for a while.                               *)
Init ==
    /\ ledger = UNION {RowsOfEntry(j, journal[j]) :
                       j \in {i \in Journals : journal[i].status = "posted"}}
    /\ totals = TotalsOf(ledger)
    /\ \A p \in Periods : status[p] # "open" => Draft(p) = {}

(* Entry j becomes "row"; a posted one is in the ledger at once.           *)
Enter(j, row) ==
    /\ status[row.period] = "open"
    /\ journal' = [journal EXCEPT ![j] = row]
    /\ IF row.status = "posted"
       THEN Balanced(row.lines) /\ ledger' = ledger \union RowsOfEntry(j, row)
       ELSE UNCHANGED ledger
    /\ totals' = TotalsOf(ledger')
    /\ UNCHANGED status

(* A new entry, as a draft or posted; no two carry the same reference.     *)
Record(j) ==
    \E s \in {"draft", "posted"}, p \in Periods, e \in Entries, ref \in Refs \union {None} :
      /\ journal[j].status = "none"
      /\ ref # None => \A i \in Journals : journal[i].ref # ref
      /\ Enter(j, [status |-> s, period |-> p, lines |-> e, ref |-> ref])

Post(j) ==
    /\ journal[j].status = "draft"
    /\ Enter(j, [journal[j] EXCEPT !.status = "posted"])

Close(p) ==
    \E s \in {"closed", "locked"} :
      /\ status[p] # s /\ status[p] # "locked"
      /\ Draft(p) = {}
      /\ status' = [status EXCEPT ![p] = s]
      /\ UNCHANGED <<journal, ledger, totals>>

Next == (\E j \in Journals : Record(j) \/ Post(j)) \/ (\E p \in Periods : Close(p))

Spec == Init /\ [][Next]_books
=============================================================================
