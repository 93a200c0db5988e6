---------------------------- MODULE GeneralLedger ----------------------------
(***************************************************************************)
(* Journal entries, the general ledger, account balances and accounting    *)
(* periods of one tenant, as JournalEntryService and FiscalPeriodService   *)
(* keep them under concurrent requests.                                    *)
(*                                                                         *)
(* Every handler is one PostgreSQL READ COMMITTED transaction.  A request  *)
(* is a process: it takes row locks one statement at a time, works on a    *)
(* private write set that the others do not see, and merges it at COMMIT   *)
(* or drops it at ROLLBACK; row locks live until then.                     *)
(***************************************************************************)
EXTENDS Integers, Sequences, FiniteSetsExt

CONSTANTS
    Requests,       \* request slots: connections that run handlers
    Periods,        \* accounting_periods rows
    Accounts,       \* accounts rows
    Entries,        \* line lists a client or a business handler may submit
    Refs,           \* business references (reference_type, reference_id)
    None,           \* SQL NULL
    Tolerance,      \* 0.01 in the unit of the amounts
    MaxRequests     \* bound: requests begun in a behaviour

(* Ids of journal_entries: a request inserts at most one.                  *)
Journals == 1 .. MaxRequests

(* Business references, and (journal_reversal, j) which reverse() uses.    *)
ReversalRef(j) == <<"journal_reversal", j>>
References == Refs \union {ReversalRef(j) : j \in Journals}

(* A line is an account and an amount, positive for a debit and negative   *)
(* for a credit: chk_line_debit_credit allows exactly one non-zero side.   *)
Line == [account : Accounts, amount : Int \ {0}]

ASSUME NoneAssumption == None \notin Periods \union References
ASSUME BoundAssumption == Tolerance \in Nat /\ MaxRequests \in Nat
ASSUME EntryAssumption == \A e \in Entries : e \in Seq(Line) /\ Len(e) > 0

VARIABLES
    clock,          \* NOW() of the last BEGIN
    periodStatus,   \* accounting_periods.status
    journal,        \* journal_entries with their lines
    ledger,         \* general_ledger rows
    balance,        \* account_balances, by account and period
    pc,             \* the statement each request runs next
    tx,             \* the arguments and the write set of each request
    locks           \* row locks each request holds

vars == <<clock, periodStatus, journal, ledger, balance, pc, tx, locks>>

-----------------------------------------------------------------------------
(* Rows.                                                                   *)

Debit(n) == IF n > 0 THEN n ELSE 0
Credit(n) == IF n < 0 THEN -n ELSE 0
Total(lines) == MapThenSumSet(LAMBDA i : lines[i].amount, DOMAIN lines)
Reversal(lines) == [i \in DOMAIN lines |->
                      [account |-> lines[i].account, amount |-> -lines[i].amount]]

(* |total debit - total credit|, all that create() checks of an entry.     *)
Imbalance(lines) == Debit(Total(lines)) + Credit(Total(lines))

NoJournal == [status |-> "none", period |-> None, lines |-> <<>>, ref |-> None]
JournalRow ==
    [status : {"draft", "posted", "reversed"}, period : Periods,
     lines : Seq(Line), ref : References \union {None}] \union {NoJournal}

LedgerRow == [journal : Journals, line : Nat, account : Accounts,
              period : Periods, amount : Int, balance : Int, at : Nat]

Balance == [debit : Nat, credit : Nat, closing : Int]
NoBalance == [debit |-> 0, credit |-> 0, closing |-> 0]

(* A transaction: its NOW(), its arguments (id, period, lines, ref, target *)
(* and, for a reversal, the journal it is of), and what it has written:    *)
(* the journal "work", ledger rows and balance increments.                 *)
Transaction ==
    [op : {"none", "create", "post", "autoPost", "businessPost", "reverse",
           "updateStatus"},
     began : Nat, id : Journals \union {0}, of : Journals \union {0},
     period : Periods \union {None}, lines : Seq(Line),
     ref : References \union {None}, target : {"open", "closed", "locked"},
     work : JournalRow, rows : SUBSET LedgerRow,
     bal : [Accounts -> Balance]]
NoTx == [op |-> "none", began |-> 0, id |-> 0, of |-> 0, period |-> None,
         lines |-> <<>>, ref |-> None, target |-> "open",
         work |-> NoJournal, rows |-> {}, bal |-> [a \in Accounts |-> NoBalance]]

Steps == {"idle", "resolve", "create", "insert", "lockJournal", "lockPeriod",
          "lockAccounts", "ledger", "reverse", "reversePeriod", "link",
          "lockStatus", "drafts", "commit", "recover", "done"}

Drafts(p) == {j \in Journals : journal[j].status = "draft" /\ journal[j].period = p}

(* READ COMMITTED: own writes first, then what is committed.               *)
Visible(r, j) == IF tx[r].id = j /\ tx[r].work # NoJournal
                 THEN tx[r].work ELSE journal[j]

-----------------------------------------------------------------------------
(* Row locks.  "share" is SELECT ... FOR SHARE, all others are exclusive.  *)

PeriodLock(p) == <<"period", p>>
ShareLock(p) == <<"share", p>>
JournalLock(j) == <<"journal", j>>
AccountLock(a) == <<"account", a>>
CounterLock == <<"counter", "JE">>

Lockable ==
    {PeriodLock(p) : p \in Periods} \union {ShareLock(p) : p \in Periods}
      \union {JournalLock(j) : j \in Journals}
      \union {AccountLock(a) : a \in Accounts} \union {CounterLock}

(* Mutant: the period row is read without FOR UPDATE.                      *)
ConflictsWithoutPeriods(x) == IF x[1] \in {"period", "share"} THEN {} ELSE {x}
Conflicts(x) ==
    CASE x[1] = "period" -> {x, ShareLock(x[2])}
      [] x[1] = "share"  -> {PeriodLock(x[2])}
      [] OTHER           -> {x}

(* Mutant: plain SELECTs everywhere.                                       *)
FreeAlways(r, x) == TRUE
(* No other transaction holds a lock that conflicts with x.                *)
Free(r, x) == \A q \in Requests \ {r} : locks[q] \intersect Conflicts(x) = {}

Acquire(r, x) ==
    /\ Free(r, x)
    /\ locks' = [locks EXCEPT ![r] = @ \union {x}]

-----------------------------------------------------------------------------
(* BEGIN, COMMIT, ROLLBACK.                                                *)

Goto(r, step) == pc' = [pc EXCEPT ![r] = step]

Begin(r, step, args) ==
    /\ pc[r] = "idle"
    /\ clock < MaxRequests
    /\ clock' = clock + 1
    /\ Goto(r, step)
    /\ tx' = [tx EXCEPT ![r] = [args EXCEPT !.began = clock + 1]]
    /\ UNCHANGED <<periodStatus, journal, ledger, balance, locks>>

Rollback(r) ==
    /\ Goto(r, "idle")
    /\ tx' = [tx EXCEPT ![r] = NoTx]
    /\ locks' = [locks EXCEPT ![r] = {}]
    /\ UNCHANGED <<clock, periodStatus, journal, ledger, balance>>

(* Any failure before COMMIT: a rejected argument, a lost connection, a    *)
(* crash, a failing statement of the surrounding business handler.         *)
Fail(r) ==
    /\ pc[r] \notin {"idle", "done"}
    /\ Rollback(r)

(* The upsert of account_balances adds the increment.                      *)
AddBalance(old, delta) ==
    IF delta.debit + delta.credit = 0 THEN old
    ELSE [debit |-> old.debit + delta.debit,
          credit |-> old.credit + delta.credit,
          closing |-> delta.closing]

Commit(r) ==
    LET t == tx[r] IN
    /\ pc[r] = "commit"
    /\ journal' = IF t.work = NoJournal THEN journal
                  ELSE [journal EXCEPT ![t.id] = t.work]
    /\ ledger' = ledger \union t.rows
    /\ balance' = [x \in Accounts \X Periods |->
                     IF x[2] = t.period
                     THEN AddBalance(balance[x], t.bal[x[1]]) ELSE balance[x]]
    /\ periodStatus' = IF t.op = "updateStatus"
                       THEN [periodStatus EXCEPT ![t.period] = t.target]
                       ELSE periodStatus
    /\ locks' = [locks EXCEPT ![r] = {}]
    /\ Goto(r, "done")
    /\ tx' = [tx EXCEPT ![r] = [NoTx EXCEPT !.op = t.op, !.id = t.id, !.ref = t.ref]]
    /\ UNCHANGED clock

(* The response is sent and the slot is reused.                            *)
Respond(r) ==
    /\ pc[r] = "done"
    /\ Rollback(r)

-----------------------------------------------------------------------------
(* JournalEntryService.create                                              *)

BeginCreate(r) ==
    \E p \in Periods, e \in Entries, ref \in Refs \union {None} :
      /\ Imbalance(e) <= Tolerance
      /\ Begin(r, "create", [NoTx EXCEPT !.op = "create", !.period = p,
                                         !.lines = e, !.ref = ref])

(* SELECT ... WHERE status = 'open' FOR UPDATE: a waiter sees the status   *)
(* that is committed when its wait ends.                                   *)
CreateLockPeriod(r) ==
    /\ pc[r] = "create"
    /\ IF periodStatus[tx[r].period] = "open"
       THEN /\ Acquire(r, PeriodLock(tx[r].period))
            /\ Goto(r, "insert")
            /\ UNCHANGED <<clock, periodStatus, journal, ledger, balance, tx>>
       ELSE Rollback(r)

FreshJournals == {j \in Journals : journal[j].status = "none"}

(* The business reference of the row about to be inserted is taken.        *)
DuplicateReference(r) ==
    /\ tx[r].ref # None
    /\ \E j \in Journals : journal[j].ref = tx[r].ref

(* DocumentNumberService.generate keeps the JE counter row locked until    *)
(* COMMIT, so insertions are serialised tenant-wide.  A violation of       *)
(* uq_journal_entry_business_reference aborts the transaction; autoPost()  *)
(* recovers from it only when the transaction is its own.                  *)
InsertJournal(r) ==
    /\ pc[r] = "insert"
    /\ Acquire(r, CounterLock)
    /\ ~ DuplicateReference(r)
    /\ FreshJournals # {}
    /\ tx' = [tx EXCEPT
                ![r].id = CHOOSE j \in FreshJournals : TRUE,
                ![r].work = [status |-> "draft", period |-> tx[r].period,
                             lines |-> tx[r].lines, ref |-> tx[r].ref]]
    /\ Goto(r, IF tx[r].op = "create" THEN "commit" ELSE "lockJournal")
    /\ UNCHANGED <<clock, periodStatus, journal, ledger, balance>>

InsertDuplicate(r) ==
    /\ pc[r] = "insert"
    /\ Free(r, CounterLock)
    /\ DuplicateReference(r)
    /\ IF tx[r].op = "autoPost"
       THEN /\ Goto(r, "recover")
            /\ locks' = [locks EXCEPT ![r] = {}]
            /\ UNCHANGED <<clock, periodStatus, journal, ledger, balance, tx>>
       ELSE Rollback(r)

-----------------------------------------------------------------------------
(* JournalEntryService.post                                                *)

BeginPost(r) ==
    \E j \in Journals :
      /\ journal[j].status # "none"
      /\ Begin(r, "lockJournal", [NoTx EXCEPT !.op = "post", !.id = j])

LockJournal(r) ==
    LET j == tx[r].id  row == Visible(r, j) IN
    /\ pc[r] = "lockJournal"
    /\ IF row.status = "draft"
       THEN /\ Acquire(r, JournalLock(j))
            /\ tx' = [tx EXCEPT ![r].period = row.period, ![r].lines = row.lines]
            /\ Goto(r, "lockPeriod")
            /\ UNCHANGED <<clock, periodStatus, journal, ledger, balance>>
       ELSE Free(r, JournalLock(j)) /\ Rollback(r)

LockPeriod(r) ==
    /\ pc[r] = "lockPeriod"
    /\ IF periodStatus[tx[r].period] = "open"
       THEN /\ Acquire(r, PeriodLock(tx[r].period))
            /\ Goto(r, "lockAccounts")
            /\ UNCHANGED <<clock, periodStatus, journal, ledger, balance, tx>>
       ELSE Rollback(r)

(* Accounts are locked in ascending order, which cannot deadlock with      *)
(* itself; one step takes them all.                                        *)
LockAccounts(r) ==
    LET wanted == {AccountLock(tx[r].lines[i].account) : i \in DOMAIN tx[r].lines}
    IN
    /\ pc[r] = "lockAccounts"
    /\ \A x \in wanted : Free(r, x)
    /\ locks' = [locks EXCEPT ![r] = @ \union wanted]
    /\ Goto(r, "ledger")
    /\ UNCHANGED <<clock, periodStatus, journal, ledger, balance, tx>>

(* The rows ORDER BY created_at DESC may put first.  created_at defaults   *)
(* to NOW(), the time the inserting transaction began.                     *)
LastRows(r, a) ==
    LET rows == {x \in ledger \union tx[r].rows :
                   x.account = a /\ x.period = tx[r].period}
    IN {x \in rows : \A y \in rows : y.at <= x.at}

PreviousBalances(r, a) ==
    IF LastRows(r, a) = {} THEN {0} ELSE {x.balance : x \in LastRows(r, a)}

(* The lines without a ledger row; uq_general_ledger_journal_line.         *)
PendingLines(r) ==
    {i \in DOMAIN tx[r].lines :
       ~ \E x \in ledger \union tx[r].rows : x.journal = tx[r].id /\ x.line = i}

(* One turn of the loop of post(), over lines in no particular order: a    *)
(* ledger row carrying the running balance and the upsert of the account's *)
(* balance of the period.                                                  *)
PostLine(r) ==
    /\ pc[r] = "ledger"
    /\ \E i \in PendingLines(r) :
         LET a == tx[r].lines[i].account
             n == tx[r].lines[i].amount
         IN \E prev \in PreviousBalances(r, a) :
              tx' = [tx EXCEPT
                ![r].rows = @ \union
                   {[journal |-> tx[r].id, line |-> i, account |-> a,
                     period |-> tx[r].period, amount |-> n,
                     balance |-> prev + n, at |-> tx[r].began]},
                ![r].bal[a] = [debit |-> @.debit + Debit(n),
                               credit |-> @.credit + Credit(n),
                               closing |-> prev + n]]
    /\ UNCHANGED <<clock, periodStatus, journal, ledger, balance, pc, locks>>

(* chk_journal_balanced wants the totals of a posted journal equal, the    *)
(* tolerance of create() does not apply.  Mutant: it does.                 *)
PostableWithinTolerance(lines) == Imbalance(lines) <= Tolerance
Postable(lines) == Imbalance(lines) = 0

(* After the last line the journal becomes posted.                         *)
MarkPosted(r) ==
    /\ pc[r] = "ledger"
    /\ PendingLines(r) = {}
    /\ IF Postable(tx[r].lines)
       THEN /\ tx' = [tx EXCEPT ![r].work =
                        [Visible(r, tx[r].id) EXCEPT !.status = "posted"]]
            /\ Goto(r, IF tx[r].op = "reverse" THEN "link" ELSE "commit")
            /\ UNCHANGED <<clock, periodStatus, journal, ledger, balance, locks>>
       ELSE Rollback(r)

-----------------------------------------------------------------------------
(* JournalEntryService.autoPost                                            *)

(* On its own ("autoPost") or in the transaction of a business handler     *)
(* ("businessPost"), for an entry date that falls into period p.           *)
BeginAutoPost(r) ==
    \E p \in Periods, e \in Entries, ref \in Refs,
       op \in {"autoPost", "businessPost"} :
      Begin(r, "resolve", [NoTx EXCEPT !.op = op, !.period = p,
                                       !.lines = e, !.ref = ref])

(* getActivePeriodForDate reads without a lock; the checks of create()     *)
(* follow.                                                                 *)
ResolvePeriod(r) ==
    /\ pc[r] = "resolve"
    /\ IF /\ periodStatus[tx[r].period] = "open"
          /\ Imbalance(tx[r].lines) <= Tolerance
       THEN /\ Goto(r, "create")
            /\ UNCHANGED <<clock, periodStatus, journal, ledger, balance, tx, locks>>
       ELSE Rollback(r)

(* The catch block: a new statement reads the journal that holds the       *)
(* reference; a draft is posted in a new transaction.  Mutant: it is not.  *)
NeedsPostingNever(j) == FALSE
NeedsPosting(j) == journal[j].status = "draft"

Recover(r) ==
    /\ pc[r] = "recover"
    /\ \E j \in Journals :
         /\ journal[j] # NoJournal
         /\ journal[j].ref = tx[r].ref
         /\ IF NeedsPosting(j)
            THEN /\ Goto(r, "lockJournal")
                 /\ clock' = clock + 1
                 /\ tx' = [tx EXCEPT ![r].id = j, ![r].began = clock + 1]
            ELSE /\ UNCHANGED clock
                 /\ IF journal[j].status = "reversed"
                    THEN Goto(r, "idle") /\ tx' = [tx EXCEPT ![r] = NoTx]
                    ELSE /\ Goto(r, "done")
                         /\ tx' = [tx EXCEPT ![r] = [NoTx EXCEPT
                              !.op = tx[r].op, !.id = j, !.ref = tx[r].ref]]
    /\ UNCHANGED <<periodStatus, journal, ledger, balance, locks>>

-----------------------------------------------------------------------------
(* JournalEntryService.reverse                                             *)

BeginReverse(r) ==
    \E j \in Journals, p \in Periods :
      /\ journal[j].status # "none"
      /\ Begin(r, "reverse", [NoTx EXCEPT !.op = "reverse", !.of = j,
                                          !.period = p, !.ref = ReversalRef(j)])

ReverseLockJournal(r) ==
    LET j == tx[r].of IN
    /\ pc[r] = "reverse"
    /\ IF journal[j].status = "posted"
       THEN /\ Acquire(r, JournalLock(j))
            /\ Goto(r, "reversePeriod")
            /\ tx' = [tx EXCEPT ![r].lines = Reversal(journal[j].lines)]
            /\ UNCHANGED <<clock, periodStatus, journal, ledger, balance>>
       ELSE Free(r, JournalLock(j)) /\ Rollback(r)

(* FOR SHARE, although create() upgrades it to FOR UPDATE right after.     *)
ReverseLockPeriod(r) ==
    /\ pc[r] = "reversePeriod"
    /\ IF periodStatus[tx[r].period] = "open"
       THEN /\ Acquire(r, ShareLock(tx[r].period))
            /\ Goto(r, "create")
            /\ UNCHANGED <<clock, periodStatus, journal, ledger, balance, tx>>
       ELSE Rollback(r)

(* The last statement stores the journal number, a text such as            *)
(* JE-2026-00001, in the BIGINT column reversal_of: the statement fails    *)
(* and takes the whole reversal with it.                                   *)
ReverseLink(r) ==
    /\ pc[r] = "link"
    /\ Rollback(r)

(* Mutant: no deadlock detector.                                           *)
DeadlockVictimNever(r) == FALSE
(* Two reversals that share-lock one period wait for each other's upgrade; *)
(* PostgreSQL's deadlock detector aborts one of them.                      *)
DeadlockVictim(r) ==
    /\ pc[r] = "create"
    /\ ShareLock(tx[r].period) \in locks[r]
    /\ \E q \in Requests \ {r} : /\ pc[q] = "create"
                                 /\ ShareLock(tx[r].period) \in locks[q]
    /\ Rollback(r)

-----------------------------------------------------------------------------
(* FiscalPeriodService.updatePeriodStatus                                  *)

BeginUpdateStatus(r) ==
    \E p \in Periods, target \in {"closed", "locked"} :
      Begin(r, "lockStatus", [NoTx EXCEPT !.op = "updateStatus", !.period = p,
                                          !.target = target])

ValidTransition(from, to) ==
    \/ from = "open" /\ to \in {"closed", "locked"}
    \/ from = "closed" /\ to = "locked"

LockStatus(r) ==
    LET p == tx[r].period IN
    /\ pc[r] = "lockStatus"
    /\ IF ValidTransition(periodStatus[p], tx[r].target)
       THEN /\ Acquire(r, PeriodLock(p))
            /\ Goto(r, "drafts")
            /\ UNCHANGED <<clock, periodStatus, journal, ledger, balance, tx>>
       ELSE Free(r, PeriodLock(p)) /\ Rollback(r)

CheckDrafts(r) ==
    /\ pc[r] = "drafts"
    /\ IF Drafts(tx[r].period) = {}
       THEN /\ Goto(r, "commit")
            /\ UNCHANGED <<clock, periodStatus, journal, ledger, balance, tx, locks>>
       ELSE Rollback(r)

-----------------------------------------------------------------------------
Init ==
    /\ clock = 0
    /\ periodStatus = [p \in Periods |-> "open"]
    /\ journal = [j \in Journals |-> NoJournal]
    /\ ledger = {}
    /\ balance = [x \in Accounts \X Periods |-> NoBalance]
    /\ pc = [r \in Requests |-> "idle"]
    /\ tx = [r \in Requests |-> NoTx]
    /\ locks = [r \in Requests |-> {}]

Arrive(r) ==
    \/ BeginCreate(r) \/ BeginPost(r) \/ BeginAutoPost(r)
    \/ BeginReverse(r) \/ BeginUpdateStatus(r)

Statement(r) ==
    \/ CreateLockPeriod(r) \/ InsertJournal(r) \/ InsertDuplicate(r)
    \/ LockJournal(r) \/ LockPeriod(r) \/ LockAccounts(r)
    \/ PostLine(r) \/ MarkPosted(r)
    \/ ResolvePeriod(r) \/ Recover(r)
    \/ ReverseLockJournal(r) \/ ReverseLockPeriod(r) \/ ReverseLink(r)
    \/ LockStatus(r) \/ CheckDrafts(r)
    \/ DeadlockVictim(r) \/ Commit(r) \/ Respond(r)

Next == \E r \in Requests : Arrive(r) \/ Statement(r) \/ Fail(r)

Spec == Init /\ [][Next]_vars

(* A connection that holds a transaction keeps executing its statements:   *)
(* the handler is an async function whose awaits all resolve.  Weak        *)
(* fairness is enough, as nobody overtakes a waiter for ever; requests     *)
(* need not arrive, and nothing has to fail.                               *)
Fairness == \A r \in Requests : WF_vars(Statement(r))
FairSpec == Spec /\ Fairness

-----------------------------------------------------------------------------
TypeOK ==
    /\ clock \in Nat
    /\ periodStatus \in [Periods -> {"open", "closed", "locked"}]
    /\ journal \in [Journals -> JournalRow]
    /\ ledger \subseteq LedgerRow
    /\ balance \in [Accounts \X Periods -> Balance]
    /\ pc \in [Requests -> Steps]
    /\ tx \in [Requests -> Transaction]
    /\ locks \in [Requests -> SUBSET Lockable]

(* updatePeriodStatus refuses to close a period that has drafts, and       *)
(* create() inserts drafts into open periods only: however the two         *)
(* interleave, a closed or locked period never has a draft journal.        *)
NoDraftInClosedPeriod ==
    \A p \in Periods : periodStatus[p] # "open" => Drafts(p) = {}

(* Once closed, a period is never reopened and its journals, ledger rows   *)
(* and balances never change again, although post() checked the period     *)
(* status many statements before it commits.                               *)
RowsOf(p) == {x \in ledger : x.period = p}
JournalsOf(p) == {j \in Journals : journal[j] # NoJournal /\ journal[j].period = p}
Frozen(p) ==
    periodStatus[p] # "open" =>
      /\ periodStatus'[p] # "open"
      /\ RowsOf(p)' = RowsOf(p)
      /\ JournalsOf(p)' = JournalsOf(p)
      /\ \A j \in JournalsOf(p) : journal'[j] = journal[j]
      /\ \A a \in Accounts : balance'[<<a, p>>] = balance[<<a, p>>]
ClosedPeriodFrozen == [][\A p \in Periods : Frozen(p)]_vars

(* autoPost() answers with a journal that has the caller's reference and   *)
(* is posted, also on the recovery path after a duplicate reference.       *)
AutoPostDelivers ==
    \A r \in Requests :
      pc[r] = "done" /\ tx[r].op \in {"autoPost", "businessPost"} =>
        /\ journal[tx[r].id].ref = tx[r].ref
        /\ journal[tx[r].id].status \in {"posted", "reversed"}

(* Every request gets its answer: no order of lock acquisition leaves one  *)
(* waiting for ever, the detected reversal deadlock included.              *)
RequestsEnd == \A r \in Requests : pc[r] # "idle" ~> pc[r] = "idle"

(***************************************************************************)
(* The inductive invariant behind NoDraftInClosedPeriod and                *)
(* ClosedPeriodFrozen.                                                     *)
(***************************************************************************)
Zero == [a \in Accounts |-> NoBalance]
Wrote(r) == tx[r].work # NoJournal
InPost(r) == pc[r] \in {"lockPeriod", "lockAccounts", "ledger"}

(* What each statement may rely on in the arguments.                       *)
Arguments(r) ==
    /\ pc[r] \notin {"idle", "lockJournal", "done"} => tx[r].period \in Periods
    /\ pc[r] = "reverse" => tx[r].of \in Journals
    /\ pc[r] = "lockJournal" \/ InPost(r) \/ Wrote(r) => tx[r].id \in Journals
    /\ InPost(r) => /\ Visible(r, tx[r].id) # NoJournal
                    /\ Visible(r, tx[r].id).period = tx[r].period

(* What a transaction has written stays in its period, and a status change *)
(* writes nothing else.                                                    *)
WriteSet(r) ==
    /\ Wrote(r) => /\ pc[r] \in {"lockJournal", "lockPeriod", "lockAccounts",
                                 "ledger", "link", "commit"}
                   /\ tx[r].work.period = tx[r].period
    /\ \A x \in tx[r].rows : x.period = tx[r].period
    /\ pc[r] \notin {"ledger", "link", "commit"} => tx[r].rows = {} /\ tx[r].bal = Zero
    /\ tx[r].op = "updateStatus" =>
         /\ pc[r] \in {"lockStatus", "drafts", "commit", "done"}
         /\ ~ Wrote(r) /\ tx[r].rows = {} /\ tx[r].bal = Zero
    /\ pc[r] \in {"lockStatus", "drafts"} => tx[r].op = "updateStatus"

(* A journal is written by its inserter, which holds the counter row, or   *)
(* keeps the period it has.                                                *)
JournalKept(r) ==
    Wrote(r) => IF journal[tx[r].id] = NoJournal
                THEN CounterLock \in locks[r]
                ELSE journal[tx[r].id].period = tx[r].period

(* The statements that run with the period row locked, and what they know  *)
(* of its status until COMMIT.                                             *)
HoldsPeriod(r) ==
    \/ pc[r] \in {"insert", "lockAccounts", "ledger", "link", "drafts", "commit"}
    \/ Wrote(r)
PeriodHeld(r) ==
    HoldsPeriod(r) =>
      /\ PeriodLock(tx[r].period) \in locks[r]
      /\ IF tx[r].op = "updateStatus"
         THEN ValidTransition(periodStatus[tx[r].period], tx[r].target)
         ELSE periodStatus[tx[r].period] = "open"

CloseChecked(r) ==
    pc[r] = "commit" /\ tx[r].op = "updateStatus" => Drafts(tx[r].period) = {}

(* The exclusive locks the argument uses are never held twice.             *)
LocksExclusive ==
    \A q, r \in Requests : q # r =>
      /\ CounterLock \notin locks[q] \intersect locks[r]
      /\ \A p \in Periods : PeriodLock(p) \notin locks[q] \intersect locks[r]

IInv ==
    /\ TypeOK
    /\ LocksExclusive
    /\ NoDraftInClosedPeriod
    /\ \A r \in Requests : /\ Arguments(r) /\ WriteSet(r) /\ JournalKept(r)
                           /\ PeriodHeld(r) /\ CloseChecked(r)

(* The running balance of an account is the balance of its last ledger     *)
(* row: what the closing balance of the period should be.                  *)
ClosingBalanceExact ==
    \A a \in Accounts, p \in Periods :
      balance[a, p].closing = balance[a, p].debit - balance[a, p].credit

-----------------------------------------------------------------------------
(* The detailed ledger keeps the books: seen without the requests, the     *)
(* locks, the running balances and the times, every step of it is a step   *)
(* of Books or none at all.  An entry is posted in many statements and     *)
(* seen posted in one, with its ledger rows and balances.                  *)
Seen(x) == [journal |-> x.journal, line |-> x.line, period |-> x.period,
            account |-> x.account, amount |-> x.amount]
SeenIn(rows) == {Seen(x) : x \in rows}
B == INSTANCE Books WITH
       status <- periodStatus,
       ledger <- SeenIn(ledger),
       totals <- [x \in Accounts \X Periods |->
                    [debit |-> balance[x].debit, credit |-> balance[x].credit]]
KeepsBooks == B!Spec

(***************************************************************************)
(* The inductive invariant behind KeepsBooks and AutoPostDelivers: what    *)
(* the journal locks and the counter row protect, and how far the entry    *)
(* has been written.                                                       *)
(***************************************************************************)

(* Debits and credits are those of the rows of account and period x.       *)
OwnRows(rows, x) == {y \in SeenIn(rows) : <<y.account, y.period>> = x}
AddsUp(amounts, rows, x) ==
    /\ amounts.debit = B!Debits(OwnRows(rows, x))
    /\ amounts.credit = B!Credits(OwnRows(rows, x))

LedgerExact ==
    /\ IsFiniteSet(SeenIn(ledger))
    /\ \A x \in ledger : journal[x.journal].status = "posted"
    /\ \A x \in Accounts \X Periods : AddsUp(balance[x], ledger, x)

JournalLocksExclusive ==
    \A q, r \in Requests : q # r =>
      \A j \in Journals : JournalLock(j) \notin locks[q] \intersect locks[r]

(* What create() is given, unless it is given a reversal.                  *)
Submitted(r) ==
    /\ pc[r] \in {"resolve", "create", "insert"} =>
         /\ tx[r].op \in {"create", "autoPost", "businessPost", "reverse"}
         /\ tx[r].op # "reverse" =>
              tx[r].lines \in Entries /\ tx[r].ref \in Refs \union {None}
    /\ pc[r] \in {"reverse", "reversePeriod"} => tx[r].op = "reverse"

(* The journal being written is new, and nobody else inserts one or has    *)
(* its reference; or it is a draft, and nobody else posts it.              *)
NewJournal(r) ==
    /\ CounterLock \in locks[r]
    /\ Wrote(r)
    /\ tx[r].work.status \in {"draft", "posted"}
    /\ tx[r].op # "reverse" =>
         tx[r].work.lines \in Entries /\ tx[r].work.ref \in Refs \union {None}
    /\ tx[r].work.ref # None => \A j \in Journals : journal[j].ref # tx[r].work.ref
HeldDraft(r) ==
    /\ JournalLock(tx[r].id) \in locks[r]
    /\ journal[tx[r].id].status = "draft"
    /\ Wrote(r) => tx[r].work = [journal[tx[r].id] EXCEPT !.status = "posted"]
JournalHeld(r) ==
    Wrote(r) \/ InPost(r) =>
      IF journal[tx[r].id] = NoJournal THEN NewJournal(r) ELSE HeldDraft(r)

(* Its lines: those with a ledger row are in the increments, and at COMMIT *)
(* a posted entry has all its rows, a draft none.                          *)
LinesPosted(r) ==
    LET row == Visible(r, tx[r].id) IN
    /\ IsFiniteSet(SeenIn(tx[r].rows))
    /\ \A a \in Accounts : AddsUp(tx[r].bal[a], tx[r].rows, <<a, tx[r].period>>)
    /\ InPost(r) => /\ row.status = "draft"
                    /\ row.lines = tx[r].lines
                    /\ \A x \in tx[r].rows : Seen(x) \in B!RowsOfEntry(tx[r].id, row)
    /\ pc[r] \in {"link", "commit"} /\ Wrote(r) =>
         IF tx[r].work.status = "posted"
         THEN /\ SeenIn(tx[r].rows) = B!RowsOfEntry(tx[r].id, tx[r].work)
              /\ B!Balanced(tx[r].work.lines)
         ELSE tx[r].rows = {} /\ tx[r].bal = Zero

(* What a COMMIT makes known, and whose reference autoPost() answers with. *)
Answer(r) ==
    /\ pc[r] = "commit" => /\ tx[r].op # "reverse"
                           /\ tx[r].op = "updateStatus" \/ Wrote(r)
    /\ tx[r].op \in {"autoPost", "businessPost"} =>
         /\ pc[r] = "lockJournal" \/ InPost(r) \/ pc[r] = "commit" =>
              /\ Visible(r, tx[r].id) # NoJournal
              /\ Visible(r, tx[r].id).ref = tx[r].ref
         /\ pc[r] = "commit" => tx[r].work.status = "posted"
         /\ pc[r] = "done" => tx[r].id \in Journals

BooksInv ==
    /\ IInv
    /\ LedgerExact
    /\ JournalLocksExclusive
    /\ AutoPostDelivers
    /\ \A r \in Requests : /\ Submitted(r) /\ JournalHeld(r)
                           /\ LinesPosted(r) /\ Answer(r)
=============================================================================
