------------------------- MODULE GeneralLedgerProofs -------------------------
(***************************************************************************)
(* Proofs about GeneralLedger.  First type correctness, and the period     *)
(* lock discipline that keeps closed periods closed.  Then that            *)
(* GeneralLedger implements Books: the statements of create(), post(),     *)
(* autoPost(), reverse() and updatePeriodStatus() keep the books, and what *)
(* autoPost() answers is posted.                                           *)
(***************************************************************************)
EXTENDS GeneralLedger, Sums, SequenceTheorems

-----------------------------------------------------------------------------
(* Types of the values the actions build.                                  *)

(* The empty transaction is a transaction.                                 *)
LEMMA NoTxType == NoTx \in Transaction
<1>1. NoJournal \in JournalRow
  BY DEF NoJournal, JournalRow
<1>2. [a \in Accounts |-> NoBalance] \in [Accounts -> Balance]
  BY DEF NoBalance, Balance
<1>3. QED
  BY <1>1, <1>2 DEF NoTx, Transaction

(* Swapping debits and credits of an entry gives an entry.                 *)
LEMMA ReversalType ==
  ASSUME NEW lines \in Seq(Line)
  PROVE  Reversal(lines) \in Seq(Line)
<1> DEFINE f(i) == [account |-> lines[i].account, amount |-> -lines[i].amount]
<1>1. /\ Len(lines) \in Nat
      /\ DOMAIN lines = 1 .. Len(lines)
      /\ \A i \in 1 .. Len(lines) : lines[i] \in Line
  OBVIOUS
<1>2. \A i \in 1 .. Len(lines) : f(i) \in Line
  BY <1>1 DEF Line
<1>3. Reversal(lines) = [i \in 1 .. Len(lines) |-> f(i)]
  BY <1>1 DEF Reversal
<1>4. [i \in 1 .. Len(lines) |-> f(i)] \in [1 .. Len(lines) -> Line]
  BY <1>2
<1>5. QED
  BY <1>1, <1>3, <1>4, SeqDef

(* The lines of an entry.                                                  *)
LEMMA LineType ==
  ASSUME NEW lines \in Seq(Line), NEW i \in DOMAIN lines
  PROVE  i \in Nat /\ lines[i].account \in Accounts /\ lines[i].amount \in Int
<1>1. i \in 1 .. Len(lines) /\ lines[i] \in Line
  OBVIOUS
<1>2. QED
  BY <1>1 DEF Line

(* Locks are among the lockable rows.                                      *)
LEMMA LockableType ==
  /\ \A p \in Periods : PeriodLock(p) \in Lockable /\ ShareLock(p) \in Lockable
  /\ \A j \in Journals : JournalLock(j) \in Lockable
  /\ \A a \in Accounts : AccountLock(a) \in Lockable
  /\ CounterLock \in Lockable
  BY DEF Lockable

(* Sides of an amount are naturals.                                        *)
LEMMA SideType ==
  ASSUME NEW n \in Int
  PROVE  Debit(n) \in Nat /\ Credit(n) \in Nat
  BY DEF Debit, Credit

(* The upsert of account_balances keeps a balance a balance.               *)
LEMMA AddBalanceType ==
  ASSUME NEW old \in Balance, NEW delta \in Balance
  PROVE  AddBalance(old, delta) \in Balance
  BY DEF AddBalance, Balance

-----------------------------------------------------------------------------
(* TypeOK is inductive: one lemma per group of actions.                    *)

(* BEGIN of a request whose arguments are a transaction keeps the types.   *)
LEMMA BeginType ==
  ASSUME TypeOK, NEW r \in Requests, NEW step \in Steps,
         NEW args \in Transaction, Begin(r, step, args)
  PROVE  TypeOK'
<1>1. ASSUME NEW n \in Nat
      PROVE  [args EXCEPT !.began = n] \in Transaction
  BY DEF Transaction
<1>2. clock + 1 \in Nat
  BY DEF TypeOK
<1>3. [args EXCEPT !.began = clock + 1] \in Transaction
  BY <1>1, <1>2
<1>4. QED
  BY <1>2, <1>3 DEF TypeOK, Begin, Goto

(* ROLLBACK keeps the types.                                               *)
LEMMA RollbackType ==
  ASSUME TypeOK, NEW r \in Requests, Rollback(r)
  PROVE  TypeOK'
  BY NoTxType DEF TypeOK, Rollback, Goto, Steps

(* A step that takes one lock and moves on, leaving the tables alone.      *)
LEMMA AcquireType ==
  ASSUME TypeOK, NEW r \in Requests, NEW x \in Lockable, Acquire(r, x)
  PROVE  locks' \in [Requests -> SUBSET Lockable]
  BY DEF TypeOK, Acquire

(* Steps that change only the program counter and the locks.               *)
LEMMA LockStepType ==
  ASSUME TypeOK, NEW r \in Requests, NEW x \in Lockable, NEW step \in Steps,
         Acquire(r, x), Goto(r, step),
         UNCHANGED <<clock, periodStatus, journal, ledger, balance, tx>>
  PROVE  TypeOK'
  BY DEF TypeOK, Acquire, Goto

(* COMMIT merges a typed write set into typed tables.                      *)
LEMMA CommitType ==
  ASSUME TypeOK, NEW r \in Requests, Commit(r)
  PROVE  TypeOK'
<1> DEFINE t == tx[r]
<1>1. t \in Transaction
  BY DEF TypeOK
<1>2. journal' \in [Journals -> JournalRow]
  BY <1>1 DEF TypeOK, Commit, Transaction
<1>3. ledger' \subseteq LedgerRow
  BY <1>1 DEF TypeOK, Commit, Transaction
<1>4. balance' \in [Accounts \X Periods -> Balance]
  <2>1. \A x \in Accounts \X Periods :
          AddBalance(balance[x], t.bal[x[1]]) \in Balance
    BY <1>1, AddBalanceType DEF TypeOK, Transaction
  <2>2. QED
    BY <2>1 DEF TypeOK, Commit
<1>5. periodStatus' \in [Periods -> {"open", "closed", "locked"}]
  BY <1>1 DEF TypeOK, Commit, Transaction
<1>6. [NoTx EXCEPT !.op = t.op, !.id = t.id, !.ref = t.ref] \in Transaction
  BY <1>1, NoTxType DEF Transaction
<1>7. QED
  BY <1>2, <1>3, <1>4, <1>5, <1>6 DEF TypeOK, Commit, Goto, Steps

-----------------------------------------------------------------------------
(* Row locks.                                                              *)

(* Locks of different rows are different, so one never blocks another.     *)
LEMMA LocksDistinct ==
  ASSUME NEW p, NEW q, NEW j, NEW a
  PROVE  /\ PeriodLock(p) = PeriodLock(q) => p = q
         /\ PeriodLock(p) # ShareLock(q)
         /\ PeriodLock(p) # JournalLock(j)
         /\ PeriodLock(p) # AccountLock(a)
         /\ PeriodLock(p) # CounterLock
         /\ CounterLock # ShareLock(q)
         /\ CounterLock # JournalLock(j)
         /\ CounterLock # AccountLock(a)
  BY DEF PeriodLock, ShareLock, JournalLock, AccountLock, CounterLock

(* The locks of the argument conflict with themselves.                     *)
LEMMA SelfConflict ==
  /\ \A p \in Periods : PeriodLock(p) \in Conflicts(PeriodLock(p))
  /\ CounterLock \in Conflicts(CounterLock)
  BY DEF Conflicts, PeriodLock, CounterLock

(* Waiting for a lock until it is free keeps exclusive locks exclusive.    *)
LEMMA AcquireExclusive ==
  ASSUME TypeOK, LocksExclusive, NEW r \in Requests, NEW x, Acquire(r, x),
         \/ \E p \in Periods : x \in {PeriodLock(p), ShareLock(p)}
         \/ \E j \in Journals : x = JournalLock(j)
         \/ x = CounterLock
  PROVE  LocksExclusive'
<1>1. ASSUME NEW q \in Requests \ {r}, x = CounterLock
      PROVE  CounterLock \notin locks[q]
  BY <1>1, SelfConflict DEF Acquire, Free
<1>2. ASSUME NEW q \in Requests \ {r}, NEW p \in Periods, x = PeriodLock(p)
      PROVE  PeriodLock(p) \notin locks[q]
  BY <1>2, SelfConflict DEF Acquire, Free
<1>3. \A q \in Requests \ {r} : locks'[q] = locks[q]
  BY DEF TypeOK, Acquire
<1>4. locks'[r] = locks[r] \union {x}
  BY DEF TypeOK, Acquire
<1>5. CounterLock \in locks'[r] => CounterLock \in locks[r] \/ x = CounterLock
  BY <1>4
<1>6. \A p \in Periods : PeriodLock(p) \in locks'[r] =>
         PeriodLock(p) \in locks[r] \/ x = PeriodLock(p)
  BY <1>4
<1>7. QED
  BY <1>1, <1>2, <1>3, <1>5, <1>6 DEF LocksExclusive

(* Releasing everything, or nothing new among the exclusive locks.         *)
LEMMA ReleaseExclusive ==
  ASSUME TypeOK, LocksExclusive, NEW r \in Requests,
         locks' = [locks EXCEPT ![r] = {}]
  PROVE  LocksExclusive'
  BY DEF TypeOK, LocksExclusive

-----------------------------------------------------------------------------
(* A step of one request that writes no table cannot disturb the others.   *)

Good(r) ==
  Arguments(r) /\ WriteSet(r) /\ JournalKept(r) /\ PeriodHeld(r) /\ CloseChecked(r)

(* IInv, with the part about one request under a name.                     *)
LEMMA GoodIInv ==
  IInv <=> /\ TypeOK /\ LocksExclusive /\ NoDraftInClosedPeriod
           /\ \A r \in Requests : Good(r)
  BY DEF IInv, Good

(* A step of r that writes neither journals nor period statuses, and keeps *)
(* r's own part of the invariant, keeps everybody's.                       *)
LEMMA LocalStep ==
  ASSUME IInv, NEW r \in Requests,
         UNCHANGED <<journal, periodStatus>>,
         \A q \in Requests \ {r} :
           pc'[q] = pc[q] /\ tx'[q] = tx[q] /\ locks'[q] = locks[q],
         TypeOK', LocksExclusive', Good(r)'
  PROVE  IInv'
<1>1. NoDraftInClosedPeriod'
  BY DEF IInv, NoDraftInClosedPeriod, Drafts
<1>2. ASSUME NEW q \in Requests \ {r}
      PROVE  Good(q)'
  <2>1. Good(q)
    BY GoodIInv
  <2>2. Arguments(q)'
    BY <2>1 DEF Good, Arguments, InPost, Wrote, Visible
  <2>3. WriteSet(q)'
    BY <2>1 DEF Good, WriteSet, Wrote, Zero
  <2>4. JournalKept(q)'
    BY <2>1 DEF Good, JournalKept, Wrote
  <2>5. PeriodHeld(q)'
    BY <2>1 DEF Good, PeriodHeld, HoldsPeriod, Wrote
  <2>6. CloseChecked(q)'
    BY <2>1 DEF Good, CloseChecked, Drafts
  <2>7. QED
    BY <2>2, <2>3, <2>4, <2>5, <2>6 DEF Good
<1>3. \A q \in Requests : Good(q)'
  BY <1>2
<1>4. QED
  BY <1>1, <1>3 DEF IInv, Good

(* ROLLBACK preserves the invariant: it drops the write set and the locks. *)
LEMMA RollbackInv ==
  ASSUME IInv, NEW r \in Requests, Rollback(r)
  PROVE  IInv'
<1>1. TypeOK'
  BY RollbackType DEF IInv
<1>2. LocksExclusive'
  BY ReleaseExclusive DEF IInv, Rollback
<1>3. pc'[r] = "idle" /\ tx'[r] = NoTx
  BY DEF IInv, TypeOK, Rollback, Goto
<1>4. Good(r)'
  BY <1>3 DEF Good, Arguments, WriteSet, JournalKept, PeriodHeld, CloseChecked,
         HoldsPeriod, InPost, Wrote, NoTx, Zero
<1>5. \A q \in Requests \ {r} :
        pc'[q] = pc[q] /\ tx'[q] = tx[q] /\ locks'[q] = locks[q]
  BY DEF IInv, TypeOK, Rollback, Goto
<1>6. QED
  BY <1>1, <1>2, <1>4, <1>5, LocalStep DEF Rollback

-----------------------------------------------------------------------------
(* Requests that arrive.                                                   *)

(* BEGIN preserves it: the new transaction has written and locked nothing. *)
LEMMA BeginInv ==
  ASSUME IInv, NEW r \in Requests,
         NEW step \in {"create", "lockJournal", "resolve", "reverse", "lockStatus"},
         NEW args \in Transaction, Begin(r, step, args),
         args.work = NoJournal, args.rows = {}, args.bal = Zero,
         step # "lockJournal" => args.period \in Periods,
         step = "lockJournal" => args.id \in Journals,
         step = "reverse" => args.of \in Journals,
         args.op = "updateStatus" <=> step = "lockStatus"
  PROVE  IInv'
<1>1. TypeOK'
  BY BeginType DEF IInv, Steps
<1>2. LocksExclusive'
  BY DEF IInv, Begin, LocksExclusive
<1>3. /\ pc'[r] = step
      /\ tx'[r] = [args EXCEPT !.began = clock + 1]
      /\ UNCHANGED <<journal, periodStatus, locks>>
      /\ \A q \in Requests \ {r} : pc'[q] = pc[q] /\ tx'[q] = tx[q]
  BY DEF IInv, TypeOK, Begin, Goto
<1>4. /\ tx'[r].work = args.work /\ tx'[r].rows = args.rows
      /\ tx'[r].bal = args.bal /\ tx'[r].period = args.period
      /\ tx'[r].id = args.id /\ tx'[r].of = args.of /\ tx'[r].op = args.op
  BY <1>3 DEF Transaction
<1>5. Good(r)'
  BY <1>3, <1>4 DEF Good, Arguments, WriteSet, JournalKept, PeriodHeld,
         CloseChecked, HoldsPeriod, InPost, Wrote, Zero
<1>6. QED
  BY <1>1, <1>2, <1>3, <1>5, LocalStep

(* Every request begins with arguments BeginInv accepts.                   *)
LEMMA ArriveInv ==
  ASSUME IInv, NEW r \in Requests, Arrive(r)
  PROVE  IInv'
<1> USE NoTxType
<1>0. NoTx.work = NoJournal /\ NoTx.rows = {} /\ NoTx.bal = Zero
  BY DEF NoTx, Zero
<1>1. CASE BeginCreate(r)
  <2>1. PICK p \in Periods, e \in Entries, ref \in Refs \union {None} :
          Begin(r, "create", [NoTx EXCEPT !.op = "create", !.period = p,
                                          !.lines = e, !.ref = ref])
    BY <1>1 DEF BeginCreate
  <2> DEFINE args == [NoTx EXCEPT !.op = "create", !.period = p, !.lines = e,
                                  !.ref = ref]
  <2>2. /\ args \in Transaction /\ args.work = NoTx.work /\ args.rows = NoTx.rows
        /\ args.bal = NoTx.bal /\ args.period = p /\ args.op = "create"
    BY EntryAssumption DEF Transaction, References
  <2> HIDE DEF args
  <2>3. QED
    BY <1>0, <2>1, <2>2, BeginInv DEF args
<1>2. CASE BeginPost(r)
  <2>1. PICK j \in Journals :
          Begin(r, "lockJournal", [NoTx EXCEPT !.op = "post", !.id = j])
    BY <1>2 DEF BeginPost
  <2> DEFINE args == [NoTx EXCEPT !.op = "post", !.id = j]
  <2>2. /\ args \in Transaction /\ args.work = NoTx.work /\ args.rows = NoTx.rows
        /\ args.bal = NoTx.bal /\ args.id = j /\ args.op = "post"
    BY DEF Transaction
  <2> HIDE DEF args
  <2>3. QED
    BY <1>0, <2>1, <2>2, BeginInv DEF args
<1>3. CASE BeginAutoPost(r)
  <2>1. PICK p \in Periods, e \in Entries, ref \in Refs,
             op \in {"autoPost", "businessPost"} :
          Begin(r, "resolve", [NoTx EXCEPT !.op = op, !.period = p,
                                           !.lines = e, !.ref = ref])
    BY <1>3 DEF BeginAutoPost
  <2> DEFINE args == [NoTx EXCEPT !.op = op, !.period = p, !.lines = e, !.ref = ref]
  <2>2. /\ args \in Transaction /\ args.work = NoTx.work /\ args.rows = NoTx.rows
        /\ args.bal = NoTx.bal /\ args.period = p /\ args.op = op
    BY EntryAssumption DEF Transaction, References
  <2> HIDE DEF args
  <2>3. QED
    BY <1>0, <2>1, <2>2, BeginInv DEF args
<1>4. CASE BeginReverse(r)
  <2>1. PICK j \in Journals, p \in Periods :
          Begin(r, "reverse", [NoTx EXCEPT !.op = "reverse", !.of = j,
                                 !.period = p, !.ref = ReversalRef(j)])
    BY <1>4 DEF BeginReverse
  <2> DEFINE args == [NoTx EXCEPT !.op = "reverse", !.of = j, !.period = p,
                                  !.ref = ReversalRef(j)]
  <2>2. /\ args \in Transaction /\ args.work = NoTx.work /\ args.rows = NoTx.rows
        /\ args.bal = NoTx.bal /\ args.period = p /\ args.of = j
        /\ args.op = "reverse"
    BY DEF Transaction, References
  <2> HIDE DEF args
  <2>3. QED
    BY <1>0, <2>1, <2>2, BeginInv DEF args
<1>5. CASE BeginUpdateStatus(r)
  <2>1. PICK p \in Periods, target \in {"closed", "locked"} :
          Begin(r, "lockStatus", [NoTx EXCEPT !.op = "updateStatus",
                                    !.period = p, !.target = target])
    BY <1>5 DEF BeginUpdateStatus
  <2> DEFINE args == [NoTx EXCEPT !.op = "updateStatus", !.period = p,
                                  !.target = target]
  <2>2. /\ args \in Transaction /\ args.work = NoTx.work /\ args.rows = NoTx.rows
        /\ args.bal = NoTx.bal /\ args.period = p /\ args.op = "updateStatus"
    BY DEF Transaction
  <2> HIDE DEF args
  <2>3. QED
    BY <1>0, <2>1, <2>2, BeginInv DEF args
<1>6. QED
  BY <1>1, <1>2, <1>3, <1>4, <1>5 DEF Arrive

-----------------------------------------------------------------------------
(* Statements that lock a period row and go on, or roll back.              *)

(* create() locks the period row it found open.                            *)
LEMMA CreateLockPeriodInv ==
  ASSUME IInv, NEW r \in Requests, CreateLockPeriod(r)
  PROVE  IInv'
<1> DEFINE p == tx[r].period
<1>1. Good(r) /\ pc[r] = "create" /\ TypeOK /\ LocksExclusive
  BY GoodIInv DEF CreateLockPeriod
<1>2. p \in Periods
  BY <1>1 DEF Good, Arguments
<1>3. CASE Rollback(r)
  BY <1>3, RollbackInv
<1>4. CASE /\ periodStatus[p] = "open"
           /\ Acquire(r, PeriodLock(p))
           /\ Goto(r, "insert")
           /\ UNCHANGED <<clock, periodStatus, journal, ledger, balance, tx>>
  <2>1. PeriodLock(p) \in Lockable
    BY <1>2, LockableType
  <2>2. TypeOK'
    BY <1>1, <1>4, <2>1, LockStepType DEF Steps
  <2>3. LocksExclusive'
    BY <1>1, <1>2, <1>4, AcquireExclusive
  <2>4. /\ pc'[r] = "insert" /\ tx'[r] = tx[r]
        /\ locks'[r] = locks[r] \union {PeriodLock(p)}
        /\ \A q \in Requests \ {r} :
             pc'[q] = pc[q] /\ tx'[q] = tx[q] /\ locks'[q] = locks[q]
    BY <1>1, <1>4 DEF TypeOK, Acquire, Goto
  <2>5. Good(r)'
    BY <1>1, <1>2, <1>4, <2>4 DEF Good, Arguments, WriteSet, JournalKept, PeriodHeld, CloseChecked,
         HoldsPeriod, InPost, Wrote, Visible, Zero
  <2>6. QED
    BY <1>4, <2>2, <2>3, <2>4, <2>5, LocalStep
<1>5. QED
  BY <1>3, <1>4 DEF CreateLockPeriod

(* post() locks the period row it found open.                              *)
LEMMA LockPeriodInv ==
  ASSUME IInv, NEW r \in Requests, LockPeriod(r)
  PROVE  IInv'
<1> DEFINE p == tx[r].period
<1>1. Good(r) /\ pc[r] = "lockPeriod" /\ TypeOK /\ LocksExclusive
  BY GoodIInv DEF LockPeriod
<1>2. p \in Periods
  BY <1>1 DEF Good, Arguments
<1>3. CASE Rollback(r)
  BY <1>3, RollbackInv
<1>4. CASE /\ periodStatus[p] = "open"
           /\ Acquire(r, PeriodLock(p))
           /\ Goto(r, "lockAccounts")
           /\ UNCHANGED <<clock, periodStatus, journal, ledger, balance, tx>>
  <2>1. PeriodLock(p) \in Lockable
    BY <1>2, LockableType
  <2>2. TypeOK'
    BY <1>1, <1>4, <2>1, LockStepType DEF Steps
  <2>3. LocksExclusive'
    BY <1>1, <1>2, <1>4, AcquireExclusive
  <2>4. /\ pc'[r] = "lockAccounts" /\ tx'[r] = tx[r]
        /\ locks'[r] = locks[r] \union {PeriodLock(p)}
        /\ \A q \in Requests \ {r} :
             pc'[q] = pc[q] /\ tx'[q] = tx[q] /\ locks'[q] = locks[q]
    BY <1>1, <1>4 DEF TypeOK, Acquire, Goto
  <2>5. Good(r)'
    BY <1>1, <1>2, <1>4, <2>4 DEF Good, Arguments, WriteSet, JournalKept, PeriodHeld, CloseChecked,
         HoldsPeriod, InPost, Wrote, Visible, Zero
  <2>6. QED
    BY <1>4, <2>2, <2>3, <2>4, <2>5, LocalStep
<1>5. QED
  BY <1>3, <1>4 DEF LockPeriod

(* reverse() only shares the period row: it relies on create() for more.   *)
LEMMA ReverseLockPeriodInv ==
  ASSUME IInv, NEW r \in Requests, ReverseLockPeriod(r)
  PROVE  IInv'
<1> DEFINE p == tx[r].period
<1>1. Good(r) /\ pc[r] = "reversePeriod" /\ TypeOK /\ LocksExclusive
  BY GoodIInv DEF ReverseLockPeriod
<1>2. p \in Periods
  BY <1>1 DEF Good, Arguments
<1>3. CASE Rollback(r)
  BY <1>3, RollbackInv
<1>4. CASE /\ periodStatus[p] = "open"
           /\ Acquire(r, ShareLock(p))
           /\ Goto(r, "create")
           /\ UNCHANGED <<clock, periodStatus, journal, ledger, balance, tx>>
  <2>1. ShareLock(p) \in Lockable
    BY <1>2, LockableType
  <2>2. TypeOK'
    BY <1>1, <1>4, <2>1, LockStepType DEF Steps
  <2>3. LocksExclusive'
    BY <1>1, <1>2, <1>4, AcquireExclusive
  <2>4. /\ pc'[r] = "create" /\ tx'[r] = tx[r]
        /\ locks'[r] = locks[r] \union {ShareLock(p)}
        /\ \A q \in Requests \ {r} :
             pc'[q] = pc[q] /\ tx'[q] = tx[q] /\ locks'[q] = locks[q]
    BY <1>1, <1>4 DEF TypeOK, Acquire, Goto
  <2>5. Good(r)'
    BY <1>1, <1>2, <1>4, <2>4 DEF Good, Arguments, WriteSet, JournalKept, PeriodHeld, CloseChecked,
         HoldsPeriod, InPost, Wrote, Visible, Zero
  <2>6. QED
    BY <1>4, <2>2, <2>3, <2>4, <2>5, LocalStep
<1>5. QED
  BY <1>3, <1>4 DEF ReverseLockPeriod

(* updatePeriodStatus() locks the row and checks the transition.           *)
LEMMA LockStatusInv ==
  ASSUME IInv, NEW r \in Requests, LockStatus(r)
  PROVE  IInv'
<1> DEFINE p == tx[r].period
<1>1. Good(r) /\ pc[r] = "lockStatus" /\ TypeOK /\ LocksExclusive
  BY GoodIInv DEF LockStatus
<1>2. p \in Periods
  BY <1>1 DEF Good, Arguments
<1>3. CASE Free(r, PeriodLock(p)) /\ Rollback(r)
  BY <1>3, RollbackInv
<1>4. CASE /\ ValidTransition(periodStatus[p], tx[r].target)
           /\ Acquire(r, PeriodLock(p))
           /\ Goto(r, "drafts")
           /\ UNCHANGED <<clock, periodStatus, journal, ledger, balance, tx>>
  <2>1. PeriodLock(p) \in Lockable
    BY <1>2, LockableType
  <2>2. TypeOK'
    BY <1>1, <1>4, <2>1, LockStepType DEF Steps
  <2>3. LocksExclusive'
    BY <1>1, <1>2, <1>4, AcquireExclusive
  <2>4. /\ pc'[r] = "drafts" /\ tx'[r] = tx[r]
        /\ locks'[r] = locks[r] \union {PeriodLock(p)}
        /\ \A q \in Requests \ {r} :
             pc'[q] = pc[q] /\ tx'[q] = tx[q] /\ locks'[q] = locks[q]
    BY <1>1, <1>4 DEF TypeOK, Acquire, Goto
  <2>5. Good(r)'
    BY <1>1, <1>2, <1>4, <2>4 DEF Good, Arguments, WriteSet, JournalKept, PeriodHeld, CloseChecked,
         HoldsPeriod, InPost, Wrote, Visible, Zero
  <2>6. QED
    BY <1>4, <2>2, <2>3, <2>4, <2>5, LocalStep
<1>5. QED
  BY <1>3, <1>4 DEF LockStatus

-----------------------------------------------------------------------------
(* Statements that take no lock.                                           *)

(* getActivePeriodForDate() locks nothing and establishes nothing.         *)
LEMMA ResolvePeriodInv ==
  ASSUME IInv, NEW r \in Requests, ResolvePeriod(r)
  PROVE  IInv'
<1>1. Good(r) /\ pc[r] = "resolve" /\ TypeOK /\ LocksExclusive
  BY GoodIInv DEF ResolvePeriod
<1>2. CASE Rollback(r)
  BY <1>2, RollbackInv
<1>3. CASE /\ Goto(r, "create")
           /\ UNCHANGED <<clock, periodStatus, journal, ledger, balance, tx, locks>>
  <2>1. TypeOK' /\ LocksExclusive'
    BY <1>1, <1>3 DEF TypeOK, LocksExclusive, Goto, Steps
  <2>2. pc'[r] = "create" /\ \A q \in Requests \ {r} : pc'[q] = pc[q]
    BY <1>1, <1>3 DEF TypeOK, Goto
  <2>3. Good(r)'
    BY <1>1, <1>3, <2>2 DEF Good, Arguments, WriteSet, JournalKept, PeriodHeld, CloseChecked,
         HoldsPeriod, InPost, Wrote, Visible, Zero
  <2>4. QED
    BY <1>3, <2>1, <2>2, <2>3, LocalStep
<1>4. QED
  BY <1>2, <1>3 DEF ResolvePeriod

(* The draft check runs with the period row locked, so its answer lasts.   *)
LEMMA CheckDraftsInv ==
  ASSUME IInv, NEW r \in Requests, CheckDrafts(r)
  PROVE  IInv'
<1>1. Good(r) /\ pc[r] = "drafts" /\ TypeOK /\ LocksExclusive
  BY GoodIInv DEF CheckDrafts
<1>2. CASE Rollback(r)
  BY <1>2, RollbackInv
<1>3. CASE /\ Drafts(tx[r].period) = {}
           /\ Goto(r, "commit")
           /\ UNCHANGED <<clock, periodStatus, journal, ledger, balance, tx, locks>>
  <2>1. TypeOK' /\ LocksExclusive'
    BY <1>1, <1>3 DEF TypeOK, LocksExclusive, Goto, Steps
  <2>2. pc'[r] = "commit" /\ \A q \in Requests \ {r} : pc'[q] = pc[q]
    BY <1>1, <1>3 DEF TypeOK, Goto
  <2>3. Good(r)'
    BY <1>1, <1>3, <2>2 DEF Good, Arguments, WriteSet, JournalKept, PeriodHeld, CloseChecked,
         HoldsPeriod, InPost, Wrote, Visible, Zero, Drafts
  <2>4. QED
    BY <1>3, <2>1, <2>2, <2>3, LocalStep
<1>4. QED
  BY <1>2, <1>3 DEF CheckDrafts

(* Locking accounts touches neither the period row nor the counter.        *)
LEMMA LockAccountsInv ==
  ASSUME IInv, NEW r \in Requests, LockAccounts(r)
  PROVE  IInv'
<1> DEFINE wanted == {AccountLock(tx[r].lines[i].account) : i \in DOMAIN tx[r].lines}
<1>1. /\ Good(r) /\ pc[r] = "lockAccounts" /\ TypeOK /\ LocksExclusive
      /\ locks' = [locks EXCEPT ![r] = @ \union wanted] /\ Goto(r, "ledger")
      /\ UNCHANGED <<clock, periodStatus, journal, ledger, balance, tx>>
  BY GoodIInv DEF LockAccounts
<1>2. wanted \subseteq Lockable
  <2>1. tx[r].lines \in Seq(Line)
    BY <1>1 DEF TypeOK, Transaction
  <2>2. \A i \in DOMAIN tx[r].lines : tx[r].lines[i].account \in Accounts
    BY <2>1, LineType
  <2>3. QED
    BY <2>2, LockableType
<1>3. /\ pc'[r] = "ledger" /\ locks'[r] = locks[r] \union wanted
      /\ \A q \in Requests \ {r} : pc'[q] = pc[q] /\ locks'[q] = locks[q]
  BY <1>1 DEF TypeOK, Goto
<1>4. TypeOK'
  BY <1>1, <1>2 DEF TypeOK, Goto, Steps
<1>5. LocksExclusive'
  <2>1. CounterLock \notin wanted /\ \A p \in Periods : PeriodLock(p) \notin wanted
    BY LocksDistinct
  <2> HIDE DEF wanted
  <2>2. QED
    BY <1>1, <1>3, <2>1 DEF LocksExclusive
<1>6. Good(r)'
  <2> HIDE DEF wanted
  <2>1. QED
    BY <1>1, <1>3 DEF Good, Arguments, WriteSet, JournalKept, PeriodHeld, CloseChecked,
         HoldsPeriod, InPost, Wrote, Visible, Zero
<1>7. QED
  BY <1>1, <1>3, <1>4, <1>5, <1>6, LocalStep

-----------------------------------------------------------------------------
(* Statements that write into the transaction.                             *)

(* The new draft belongs to the period whose row is locked.                *)
LEMMA InsertJournalInv ==
  ASSUME IInv, NEW r \in Requests, InsertJournal(r)
  PROVE  IInv'
<1> DEFINE new == CHOOSE j \in FreshJournals : TRUE
           row == [status |-> "draft", period |-> tx[r].period,
                   lines |-> tx[r].lines, ref |-> tx[r].ref]
           step == IF tx[r].op = "create" THEN "commit" ELSE "lockJournal"
<1>1. /\ Good(r) /\ pc[r] = "insert" /\ TypeOK /\ LocksExclusive
      /\ Acquire(r, CounterLock) /\ Goto(r, step)
      /\ tx' = [tx EXCEPT ![r].id = new, ![r].work = row]
      /\ UNCHANGED <<clock, periodStatus, journal, ledger, balance>>
  BY GoodIInv DEF InsertJournal
<1>2. new \in Journals /\ journal[new] = NoJournal
  <2>1. new \in FreshJournals
    BY DEF InsertJournal
  <2>2. QED
    BY <1>1, <2>1 DEF FreshJournals, TypeOK, JournalRow
<1>3. tx[r] \in Transaction /\ tx[r].period \in Periods
  BY <1>1 DEF TypeOK, Good, Arguments
<1>4. row \in JournalRow /\ row # NoJournal /\ row.period = tx[r].period
  BY <1>3 DEF JournalRow, Transaction, NoJournal
<1> HIDE DEF new, row
<1>5. /\ tx'[r] = [tx[r] EXCEPT !.id = new, !.work = row]
      /\ pc'[r] = step /\ locks'[r] = locks[r] \union {CounterLock}
      /\ \A q \in Requests \ {r} :
           pc'[q] = pc[q] /\ tx'[q] = tx[q] /\ locks'[q] = locks[q]
  BY <1>1 DEF TypeOK, Acquire, Goto
<1>6. tx'[r] \in Transaction
  BY <1>2, <1>3, <1>4, <1>5 DEF Transaction
<1>7. TypeOK'
  <2>1. locks' \in [Requests -> SUBSET Lockable]
    BY <1>1, LockableType, AcquireType
  <2>2. QED
    BY <1>1, <1>6, <2>1, <1>5 DEF TypeOK, Goto, Steps
<1>8. LocksExclusive'
  BY <1>1, AcquireExclusive
<1>9. /\ tx'[r].id = new /\ tx'[r].work = row /\ tx'[r].op = tx[r].op
      /\ tx'[r].period = tx[r].period /\ tx'[r].rows = tx[r].rows
      /\ tx'[r].bal = tx[r].bal
  BY <1>3, <1>5 DEF Transaction
<1>10. Good(r)'
  BY <1>1, <1>2, <1>3, <1>4, <1>5, <1>9 DEF Good, Arguments, WriteSet, JournalKept, PeriodHeld, CloseChecked,
         HoldsPeriod, InPost, Wrote, Visible, Zero
<1>11. QED
  BY <1>1, <1>5, <1>7, <1>8, <1>10, LocalStep

(* A refused insert leaves no draft and no lock behind.                    *)
LEMMA InsertDuplicateInv ==
  ASSUME IInv, NEW r \in Requests, InsertDuplicate(r)
  PROVE  IInv'
<1>1. Good(r) /\ pc[r] = "insert" /\ TypeOK /\ LocksExclusive
  BY GoodIInv DEF InsertDuplicate
<1>2. CASE Rollback(r)
  BY <1>2, RollbackInv
<1>3. CASE /\ Goto(r, "recover")
           /\ locks' = [locks EXCEPT ![r] = {}]
           /\ UNCHANGED <<clock, periodStatus, journal, ledger, balance, tx>>
  <2>1. LocksExclusive'
    BY <1>1, <1>3, ReleaseExclusive
  <2>2. TypeOK'
    BY <1>1, <1>3 DEF TypeOK, Goto, Steps
  <2>3. /\ pc'[r] = "recover" /\ locks'[r] = {}
        /\ \A q \in Requests \ {r} : pc'[q] = pc[q] /\ locks'[q] = locks[q]
    BY <1>1, <1>3 DEF TypeOK, Goto
  <2>4. Good(r)'
    BY <1>1, <1>3, <2>3 DEF Good, Arguments, WriteSet, JournalKept, PeriodHeld, CloseChecked,
         HoldsPeriod, InPost, Wrote, Visible, Zero
  <2>5. QED
    BY <1>3, <2>1, <2>2, <2>3, <2>4, LocalStep
<1>4. QED
  BY <1>2, <1>3 DEF InsertDuplicate

(* post() takes the period from the journal it locks.                      *)
LEMMA LockJournalInv ==
  ASSUME IInv, NEW r \in Requests, LockJournal(r)
  PROVE  IInv'
<1> DEFINE j == tx[r].id
           row == Visible(r, j)
<1>1. Good(r) /\ pc[r] = "lockJournal" /\ TypeOK /\ LocksExclusive
  BY GoodIInv DEF LockJournal
<1>2. j \in Journals /\ tx[r] \in Transaction /\ row \in JournalRow
  BY <1>1 DEF Good, Arguments, TypeOK, Transaction, Visible
<1>3. CASE Free(r, JournalLock(j)) /\ Rollback(r)
  BY <1>3, RollbackInv
<1>4. CASE /\ row.status = "draft"
           /\ Acquire(r, JournalLock(j))
           /\ tx' = [tx EXCEPT ![r].period = row.period, ![r].lines = row.lines]
           /\ Goto(r, "lockPeriod")
           /\ UNCHANGED <<clock, periodStatus, journal, ledger, balance>>
  <2>1. row # NoJournal /\ row.period \in Periods /\ row.lines \in Seq(Line)
    BY <1>2, <1>4 DEF JournalRow, NoJournal
  <2>2. /\ tx'[r] = [tx[r] EXCEPT !.period = row.period, !.lines = row.lines]
        /\ pc'[r] = "lockPeriod" /\ locks'[r] = locks[r] \union {JournalLock(j)}
        /\ \A q \in Requests \ {r} :
             pc'[q] = pc[q] /\ tx'[q] = tx[q] /\ locks'[q] = locks[q]
    BY <1>1, <1>4 DEF TypeOK, Acquire, Goto
  <2> HIDE DEF j, row
  <2>3. tx'[r] \in Transaction
    BY <1>2, <2>1, <2>2 DEF Transaction
  <2>4. locks' \in [Requests -> SUBSET Lockable]
    BY <1>1, <1>2, <1>4, LockableType, AcquireType
  <2>5. TypeOK'
    BY <1>1, <1>4, <2>2, <2>3, <2>4 DEF TypeOK, Goto, Steps
  <2>6. LocksExclusive'
    BY <1>1, <1>2, <1>4, AcquireExclusive
  <2>7. /\ tx'[r].id = j /\ tx'[r].work = tx[r].work /\ tx'[r].op = tx[r].op
        /\ tx'[r].period = row.period /\ tx'[r].rows = tx[r].rows
        /\ tx'[r].bal = tx[r].bal
    BY <1>2, <2>2 DEF Transaction, j
  <2>8. row = IF tx[r].work # NoJournal THEN tx[r].work ELSE journal[j]
    BY DEF row, Visible, j
  <2>9. tx[r].work # NoJournal => row.period = tx[r].period
    BY <1>1, <2>8 DEF Good, WriteSet, Wrote
  <2>10. Good(r)'
    <3>1. Visible(r, tx[r].id)' = row
      BY <1>4, <2>7, <2>8 DEF Visible, j
    <3>2. Arguments(r)'
      BY <1>2, <2>1, <2>2, <2>7, <3>1 DEF Arguments, InPost
    <3>3. WriteSet(r)'
      BY <1>1, <2>2, <2>7, <2>8, <2>9 DEF Good, WriteSet, Wrote, Zero
    <3>4. JournalKept(r)'
      BY <1>1, <1>4, <2>2, <2>7, <2>9 DEF Good, JournalKept, Wrote, j
    <3>5. PeriodHeld(r)' /\ CloseChecked(r)'
      BY <1>1, <1>4, <2>2, <2>7, <2>9
      DEF Good, PeriodHeld, HoldsPeriod, WriteSet, CloseChecked, Wrote
    <3>6. QED
      BY <3>2, <3>3, <3>4, <3>5 DEF Good
  <2>11. QED
    BY <1>4, <2>2, <2>5, <2>6, <2>10, LocalStep
<1>5. QED
  BY <1>3, <1>4 DEF LockJournal

(* A posted line stays in the period of its transaction.                   *)
LEMMA PostLineInv ==
  ASSUME IInv, NEW r \in Requests, PostLine(r)
  PROVE  IInv'
<1>1. /\ Good(r) /\ pc[r] = "ledger" /\ TypeOK /\ LocksExclusive
      /\ UNCHANGED <<clock, periodStatus, journal, ledger, balance, pc, locks>>
  BY GoodIInv DEF PostLine
<1>2. /\ tx[r] \in Transaction /\ tx[r].id \in Journals /\ tx[r].period \in Periods
      /\ tx[r].lines \in Seq(Line) /\ tx[r].began \in Nat
      /\ tx[r].rows \subseteq LedgerRow /\ tx[r].bal \in [Accounts -> Balance]
  BY <1>1 DEF TypeOK, Transaction, Good, Arguments, InPost
<1>3. PICK i \in PendingLines(r) :
        \E prev \in PreviousBalances(r, tx[r].lines[i].account) :
          tx' = [tx EXCEPT
            ![r].rows = @ \union
               {[journal |-> tx[r].id, line |-> i, account |-> tx[r].lines[i].account,
                 period |-> tx[r].period, amount |-> tx[r].lines[i].amount,
                 balance |-> prev + tx[r].lines[i].amount, at |-> tx[r].began]},
            ![r].bal[tx[r].lines[i].account] =
               [debit |-> @.debit + Debit(tx[r].lines[i].amount),
                credit |-> @.credit + Credit(tx[r].lines[i].amount),
                closing |-> prev + tx[r].lines[i].amount]]
  BY DEF PostLine
<1> DEFINE a == tx[r].lines[i].account
           n == tx[r].lines[i].amount
<1>4. i \in Nat /\ a \in Accounts /\ n \in Int
  BY <1>2, LineType DEF PendingLines
<1>5. PICK prev \in PreviousBalances(r, a) :
          tx' = [tx EXCEPT
            ![r].rows = @ \union
               {[journal |-> tx[r].id, line |-> i, account |-> a,
                 period |-> tx[r].period, amount |-> n,
                 balance |-> prev + n, at |-> tx[r].began]},
            ![r].bal[a] =
               [debit |-> @.debit + Debit(n), credit |-> @.credit + Credit(n),
                closing |-> prev + n]]
  BY <1>3
<1> HIDE DEF a, n
<1> DEFINE row == [journal |-> tx[r].id, line |-> i, account |-> a,
                   period |-> tx[r].period, amount |-> n,
                   balance |-> prev + n, at |-> tx[r].began]
           new == [debit |-> tx[r].bal[a].debit + Debit(n),
                   credit |-> tx[r].bal[a].credit + Credit(n),
                   closing |-> prev + n]
           bal == [tx[r].bal EXCEPT ![a] = new]
<1>6. prev \in Int
  BY <1>1, <1>2 DEF PreviousBalances, LastRows, TypeOK, LedgerRow
<1>7. row \in LedgerRow /\ row.period = tx[r].period
  BY <1>2, <1>4, <1>6 DEF LedgerRow
<1>8. new \in Balance /\ bal \in [Accounts -> Balance]
  <2>1. tx[r].bal[a] \in Balance
    BY <1>2, <1>4
  <2>2. new \in Balance
    BY <1>4, <1>6, <2>1, SideType DEF Balance
  <2>3. QED
    BY <1>2, <1>4, <2>2
<1>9. /\ tx'[r] = [tx[r] EXCEPT !.rows = tx[r].rows \union {row}, !.bal = bal]
      /\ \A q \in Requests \ {r} : tx'[q] = tx[q]
  BY <1>1, <1>5 DEF TypeOK
<1> HIDE DEF row, new, bal
<1>10. tx'[r] \in Transaction
  <2>1. ASSUME NEW t \in Transaction, NEW x \in SUBSET LedgerRow,
               NEW b \in [Accounts -> Balance]
        PROVE  [t EXCEPT !.rows = x, !.bal = b] \in Transaction
    BY DEF Transaction
  <2>2. tx[r].rows \union {row} \in SUBSET LedgerRow
    BY <1>2, <1>7
  <2>3. [tx[r] EXCEPT !.rows = tx[r].rows \union {row}, !.bal = bal] \in Transaction
    BY ONLY <1>2, <1>8, <2>1, <2>2, Zenon
  <2>4. QED
    BY <1>9, <2>3
<1>11. TypeOK' /\ LocksExclusive'
  <2>1. tx' \in [Requests -> Transaction]
    BY <1>1, <1>5, <1>9, <1>10 DEF TypeOK
  <2>2. QED
    BY <1>1, <2>1 DEF TypeOK, LocksExclusive
<1>12. /\ tx'[r].id = tx[r].id /\ tx'[r].work = tx[r].work /\ tx'[r].op = tx[r].op
       /\ tx'[r].period = tx[r].period /\ tx'[r].rows = tx[r].rows \union {row}
  BY <1>2, <1>9 DEF Transaction
<1>13. Good(r)'
  BY <1>1, <1>2, <1>7, <1>12 DEF Good, Arguments, WriteSet, JournalKept, PeriodHeld, CloseChecked,
         HoldsPeriod, InPost, Wrote, Visible, Zero
<1>14. QED
  BY <1>1, <1>9, <1>11, <1>13, LocalStep

(* Marking the journal posted keeps its period.                            *)
LEMMA MarkPostedInv ==
  ASSUME IInv, NEW r \in Requests, MarkPosted(r)
  PROVE  IInv'
<1> DEFINE old == Visible(r, tx[r].id)
           row == [old EXCEPT !.status = "posted"]
           step == IF tx[r].op = "reverse" THEN "link" ELSE "commit"
<1>1. Good(r) /\ pc[r] = "ledger" /\ TypeOK /\ LocksExclusive
  BY GoodIInv DEF MarkPosted
<1>2. CASE Rollback(r)
  BY <1>2, RollbackInv
<1>3. CASE /\ tx' = [tx EXCEPT ![r].work = row]
           /\ Goto(r, step)
           /\ UNCHANGED <<clock, periodStatus, journal, ledger, balance, locks>>
  <2>1. /\ tx[r] \in Transaction /\ tx[r].id \in Journals
        /\ old \in JournalRow /\ old # NoJournal /\ old.period = tx[r].period
    BY <1>1 DEF TypeOK, Transaction, Good, Arguments, InPost, Visible
  <2>2. row \in JournalRow /\ row # NoJournal /\ row.period = tx[r].period
    BY <2>1 DEF JournalRow, NoJournal
  <2>3. old = IF tx[r].work # NoJournal THEN tx[r].work ELSE journal[tx[r].id]
    BY DEF Visible
  <2> HIDE DEF row, old
  <2>4. /\ tx'[r] = [tx[r] EXCEPT !.work = row] /\ pc'[r] = step
        /\ \A q \in Requests \ {r} : pc'[q] = pc[q] /\ tx'[q] = tx[q]
    BY <1>1, <1>3 DEF TypeOK, Goto
  <2>5. tx'[r] \in Transaction
    BY <2>1, <2>2, <2>4 DEF Transaction
  <2>6. TypeOK' /\ LocksExclusive'
    BY <1>1, <1>3, <2>4, <2>5 DEF TypeOK, LocksExclusive, Goto, Steps
  <2>7. /\ tx'[r].id = tx[r].id /\ tx'[r].work = row /\ tx'[r].op = tx[r].op
        /\ tx'[r].period = tx[r].period /\ tx'[r].rows = tx[r].rows
        /\ tx'[r].bal = tx[r].bal
    BY <2>1, <2>4 DEF Transaction
  <2>8. JournalKept(r)'
    BY <1>1, <1>3, <2>1, <2>3, <2>7 DEF Good, JournalKept, Wrote
  <2>9. Arguments(r)' /\ WriteSet(r)' /\ PeriodHeld(r)' /\ CloseChecked(r)'
    BY <1>1, <1>3, <2>1, <2>2, <2>4, <2>7
    DEF Good, Arguments, WriteSet, PeriodHeld, CloseChecked, HoldsPeriod,
        InPost, Wrote, Zero
  <2>10. QED
    BY <1>3, <2>4, <2>6, <2>8, <2>9, LocalStep DEF Good
<1>4. QED
  BY <1>2, <1>3 DEF MarkPosted

(* The recovery path of autoPost() starts again with nothing locked.       *)
LEMMA RecoverInv ==
  ASSUME IInv, NEW r \in Requests, Recover(r)
  PROVE  IInv'
<1>1. /\ Good(r) /\ pc[r] = "recover" /\ TypeOK /\ LocksExclusive
      /\ UNCHANGED <<periodStatus, journal, ledger, balance, locks>>
  BY GoodIInv DEF Recover
<1>2. tx[r] \in Transaction /\ ~ Wrote(r) /\ tx[r].rows = {} /\ tx[r].bal = Zero
  BY <1>1 DEF TypeOK, Good, WriteSet
<1>3. NoTx.work = NoJournal /\ NoTx.rows = {} /\ NoTx.bal = Zero
  BY DEF NoTx, Zero
<1>4. ASSUME NEW t \in Transaction, NEW step \in {"lockJournal", "done", "idle"},
             pc' = [pc EXCEPT ![r] = step], tx' = [tx EXCEPT ![r] = t],
             clock' \in Nat, t.work = NoJournal, t.rows = {}, t.bal = Zero,
             step = "lockJournal" => t.id \in Journals, t.op # "updateStatus"
      PROVE  IInv'
  <2>1. TypeOK' /\ LocksExclusive'
    BY <1>1, <1>4 DEF TypeOK, LocksExclusive, Steps
  <2>2. /\ pc'[r] = step /\ tx'[r] = t
        /\ \A q \in Requests \ {r} : pc'[q] = pc[q] /\ tx'[q] = tx[q]
    BY <1>1, <1>4 DEF TypeOK
  <2>3. Good(r)'
    BY <1>1, <1>4, <2>2 DEF Good, Arguments, WriteSet, JournalKept, PeriodHeld, CloseChecked,
         HoldsPeriod, InPost, Wrote, Visible, Zero
  <2>4. QED
    BY <1>1, <2>1, <2>2, <2>3, LocalStep
<1>5. PICK j \in Journals :
         \/ /\ Goto(r, "lockJournal") /\ clock' = clock + 1
            /\ tx' = [tx EXCEPT ![r].id = j, ![r].began = clock + 1]
         \/ /\ Goto(r, "done") /\ UNCHANGED clock
            /\ tx' = [tx EXCEPT ![r] = [NoTx EXCEPT !.op = tx[r].op, !.id = j,
                                                    !.ref = tx[r].ref]]
         \/ Goto(r, "idle") /\ tx' = [tx EXCEPT ![r] = NoTx] /\ UNCHANGED clock
  BY DEF Recover
<1>6. tx[r].op # "updateStatus"
  BY <1>1 DEF Good, WriteSet
<1>7. CASE /\ Goto(r, "lockJournal") /\ clock' = clock + 1
           /\ tx' = [tx EXCEPT ![r].id = j, ![r].began = clock + 1]
  <2> DEFINE t == [tx[r] EXCEPT !.id = j, !.began = clock + 1]
  <2>1. clock + 1 \in Nat
    BY <1>1 DEF TypeOK
  <2>2. /\ t \in Transaction /\ t.work = tx[r].work /\ t.rows = tx[r].rows
        /\ t.bal = tx[r].bal /\ t.id = j /\ t.op = tx[r].op
    BY <1>2, <2>1 DEF Transaction
  <2>3. tx' = [tx EXCEPT ![r] = t]
    BY <1>7
  <2> HIDE DEF t
  <2>4. QED
    BY <1>2, <1>4, <1>6, <1>7, <2>1, <2>2, <2>3 DEF Goto, Wrote
<1>8. CASE /\ Goto(r, "done") /\ UNCHANGED clock
           /\ tx' = [tx EXCEPT ![r] = [NoTx EXCEPT !.op = tx[r].op, !.id = j,
                                                   !.ref = tx[r].ref]]
  <2> DEFINE t == [NoTx EXCEPT !.op = tx[r].op, !.id = j, !.ref = tx[r].ref]
  <2>1. /\ t \in Transaction /\ t.work = NoTx.work /\ t.rows = NoTx.rows
        /\ t.bal = NoTx.bal /\ t.op = tx[r].op
    BY <1>2, NoTxType DEF Transaction
  <2> HIDE DEF t
  <2>2. clock' \in Nat
    BY <1>1, <1>8 DEF TypeOK
  <2>3. QED
    BY <1>3, <1>4, <1>6, <1>8, <2>1, <2>2 DEF Goto, t
<1>9. CASE Goto(r, "idle") /\ tx' = [tx EXCEPT ![r] = NoTx] /\ UNCHANGED clock
  <2>1. clock' \in Nat /\ NoTx.op # "updateStatus"
    BY <1>1, <1>9 DEF TypeOK, NoTx
  <2>2. QED
    BY <1>3, <1>4, <1>9, <2>1, NoTxType DEF Goto
<1>10. QED
  BY <1>5, <1>7, <1>8, <1>9

(* reverse() prepares the reversed lines and writes nothing.               *)
LEMMA ReverseLockJournalInv ==
  ASSUME IInv, NEW r \in Requests, ReverseLockJournal(r)
  PROVE  IInv'
<1> DEFINE j == tx[r].of
           lines == Reversal(journal[j].lines)
<1>1. Good(r) /\ pc[r] = "reverse" /\ TypeOK /\ LocksExclusive
  BY GoodIInv DEF ReverseLockJournal
<1>2. j \in Journals /\ tx[r] \in Transaction /\ journal[j] \in JournalRow
  BY <1>1 DEF Good, Arguments, TypeOK
<1>3. CASE Free(r, JournalLock(j)) /\ Rollback(r)
  BY <1>3, RollbackInv
<1>4. CASE /\ journal[j].status = "posted"
           /\ Acquire(r, JournalLock(j))
           /\ Goto(r, "reversePeriod")
           /\ tx' = [tx EXCEPT ![r].lines = lines]
           /\ UNCHANGED <<clock, periodStatus, journal, ledger, balance>>
  <2>1. lines \in Seq(Line)
    <3>1. journal[j].lines \in Seq(Line)
      BY <1>2, <1>4 DEF JournalRow, NoJournal
    <3>2. QED
      BY <3>1, ReversalType
  <2> HIDE DEF lines
  <2>2. /\ tx'[r] = [tx[r] EXCEPT !.lines = lines]
        /\ pc'[r] = "reversePeriod" /\ locks'[r] = locks[r] \union {JournalLock(j)}
        /\ \A q \in Requests \ {r} :
             pc'[q] = pc[q] /\ tx'[q] = tx[q] /\ locks'[q] = locks[q]
    BY <1>1, <1>4 DEF TypeOK, Acquire, Goto
  <2>3. tx'[r] \in Transaction
    BY <1>2, <2>1, <2>2 DEF Transaction
  <2>4. locks' \in [Requests -> SUBSET Lockable]
    BY <1>1, <1>2, <1>4, LockableType, AcquireType
  <2>5. TypeOK'
    BY <1>1, <1>4, <2>2, <2>3, <2>4 DEF TypeOK, Goto, Steps
  <2>6. LocksExclusive'
    BY <1>1, <1>2, <1>4, AcquireExclusive
  <2>7. /\ tx'[r].work = tx[r].work /\ tx'[r].op = tx[r].op
        /\ tx'[r].period = tx[r].period /\ tx'[r].rows = tx[r].rows
        /\ tx'[r].bal = tx[r].bal
    BY <1>2, <2>2 DEF Transaction
  <2>8. Good(r)'
    BY <1>1, <1>4, <2>2, <2>7 DEF Good, Arguments, WriteSet, JournalKept, PeriodHeld, CloseChecked,
         HoldsPeriod, InPost, Wrote, Visible, Zero
  <2>9. QED
    BY <1>4, <2>2, <2>5, <2>6, <2>8, LocalStep
<1>5. QED
  BY <1>3, <1>4 DEF ReverseLockJournal

-----------------------------------------------------------------------------
(* COMMIT: the only step that writes the tables.                           *)

(* COMMIT preserves the invariant: a write set is merged while its period  *)
(* is locked and open, a status change while there are no drafts.          *)
LEMMA CommitInv ==
  ASSUME IInv, NEW r \in Requests, Commit(r)
  PROVE  IInv'
<1> DEFINE t == tx[r]
           p == tx[r].period
<1>1. /\ TypeOK /\ LocksExclusive /\ NoDraftInClosedPeriod
      /\ Good(r) /\ pc[r] = "commit" /\ t \in Transaction /\ p \in Periods
      /\ \A q \in Requests : Good(q)
  BY GoodIInv DEF Commit, TypeOK, Good, Arguments
<1>2. TypeOK' /\ LocksExclusive'
  BY <1>1, CommitType, ReleaseExclusive DEF Commit
<1>3. /\ pc'[r] = "done"
      /\ tx'[r] = [NoTx EXCEPT !.op = t.op, !.id = t.id, !.ref = t.ref]
      /\ locks'[r] = {}
      /\ \A q \in Requests \ {r} :
           pc'[q] = pc[q] /\ tx'[q] = tx[q] /\ locks'[q] = locks[q]
  BY <1>1 DEF Commit, TypeOK, Goto
<1>4. PeriodLock(p) \in locks[r]
  BY <1>1 DEF Good, PeriodHeld, HoldsPeriod
<1>5. ASSUME NEW q \in Requests \ {r}, HoldsPeriod(q)
      PROVE  tx[q].period # p
  BY <1>1, <1>4, <1>5 DEF Good, PeriodHeld, LocksExclusive
<1>6. ASSUME t.op = "updateStatus"
      PROVE  NoDraftInClosedPeriod' /\ \A q \in Requests \ {r} : Good(q)'
  <2>1. /\ UNCHANGED journal
        /\ periodStatus' = [periodStatus EXCEPT ![p] = t.target]
        /\ Drafts(p) = {}
    BY <1>1, <1>6 DEF Commit, Good, WriteSet, CloseChecked, Wrote
  <2>2. NoDraftInClosedPeriod'
    BY <1>1, <2>1 DEF NoDraftInClosedPeriod, Drafts, TypeOK
  <2>3. ASSUME NEW q \in Requests \ {r}
        PROVE  Good(q)'
    <3>1. PeriodHeld(q)'
      <4>1. HoldsPeriod(q)' <=> HoldsPeriod(q)
        BY <1>3 DEF HoldsPeriod, Wrote
      <4>2. CASE HoldsPeriod(q)
        <5>1. periodStatus'[tx[q].period] = periodStatus[tx[q].period]
          BY <1>1, <1>5, <2>1, <4>2 DEF TypeOK
        <5>2. QED
          BY <1>1, <1>3, <4>1, <5>1 DEF Good, PeriodHeld
      <4>3. QED
        BY <4>1, <4>2 DEF PeriodHeld
    <3>2. Arguments(q)' /\ WriteSet(q)' /\ JournalKept(q)' /\ CloseChecked(q)'
      BY <1>1, <1>3, <2>1
      DEF Good, Arguments, WriteSet, JournalKept, CloseChecked, InPost, Wrote,
          Visible, Zero, Drafts
    <3>3. QED
      BY <3>1, <3>2 DEF Good
  <2>4. QED
    BY <2>2, <2>3
<1>7. ASSUME t.op # "updateStatus"
      PROVE  NoDraftInClosedPeriod' /\ \A q \in Requests \ {r} : Good(q)'
  <2>1. UNCHANGED periodStatus /\ periodStatus[p] = "open"
    BY <1>1, <1>7 DEF Commit, Good, PeriodHeld, HoldsPeriod
  <2>2. \A j \in Journals : journal'[j] # journal[j] =>
          /\ Wrote(r) /\ j = t.id /\ journal'[j] = t.work
          /\ t.work.period = p /\ t.work # NoJournal
    BY <1>1 DEF Commit, TypeOK, Good, WriteSet, Wrote
  <2>3. ASSUME NEW q \in Periods \ {p}
        PROVE  Drafts(q)' \subseteq Drafts(q)
    BY <2>2, <2>3 DEF Drafts
  <2>4. NoDraftInClosedPeriod'
    BY <1>1, <2>1, <2>3 DEF NoDraftInClosedPeriod
  <2>5. ASSUME NEW q \in Requests \ {r}
        PROVE  Good(q)'
    <3>1. PeriodHeld(q)' /\ WriteSet(q)'
      BY <1>1, <1>3, <2>1
      DEF Good, PeriodHeld, WriteSet, HoldsPeriod, Wrote, Zero
    <3>2. CloseChecked(q)'
      <4>1. CASE pc[q] = "commit" /\ tx[q].op = "updateStatus"
        <5>1. tx[q].period \in Periods \ {p} /\ Drafts(tx[q].period) = {}
          BY <1>1, <1>5, <4>1 DEF HoldsPeriod, Good, Arguments, CloseChecked
        <5>2. Drafts(tx[q].period)' = {}
          BY <2>3, <5>1, <1>3 DEF Drafts
        <5>3. QED
          BY <1>3, <5>2 DEF CloseChecked
      <4>2. QED
        BY <1>3, <4>1 DEF CloseChecked
    <3>3. JournalKept(q)'
      <4>1. CASE Wrote(q)
        <5>1. tx[q].id \in Journals
          BY <1>1, <4>1 DEF Good, Arguments
        <5>2. CASE journal'[tx[q].id] = journal[tx[q].id]
          BY <1>1, <1>3, <4>1, <5>2 DEF Good, JournalKept, Wrote
        <5>3. CASE journal'[tx[q].id] # journal[tx[q].id]
          <6>1. /\ Wrote(r) /\ tx[q].id = t.id
                /\ journal'[tx[q].id] # NoJournal /\ journal'[tx[q].id].period = p
            BY <2>2, <5>1, <5>3
          <6>2. journal[t.id] # NoJournal
            <7>1. SUFFICES ASSUME journal[t.id] = NoJournal PROVE FALSE
              OBVIOUS
            <7>2. CounterLock \in locks[r] /\ CounterLock \in locks[q]
              BY <1>1, <4>1, <6>1, <7>1 DEF Good, JournalKept
            <7>3. QED
              BY <1>1, <7>2 DEF LocksExclusive
          <6>3. journal[t.id].period = tx[q].period /\ journal[t.id].period = p
            BY <1>1, <4>1, <6>1, <6>2 DEF Good, JournalKept
          <6>4. QED
            BY <1>3, <6>1, <6>3 DEF JournalKept, Wrote
        <5>4. QED
          BY <5>2, <5>3
      <4>2. QED
        BY <1>3, <4>1 DEF JournalKept, Wrote
    <3>4. Arguments(q)'
      <4>1. CASE InPost(q)
        <5>1. tx[q].id \in Journals
          BY <1>1, <4>1 DEF Good, Arguments
        <5>2. CASE journal'[tx[q].id] = journal[tx[q].id]
          BY <1>1, <1>3, <5>2 DEF Good, Arguments, InPost, Wrote, Visible
        <5>3. CASE journal'[tx[q].id] # journal[tx[q].id]
          <6>1. /\ Wrote(r) /\ tx[q].id = t.id
                /\ journal'[tx[q].id] # NoJournal /\ journal'[tx[q].id].period = p
            BY <2>2, <5>1, <5>3
          <6>2. CASE Wrote(q)
            BY <1>1, <1>3, <4>1, <6>2 DEF Good, Arguments, InPost, Wrote, Visible
          <6>3. CASE ~ Wrote(q)
            <7>1. /\ Visible(q, tx[q].id) = journal[t.id]
                  /\ journal[t.id] # NoJournal
                  /\ journal[t.id].period = tx[q].period
              BY <1>1, <4>1, <6>1, <6>3 DEF Good, Arguments, Visible, Wrote
            <7>2. journal[t.id].period = p
              BY <1>1, <6>1, <7>1 DEF Good, JournalKept
            <7>3. Visible(q, tx[q].id)' = journal'[t.id]
              BY <1>3, <6>1, <6>3 DEF Visible, Wrote
            <7>4. QED
              BY <1>1, <1>3, <4>1, <5>1, <6>1, <7>1, <7>2, <7>3
              DEF Good, Arguments, InPost, Wrote
          <6>4. QED
            BY <6>2, <6>3
        <5>4. QED
          BY <5>2, <5>3
      <4>2. CASE ~ InPost(q)
        BY <1>1, <1>3, <4>2 DEF Good, Arguments, InPost, Wrote
      <4>3. QED
        BY <4>1, <4>2
    <3>5. QED
      BY <3>1, <3>2, <3>3, <3>4 DEF Good
  <2>6. QED
    BY <2>4, <2>5
<1>8. Good(r)'
  <2>1. /\ tx'[r].work = NoTx.work /\ tx'[r].rows = NoTx.rows
        /\ tx'[r].bal = NoTx.bal
    BY <1>1, <1>3, NoTxType DEF Transaction
  <2>2. NoTx.work = NoJournal /\ NoTx.rows = {} /\ NoTx.bal = Zero
    BY DEF NoTx, Zero
  <2>3. QED
    BY <1>3, <2>1, <2>2
    DEF Good, Arguments, WriteSet, JournalKept, PeriodHeld, CloseChecked,
        HoldsPeriod, InPost, Wrote, Zero
<1>9. QED
  BY <1>2, <1>6, <1>7, <1>8 DEF IInv, Good

-----------------------------------------------------------------------------
(* The invariant holds initially and after every step.                     *)

(* The initial state satisfies the inductive invariant.                    *)
LEMMA InitInv == Init => IInv
<1> SUFFICES ASSUME Init PROVE IInv
  OBVIOUS
<1>1. TypeOK
  BY NoTxType DEF Init, TypeOK, JournalRow, Steps, Balance, NoBalance
<1>2. LocksExclusive /\ NoDraftInClosedPeriod
  BY DEF Init, LocksExclusive, NoDraftInClosedPeriod
<1>3. ASSUME NEW r \in Requests
      PROVE  Good(r)
  BY DEF Init, Good, Arguments, WriteSet, JournalKept, PeriodHeld, CloseChecked,
         HoldsPeriod, InPost, Wrote, NoTx, Zero
<1>4. QED
  BY <1>1, <1>2, <1>3, GoodIInv

(* Every step preserves the inductive invariant.                           *)
LEMMA NextInv == IInv /\ [Next]_vars => IInv'
<1> SUFFICES ASSUME IInv, [Next]_vars PROVE IInv'
  OBVIOUS
<1>1. ASSUME NEW r \in Requests, Arrive(r)
      PROVE  IInv'
  BY <1>1, ArriveInv
<1>2. ASSUME NEW r \in Requests, Statement(r)
      PROVE  IInv'
  <2>1. CASE CreateLockPeriod(r) \/ LockPeriod(r) \/ ReverseLockPeriod(r) \/ LockStatus(r)
    BY <2>1, CreateLockPeriodInv, LockPeriodInv, ReverseLockPeriodInv, LockStatusInv
  <2>2. CASE ResolvePeriod(r) \/ CheckDrafts(r) \/ LockAccounts(r)
    BY <2>2, ResolvePeriodInv, CheckDraftsInv, LockAccountsInv
  <2>3. CASE InsertJournal(r) \/ InsertDuplicate(r) \/ LockJournal(r) \/ ReverseLockJournal(r)
    BY <2>3, InsertJournalInv, InsertDuplicateInv, LockJournalInv, ReverseLockJournalInv
  <2>4. CASE PostLine(r) \/ MarkPosted(r) \/ Recover(r) \/ Commit(r)
    BY <2>4, PostLineInv, MarkPostedInv, RecoverInv, CommitInv
  <2>5. CASE ReverseLink(r) \/ DeadlockVictim(r) \/ Respond(r)
    BY <2>5, RollbackInv DEF ReverseLink, DeadlockVictim, Respond
  <2>6. QED
    BY <1>2, <2>1, <2>2, <2>3, <2>4, <2>5 DEF Statement
<1>3. ASSUME NEW r \in Requests, Fail(r)
      PROVE  IInv'
  BY <1>3, RollbackInv DEF Fail
<1>4. CASE UNCHANGED vars
  BY <1>4 DEF vars, IInv, TypeOK, LocksExclusive, NoDraftInClosedPeriod, Drafts,
       Arguments, WriteSet, JournalKept, PeriodHeld, CloseChecked, HoldsPeriod,
       InPost, Wrote, Visible, Zero
<1>5. QED
  BY <1>1, <1>2, <1>3, <1>4 DEF Next

(* The inductive invariant holds in every reachable state.                 *)
THEOREM Invariance == Spec => []IInv
<1>1. QED
  BY InitInv, NextInv, PTL DEF Spec

(* Rows, transactions and locks keep their types, for any set of requests, *)
(* periods, accounts and entries.                                          *)
THEOREM TypeCorrect == Spec => []TypeOK
<1>1. IInv => TypeOK
  BY DEF IInv
<1>2. QED
  BY <1>1, Invariance, PTL

(* However create, post, autoPost, reverse and updatePeriodStatus          *)
(* interleave and fail, a period that is closed or locked has no draft.    *)
THEOREM ClosedPeriodsHaveNoDraft == Spec => []NoDraftInClosedPeriod
<1>1. IInv => NoDraftInClosedPeriod
  BY DEF IInv
<1>2. QED
  BY <1>1, Invariance, PTL

-----------------------------------------------------------------------------
(* Only COMMIT writes the tables.                                          *)
LEMMA TablesChangeAtCommit ==
  ASSUME [Next]_vars, \A r \in Requests : ~ Commit(r)
  PROVE  UNCHANGED <<periodStatus, journal, ledger, balance>>
<1>1. ASSUME NEW r \in Requests, Arrive(r)
      PROVE  UNCHANGED <<periodStatus, journal, ledger, balance>>
  BY <1>1 DEF Arrive, BeginCreate, BeginPost, BeginAutoPost, BeginReverse,
     BeginUpdateStatus, Begin
<1>2. ASSUME NEW r \in Requests, Rollback(r)
      PROVE  UNCHANGED <<periodStatus, journal, ledger, balance>>
  BY <1>2 DEF Rollback
<1>3. ASSUME NEW r \in Requests, Statement(r)
      PROVE  UNCHANGED <<periodStatus, journal, ledger, balance>>
  <2>1. CASE CreateLockPeriod(r) \/ LockPeriod(r) \/ ReverseLockPeriod(r) \/ LockStatus(r)
    BY <1>2, <2>1 DEF CreateLockPeriod, LockPeriod, ReverseLockPeriod, LockStatus
  <2>2. CASE ResolvePeriod(r) \/ CheckDrafts(r) \/ LockAccounts(r)
    BY <1>2, <2>2 DEF ResolvePeriod, CheckDrafts, LockAccounts
  <2>3. CASE InsertJournal(r)
    BY <2>3 DEF InsertJournal
  <2>4. CASE InsertDuplicate(r) \/ LockJournal(r) \/ ReverseLockJournal(r)
    BY <1>2, <2>4 DEF InsertDuplicate, LockJournal, ReverseLockJournal
  <2>5. CASE PostLine(r) \/ Recover(r)
    BY <2>5 DEF PostLine, Recover
  <2>6. CASE MarkPosted(r) \/ ReverseLink(r) \/ DeadlockVictim(r) \/ Respond(r)
    BY <1>2, <2>6 DEF MarkPosted, ReverseLink, DeadlockVictim, Respond
  <2>7. QED
    BY <1>3, <2>1, <2>2, <2>3, <2>4, <2>5, <2>6 DEF Statement
<1>4. QED
  BY <1>1, <1>2, <1>3 DEF Next, vars, Fail

(* A commit touches one period, which was open or is being closed without  *)
(* any other change.                                                       *)
LEMMA CommitFrozen ==
  ASSUME IInv, NEW r \in Requests, Commit(r), NEW p \in Periods
  PROVE  Frozen(p)
<1> DEFINE t == tx[r]
<1> SUFFICES ASSUME periodStatus[p] # "open" PROVE Frozen(p)
  BY DEF Frozen
<1>1. /\ Good(r) /\ TypeOK /\ pc[r] = "commit" /\ t \in Transaction
      /\ t.period \in Periods
  BY GoodIInv DEF Commit, TypeOK, Good, Arguments
<1>2. CASE t.op = "updateStatus"
  <2>1. ~ Wrote(r) /\ t.rows = {} /\ t.bal = Zero
    BY <1>1, <1>2 DEF Good, WriteSet
  <2>2. journal' = journal /\ ledger' = ledger
    BY <2>1 DEF Commit, Wrote
  <2>3. \A a \in Accounts : balance'[<<a, p>>] = balance[<<a, p>>]
    <3>1. \A a \in Accounts : t.bal[a].debit + t.bal[a].credit = 0
      BY <2>1 DEF Zero, NoBalance
    <3>2. \A a \in Accounts : \A old : AddBalance(old, t.bal[a]) = old
      BY <3>1 DEF AddBalance
    <3>3. QED
      BY <3>2 DEF Commit
  <2>4. periodStatus'[p] # "open"
    <3>1. ValidTransition(periodStatus[t.period], t.target)
      BY <1>1, <1>2 DEF Good, PeriodHeld, HoldsPeriod
    <3>2. t.target # "open"
      BY <3>1 DEF ValidTransition
    <3>3. periodStatus' = [periodStatus EXCEPT ![t.period] = t.target]
      BY <1>2 DEF Commit
    <3>4. QED
      BY <1>1, <3>2, <3>3 DEF TypeOK
  <2>5. QED
    BY <2>2, <2>3, <2>4 DEF Frozen, RowsOf, JournalsOf
<1>3. CASE t.op # "updateStatus"
  <2>1. t.period # p /\ periodStatus' = periodStatus
    BY <1>1, <1>3 DEF Good, PeriodHeld, HoldsPeriod, Commit
  <2>2. RowsOf(p)' = RowsOf(p)
    BY <1>1, <2>1 DEF Good, WriteSet, Commit, RowsOf
  <2>3. \A a \in Accounts : balance'[<<a, p>>] = balance[<<a, p>>]
    BY <2>1 DEF Commit
  <2>4. \A j \in Journals : journal'[j] # journal[j] =>
          /\ Wrote(r) /\ j = t.id /\ journal'[j] = t.work
          /\ t.work.period = t.period
    BY <1>1 DEF Commit, TypeOK, Good, WriteSet, Wrote
  <2>5. \A j \in Journals : journal'[j] # journal[j] => j \notin JournalsOf(p)
    BY <1>1, <2>1, <2>4 DEF Good, JournalKept, JournalsOf
  <2>6. \A j \in Journals : journal'[j] # journal[j] => j \notin JournalsOf(p)'
    BY <2>1, <2>4 DEF JournalsOf
  <2>7. JournalsOf(p)' = JournalsOf(p)
    BY <2>5, <2>6 DEF JournalsOf
  <2>8. QED
    BY <2>1, <2>2, <2>3, <2>5, <2>7 DEF Frozen, JournalsOf
<1>4. QED
  BY <1>2, <1>3

(* A period that has been closed is never reopened, and its journals,      *)
(* ledger rows and balances never change again.                            *)
THEOREM ClosedPeriodsFrozen == Spec => ClosedPeriodFrozen
<1>1. ASSUME IInv, [Next]_vars
      PROVE  \A p \in Periods : Frozen(p)
  <2>1. CASE \E r \in Requests : Commit(r)
    BY <1>1, <2>1, CommitFrozen
  <2>2. CASE \A r \in Requests : ~ Commit(r)
    BY <1>1, <2>2, TablesChangeAtCommit DEF Frozen, RowsOf, JournalsOf
  <2>3. QED
    BY <2>1, <2>2
<1>2. QED
  BY <1>1, Invariance, PTL DEF Spec, ClosedPeriodFrozen

-----------------------------------------------------------------------------
(***************************************************************************)
(* GeneralLedger implements Books.                                         *)
(***************************************************************************)
-----------------------------------------------------------------------------
(* Debits and credits of sets of ledger rows.                              *)

DebitOf(rows) == [x \in rows |-> IF x.amount > 0 THEN x.amount ELSE 0]
CreditOf(rows) == [x \in rows |-> IF x.amount < 0 THEN - x.amount ELSE 0]

(* The sums of the debit and of the credit side.                           *)
LEMMA DebitSum ==
  ASSUME NEW rows
  PROVE  B!Debits(rows) = SumOver(DebitOf(rows), rows)
<1> DEFINE F == DebitOf(rows)
           e(k) == IF k.amount > 0 THEN k.amount ELSE 0
           P(g) == g = [s \in SUBSET rows |->
                          IF s = {} THEN 0 ELSE e(Choice(s)) + g[s \ {Choice(s)}]]
<1>1. B!Debits(rows) = (CHOOSE g : P(g))[rows]
  BY Zenon DEF B!Debits, B!MapThenSumSet, B!MapThenFoldSet, Choice
<1>2. ASSUME NEW s \in SUBSET rows, s # {} PROVE F[Choice(s)] = e(Choice(s))
  BY <1>2, ChoiceIn DEF DebitOf
<1> HIDE DEF F, e
<1>3. \A g : P(g) <=> IsSum(g, F, rows)
  BY <1>2 DEF IsSum, Partial
<1> QED BY Zenon, <1>1, <1>3, SumIsChosen DEF F

LEMMA CreditSum ==
  ASSUME NEW rows
  PROVE  B!Credits(rows) = SumOver(CreditOf(rows), rows)
<1> DEFINE F == CreditOf(rows)
           e(k) == IF k.amount < 0 THEN - k.amount ELSE 0
           P(g) == g = [s \in SUBSET rows |->
                          IF s = {} THEN 0 ELSE e(Choice(s)) + g[s \ {Choice(s)}]]
<1>1. B!Credits(rows) = (CHOOSE g : P(g))[rows]
  BY Zenon DEF B!Credits, B!MapThenSumSet, B!MapThenFoldSet, Choice
<1>2. ASSUME NEW s \in SUBSET rows, s # {} PROVE F[Choice(s)] = e(Choice(s))
  BY <1>2, ChoiceIn DEF CreditOf
<1> HIDE DEF F, e
<1>3. \A g : P(g) <=> IsSum(g, F, rows)
  BY <1>2 DEF IsSum, Partial
<1> QED BY Zenon, <1>1, <1>3, SumIsChosen DEF F

(* Sums of naturals; of nothing, zero.                                     *)
LEMMA SidesType ==
  ASSUME NEW rows, IsFiniteSet(rows), \A x \in rows : x.amount \in Int
  PROVE  B!Debits(rows) \in Nat /\ B!Credits(rows) \in Nat
<1>1. \A x \in rows : DebitOf(rows)[x] \in Nat /\ CreditOf(rows)[x] \in Nat
  BY DEF DebitOf, CreditOf
<1>2. SumOver(DebitOf(rows), rows) \in Nat /\ SumOver(CreditOf(rows), rows) \in Nat
  BY <1>1, SumNat
<1> QED BY <1>2, DebitSum, CreditSum

LEMMA SidesEmpty == B!Debits({}) = 0 /\ B!Credits({}) = 0
BY DebitSum, CreditSum, SumEmpty

(* The sides of rows that are added.                                       *)
LEMMA SidesUnion ==
  ASSUME NEW rows, NEW more, IsFiniteSet(rows), IsFiniteSet(more),
         rows \intersect more = {}, \A x \in rows \union more : x.amount \in Int
  PROVE  /\ B!Debits(rows \union more) = B!Debits(rows) + B!Debits(more)
         /\ B!Credits(rows \union more) = B!Credits(rows) + B!Credits(more)
<1> DEFINE all == rows \union more
           D == DebitOf(all)  C == CreditOf(all)
<1>1. \A x \in all : D[x] \in Int /\ C[x] \in Int
  BY DEF DebitOf, CreditOf
<1>2. /\ \A x \in rows : D[x] = DebitOf(rows)[x] /\ C[x] = CreditOf(rows)[x]
      /\ \A x \in more : D[x] = DebitOf(more)[x] /\ C[x] = CreditOf(more)[x]
  BY DEF DebitOf, CreditOf
<1> HIDE DEF D, C
<1>3. /\ SumOver(D, all) = SumOver(D, rows) + SumOver(D, more)
      /\ SumOver(C, all) = SumOver(C, rows) + SumOver(C, more)
  BY <1>1, SumUnion
<1>4. /\ SumOver(D, rows) = SumOver(DebitOf(rows), rows)
      /\ SumOver(D, more) = SumOver(DebitOf(more), more)
      /\ SumOver(C, rows) = SumOver(CreditOf(rows), rows)
      /\ SumOver(C, more) = SumOver(CreditOf(more), more)
  BY <1>2, SumSame
<1>5. B!Debits(all) = SumOver(D, all) /\ B!Credits(all) = SumOver(C, all)
  BY DebitSum, CreditSum DEF D, C
<1> HIDE DEF all
<1>6. /\ B!Debits(all) = B!Debits(rows) + B!Debits(more)
      /\ B!Credits(all) = B!Credits(rows) + B!Credits(more)
  BY <1>3, <1>4, <1>5, DebitSum, CreditSum
<1> QED BY <1>6 DEF all

(* One row has one side.                                                   *)
LEMMA SidesSingle ==
  ASSUME NEW x, x.amount \in Int
  PROVE  B!Debits({x}) = Debit(x.amount) /\ B!Credits({x}) = Credit(x.amount)
<1> DEFINE D == DebitOf({x})  C == CreditOf({x})
<1>1. D[x] = Debit(x.amount) /\ C[x] = Credit(x.amount)
  BY DEF DebitOf, CreditOf, Debit, Credit
<1>2. D[x] \in Int /\ C[x] \in Int
  BY <1>1 DEF Debit, Credit
<1>3. IsFiniteSet({x})
  BY FS_Singleton
<1> HIDE DEF D, C
<1>4. \A y \in {x} \ {x} : D[y] = 0 /\ C[y] = 0
  OBVIOUS
<1>5. SumOver(D, {x}) = D[x] /\ SumOver(C, {x}) = C[x]
  BY <1>2, <1>3, <1>4, SumSingle
<1> QED BY <1>1, <1>5, DebitSum, CreditSum DEF D, C

-----------------------------------------------------------------------------
(* Rows of an account in a period.                                         *)

LEMMA NoRows == ASSUME NEW x PROVE AddsUp(NoBalance, {}, x)
<1>1. OwnRows({}, x) = {}
  BY DEF OwnRows, SeenIn
<1> QED BY <1>1, SidesEmpty DEF AddsUp, NoBalance

LEMMA SeenUnion ==
  ASSUME NEW rows, NEW more
  PROVE  SeenIn(rows \union more) = SeenIn(rows) \union SeenIn(more)
BY DEF SeenIn

LEMMA OwnRowsFacts ==
  ASSUME NEW rows \in SUBSET LedgerRow, IsFiniteSet(SeenIn(rows)), NEW x
  PROVE  /\ IsFiniteSet(OwnRows(rows, x))
         /\ \A y \in OwnRows(rows, x) : y.amount \in Int
<1>1. OwnRows(rows, x) \in SUBSET SeenIn(rows)
  BY DEF OwnRows
<1>2. IsFiniteSet(OwnRows(rows, x))
  BY <1>1, FS_Subset
<1>3. \A z \in rows : Seen(z).amount \in Int
  BY DEF LedgerRow, Seen
<1> QED BY <1>2, <1>3 DEF OwnRows, SeenIn

(* Amounts that are added up of two disjoint sets of rows.                 *)
LEMMA AddsUpUnion ==
  ASSUME NEW rows \in SUBSET LedgerRow, IsFiniteSet(SeenIn(rows)),
         NEW more \in SUBSET LedgerRow, IsFiniteSet(SeenIn(more)),
         SeenIn(rows) \intersect SeenIn(more) = {},
         NEW x, NEW a, AddsUp(a, rows, x), NEW b, AddsUp(b, more, x),
         NEW c, c.debit = a.debit + b.debit, c.credit = a.credit + b.credit
  PROVE  AddsUp(c, rows \union more, x)
<1> DEFINE R == OwnRows(rows, x)  M == OwnRows(more, x)
<1>1. OwnRows(rows \union more, x) = R \union M
  BY SeenUnion DEF OwnRows
<1>2. R \intersect M = {}
  BY DEF OwnRows
<1>3. /\ IsFiniteSet(R) /\ IsFiniteSet(M)
      /\ \A y \in R \union M : y.amount \in Int
  BY OwnRowsFacts
<1> HIDE DEF R, M
<1>4. /\ B!Debits(R \union M) = B!Debits(R) + B!Debits(M)
      /\ B!Credits(R \union M) = B!Credits(R) + B!Credits(M)
  BY <1>2, <1>3, SidesUnion
<1> QED BY <1>1, <1>4 DEF AddsUp, R, M

(* A row of another account or period does not count.                      *)
LEMMA AddsUpOther ==
  ASSUME NEW rows, NEW more, NEW x, \A z \in more : <<z.account, z.period>> # x,
         NEW a
  PROVE  AddsUp(a, rows \union more, x) <=> AddsUp(a, rows, x)
<1>1. \A z \in more : <<Seen(z).account, Seen(z).period>> # x
  BY DEF Seen
<1>2. OwnRows(rows \union more, x) = OwnRows(rows, x)
  BY <1>1 DEF OwnRows, SeenIn
<1> QED BY <1>2 DEF AddsUp

(* One row counts for its account and period.                              *)
LEMMA AddsUpSingle ==
  ASSUME NEW z \in LedgerRow
  PROVE  /\ AddsUp([debit |-> Debit(z.amount), credit |-> Credit(z.amount)],
                   {z}, <<z.account, z.period>>)
         /\ IsFiniteSet(SeenIn({z}))
<1>1. SeenIn({z}) = {Seen(z)}
  BY DEF SeenIn
<1>2. OwnRows({z}, <<z.account, z.period>>) = {Seen(z)}
  BY <1>1 DEF OwnRows, Seen
<1>3. Seen(z).amount = z.amount /\ z.amount \in Int
  BY DEF Seen, LedgerRow
<1>4. /\ B!Debits({Seen(z)}) = Debit(z.amount)
      /\ B!Credits({Seen(z)}) = Credit(z.amount)
  BY <1>3, SidesSingle
<1> QED BY <1>1, <1>2, <1>4, FS_Singleton DEF AddsUp

-----------------------------------------------------------------------------
(* Steps of one request that write no table.                               *)

Own(r) == Submitted(r) /\ JournalHeld(r) /\ LinesPosted(r) /\ Answer(r)
Delivered(r) ==
  pc[r] = "done" /\ tx[r].op \in {"autoPost", "businessPost"} =>
    /\ journal[tx[r].id].ref = tx[r].ref
    /\ journal[tx[r].id].status \in {"posted", "reversed"}

(* BooksInv, with the part about one request under a name.                 *)
LEMMA OwnBooksInv ==
  BooksInv <=> /\ IInv /\ LedgerExact /\ JournalLocksExclusive
               /\ \A r \in Requests : Own(r) /\ Delivered(r)
  BY DEF BooksInv, AutoPostDelivers, Own, Delivered

(* What the others know stays true while the tables do.                    *)
LEMMA QuietStep ==
  ASSUME BooksInv, IInv', NEW r \in Requests,
         UNCHANGED <<journal, ledger, balance>>,
         \A q \in Requests \ {r} :
           pc'[q] = pc[q] /\ tx'[q] = tx[q] /\ locks'[q] = locks[q],
         JournalLocksExclusive', Own(r)', Delivered(r)'
  PROVE  BooksInv'
<1>1. LedgerExact'
  BY DEF BooksInv, LedgerExact
<1>2. ASSUME NEW q \in Requests \ {r}
      PROVE  Own(q)' /\ Delivered(q)'
  <2>1. Own(q) /\ Delivered(q)
    BY OwnBooksInv
  <2>2. pc'[q] = pc[q] /\ tx'[q] = tx[q] /\ locks'[q] = locks[q] /\ journal' = journal
    OBVIOUS
  <2>3. Submitted(q)'
    BY <2>1, <2>2 DEF Own, Submitted
  <2>4. JournalHeld(q)'
    BY <2>1, <2>2 DEF Own, JournalHeld, NewJournal, HeldDraft, Wrote, InPost
  <2>5. LinesPosted(q)'
    BY <2>1, <2>2 DEF Own, LinesPosted, InPost, Wrote, Visible, Zero
  <2>6. Answer(q)'
    BY <2>1, <2>2 DEF Own, Answer, InPost, Wrote, Visible
  <2>7. Delivered(q)'
    BY <2>1, <2>2 DEF Delivered
  <2> QED BY <2>3, <2>4, <2>5, <2>6, <2>7 DEF Own
<1> QED BY <1>1, <1>2, OwnBooksInv DEF BooksInv, AutoPostDelivers, Own, Delivered

(* A transaction that has written nothing knows nothing of the books.      *)
LEMMA OwnOfNothing ==
  ASSUME NEW r \in Requests, Submitted(r)', Answer(r)', ~ InPost(r)', ~ Wrote(r)',
         tx'[r].rows = {}, tx'[r].bal = Zero
  PROVE  Own(r)'
<1>1. JournalHeld(r)'
  BY DEF JournalHeld
<1>2. SeenIn({}) = {} /\ IsFiniteSet({})
  BY FS_EmptySet DEF SeenIn
<1>3. \A a \in Accounts : AddsUp(tx'[r].bal[a], tx'[r].rows, <<a, tx'[r].period>>)
  BY NoRows DEF Zero
<1>4. LinesPosted(r)'
  BY <1>2, <1>3 DEF LinesPosted
<1> QED BY <1>1, <1>4 DEF Own

LEMMA NothingWritten ==
  ASSUME BooksInv, IInv', NEW r \in Requests,
         UNCHANGED <<journal, ledger, balance>>,
         \A q \in Requests \ {r} :
           pc'[q] = pc[q] /\ tx'[q] = tx[q] /\ locks'[q] = locks[q],
         JournalLocksExclusive', Submitted(r)', Answer(r)', Delivered(r)',
         ~ InPost(r)', ~ Wrote(r)', tx'[r].rows = {}, tx'[r].bal = Zero
  PROVE  BooksInv'
BY OwnOfNothing, QuietStep

-----------------------------------------------------------------------------
(* The locks of journal rows.                                              *)

LEMMA JournalLockDistinct ==
  ASSUME NEW i, NEW j, NEW p, NEW a
  PROVE  /\ JournalLock(i) = JournalLock(j) => i = j
         /\ JournalLock(j) # PeriodLock(p) /\ JournalLock(j) # ShareLock(p)
         /\ JournalLock(j) # AccountLock(a) /\ JournalLock(j) # CounterLock
  BY DEF JournalLock, PeriodLock, ShareLock, AccountLock, CounterLock

LEMMA AcquireJournal ==
  ASSUME TypeOK, JournalLocksExclusive, NEW r \in Requests, NEW x, Acquire(r, x)
  PROVE  JournalLocksExclusive'
<1>1. ASSUME NEW q \in Requests \ {r}, NEW j \in Journals, x = JournalLock(j)
      PROVE  JournalLock(j) \notin locks[q]
  <2>1. JournalLock(j) \in Conflicts(JournalLock(j))
    BY DEF Conflicts, JournalLock
  <2> QED BY <1>1, <2>1 DEF Acquire, Free
<1>2. \A q \in Requests \ {r} : locks'[q] = locks[q]
  BY DEF TypeOK, Acquire
<1>3. locks'[r] = locks[r] \union {x}
  BY DEF TypeOK, Acquire
<1>4. \A j \in Journals : JournalLock(j) \in locks'[r] =>
         JournalLock(j) \in locks[r] \/ x = JournalLock(j)
  BY <1>3
<1> QED BY <1>1, <1>2, <1>4 DEF JournalLocksExclusive

LEMMA ReleaseJournals ==
  ASSUME TypeOK, JournalLocksExclusive, NEW r \in Requests,
         locks' = [locks EXCEPT ![r] = {}]
  PROVE  JournalLocksExclusive'
  BY DEF TypeOK, JournalLocksExclusive

(* The fields of the empty transaction.                                    *)
LEMMA NoTxFields ==
  NoTx.work = NoJournal /\ NoTx.rows = {} /\ NoTx.bal = Zero /\ NoTx.op = "none"
  BY DEF NoTx, Zero

(* ROLLBACK forgets all.                                                   *)
LEMMA RollbackBooks ==
  ASSUME BooksInv, IInv', NEW r \in Requests, Rollback(r)
  PROVE  BooksInv'
<1>1. /\ TypeOK /\ JournalLocksExclusive
  BY DEF BooksInv, IInv
<1>2. JournalLocksExclusive'
  BY <1>1, ReleaseJournals DEF Rollback
<1>3. pc'[r] = "idle" /\ tx'[r] = NoTx
  BY <1>1 DEF TypeOK, Rollback, Goto
<1>4. \A q \in Requests \ {r} :
        pc'[q] = pc[q] /\ tx'[q] = tx[q] /\ locks'[q] = locks[q]
  BY <1>1 DEF TypeOK, Rollback, Goto
<1>5. Submitted(r)' /\ Answer(r)' /\ Delivered(r)' /\ ~ InPost(r)' /\ ~ Wrote(r)'
  BY <1>3, NoTxFields DEF Submitted, Answer, Delivered, InPost, Wrote
<1> QED BY <1>2, <1>3, <1>4, <1>5, NoTxFields, NothingWritten DEF Rollback

(* BEGIN: the arguments are what was submitted.                            *)
LEMMA BeginBooks ==
  ASSUME BooksInv, IInv', NEW r \in Requests,
         NEW step \in {"create", "lockJournal", "resolve", "reverse", "lockStatus"},
         NEW args \in Transaction, Begin(r, step, args),
         args.work = NoJournal, args.rows = {}, args.bal = Zero,
         step \in {"create", "resolve"} =>
           /\ args.op \in {"create", "autoPost", "businessPost"}
           /\ args.lines \in Entries /\ args.ref \in Refs \union {None},
         step = "lockJournal" => args.op = "post",
         step = "reverse" => args.op = "reverse"
  PROVE  BooksInv'
<1>0. TypeOK /\ JournalLocksExclusive
  BY DEF BooksInv, IInv
<1>1. JournalLocksExclusive'
  BY <1>0 DEF Begin, JournalLocksExclusive
<1>2. /\ pc'[r] = step
      /\ tx'[r] = [args EXCEPT !.began = clock + 1]
      /\ UNCHANGED <<journal, ledger, balance, locks>>
      /\ \A q \in Requests \ {r} : pc'[q] = pc[q] /\ tx'[q] = tx[q]
  BY <1>0 DEF TypeOK, Begin, Goto
<1>3. /\ tx'[r].work = args.work /\ tx'[r].rows = args.rows
      /\ tx'[r].bal = args.bal /\ tx'[r].lines = args.lines
      /\ tx'[r].ref = args.ref /\ tx'[r].op = args.op
  BY <1>2 DEF Transaction
<1>4. Submitted(r)' /\ Answer(r)' /\ Delivered(r)' /\ ~ InPost(r)' /\ ~ Wrote(r)'
  BY <1>2, <1>3 DEF Submitted, Answer, Delivered, InPost, Wrote
<1> QED BY <1>1, <1>2, <1>3, <1>4, NothingWritten

(* Every request begins with arguments BeginBooks accepts.                 *)
LEMMA ArriveBooks ==
  ASSUME BooksInv, IInv', NEW r \in Requests, Arrive(r)
  PROVE  BooksInv'
<1> USE NoTxType
<1>1. CASE BeginCreate(r)
  <2>1. PICK p \in Periods, e \in Entries, ref \in Refs \union {None} :
          Begin(r, "create", [NoTx EXCEPT !.op = "create", !.period = p,
                                          !.lines = e, !.ref = ref])
    BY <1>1 DEF BeginCreate
  <2> DEFINE args == [NoTx EXCEPT !.op = "create", !.period = p, !.lines = e,
                                  !.ref = ref]
  <2>2. /\ args \in Transaction /\ args.work = NoTx.work /\ args.rows = NoTx.rows
        /\ args.bal = NoTx.bal /\ args.op = "create"
        /\ args.lines = e /\ args.ref = ref
    BY EntryAssumption DEF Transaction, References
  <2> HIDE DEF args
  <2>3. QED
    BY NoTxFields, <2>1, <2>2, BeginBooks DEF args
<1>2. CASE BeginPost(r)
  <2>1. PICK j \in Journals :
          Begin(r, "lockJournal", [NoTx EXCEPT !.op = "post", !.id = j])
    BY <1>2 DEF BeginPost
  <2> DEFINE args == [NoTx EXCEPT !.op = "post", !.id = j]
  <2>2. /\ args \in Transaction /\ args.work = NoTx.work /\ args.rows = NoTx.rows
        /\ args.bal = NoTx.bal /\ args.op = "post"
    BY DEF Transaction
  <2> HIDE DEF args
  <2>3. QED
    BY NoTxFields, <2>1, <2>2, BeginBooks DEF args
<1>3. CASE BeginAutoPost(r)
  <2>1. PICK p \in Periods, e \in Entries, ref \in Refs,
             op \in {"autoPost", "businessPost"} :
          Begin(r, "resolve", [NoTx EXCEPT !.op = op, !.period = p,
                                           !.lines = e, !.ref = ref])
    BY <1>3 DEF BeginAutoPost
  <2> DEFINE args == [NoTx EXCEPT !.op = op, !.period = p, !.lines = e, !.ref = ref]
  <2>2. /\ args \in Transaction /\ args.work = NoTx.work /\ args.rows = NoTx.rows
        /\ args.bal = NoTx.bal /\ args.op = op /\ args.lines = e /\ args.ref = ref
    BY EntryAssumption DEF Transaction, References
  <2> HIDE DEF args
  <2>3. QED
    BY NoTxFields, <2>1, <2>2, BeginBooks DEF args
<1>4. CASE BeginReverse(r)
  <2>1. PICK j \in Journals, p \in Periods :
          Begin(r, "reverse", [NoTx EXCEPT !.op = "reverse", !.of = j,
                                 !.period = p, !.ref = ReversalRef(j)])
    BY <1>4 DEF BeginReverse
  <2> DEFINE args == [NoTx EXCEPT !.op = "reverse", !.of = j, !.period = p,
                                  !.ref = ReversalRef(j)]
  <2>2. /\ args \in Transaction /\ args.work = NoTx.work /\ args.rows = NoTx.rows
        /\ args.bal = NoTx.bal /\ args.op = "reverse"
    BY DEF Transaction, References
  <2> HIDE DEF args
  <2>3. QED
    BY NoTxFields, <2>1, <2>2, BeginBooks DEF args
<1>5. CASE BeginUpdateStatus(r)
  <2>1. PICK p \in Periods, target \in {"closed", "locked"} :
          Begin(r, "lockStatus", [NoTx EXCEPT !.op = "updateStatus",
                                    !.period = p, !.target = target])
    BY <1>5 DEF BeginUpdateStatus
  <2> DEFINE args == [NoTx EXCEPT !.op = "updateStatus", !.period = p,
                                  !.target = target]
  <2>2. /\ args \in Transaction /\ args.work = NoTx.work /\ args.rows = NoTx.rows
        /\ args.bal = NoTx.bal
    BY DEF Transaction
  <2> HIDE DEF args
  <2>3. QED
    BY NoTxFields, <2>1, <2>2, BeginBooks DEF args
<1>6. QED
  BY <1>1, <1>2, <1>3, <1>4, <1>5 DEF Arrive

(* A statement that locks a row and moves on before anything is written.   *)
LEMMA LockOnlyBooks ==
  ASSUME BooksInv, IInv', NEW r \in Requests, NEW x, Acquire(r, x),
         NEW step \in {"insert", "create", "drafts"}, Goto(r, step),
         UNCHANGED <<clock, periodStatus, journal, ledger, balance, tx>>,
         ~ Wrote(r), pc[r] \in {"create", "reversePeriod", "lockStatus"},
         pc[r] = "lockStatus" <=> step = "drafts"
  PROVE  BooksInv'
<1>1. /\ TypeOK /\ JournalLocksExclusive /\ Own(r)
      /\ Good(r)
  BY OwnBooksInv, GoodIInv DEF IInv
<1>2. JournalLocksExclusive'
  BY <1>1, AcquireJournal
<1>3. /\ pc'[r] = step /\ tx'[r] = tx[r]
      /\ \A q \in Requests \ {r} :
           pc'[q] = pc[q] /\ tx'[q] = tx[q] /\ locks'[q] = locks[q]
  BY <1>1 DEF TypeOK, Acquire, Goto
<1>4. tx'[r].rows = {} /\ tx'[r].bal = Zero
  BY <1>1, <1>3 DEF Good, WriteSet
<1>5. Submitted(r)'
  BY <1>1, <1>3 DEF Own, Submitted
<1>6. Answer(r)' /\ Delivered(r)' /\ ~ InPost(r)' /\ ~ Wrote(r)'
  BY <1>3 DEF Answer, Delivered, InPost, Wrote
<1> QED BY <1>2, <1>3, <1>4, <1>5, <1>6, NothingWritten

(* The four statements of that kind.                                       *)
LEMMA LockPeriodFirstBooks ==
  ASSUME BooksInv, IInv', NEW r \in Requests,
         CreateLockPeriod(r) \/ ReverseLockPeriod(r) \/ LockStatus(r)
  PROVE  BooksInv'
<1>1. Good(r)
  BY GoodIInv DEF BooksInv
<1>2. CASE Rollback(r)
  BY <1>2, RollbackBooks
<1>3. pc[r] \in {"create", "reversePeriod", "lockStatus"} => ~ Wrote(r)
  BY <1>1 DEF Good, WriteSet
<1>4. ASSUME CreateLockPeriod(r), ~ Rollback(r) PROVE BooksInv'
  BY <1>3, <1>4, LockOnlyBooks DEF CreateLockPeriod
<1>5. ASSUME ReverseLockPeriod(r), ~ Rollback(r) PROVE BooksInv'
  BY <1>3, <1>5, LockOnlyBooks DEF ReverseLockPeriod
<1>6. ASSUME LockStatus(r), ~ Rollback(r) PROVE BooksInv'
  BY <1>3, <1>6, LockOnlyBooks DEF LockStatus
<1> QED BY <1>2, <1>4, <1>5, <1>6

(* Statements that take no lock and write nothing.                         *)
LEMMA ResolveOrCheckBooks ==
  ASSUME BooksInv, IInv', NEW r \in Requests, ResolvePeriod(r) \/ CheckDrafts(r)
  PROVE  BooksInv'
<1>1. TypeOK /\ JournalLocksExclusive /\ Own(r) /\ Good(r)
  BY OwnBooksInv, GoodIInv DEF IInv
<1>2. CASE Rollback(r)
  BY <1>2, RollbackBooks
<1>3. ASSUME NEW step \in {"create", "commit"}, Goto(r, step),
             UNCHANGED <<journal, ledger, balance, tx, locks>>,
             step = "create" => pc[r] = "resolve",
             step = "commit" => pc[r] = "drafts"
      PROVE  BooksInv'
  <2>1. pc'[r] = step /\ \A q \in Requests \ {r} : pc'[q] = pc[q]
    BY <1>1, <1>3 DEF TypeOK, Goto
  <2>2. JournalLocksExclusive'
    BY <1>1, <1>3 DEF JournalLocksExclusive
  <2>3. ~ Wrote(r) /\ tx[r].rows = {} /\ tx[r].bal = Zero
    BY <1>1, <1>3 DEF Good, WriteSet
  <2>4. step = "commit" => tx[r].op = "updateStatus"
    BY <1>1, <1>3 DEF Good, WriteSet
  <2>5. Submitted(r)' /\ Answer(r)' /\ Delivered(r)' /\ ~ InPost(r)' /\ ~ Wrote(r)'
    BY <1>1, <1>3, <2>1, <2>3, <2>4
    DEF Own, Submitted, Answer, Delivered, InPost, Wrote
  <2> QED BY <1>3, <2>1, <2>2, <2>3, <2>5, NothingWritten
<1>4. ASSUME ResolvePeriod(r), ~ Rollback(r) PROVE BooksInv'
  BY <1>3, <1>4 DEF ResolvePeriod
<1>5. ASSUME CheckDrafts(r), ~ Rollback(r) PROVE BooksInv'
  BY <1>3, <1>5 DEF CheckDrafts
<1> QED BY <1>2, <1>4, <1>5

(* A refused insert of autoPost() goes on to recover, with nothing written. *)
LEMMA InsertDuplicateBooks ==
  ASSUME BooksInv, IInv', NEW r \in Requests, InsertDuplicate(r)
  PROVE  BooksInv'
<1>1. TypeOK /\ JournalLocksExclusive /\ Own(r) /\ Good(r)
  BY OwnBooksInv, GoodIInv DEF IInv
<1>2. CASE Rollback(r)
  BY <1>2, RollbackBooks
<1>3. CASE /\ Goto(r, "recover")
           /\ locks' = [locks EXCEPT ![r] = {}]
           /\ UNCHANGED <<clock, periodStatus, journal, ledger, balance, tx>>
  <2>1. /\ pc'[r] = "recover"
        /\ \A q \in Requests \ {r} : pc'[q] = pc[q] /\ locks'[q] = locks[q]
    BY <1>1, <1>3 DEF TypeOK, Goto
  <2>2. JournalLocksExclusive'
    BY <1>1, <1>3, ReleaseJournals
  <2>3. ~ Wrote(r) /\ tx[r].rows = {} /\ tx[r].bal = Zero
    BY <1>1 DEF Good, WriteSet, InsertDuplicate
  <2>4. Submitted(r)' /\ Answer(r)' /\ Delivered(r)' /\ ~ InPost(r)' /\ ~ Wrote(r)'
    BY <1>3, <2>1, <2>3 DEF Submitted, Answer, Delivered, InPost, Wrote
  <2> QED BY <1>3, <2>1, <2>2, <2>3, <2>4, NothingWritten
<1> QED BY <1>2, <1>3 DEF InsertDuplicate

(* The catch block answers with, or goes on to post, the journal that has  *)
(* the reference.                                                          *)
LEMMA RecoverBooks ==
  ASSUME BooksInv, IInv', NEW r \in Requests, Recover(r)
  PROVE  BooksInv'
<1>1. /\ TypeOK /\ JournalLocksExclusive /\ Own(r) /\ Good(r)
      /\ pc[r] = "recover" /\ UNCHANGED <<periodStatus, journal, ledger, balance, locks>>
  BY OwnBooksInv, GoodIInv DEF IInv, Recover
<1>2. tx[r] \in Transaction /\ ~ Wrote(r) /\ tx[r].rows = {} /\ tx[r].bal = Zero
  BY <1>1 DEF TypeOK, Good, WriteSet
<1>3. ASSUME NEW t \in Transaction, NEW step \in {"lockJournal", "done", "idle"},
             pc' = [pc EXCEPT ![r] = step], tx' = [tx EXCEPT ![r] = t],
             t.work = NoJournal, t.rows = {}, t.bal = Zero,
             step # "idle" => /\ journal[t.id] # NoJournal /\ journal[t.id].ref = t.ref,
             step = "done" => /\ t.id \in Journals
                              /\ journal[t.id].status \in {"posted", "reversed"}
      PROVE  BooksInv'
  <2>1. /\ pc'[r] = step /\ tx'[r] = t
        /\ \A q \in Requests \ {r} : pc'[q] = pc[q] /\ tx'[q] = tx[q]
    BY <1>1, <1>3 DEF TypeOK
  <2>2. JournalLocksExclusive'
    BY <1>1 DEF JournalLocksExclusive
  <2>3. ~ InPost(r)' /\ ~ Wrote(r)' /\ Submitted(r)' /\ Delivered(r)'
    BY <1>1, <1>3, <2>1 DEF InPost, Wrote, Submitted, Delivered
  <2>4. Answer(r)'
    BY <1>1, <1>3, <2>1, <2>3 DEF Answer, Visible, InPost
  <2> QED BY <1>1, <1>3, <2>1, <2>2, <2>3, <2>4, NothingWritten
<1>4. PICK j \in Journals :
        /\ journal[j] # NoJournal /\ journal[j].ref = tx[r].ref
        /\ \/ /\ Goto(r, "lockJournal")
              /\ tx' = [tx EXCEPT ![r].id = j, ![r].began = clock + 1]
           \/ /\ journal[j].status \notin {"draft", "reversed"} /\ Goto(r, "done")
              /\ tx' = [tx EXCEPT ![r] = [NoTx EXCEPT !.op = tx[r].op, !.id = j,
                                                      !.ref = tx[r].ref]]
           \/ Goto(r, "idle") /\ tx' = [tx EXCEPT ![r] = NoTx]
  BY DEF Recover, NeedsPosting
<1>5. CASE /\ Goto(r, "lockJournal")
           /\ tx' = [tx EXCEPT ![r].id = j, ![r].began = clock + 1]
  <2> DEFINE t == [tx[r] EXCEPT !.id = j, !.began = clock + 1]
  <2>1. clock + 1 \in Nat
    BY <1>1 DEF TypeOK
  <2>2. /\ t \in Transaction /\ t.work = tx[r].work /\ t.rows = tx[r].rows
        /\ t.bal = tx[r].bal /\ t.id = j /\ t.ref = tx[r].ref
    BY <1>2, <2>1 DEF Transaction
  <2>3. tx' = [tx EXCEPT ![r] = t]
    BY <1>5
  <2> HIDE DEF t
  <2> QED BY <1>2, <1>3, <1>4, <1>5, <2>2, <2>3 DEF Goto, Wrote
<1>6. CASE /\ journal[j].status \notin {"draft", "reversed"} /\ Goto(r, "done")
           /\ tx' = [tx EXCEPT ![r] = [NoTx EXCEPT !.op = tx[r].op, !.id = j,
                                                   !.ref = tx[r].ref]]
  <2> DEFINE t == [NoTx EXCEPT !.op = tx[r].op, !.id = j, !.ref = tx[r].ref]
  <2>1. /\ t \in Transaction /\ t.work = NoTx.work /\ t.rows = NoTx.rows
        /\ t.bal = NoTx.bal /\ t.id = j /\ t.ref = tx[r].ref
    BY <1>2, NoTxType DEF Transaction
  <2> HIDE DEF t
  <2>2. journal[j].status = "posted"
    BY <1>1, <1>4, <1>6 DEF TypeOK, JournalRow
  <2> QED BY <1>3, <1>4, <1>6, <2>1, <2>2, NoTxFields DEF Goto, t
<1>7. CASE Goto(r, "idle") /\ tx' = [tx EXCEPT ![r] = NoTx]
  BY <1>3, <1>7, NoTxType, NoTxFields DEF Goto
<1> QED BY <1>4, <1>5, <1>6, <1>7

(* A reversal locks the journal it is of, and writes nothing yet.          *)
LEMMA ReverseLockJournalBooks ==
  ASSUME BooksInv, IInv', NEW r \in Requests, ReverseLockJournal(r)
  PROVE  BooksInv'
<1> DEFINE j == tx[r].of
           lines == Reversal(journal[j].lines)
<1>1. TypeOK /\ JournalLocksExclusive /\ Own(r) /\ Good(r) /\ pc[r] = "reverse"
  BY OwnBooksInv, GoodIInv DEF IInv, ReverseLockJournal
<1>2. CASE Rollback(r)
  BY <1>2, RollbackBooks
<1>3. CASE /\ Acquire(r, JournalLock(j)) /\ Goto(r, "reversePeriod")
           /\ tx' = [tx EXCEPT ![r].lines = lines]
           /\ UNCHANGED <<clock, periodStatus, journal, ledger, balance>>
  <2>1. JournalLocksExclusive'
    BY <1>1, <1>3, AcquireJournal
  <2> HIDE DEF lines
  <2>2. /\ tx'[r] = [tx[r] EXCEPT !.lines = lines] /\ pc'[r] = "reversePeriod"
        /\ \A q \in Requests \ {r} :
             pc'[q] = pc[q] /\ tx'[q] = tx[q] /\ locks'[q] = locks[q]
    BY <1>1, <1>3 DEF TypeOK, Acquire, Goto
  <2>3. tx[r] \in Transaction
    BY <1>1 DEF TypeOK
  <2>4. /\ tx'[r].work = tx[r].work /\ tx'[r].rows = tx[r].rows
        /\ tx'[r].bal = tx[r].bal /\ tx'[r].op = tx[r].op
    BY <2>2, <2>3 DEF Transaction
  <2>5. ~ Wrote(r) /\ tx[r].rows = {} /\ tx[r].bal = Zero /\ tx[r].op = "reverse"
    BY <1>1 DEF Good, WriteSet, Own, Submitted
  <2>6. Submitted(r)' /\ Answer(r)' /\ Delivered(r)' /\ ~ InPost(r)' /\ ~ Wrote(r)'
    BY <2>2, <2>4, <2>5 DEF Submitted, Answer, Delivered, InPost, Wrote
  <2> QED BY <1>3, <2>1, <2>2, <2>4, <2>5, <2>6, NothingWritten
<1> QED BY <1>2, <1>3 DEF ReverseLockJournal

-----------------------------------------------------------------------------
(* Statements that write into the transaction.                             *)

(* The counter row makes the unique check of the reference last.           *)
LEMMA InsertJournalBooks ==
  ASSUME BooksInv, IInv', NEW r \in Requests, InsertJournal(r)
  PROVE  BooksInv'
<1> DEFINE new == CHOOSE j \in FreshJournals : TRUE
           row == [status |-> "draft", period |-> tx[r].period,
                   lines |-> tx[r].lines, ref |-> tx[r].ref]
           step == IF tx[r].op = "create" THEN "commit" ELSE "lockJournal"
<1>1. /\ TypeOK /\ JournalLocksExclusive /\ Own(r) /\ Good(r) /\ pc[r] = "insert"
      /\ Acquire(r, CounterLock) /\ Goto(r, step) /\ ~ DuplicateReference(r)
      /\ tx' = [tx EXCEPT ![r].id = new, ![r].work = row]
      /\ UNCHANGED <<clock, periodStatus, journal, ledger, balance>>
  BY OwnBooksInv, GoodIInv DEF IInv, InsertJournal
<1>2. new \in Journals /\ journal[new] = NoJournal
  <2>1. new \in FreshJournals
    BY DEF InsertJournal
  <2> QED BY <1>1, <2>1 DEF FreshJournals, TypeOK, JournalRow
<1>3. tx[r] \in Transaction /\ tx[r].rows = {} /\ tx[r].bal = Zero
  BY <1>1 DEF TypeOK, Good, WriteSet
<1>4. /\ row.status = "draft" /\ row.lines = tx[r].lines /\ row.ref = tx[r].ref
      /\ row # NoJournal
  BY DEF NoJournal
<1> HIDE DEF new, row
<1>5. /\ tx'[r] = [tx[r] EXCEPT !.id = new, !.work = row]
      /\ pc'[r] = step /\ locks'[r] = locks[r] \union {CounterLock}
      /\ \A q \in Requests \ {r} :
           pc'[q] = pc[q] /\ tx'[q] = tx[q] /\ locks'[q] = locks[q]
  BY <1>1 DEF TypeOK, Acquire, Goto
<1>6. /\ tx'[r].id = new /\ tx'[r].work = row /\ tx'[r].op = tx[r].op
      /\ tx'[r].ref = tx[r].ref /\ tx'[r].period = tx[r].period
      /\ tx'[r].rows = {} /\ tx'[r].bal = Zero
  BY <1>3, <1>5 DEF Transaction
<1>7. JournalLocksExclusive'
  BY <1>1, AcquireJournal
<1>8. JournalHeld(r)'
  <2>1. tx[r].op # "reverse" => row.lines \in Entries /\ row.ref \in Refs \union {None}
    BY <1>1, <1>4 DEF Own, Submitted
  <2>2. row.ref # None => \A j \in Journals : journal[j].ref # row.ref
    BY <1>1, <1>4 DEF DuplicateReference
  <2>3. /\ Wrote(r)' /\ CounterLock \in locks'[r] /\ tx'[r].work = row
        /\ journal' = journal /\ tx'[r].op = tx[r].op /\ tx'[r].id = new
    BY <1>1, <1>4, <1>5, <1>6 DEF Wrote
  <2>4. NewJournal(r)'
    BY <1>4, <2>1, <2>2, <2>3 DEF NewJournal
  <2>5. journal'[tx'[r].id] = NoJournal
    BY <1>2, <2>3
  <2> QED BY <2>4, <2>5 DEF JournalHeld
<1>9. LinesPosted(r)'
  <2>1. SeenIn({}) = {} /\ IsFiniteSet({})
    BY FS_EmptySet DEF SeenIn
  <2>2. \A a \in Accounts : AddsUp(Zero[a], {}, <<a, tx[r].period>>)
    BY NoRows DEF Zero
  <2>3. pc'[r] \notin {"lockPeriod", "lockAccounts", "ledger"}
    BY <1>5
  <2>4. tx'[r].work.status = "draft" /\ Zero' = Zero
    BY <1>4, <1>6 DEF Zero
  <2> QED BY <1>6, <2>1, <2>2, <2>3, <2>4 DEF LinesPosted, InPost
<1>10. Submitted(r)' /\ Answer(r)' /\ Delivered(r)'
  BY <1>1, <1>4, <1>5, <1>6
  DEF Submitted, Answer, Delivered, Visible, Wrote, InPost
<1> QED BY <1>1, <1>5, <1>7, <1>8, <1>9, <1>10, QuietStep DEF Own

(* post() has the draft for itself from here on.                           *)
LEMMA LockJournalBooks ==
  ASSUME BooksInv, IInv', NEW r \in Requests, LockJournal(r)
  PROVE  BooksInv'
<1> DEFINE j == tx[r].id
           row == Visible(r, j)
<1>1. TypeOK /\ JournalLocksExclusive /\ Own(r) /\ Good(r) /\ pc[r] = "lockJournal"
  BY OwnBooksInv, GoodIInv DEF IInv, LockJournal
<1>2. CASE Rollback(r)
  BY <1>2, RollbackBooks
<1>3. CASE /\ row.status = "draft"
           /\ Acquire(r, JournalLock(j))
           /\ tx' = [tx EXCEPT ![r].period = row.period, ![r].lines = row.lines]
           /\ Goto(r, "lockPeriod")
           /\ UNCHANGED <<clock, periodStatus, journal, ledger, balance>>
  <2>1. row = IF tx[r].work # NoJournal THEN tx[r].work ELSE journal[tx[r].id]
    BY DEF Visible
  <2> HIDE DEF row
  <2>2. /\ tx'[r] = [tx[r] EXCEPT !.period = row.period, !.lines = row.lines]
        /\ pc'[r] = "lockPeriod" /\ locks'[r] = locks[r] \union {JournalLock(tx[r].id)}
        /\ \A q \in Requests \ {r} :
             pc'[q] = pc[q] /\ tx'[q] = tx[q] /\ locks'[q] = locks[q]
    BY <1>1, <1>3 DEF TypeOK, Acquire, Goto
  <2>3. tx[r] \in Transaction /\ tx[r].rows = {} /\ tx[r].bal = Zero
    BY <1>1 DEF TypeOK, Good, WriteSet
  <2>4. /\ tx'[r].id = tx[r].id /\ tx'[r].work = tx[r].work /\ tx'[r].op = tx[r].op
        /\ tx'[r].ref = tx[r].ref /\ tx'[r].rows = {} /\ tx'[r].bal = Zero
        /\ tx'[r].lines = row.lines
    BY <2>2, <2>3 DEF Transaction
  <2>5. JournalLocksExclusive'
    BY <1>1, <1>3, AcquireJournal
  <2>6. JournalHeld(r)'
    <3>1. CASE Wrote(r)
      BY <1>1, <1>3, <2>2, <2>4, <3>1
      DEF Own, JournalHeld, NewJournal, HeldDraft, Wrote
    <3>2. CASE ~ Wrote(r)
      <4>1. journal[tx[r].id].status = "draft"
        BY <1>3, <2>1, <3>2 DEF Wrote
      <4>2. journal[tx[r].id] # NoJournal
        BY <4>1 DEF NoJournal
      <4> QED BY <1>3, <2>2, <2>4, <3>2, <4>1, <4>2 DEF JournalHeld, HeldDraft, Wrote
    <3> QED BY <3>1, <3>2
  <2>7. LinesPosted(r)'
    <3>1. SeenIn({}) = {} /\ IsFiniteSet({})
      BY FS_EmptySet DEF SeenIn
    <3>2. \A a \in Accounts : AddsUp(Zero[a], {}, <<a, tx'[r].period>>)
      BY NoRows DEF Zero
    <3>3. Visible(r, tx[r].id)' = row
      BY <1>3, <2>1, <2>4 DEF Visible
    <3> QED BY <1>3, <2>2, <2>4, <3>1, <3>2, <3>3 DEF LinesPosted, InPost
  <2>8. Submitted(r)' /\ Delivered(r)'
    BY <2>2 DEF Submitted, Delivered
  <2>9. Answer(r)'
    BY <1>1, <1>3, <2>2, <2>4 DEF Own, Answer, Visible, InPost
  <2> QED BY <1>3, <2>2, <2>5, <2>6, <2>7, <2>8, <2>9, QuietStep DEF Own
<1> QED BY <1>2, <1>3 DEF LockJournal

(* Locking the period and the accounts changes nothing of the entry.       *)
LEMMA PostLockBooks ==
  ASSUME BooksInv, IInv', NEW r \in Requests, InPost(r),
         NEW step \in {"lockAccounts", "ledger"}, Goto(r, step),
         UNCHANGED <<clock, periodStatus, journal, ledger, balance, tx>>,
         locks[r] \subseteq locks'[r],
         \A q \in Requests \ {r} : locks'[q] = locks[q],
         JournalLocksExclusive'
  PROVE  BooksInv'
<1>1. TypeOK /\ Own(r)
  BY OwnBooksInv DEF BooksInv, IInv
<1>2. pc'[r] = step /\ \A q \in Requests \ {r} : pc'[q] = pc[q]
  BY <1>1 DEF TypeOK, Goto
<1>3. InPost(r)'
  BY <1>2 DEF InPost
<1>4. JournalHeld(r)'
  BY <1>1 DEF Own, JournalHeld, NewJournal, HeldDraft, Wrote
<1>5. LinesPosted(r)'
  BY <1>1, <1>2, <1>3 DEF Own, LinesPosted, Visible
<1>6. Submitted(r)' /\ Delivered(r)'
  BY <1>2 DEF Submitted, Delivered
<1>7. Answer(r)'
  BY <1>1, <1>2, <1>3 DEF Own, Answer, Visible
<1> QED BY <1>2, <1>4, <1>5, <1>6, <1>7, QuietStep DEF Own

LEMMA LockPeriodBooks ==
  ASSUME BooksInv, IInv', NEW r \in Requests, LockPeriod(r)
  PROVE  BooksInv'
<1>1. TypeOK /\ JournalLocksExclusive /\ pc[r] = "lockPeriod"
  BY DEF BooksInv, IInv, LockPeriod
<1>2. CASE Rollback(r)
  BY <1>2, RollbackBooks
<1>3. CASE /\ Acquire(r, PeriodLock(tx[r].period))
           /\ Goto(r, "lockAccounts")
           /\ UNCHANGED <<clock, periodStatus, journal, ledger, balance, tx>>
  <2>1. JournalLocksExclusive'
    BY <1>1, <1>3, AcquireJournal
  <2>2. locks[r] \subseteq locks'[r] /\ \A q \in Requests \ {r} : locks'[q] = locks[q]
    BY <1>1, <1>3 DEF TypeOK, Acquire
  <2>3. InPost(r)
    BY <1>1 DEF InPost
  <2> QED BY <1>3, <2>1, <2>2, <2>3, PostLockBooks
<1> QED BY <1>2, <1>3 DEF LockPeriod

LEMMA LockAccountsBooks ==
  ASSUME BooksInv, IInv', NEW r \in Requests, LockAccounts(r)
  PROVE  BooksInv'
<1> DEFINE wanted == {AccountLock(tx[r].lines[i].account) : i \in DOMAIN tx[r].lines}
<1>1. /\ TypeOK /\ JournalLocksExclusive /\ pc[r] = "lockAccounts"
      /\ locks' = [locks EXCEPT ![r] = @ \union wanted] /\ Goto(r, "ledger")
      /\ UNCHANGED <<clock, periodStatus, journal, ledger, balance, tx>>
  BY DEF BooksInv, IInv, LockAccounts
<1>2. \A j \in Journals : JournalLock(j) \notin wanted
  BY JournalLockDistinct
<1> HIDE DEF wanted
<1>3. /\ locks'[r] = locks[r] \union wanted
      /\ \A q \in Requests \ {r} : locks'[q] = locks[q]
  BY <1>1 DEF TypeOK
<1>4. JournalLocksExclusive'
  BY <1>1, <1>2, <1>3 DEF JournalLocksExclusive
<1>5. InPost(r)
  BY <1>1 DEF InPost
<1> QED BY <1>1, <1>3, <1>4, <1>5, PostLockBooks

(* One more line: its row is new, and the increment is its amount.         *)
LEMMA PostLineBooks ==
  ASSUME BooksInv, IInv', NEW r \in Requests, PostLine(r)
  PROVE  BooksInv'
<1>1. /\ TypeOK /\ JournalLocksExclusive /\ Own(r) /\ Good(r) /\ pc[r] = "ledger"
      /\ UNCHANGED <<clock, periodStatus, journal, ledger, balance, pc, locks>>
  BY OwnBooksInv, GoodIInv DEF IInv, PostLine
<1>2. /\ tx[r] \in Transaction /\ tx[r].id \in Journals /\ tx[r].period \in Periods
      /\ tx[r].lines \in Seq(Line) /\ tx[r].began \in Nat
      /\ tx[r].rows \in SUBSET LedgerRow /\ tx[r].bal \in [Accounts -> Balance]
  BY <1>1 DEF TypeOK, Transaction, Good, Arguments, InPost
<1>3. PICK i \in PendingLines(r) :
        \E prev \in PreviousBalances(r, tx[r].lines[i].account) :
          tx' = [tx EXCEPT
            ![r].rows = @ \union
               {[journal |-> tx[r].id, line |-> i, account |-> tx[r].lines[i].account,
                 period |-> tx[r].period, amount |-> tx[r].lines[i].amount,
                 balance |-> prev + tx[r].lines[i].amount, at |-> tx[r].began]},
            ![r].bal[tx[r].lines[i].account] =
               [debit |-> @.debit + Debit(tx[r].lines[i].amount),
                credit |-> @.credit + Credit(tx[r].lines[i].amount),
                closing |-> prev + tx[r].lines[i].amount]]
  BY DEF PostLine
<1> DEFINE a == tx[r].lines[i].account
           n == tx[r].lines[i].amount
<1>4. i \in Nat /\ i \in DOMAIN tx[r].lines /\ a \in Accounts /\ n \in Int
  BY <1>2, LineType DEF PendingLines
<1>5. PICK prev \in PreviousBalances(r, a) :
          tx' = [tx EXCEPT
            ![r].rows = @ \union
               {[journal |-> tx[r].id, line |-> i, account |-> a,
                 period |-> tx[r].period, amount |-> n,
                 balance |-> prev + n, at |-> tx[r].began]},
            ![r].bal[a] =
               [debit |-> @.debit + Debit(n), credit |-> @.credit + Credit(n),
                closing |-> prev + n]]
  BY <1>3
<1>6. prev \in Int
  BY <1>1, <1>2 DEF PreviousBalances, LastRows, TypeOK, LedgerRow
<1> DEFINE row == [journal |-> tx[r].id, line |-> i, account |-> a,
                   period |-> tx[r].period, amount |-> n,
                   balance |-> prev + n, at |-> tx[r].began]
           seen == [journal |-> tx[r].id, line |-> i, period |-> tx[r].period,
                    account |-> a, amount |-> n]
           new == [debit |-> tx[r].bal[a].debit + Debit(n),
                   credit |-> tx[r].bal[a].credit + Credit(n),
                   closing |-> prev + n]
           bal == [tx[r].bal EXCEPT ![a] = new]
           entry == Visible(r, tx[r].id)
<1>7. /\ row \in LedgerRow /\ Seen(row) = seen
      /\ row.account = a /\ row.period = tx[r].period /\ row.amount = n
  BY <1>2, <1>4, <1>6 DEF LedgerRow, Seen
<1>8. /\ tx'[r] = [tx[r] EXCEPT !.rows = tx[r].rows \union {row}, !.bal = bal]
      /\ \A q \in Requests \ {r} : tx'[q] = tx[q]
  BY <1>1, <1>5 DEF TypeOK
<1>9. /\ bal[a] = new /\ \A b \in Accounts \ {a} : bal[b] = tx[r].bal[b]
      /\ new.debit = tx[r].bal[a].debit + Debit(n)
      /\ new.credit = tx[r].bal[a].credit + Credit(n)
  BY <1>2, <1>4
<1>10. seen \in B!RowsOfEntry(tx[r].id, entry)
  <2>1. entry.lines = tx[r].lines /\ entry.period = tx[r].period
    BY <1>1 DEF Own, LinesPosted, Good, Arguments, InPost
  <2> HIDE DEF entry
  <2> QED BY <1>4, <2>1 DEF B!RowsOfEntry
<1>11. seen \notin SeenIn(tx[r].rows)
  <2>1. \A x \in tx[r].rows : Seen(x) \in B!RowsOfEntry(tx[r].id, entry)
    BY <1>1 DEF Own, LinesPosted, InPost
  <2> HIDE DEF entry
  <2>2. \A x \in tx[r].rows : Seen(x).journal = tx[r].id
    BY <2>1 DEF B!RowsOfEntry
  <2>3. \A x \in tx[r].rows : x.journal = tx[r].id
    BY <2>2 DEF Seen
  <2>4. \A x \in tx[r].rows : x.line # i
    BY <2>3 DEF PendingLines
  <2>5. \A x \in tx[r].rows : Seen(x).line # seen.line
    BY <2>4 DEF Seen
  <2> QED BY <2>5 DEF SeenIn
<1> HIDE DEF row, seen, new, bal
<1>12. /\ tx'[r].id = tx[r].id /\ tx'[r].work = tx[r].work /\ tx'[r].op = tx[r].op
       /\ tx'[r].period = tx[r].period /\ tx'[r].lines = tx[r].lines
       /\ tx'[r].ref = tx[r].ref
       /\ tx'[r].rows = tx[r].rows \union {row} /\ tx'[r].bal = bal
  BY <1>2, <1>8 DEF Transaction
<1>13. Visible(r, tx[r].id)' = entry
  BY <1>1, <1>12 DEF Visible
<1>14. SeenIn({row}) = {seen} /\ IsFiniteSet({seen})
  <2>1. SeenIn({row}) = {Seen(row)}
    BY DEF SeenIn
  <2> QED BY <1>7, <2>1, FS_Singleton
<1>15. SeenIn(tx[r].rows \union {row}) = SeenIn(tx[r].rows) \union {seen}
  BY <1>14, SeenUnion
<1>16. IsFiniteSet(SeenIn(tx[r].rows))
  BY <1>1 DEF Own, LinesPosted
<1>17. IsFiniteSet(SeenIn(tx[r].rows) \union {seen})
  BY <1>16, FS_AddElement
<1>18. ASSUME NEW b \in Accounts
       PROVE  AddsUp(bal[b], tx[r].rows \union {row}, <<b, tx[r].period>>)
  <2>1. AddsUp(tx[r].bal[b], tx[r].rows, <<b, tx[r].period>>)
    BY <1>1 DEF Own, LinesPosted
  <2>2. CASE b # a
    <3>1. \A z \in {row} : <<z.account, z.period>> # <<b, tx[r].period>>
      BY <1>7, <2>2
    <3>2. bal[b] = tx[r].bal[b]
      BY <1>9, <2>2
    <3> HIDE DEF a
    <3>3. AddsUp(tx[r].bal[b], tx[r].rows \union {row}, <<b, tx[r].period>>)
      BY <2>1, <3>1, AddsUpOther
    <3> QED BY <3>2, <3>3
  <2>3. CASE b = a
    <3> DEFINE one == [debit |-> Debit(n), credit |-> Credit(n)]
    <3>1. AddsUp(one, {row}, <<a, tx[r].period>>)
      BY <1>7, AddsUpSingle
    <3>2. SeenIn(tx[r].rows) \intersect SeenIn({row}) = {}
      BY <1>11, <1>14
    <3>3. /\ new.debit = tx[r].bal[a].debit + one.debit
          /\ new.credit = tx[r].bal[a].credit + one.credit
      BY <1>9
    <3>4. {row} \in SUBSET LedgerRow /\ IsFiniteSet(SeenIn({row}))
      BY <1>7, <1>14
    <3> HIDE DEF one, a, n
    <3>5. AddsUp(new, tx[r].rows \union {row}, <<a, tx[r].period>>)
      BY <1>2, <1>16, <2>1, <2>3, <3>1, <3>2, <3>3, <3>4, AddsUpUnion
    <3> QED BY <1>9, <2>3, <3>5
  <2> QED BY <2>2, <2>3
<1>19. LinesPosted(r)'
  <2>1. /\ entry.status = "draft" /\ entry.lines = tx[r].lines
        /\ \A x \in tx[r].rows : Seen(x) \in B!RowsOfEntry(tx[r].id, entry)
    BY <1>1 DEF Own, LinesPosted, InPost
  <2> HIDE DEF entry
  <2>2. \A x \in tx[r].rows \union {row} : Seen(x) \in B!RowsOfEntry(tx[r].id, entry)
    BY <1>7, <1>10, <2>1
  <2> QED BY <1>1, <1>12, <1>13, <1>15, <1>17, <1>18, <2>1, <2>2 DEF LinesPosted
<1>20. JournalHeld(r)'
  BY <1>1, <1>12 DEF Own, JournalHeld, NewJournal, HeldDraft, Wrote, InPost
<1>21. Submitted(r)' /\ Delivered(r)'
  BY <1>1 DEF Submitted, Delivered
<1>22. Answer(r)'
  BY <1>1, <1>12, <1>13 DEF Own, Answer, InPost
<1>23. JournalLocksExclusive'
  BY <1>1 DEF JournalLocksExclusive
<1> QED BY <1>1, <1>8, <1>19, <1>20, <1>21, <1>22, <1>23, QuietStep DEF Own

(* Total() of an entry is an integer, and zero for an entry that           *)
(* chk_journal_balanced accepts.                                           *)
AmountsOf(lines) == [k \in DOMAIN lines |-> lines[k].amount]

LEMMA TotalSum ==
  ASSUME NEW lines
  PROVE  Total(lines) = SumOver(AmountsOf(lines), DOMAIN lines)
<1> DEFINE S == DOMAIN lines
           F == AmountsOf(lines)
           e(k) == lines[k].amount
           P(g) == g = [s \in SUBSET S |->
                          IF s = {} THEN 0 ELSE e(Choice(s)) + g[s \ {Choice(s)}]]
<1>1. Total(lines) = (CHOOSE g : P(g))[S]
  BY Zenon DEF Total, MapThenSumSet, MapThenFoldSet, Choice
<1>2. ASSUME NEW s \in SUBSET S, s # {} PROVE F[Choice(s)] = e(Choice(s))
  BY <1>2, ChoiceIn DEF AmountsOf
<1> HIDE DEF S, F, e
<1>3. \A g : P(g) <=> IsSum(g, F, S)
  BY <1>2 DEF IsSum, Partial
<1> QED BY Zenon, <1>1, <1>3, SumIsChosen DEF F, S

LEMMA PostableBalanced ==
  ASSUME NEW lines \in Seq(Line), Postable(lines)
  PROVE  B!Balanced(lines)
<1>1. DOMAIN lines = 1 .. Len(lines) /\ Len(lines) \in Nat
  OBVIOUS
<1>2. IsFiniteSet(DOMAIN lines)
  BY <1>1, FS_Interval
<1>3. \A k \in DOMAIN lines : AmountsOf(lines)[k] \in Int
  BY LineType DEF AmountsOf
<1>4. Total(lines) \in Int
  BY <1>2, <1>3, SumType, TotalSum
<1>5. Total(lines) = 0
  BY <1>4 DEF Postable, Imbalance, Debit, Credit
<1>6. B!Balanced(lines) <=> Total(lines) = 0
  BY Zenon DEF B!Balanced, Total, MapThenSumSet, MapThenFoldSet,
     B!MapThenSumSet, B!MapThenFoldSet
<1> QED BY <1>5, <1>6

(* A draft that is being posted has no row in the ledger yet.              *)
LEMMA NotInLedger ==
  ASSUME BooksInv, NEW r \in Requests, InPost(r)
  PROVE  /\ \A x \in ledger : x.journal # tx[r].id
         /\ journal[tx[r].id] = NoJournal => Wrote(r)
         /\ journal[tx[r].id] # NoJournal => ~ Wrote(r)
<1>1. TypeOK /\ Own(r) /\ Good(r) /\ LedgerExact
  BY OwnBooksInv, GoodIInv DEF IInv
<1>2. tx[r].id \in Journals /\ journal[tx[r].id] \in JournalRow
  BY <1>1 DEF Good, Arguments, TypeOK
<1>3. Visible(r, tx[r].id).status = "draft"
  BY <1>1 DEF Own, LinesPosted
<1>4. CASE journal[tx[r].id] = NoJournal
  <2>1. journal[tx[r].id].status # "posted"
    BY <1>4 DEF NoJournal
  <2>2. Wrote(r)
    BY <1>1, <1>4 DEF Own, JournalHeld, NewJournal
  <2> QED BY <1>1, <1>4, <2>1, <2>2 DEF LedgerExact
<1>5. CASE journal[tx[r].id] # NoJournal
  <2>1. HeldDraft(r)
    BY <1>1, <1>5 DEF Own, JournalHeld
  <2>2. ~ Wrote(r)
    <3>1. SUFFICES ASSUME Wrote(r) PROVE FALSE
      OBVIOUS
    <3>2. tx[r].work = [journal[tx[r].id] EXCEPT !.status = "posted"]
      BY <2>1, <3>1 DEF HeldDraft
    <3>3. tx[r].work.status = "posted"
      BY <1>2, <1>5, <3>2 DEF JournalRow
    <3> QED BY <1>3, <3>1, <3>3 DEF Visible, Wrote
  <2>3. journal[tx[r].id].status # "posted"
    BY <2>1 DEF HeldDraft
  <2> QED BY <1>1, <1>5, <2>2, <2>3 DEF LedgerExact
<1> QED BY <1>4, <1>5

(* All lines have their row: the entry is whole.                           *)
LEMMA MarkPostedBooks ==
  ASSUME BooksInv, IInv', NEW r \in Requests, MarkPosted(r)
  PROVE  BooksInv'
<1> DEFINE old == Visible(r, tx[r].id)
           row == [old EXCEPT !.status = "posted"]
           step == IF tx[r].op = "reverse" THEN "link" ELSE "commit"
<1>1. /\ TypeOK /\ JournalLocksExclusive /\ Own(r) /\ Good(r) /\ pc[r] = "ledger"
      /\ PendingLines(r) = {}
  BY OwnBooksInv, GoodIInv DEF IInv, MarkPosted
<1>2. CASE Rollback(r)
  BY <1>2, RollbackBooks
<1>3. CASE /\ Postable(tx[r].lines)
           /\ tx' = [tx EXCEPT ![r].work = row]
           /\ Goto(r, step)
           /\ UNCHANGED <<clock, periodStatus, journal, ledger, balance, locks>>
  <2>1. /\ tx[r] \in Transaction /\ tx[r].id \in Journals /\ InPost(r)
        /\ old \in JournalRow /\ old # NoJournal /\ old.period = tx[r].period
        /\ tx[r].lines \in Seq(Line)
    BY <1>1 DEF TypeOK, Transaction, Good, Arguments, InPost, Visible
  <2>2. /\ old.status = "draft" /\ old.lines = tx[r].lines
        /\ \A x \in tx[r].rows : Seen(x) \in B!RowsOfEntry(tx[r].id, old)
        /\ IsFiniteSet(SeenIn(tx[r].rows))
        /\ \A a \in Accounts : AddsUp(tx[r].bal[a], tx[r].rows, <<a, tx[r].period>>)
    BY <1>1, <2>1 DEF Own, LinesPosted
  <2>3. old = IF Wrote(r) THEN tx[r].work ELSE journal[tx[r].id]
    BY DEF Visible, Wrote
  <2>4. /\ row # NoJournal /\ row.status = "posted" /\ row.period = old.period
        /\ row.lines = old.lines /\ row.ref = old.ref
    BY <2>1 DEF JournalRow, NoJournal
  <2>5. SeenIn(tx[r].rows) = B!RowsOfEntry(tx[r].id, row)
    <3>1. B!RowsOfEntry(tx[r].id, row) = B!RowsOfEntry(tx[r].id, old)
      <4> HIDE DEF row, old
      <4> QED BY <2>4 DEF B!RowsOfEntry
    <3>2. ASSUME NEW i \in DOMAIN tx[r].lines
          PROVE  \E x \in tx[r].rows : x.line = i
      BY <1>1, <2>1, NotInLedger DEF PendingLines
    <3>3. ASSUME NEW y \in B!RowsOfEntry(tx[r].id, old)
          PROVE  y \in SeenIn(tx[r].rows)
      <4> HIDE DEF old
      <4>1. PICK i \in DOMAIN tx[r].lines :
              y = [journal |-> tx[r].id, line |-> i, period |-> old.period,
                   account |-> old.lines[i].account, amount |-> old.lines[i].amount]
        BY <2>2, <3>3 DEF B!RowsOfEntry
      <4>2. PICK x \in tx[r].rows : x.line = i
        BY <3>2
      <4>3. PICK k \in DOMAIN tx[r].lines :
              Seen(x) = [journal |-> tx[r].id, line |-> k, period |-> old.period,
                   account |-> old.lines[k].account, amount |-> old.lines[k].amount]
        BY <2>2 DEF B!RowsOfEntry
      <4>4. Seen(x).line = i
        BY <4>2 DEF Seen
      <4>5. k = i
        BY <4>3, <4>4
      <4> QED BY <4>1, <4>3, <4>5 DEF SeenIn
    <3> HIDE DEF old
    <3>4. SeenIn(tx[r].rows) \subseteq B!RowsOfEntry(tx[r].id, old)
      BY <2>2 DEF SeenIn
    <3> QED BY <3>1, <3>3, <3>4
  <2>6. B!Balanced(row.lines)
    BY <1>3, <2>1, <2>2, <2>4, PostableBalanced
  <2>7. JournalHeld(r) /\ (journal[tx[r].id] = NoJournal <=> Wrote(r))
    BY <1>1, <2>1, NotInLedger DEF Own
  <2>8. tx[r].op \in {"autoPost", "businessPost"} => old.ref = tx[r].ref
    BY <1>1, <2>1 DEF Own, Answer
  <2>9. row = IF Wrote(r) THEN [tx[r].work EXCEPT !.status = "posted"]
              ELSE [journal[tx[r].id] EXCEPT !.status = "posted"]
    BY <2>3
  <2>10. NewJournal(r) => /\ CounterLock \in locks[r]
                          /\ tx[r].op # "reverse" =>
                               row.lines \in Entries /\ row.ref \in Refs \union {None}
                          /\ row.ref # None => \A j \in Journals : journal[j].ref # row.ref
    BY <2>3, <2>4 DEF NewJournal
  <2> HIDE DEF row, old
  <2>11. /\ tx'[r] = [tx[r] EXCEPT !.work = row] /\ pc'[r] = step
         /\ \A q \in Requests \ {r} : pc'[q] = pc[q] /\ tx'[q] = tx[q]
    BY <1>1, <1>3 DEF TypeOK, Goto
  <2>12. /\ tx'[r].id = tx[r].id /\ tx'[r].work = row /\ tx'[r].op = tx[r].op
         /\ tx'[r].period = tx[r].period /\ tx'[r].rows = tx[r].rows
         /\ tx'[r].bal = tx[r].bal /\ tx'[r].ref = tx[r].ref
    BY <2>1, <2>11 DEF Transaction
  <2>13. JournalHeld(r)'
    <3>1. Wrote(r)'
      BY <2>4, <2>12 DEF Wrote
    <3>2. CASE journal[tx[r].id] = NoJournal
      <4>1. NewJournal(r)
        BY <2>1, <2>7, <3>2 DEF JournalHeld
      <4> QED BY <1>3, <2>4, <2>10, <2>12, <3>1, <3>2, <4>1 DEF JournalHeld, NewJournal
    <3>3. CASE journal[tx[r].id] # NoJournal
      <4>1. HeldDraft(r) /\ row = [journal[tx[r].id] EXCEPT !.status = "posted"]
        BY <2>1, <2>7, <2>9, <3>3 DEF JournalHeld
      <4> QED BY <1>3, <2>12, <3>3, <4>1 DEF JournalHeld, HeldDraft
    <3> QED BY <3>2, <3>3
  <2>14. LinesPosted(r)'
    <3>1. ~ InPost(r)'
      BY <2>11 DEF InPost
    <3> QED BY <2>2, <2>4, <2>5, <2>6, <2>12, <3>1 DEF LinesPosted
  <2>15. Submitted(r)' /\ Delivered(r)'
    BY <2>11 DEF Submitted, Delivered
  <2>16. Answer(r)'
    BY <2>4, <2>8, <2>11, <2>12 DEF Answer, Visible, Wrote, InPost
  <2>17. JournalLocksExclusive'
    BY <1>1, <1>3 DEF JournalLocksExclusive
  <2> QED BY <1>3, <2>11, <2>13, <2>14, <2>15, <2>16, <2>17, QuietStep DEF Own
<1> QED BY <1>2, <1>3 DEF MarkPosted

-----------------------------------------------------------------------------
(* COMMIT.                                                                 *)

(* Two transactions never write one journal.                               *)
LEMMA WritersApart ==
  ASSUME BooksInv, NEW r \in Requests, Wrote(r), NEW q \in Requests \ {r},
         Wrote(q) \/ InPost(q)
  PROVE  tx[q].id # tx[r].id
<1>1. /\ LocksExclusive /\ JournalLocksExclusive
      /\ JournalHeld(r) /\ JournalHeld(q) /\ Good(r)
  BY OwnBooksInv, GoodIInv DEF IInv, Own
<1>2. tx[r].id \in Journals
  BY <1>1 DEF Good, Arguments
<1>3. SUFFICES ASSUME tx[q].id = tx[r].id PROVE FALSE
  OBVIOUS
<1>4. CASE journal[tx[r].id] = NoJournal
  <2>1. CounterLock \in locks[r] /\ CounterLock \in locks[q]
    BY <1>1, <1>3, <1>4 DEF JournalHeld, NewJournal
  <2> QED BY <1>1, <2>1 DEF LocksExclusive
<1>5. CASE journal[tx[r].id] # NoJournal
  <2>1. JournalLock(tx[r].id) \in locks[r] /\ JournalLock(tx[r].id) \in locks[q]
    BY <1>1, <1>3, <1>5 DEF JournalHeld, HeldDraft
  <2> QED BY <1>1, <1>2, <2>1 DEF JournalLocksExclusive
<1> QED BY <1>4, <1>5

(* What a COMMIT that is not of a status change writes.                    *)
LEMMA CommitWrites ==
  ASSUME BooksInv, NEW r \in Requests, Commit(r), tx[r].op # "updateStatus"
  PROVE  /\ Wrote(r) /\ tx[r].op # "reverse" /\ tx[r].id \in Journals
         /\ tx[r].period \in Periods /\ tx[r].work \in JournalRow
         /\ tx[r].work # NoJournal /\ tx[r].work.period = tx[r].period
         /\ tx[r].work.status \in {"draft", "posted"}
         /\ journal' = [journal EXCEPT ![tx[r].id] = tx[r].work]
         /\ journal'[tx[r].id] = tx[r].work
         /\ \A j \in Journals \ {tx[r].id} : journal'[j] = journal[j]
         /\ journal[tx[r].id].status \in {"none", "draft"}
         /\ journal[tx[r].id] = NoJournal => NewJournal(r)
         /\ journal[tx[r].id] # NoJournal =>
              /\ HeldDraft(r)
              /\ tx[r].work.ref = journal[tx[r].id].ref
              /\ tx[r].work.status = "posted"
<1>1. TypeOK /\ Own(r) /\ Good(r) /\ pc[r] = "commit" /\ tx[r] \in Transaction
  BY OwnBooksInv, GoodIInv DEF IInv, TypeOK, Commit
<1>2. Wrote(r) /\ tx[r].op # "reverse"
  BY <1>1 DEF Own, Answer
<1>3. /\ tx[r].id \in Journals /\ tx[r].period \in Periods
      /\ tx[r].work.period = tx[r].period
  BY <1>1, <1>2 DEF Good, Arguments, WriteSet
<1>4. tx[r].work \in JournalRow /\ tx[r].work # NoJournal
  BY <1>1, <1>2 DEF Transaction, Wrote
<1>5. /\ journal' = [journal EXCEPT ![tx[r].id] = tx[r].work]
      /\ journal'[tx[r].id] = tx[r].work
      /\ \A j \in Journals \ {tx[r].id} : journal'[j] = journal[j]
  BY <1>1, <1>3, <1>4 DEF Commit, TypeOK
<1>6. CASE journal[tx[r].id] = NoJournal
  <2>1. NewJournal(r)
    BY <1>1, <1>2, <1>6 DEF Own, JournalHeld
  <2> QED BY <1>2, <1>3, <1>4, <1>5, <1>6, <2>1 DEF NewJournal, NoJournal
<1>7. CASE journal[tx[r].id] # NoJournal
  <2>1. HeldDraft(r)
    BY <1>1, <1>2, <1>7 DEF Own, JournalHeld
  <2>2. journal[tx[r].id] \in JournalRow
    BY <1>1, <1>3 DEF TypeOK
  <2>3. tx[r].work.ref = journal[tx[r].id].ref /\ tx[r].work.status = "posted"
    BY <1>2, <1>7, <2>1, <2>2 DEF HeldDraft, JournalRow
  <2> QED BY <1>2, <1>3, <1>4, <1>5, <1>7, <2>1, <2>3 DEF HeldDraft
<1> QED BY <1>6, <1>7

(* Its ledger rows are those of its entry, and none of them was there.     *)
LEMMA CommitRows ==
  ASSUME BooksInv, NEW r \in Requests, Commit(r), tx[r].op # "updateStatus"
  PROVE  /\ \A x \in tx[r].rows :
              x.journal = tx[r].id /\ tx[r].work.status = "posted"
         /\ SeenIn(ledger) \intersect SeenIn(tx[r].rows) = {}
<1>1. Own(r) /\ LedgerExact /\ pc[r] = "commit"
  BY OwnBooksInv DEF Commit
<1>2. Wrote(r) /\ journal[tx[r].id].status \in {"none", "draft"}
  BY CommitWrites
<1>3. ASSUME NEW x \in tx[r].rows
      PROVE  x.journal = tx[r].id /\ tx[r].work.status = "posted"
  <2>1. /\ tx[r].work.status = "posted"
        /\ Seen(x) \in B!RowsOfEntry(tx[r].id, tx[r].work)
    BY <1>1, <1>2 DEF Own, LinesPosted, SeenIn
  <2>2. Seen(x).journal = tx[r].id
    BY <2>1 DEF B!RowsOfEntry
  <2> QED BY <2>1, <2>2 DEF Seen
<1>4. \A y \in ledger : y.journal # tx[r].id
  BY <1>1, <1>2 DEF LedgerExact
<1>5. \A x \in tx[r].rows, y \in ledger : Seen(y) # Seen(x)
  BY <1>3, <1>4 DEF Seen
<1> QED BY <1>3, <1>5 DEF SeenIn

LEMMA CommitLedger ==
  ASSUME BooksInv, IInv', NEW r \in Requests, Commit(r), tx[r].op # "updateStatus"
  PROVE  LedgerExact'
<1> DEFINE t == tx[r]
<1>1. /\ TypeOK /\ Own(r) /\ Good(r) /\ LedgerExact /\ pc[r] = "commit"
      /\ t \in Transaction
  BY OwnBooksInv, GoodIInv DEF IInv, TypeOK, Commit
<1>2. /\ t.rows \in SUBSET LedgerRow /\ ledger \in SUBSET LedgerRow
      /\ IsFiniteSet(SeenIn(ledger)) /\ IsFiniteSet(SeenIn(t.rows))
      /\ \A a \in Accounts : t.bal[a] \in Balance
  BY <1>1 DEF TypeOK, Transaction, Own, LinesPosted, LedgerExact
<1>3. ledger' = ledger \union t.rows
  BY DEF Commit
<1>4. IsFiniteSet(SeenIn(ledger'))
  <2>1. SeenIn(ledger') = SeenIn(ledger) \union SeenIn(t.rows)
    BY <1>3, SeenUnion
  <2> QED BY <1>2, <2>1, FS_Union
<1>5. ASSUME NEW x \in ledger'
      PROVE  journal'[x.journal].status = "posted"
  <2>1. CASE x \in ledger
    <3>1. journal[x.journal].status = "posted" /\ x.journal \in Journals
      BY <1>1, <1>2, <2>1 DEF LedgerExact, LedgerRow
    <3>2. x.journal # t.id
      BY <3>1, CommitWrites
    <3> QED BY <3>1, <3>2, CommitWrites
  <2>2. CASE x \in t.rows
    BY <2>2, CommitWrites, CommitRows
  <2> QED BY <1>3, <1>5, <2>1, <2>2
<1>6. ASSUME NEW a \in Accounts, NEW p \in Periods
      PROVE  AddsUp(balance'[<<a, p>>], ledger', <<a, p>>)
  <2>1. AddsUp(balance[<<a, p>>], ledger, <<a, p>>) /\ balance[<<a, p>>] \in Balance
    BY <1>1 DEF LedgerExact, TypeOK
  <2>2. balance'[<<a, p>>] = IF p = t.period THEN AddBalance(balance[<<a, p>>], t.bal[a])
                             ELSE balance[<<a, p>>]
    BY DEF Commit
  <2>3. CASE p # t.period
    <3>1. \A z \in t.rows : <<z.account, z.period>> # <<a, p>>
      BY <1>1, <2>3 DEF Good, WriteSet
    <3> HIDE DEF t
    <3>2. AddsUp(balance[<<a, p>>], ledger \union t.rows, <<a, p>>)
      BY <2>1, <3>1, AddsUpOther
    <3> QED BY <1>3, <2>2, <2>3, <3>2
  <2>4. CASE p = t.period
    <3>1. AddsUp(t.bal[a], t.rows, <<a, p>>)
      BY <1>1, <2>4 DEF Own, LinesPosted
    <3> DEFINE c == balance'[<<a, p>>]
    <3>2. /\ c.debit = balance[<<a, p>>].debit + t.bal[a].debit
          /\ c.credit = balance[<<a, p>>].credit + t.bal[a].credit
      BY <1>2, <2>1, <2>2, <2>4 DEF AddBalance, Balance
    <3>3. SeenIn(ledger) \intersect SeenIn(t.rows) = {}
      BY CommitRows
    <3> HIDE DEF t, c
    <3>4. AddsUp(c, ledger \union t.rows, <<a, p>>)
      BY <1>2, <2>1, <3>1, <3>2, <3>3, AddsUpUnion
    <3> QED BY <1>3, <3>4 DEF c
  <2> QED BY <2>3, <2>4
<1>7. \A x \in Accounts \X Periods : AddsUp(balance'[x], ledger', x)
  BY <1>6
<1> QED BY <1>4, <1>5, <1>7 DEF LedgerExact

(* COMMIT preserves the invariant: nobody else writes the journal that is  *)
(* merged, and the totals get what the ledger gets.                        *)
LEMMA CommitBooks ==
  ASSUME BooksInv, IInv', NEW r \in Requests, Commit(r)
  PROVE  BooksInv'
<1> DEFINE t == tx[r]
<1>1. /\ TypeOK /\ JournalLocksExclusive /\ Own(r) /\ Good(r) /\ pc[r] = "commit"
      /\ t \in Transaction
  BY OwnBooksInv, GoodIInv DEF IInv, TypeOK, Commit
<1>2. JournalLocksExclusive'
  BY <1>1, ReleaseJournals DEF Commit
<1>3. /\ pc'[r] = "done" /\ tx'[r] = [NoTx EXCEPT !.op = t.op, !.id = t.id, !.ref = t.ref]
      /\ \A q \in Requests \ {r} :
           pc'[q] = pc[q] /\ tx'[q] = tx[q] /\ locks'[q] = locks[q]
  BY <1>1 DEF TypeOK, Commit, Goto
<1>4. /\ tx'[r].op = t.op /\ tx'[r].id = t.id /\ tx'[r].ref = t.ref
      /\ tx'[r].work = NoJournal /\ tx'[r].rows = {} /\ tx'[r].bal = Zero
  BY <1>1, <1>3, NoTxType, NoTxFields DEF Transaction
<1> HIDE DEF t
<1>5. Submitted(r)' /\ ~ InPost(r)' /\ ~ Wrote(r)'
  BY <1>3, <1>4 DEF Submitted, InPost, Wrote
<1>6. CASE t.op = "updateStatus"
  <2>1. ~ Wrote(r) /\ t.rows = {} /\ t.bal = Zero
    BY <1>1, <1>6 DEF Good, WriteSet, t
  <2>2. journal' = journal /\ ledger' = ledger
    BY <2>1 DEF Commit, Wrote, t
  <2>3. balance' = balance
    <3>1. \A a \in Accounts : \A old : AddBalance(old, t.bal[a]) = old
      BY <2>1 DEF AddBalance, Zero, NoBalance
    <3>2. \A x \in Accounts \X Periods : balance'[x] = balance[x]
      BY <3>1 DEF Commit, t
    <3>3. DOMAIN balance' = Accounts \X Periods /\ DOMAIN balance = Accounts \X Periods
      BY <1>1 DEF Commit, TypeOK
    <3>4. balance' \in [Accounts \X Periods -> Balance]
      BY DEF IInv, TypeOK
    <3> QED BY <1>1, <3>2, <3>4 DEF TypeOK
  <2>4. Answer(r)' /\ Delivered(r)'
    BY <1>3, <1>4, <1>6 DEF Answer, Delivered
  <2> QED BY <1>2, <1>3, <1>4, <1>5, <2>2, <2>3, <2>4, NothingWritten
<1>7. CASE t.op # "updateStatus"
  <2> DEFINE id == t.id
  <2>1. /\ Wrote(r) /\ id \in Journals /\ t.work # NoJournal
        /\ journal'[id] = t.work
        /\ \A j \in Journals \ {id} : journal'[j] = journal[j]
        /\ journal[id].status \in {"none", "draft"}
        /\ journal[id] = NoJournal => NewJournal(r)
        /\ journal[id] # NoJournal => t.work.ref = journal[id].ref
    BY <1>7, CommitWrites DEF t
  <2>2. t.op \in {"autoPost", "businessPost"} => t.work.ref = t.ref /\ t.work.status = "posted"
    BY <1>1, <2>1 DEF Own, Answer, Visible, Wrote, t
  <2>3. Answer(r)' /\ Delivered(r)'
    <3>1. tx'[r].id \in Journals /\ journal'[tx'[r].id] = t.work
      BY <1>4, <2>1
    <3>2. t.op \in {"autoPost", "businessPost"} =>
            /\ journal'[tx'[r].id].ref = tx'[r].ref
            /\ journal'[tx'[r].id].status \in {"posted", "reversed"}
      BY <1>4, <2>2, <3>1
    <3> HIDE DEF id
    <3>3. Delivered(r)'
      BY <1>4, <3>2 DEF Delivered
    <3>4. Answer(r)'
      BY <1>3, <1>4, <1>5, <3>1 DEF Answer
    <3> QED BY <3>3, <3>4
  <2>4. Own(r)'
    BY <1>4, <1>5, <2>3, OwnOfNothing
  <2>5. LedgerExact'
    BY <1>7, CommitLedger DEF t
  <2> HIDE DEF id
  <2>6. ASSUME NEW q \in Requests \ {r}
        PROVE  Own(q)' /\ Delivered(q)'
    <3>1. /\ Own(q) /\ Delivered(q) /\ Good(q)
          /\ pc'[q] = pc[q] /\ tx'[q] = tx[q] /\ locks'[q] = locks[q]
      BY <1>3, OwnBooksInv, GoodIInv DEF BooksInv
    <3>2. Wrote(q) \/ InPost(q) => tx[q].id # id /\ tx[q].id \in Journals
      BY <2>1, <3>1, WritersApart DEF id, t, Good, Arguments
    <3>3. Wrote(q) \/ InPost(q) => journal'[tx[q].id] = journal[tx[q].id]
      BY <2>1, <3>2
    <3>4. JournalHeld(q)'
      <4>1. NewJournal(q) /\ (Wrote(q) \/ InPost(q)) /\ journal[tx[q].id] = NoJournal =>
              NewJournal(q)'
        <5>1. SUFFICES ASSUME NewJournal(q) PROVE NewJournal(q)'
          OBVIOUS
        <5>2. journal[id] # NoJournal
          <6>1. SUFFICES ASSUME journal[id] = NoJournal PROVE FALSE
            OBVIOUS
          <6>2. CounterLock \in locks[r] /\ CounterLock \in locks[q]
            BY <2>1, <5>1, <6>1 DEF NewJournal
          <6> QED BY <6>2 DEF BooksInv, IInv, LocksExclusive
        <5>3. \A j \in Journals : journal'[j].ref = journal[j].ref
          BY <2>1, <5>2
        <5> QED BY <3>1, <5>1, <5>3 DEF NewJournal, Wrote
      <4>2. HeldDraft(q) /\ (Wrote(q) \/ InPost(q)) => HeldDraft(q)'
        BY <3>1, <3>3 DEF HeldDraft, Wrote
      <4>3. (Wrote(q) \/ InPost(q))' <=> (Wrote(q) \/ InPost(q))
        BY <3>1 DEF Wrote, InPost
      <4> QED BY <3>1, <3>3, <4>1, <4>2, <4>3 DEF Own, JournalHeld
    <3>5. LinesPosted(q)'
      <4>1. InPost(q)' <=> InPost(q)
        BY <3>1 DEF InPost
      <4>2. InPost(q) => Visible(q, tx[q].id)' = Visible(q, tx[q].id)
        BY <3>1, <3>3 DEF Visible
      <4>3. (Wrote(q)' <=> Wrote(q)) /\ Zero' = Zero
        BY <3>1 DEF Wrote, Zero
      <4>4. LinesPosted(q)
        BY <3>1 DEF Own
      <4> QED BY <3>1, <4>1, <4>2, <4>3, <4>4 DEF LinesPosted
    <3>6. Submitted(q)'
      BY <3>1 DEF Own, Submitted
    <3>7. Answer(q)'
      <4>1. CASE tx[q].op \in {"autoPost", "businessPost"}
        <5>1. ASSUME pc[q] = "lockJournal" \/ InPost(q) \/ pc[q] = "commit"
              PROVE  /\ Visible(q, tx[q].id)' # NoJournal
                     /\ Visible(q, tx[q].id)'.ref = tx[q].ref
          <6>1. /\ Visible(q, tx[q].id) # NoJournal
                /\ Visible(q, tx[q].id).ref = tx[q].ref
            BY <3>1, <4>1, <5>1 DEF Own, Answer
          <6>2. Visible(q, tx[q].id)' =
                  IF Wrote(q) THEN tx[q].work ELSE journal'[tx[q].id]
            BY <3>1 DEF Visible, Wrote
          <6>3. Visible(q, tx[q].id) =
                  IF Wrote(q) THEN tx[q].work ELSE journal[tx[q].id]
            BY DEF Visible, Wrote
          <6>4. CASE Wrote(q)
            BY <6>1, <6>2, <6>3, <6>4
          <6>5. CASE ~ Wrote(q)
            <7>1. pc[q] # "commit"
              BY <3>1, <4>1, <6>5 DEF Own, Answer
            <7>2. tx[q].id \in Journals
              BY <3>1, <5>1, <7>1 DEF Good, Arguments
            <7>3. journal[tx[q].id] # NoJournal /\ journal[tx[q].id].ref = tx[q].ref
              BY <6>1, <6>3, <6>5
            <7>4. /\ journal'[tx[q].id] # NoJournal
                  /\ journal'[tx[q].id].ref = journal[tx[q].id].ref
              BY <2>1, <7>2, <7>3
            <7> QED BY <6>2, <6>5, <7>3, <7>4
          <6> QED BY <6>4, <6>5
        <5>2. InPost(q)' <=> InPost(q)
          BY <3>1 DEF InPost
        <5> QED BY <3>1, <4>1, <5>1, <5>2 DEF Own, Answer, Wrote
      <4>2. CASE tx[q].op \notin {"autoPost", "businessPost"}
        BY <3>1, <4>2 DEF Own, Answer, Wrote
      <4> QED BY <4>1, <4>2
    <3>8. Delivered(q)'
      <4>1. CASE pc[q] = "done" /\ tx[q].op \in {"autoPost", "businessPost"}
        <5>1. tx[q].id \in Journals
          BY <3>1, <4>1 DEF Own, Answer
        <5>2. journal[tx[q].id].status \in {"posted", "reversed"}
          BY <3>1, <4>1 DEF Delivered
        <5>3. tx[q].id # id
          BY <2>1, <5>2
        <5> QED BY <2>1, <3>1, <5>1, <5>3 DEF Delivered
      <4>2. CASE ~ (pc[q] = "done" /\ tx[q].op \in {"autoPost", "businessPost"})
        BY <3>1, <4>2 DEF Delivered
      <4> QED BY <4>1, <4>2
    <3> QED BY <3>4, <3>5, <3>6, <3>7, <3>8 DEF Own
  <2> QED BY <1>2, <2>3, <2>4, <2>5, <2>6
          DEF BooksInv, AutoPostDelivers, Own, Delivered
<1> QED BY <1>6, <1>7

-----------------------------------------------------------------------------
(* The invariant holds initially and after every step.                     *)

LEMMA InitBooks == Init => BooksInv
<1> SUFFICES ASSUME Init PROVE BooksInv
  OBVIOUS
<1>1. IInv
  BY InitInv
<1>2. LedgerExact
  <2>1. SeenIn({}) = {} /\ IsFiniteSet({})
    BY FS_EmptySet DEF SeenIn
  <2>2. \A x \in Accounts \X Periods : AddsUp(balance[x], ledger, x)
    BY NoRows DEF Init
  <2> QED BY <2>1, <2>2 DEF Init, LedgerExact
<1>3. JournalLocksExclusive /\ AutoPostDelivers
  BY DEF Init, JournalLocksExclusive, AutoPostDelivers
<1>4. ASSUME NEW r \in Requests
      PROVE  Submitted(r) /\ JournalHeld(r) /\ LinesPosted(r) /\ Answer(r)
  <2>1. pc[r] = "idle" /\ tx[r] = NoTx
    BY DEF Init
  <2>2. ~ Wrote(r) /\ ~ InPost(r) /\ tx[r].rows = {} /\ tx[r].bal = Zero
    BY <2>1, NoTxFields DEF Wrote, InPost
  <2>3. SeenIn({}) = {} /\ IsFiniteSet({})
    BY FS_EmptySet DEF SeenIn
  <2>4. \A a \in Accounts : AddsUp(Zero[a], {}, <<a, tx[r].period>>)
    BY NoRows DEF Zero
  <2>5. LinesPosted(r)
    BY <2>2, <2>3, <2>4 DEF LinesPosted
  <2> QED BY <2>1, <2>2, <2>5, NoTxFields DEF Submitted, JournalHeld, Answer
<1> QED BY <1>1, <1>2, <1>3, <1>4 DEF BooksInv

LEMMA NextBooks == BooksInv /\ [Next]_vars => BooksInv'
<1> SUFFICES ASSUME BooksInv, [Next]_vars PROVE BooksInv'
  OBVIOUS
<1>0. IInv'
  BY NextInv DEF BooksInv
<1>1. ASSUME NEW r \in Requests, Arrive(r)
      PROVE  BooksInv'
  BY <1>0, <1>1, ArriveBooks
<1>2. ASSUME NEW r \in Requests, Statement(r)
      PROVE  BooksInv'
  <2>1. CASE CreateLockPeriod(r) \/ ReverseLockPeriod(r) \/ LockStatus(r)
    BY <1>0, <2>1, LockPeriodFirstBooks
  <2>2. CASE ResolvePeriod(r) \/ CheckDrafts(r) \/ LockAccounts(r) \/ LockPeriod(r)
    BY <1>0, <2>2, ResolveOrCheckBooks, LockAccountsBooks, LockPeriodBooks
  <2>3. CASE InsertJournal(r) \/ InsertDuplicate(r) \/ LockJournal(r) \/ ReverseLockJournal(r)
    BY <1>0, <2>3, InsertJournalBooks, InsertDuplicateBooks, LockJournalBooks,
       ReverseLockJournalBooks
  <2>4. CASE PostLine(r) \/ MarkPosted(r) \/ Recover(r) \/ Commit(r)
    BY <1>0, <2>4, PostLineBooks, MarkPostedBooks, RecoverBooks, CommitBooks
  <2>5. CASE ReverseLink(r) \/ DeadlockVictim(r) \/ Respond(r)
    BY <1>0, <2>5, RollbackBooks DEF ReverseLink, DeadlockVictim, Respond
  <2>6. QED
    BY <1>2, <2>1, <2>2, <2>3, <2>4, <2>5 DEF Statement
<1>3. ASSUME NEW r \in Requests, Fail(r)
      PROVE  BooksInv'
  BY <1>0, <1>3, RollbackBooks DEF Fail
<1>4. CASE UNCHANGED vars
  <2>1. /\ UNCHANGED <<journal, ledger, balance, pc, tx, locks>>
    BY <1>4 DEF vars
  <2>2. LedgerExact' /\ JournalLocksExclusive' /\ AutoPostDelivers'
    BY <2>1 DEF BooksInv, LedgerExact, JournalLocksExclusive, AutoPostDelivers
  <2>3. ASSUME NEW r \in Requests
        PROVE  Submitted(r)' /\ JournalHeld(r)' /\ LinesPosted(r)' /\ Answer(r)'
    <3>1. Submitted(r) /\ JournalHeld(r) /\ LinesPosted(r) /\ Answer(r)
      BY DEF BooksInv
    <3>2. Submitted(r)' /\ Answer(r)'
      BY <2>1, <3>1 DEF Submitted, Answer, InPost, Wrote, Visible
    <3>3. JournalHeld(r)'
      BY <2>1, <3>1 DEF JournalHeld, NewJournal, HeldDraft, InPost, Wrote
    <3>4. LinesPosted(r)'
      BY <2>1, <3>1 DEF LinesPosted, InPost, Wrote, Visible, Zero
    <3> QED BY <3>2, <3>3, <3>4
  <2> QED BY <1>0, <2>2, <2>3 DEF BooksInv
<1> QED BY <1>1, <1>2, <1>3, <1>4 DEF Next

(* What BooksInv says holds in every reachable state: in particular the    *)
(* ledger has rows of posted entries only, the balances are their sums,    *)
(* and no two transactions write one journal.                              *)
THEOREM BooksInvariance == Spec => []BooksInv
<1> QED BY InitBooks, NextBooks, PTL DEF Spec

(* Whenever autoPost() answers, the journal it answers with carries the    *)
(* caller's reference and is posted, also when it was found by the         *)
(* recovery of a duplicate reference.                                      *)
THEOREM AutoPostAnswers == Spec => []AutoPostDelivers
<1>1. BooksInv => AutoPostDelivers
  BY DEF BooksInv
<1> QED BY <1>1, BooksInvariance, PTL

-----------------------------------------------------------------------------
(* The refinement: the initial books are empty books, a COMMIT is one      *)
(* operation of Books, and no other step is seen.                          *)

LEMMA ExactTotals ==
  ASSUME NEW bal, NEW rows,
         \A x \in Accounts \X Periods : AddsUp(bal[x], rows, x)
  PROVE  [x \in Accounts \X Periods |->
            [debit |-> bal[x].debit, credit |-> bal[x].credit]]
           = B!TotalsOf(SeenIn(rows))
<1>1. \A x \in Accounts \X Periods :
        /\ bal[x].debit = B!Debits({y \in SeenIn(rows) : <<y.account, y.period>> = x})
        /\ bal[x].credit = B!Credits({y \in SeenIn(rows) : <<y.account, y.period>> = x})
  BY DEF AddsUp, OwnRows
<1> QED BY <1>1, Zenon DEF B!TotalsOf

LEMMA InitRefines == Init => B!Init
<1> SUFFICES ASSUME Init PROVE B!Init
  OBVIOUS
<1>1. SeenIn(ledger) = {}
  BY DEF Init, SeenIn
<1>2. UNION {B!RowsOfEntry(j, journal[j]) :
               j \in {i \in Journals : journal[i].status = "posted"}} = {}
  <2>1. {i \in Journals : journal[i].status = "posted"} = {}
    BY DEF Init, NoJournal
  <2> QED BY <2>1
<1>3. [x \in Accounts \X Periods |->
         [debit |-> balance[x].debit, credit |-> balance[x].credit]]
        = B!TotalsOf(SeenIn(ledger))
  BY InitBooks, ExactTotals DEF BooksInv, LedgerExact
<1>4. \A p \in Periods : periodStatus[p] = "open"
  BY DEF Init
<1> QED BY <1>1, <1>2, <1>3, <1>4 DEF B!Init

(* The COMMIT of updatePeriodStatus() is the closing of a period that has  *)
(* no draft.                                                               *)
LEMMA CommitCloses ==
  ASSUME BooksInv, NEW r \in Requests, Commit(r), tx[r].op = "updateStatus"
  PROVE  B!Close(tx[r].period) /\ tx[r].period \in Periods
<1> DEFINE t == tx[r]
<1>1. /\ Good(r) /\ TypeOK /\ pc[r] = "commit" /\ t \in Transaction
      /\ t.period \in Periods
  BY GoodIInv DEF BooksInv, IInv, Commit, TypeOK, Good, Arguments
<1>2. ~ Wrote(r) /\ t.rows = {} /\ t.bal = Zero
  BY <1>1 DEF Good, WriteSet
<1>3. journal' = journal /\ ledger' = ledger
  BY <1>2 DEF Commit, Wrote
<1>4. \A x \in Accounts \X Periods : balance'[x] = balance[x]
  <2>1. \A a \in Accounts : \A old : AddBalance(old, t.bal[a]) = old
    BY <1>2 DEF AddBalance, Zero, NoBalance
  <2> QED BY <2>1 DEF Commit
<1>5. ValidTransition(periodStatus[t.period], t.target) /\ Drafts(t.period) = {}
  BY <1>1 DEF Good, PeriodHeld, HoldsPeriod, CloseChecked
<1>6. /\ t.target \in {"closed", "locked"}
      /\ periodStatus[t.period] # t.target /\ periodStatus[t.period] # "locked"
  BY <1>5 DEF ValidTransition
<1>7. periodStatus' = [periodStatus EXCEPT ![t.period] = t.target]
  BY DEF Commit
<1>8. B!Draft(t.period) = {}
  BY <1>5 DEF B!Draft, Drafts
<1>9. [x \in Accounts \X Periods |->
         [debit |-> balance'[x].debit, credit |-> balance'[x].credit]]
        = [x \in Accounts \X Periods |->
             [debit |-> balance[x].debit, credit |-> balance[x].credit]]
  BY <1>4
<1>10. SeenIn(ledger)' = SeenIn(ledger)
  BY <1>3 DEF SeenIn
<1> HIDE DEF t
<1>11. B!Close(t.period)
  BY <1>3, <1>6, <1>7, <1>8, <1>9, <1>10 DEF B!Close
<1> QED BY <1>1, <1>11 DEF t

(* Every other COMMIT records a new entry, as a draft or posted, or posts  *)
(* a draft: all its rows and their sums appear with it.                    *)
LEMMA CommitEnters ==
  ASSUME BooksInv, BooksInv', NEW r \in Requests, Commit(r), tx[r].op # "updateStatus"
  PROVE  B!Enter(tx[r].id, tx[r].work)
<1> DEFINE t == tx[r]
<1>1. Own(r) /\ Good(r) /\ pc[r] = "commit"
  BY OwnBooksInv, GoodIInv DEF BooksInv, Commit
<1>2. /\ Wrote(r) /\ t.work.period = t.period
      /\ t.work.status \in {"draft", "posted"}
      /\ journal' = [journal EXCEPT ![t.id] = t.work]
  BY CommitWrites
<1>3. periodStatus[t.work.period] = "open"
  BY <1>1, <1>2 DEF Good, PeriodHeld, HoldsPeriod
<1>4. periodStatus' = periodStatus
  BY DEF Commit
<1>5. SeenIn(ledger)' = SeenIn(ledger) \union SeenIn(t.rows)
  BY SeenUnion DEF Commit, SeenIn
<1>6. IF t.work.status = "posted"
      THEN /\ B!Balanced(t.work.lines)
           /\ SeenIn(ledger)' = SeenIn(ledger) \union B!RowsOfEntry(t.id, t.work)
      ELSE SeenIn(ledger)' = SeenIn(ledger)
  <2>1. IF t.work.status = "posted"
        THEN /\ SeenIn(t.rows) = B!RowsOfEntry(t.id, t.work)
             /\ B!Balanced(t.work.lines)
        ELSE t.rows = {}
    BY <1>1, <1>2 DEF Own, LinesPosted
  <2>2. SeenIn({}) = {}
    BY DEF SeenIn
  <2> QED BY <1>5, <2>1, <2>2
<1>7. [x \in Accounts \X Periods |->
         [debit |-> balance'[x].debit, credit |-> balance'[x].credit]]
        = B!TotalsOf(SeenIn(ledger'))
  <2>1. \A x \in Accounts \X Periods : AddsUp(balance'[x], ledger', x)
    BY DEF BooksInv, LedgerExact
  <2> QED BY <2>1, ExactTotals
<1>8. SeenIn(ledger)' = SeenIn(ledger')
  BY DEF SeenIn
<1> HIDE DEF t
<1>9. B!Enter(t.id, t.work)
  BY <1>2, <1>3, <1>4, <1>6, <1>7, <1>8 DEF B!Enter
<1> QED BY <1>9 DEF t

LEMMA CommitRecords ==
  ASSUME BooksInv, BooksInv', NEW r \in Requests, Commit(r), tx[r].op # "updateStatus"
  PROVE  B!Record(tx[r].id) \/ B!Post(tx[r].id)
<1> DEFINE j == tx[r].id
           row == tx[r].work
<1>1. B!Enter(j, row)
  BY CommitEnters
<1>2. CASE journal[j] = NoJournal
  <2>1. /\ NewJournal(r) /\ tx[r].op # "reverse"
        /\ row \in JournalRow /\ row # NoJournal
    BY <1>2, CommitWrites
  <2>2. /\ row.lines \in Entries /\ row.ref \in Refs \union {None}
        /\ row.status \in {"draft", "posted"}
        /\ row.ref # None => \A i \in Journals : journal[i].ref # row.ref
    BY <2>1 DEF NewJournal
  <2>3. /\ row.period \in Periods
        /\ row = [status |-> row.status, period |-> row.period,
                  lines |-> row.lines, ref |-> row.ref]
    BY <2>1 DEF JournalRow
  <2>4. journal[j].status = "none"
    BY <1>2 DEF NoJournal
  <2> HIDE DEF j, row
  <2>5. B!Record(j)
    <3> DEFINE s == row.status
               p == row.period
               e == row.lines
               ref == row.ref
    <3>1. /\ s \in {"draft", "posted"} /\ p \in Periods
          /\ e \in Entries /\ ref \in Refs \union {None}
          /\ ref # None => \A i \in Journals : journal[i].ref # ref
          /\ row = [status |-> s, period |-> p, lines |-> e, ref |-> ref]
      BY <2>2, <2>3
    <3> HIDE DEF s, p, e, ref
    <3>2. B!Enter(j, [status |-> s, period |-> p, lines |-> e, ref |-> ref])
      BY <1>1, <3>1 DEF B!Enter
    <3> QED BY <2>4, <3>1, <3>2 DEF B!Record, B!Enter
  <2> QED BY <2>5 DEF j
<1>3. CASE journal[j] # NoJournal
  <2>1. HeldDraft(r) /\ Wrote(r)
    BY <1>3, CommitWrites
  <2>2. /\ journal[j].status = "draft"
        /\ row = [journal[j] EXCEPT !.status = "posted"]
    BY <2>1 DEF HeldDraft
  <2> HIDE DEF j, row
  <2>3. B!Post(j)
    BY <1>1, <2>2 DEF B!Post, B!Enter
  <2> QED BY <2>3 DEF j
<1> QED BY <1>2, <1>3

LEMMA NextRefines == BooksInv /\ BooksInv' /\ [Next]_vars => [B!Next]_(B!books)
<1> SUFFICES ASSUME BooksInv, BooksInv', [Next]_vars
             PROVE  [B!Next]_(B!books)
  OBVIOUS
<1>1. ASSUME NEW r \in Requests, Commit(r)
      PROVE  B!Next
  <2>1. CASE tx[r].op = "updateStatus"
    BY <1>1, <2>1, CommitCloses DEF B!Next
  <2>2. CASE tx[r].op # "updateStatus"
    <3>1. tx[r].id \in Journals
      BY <1>1, <2>2, CommitWrites
    <3>2. B!Record(tx[r].id) \/ B!Post(tx[r].id)
      BY <1>1, <2>2, CommitRecords
    <3>3. CASE B!Record(tx[r].id)
      BY <3>1, <3>3 DEF B!Next, B!Record, B!Enter
    <3>4. CASE B!Post(tx[r].id)
      BY <3>1, <3>4 DEF B!Next, B!Post, B!Enter
    <3> QED BY <3>2, <3>3, <3>4
  <2> QED BY <2>1, <2>2
<1>2. CASE \A r \in Requests : ~ Commit(r)
  <2>1. UNCHANGED <<periodStatus, journal, ledger, balance>>
    BY <1>2, TablesChangeAtCommit
  <2> QED BY <2>1 DEF B!books, SeenIn
<1> QED BY <1>1, <1>2

(* The ledger that is written by interleaved transactions of many          *)
(* statements keeps the books: no reader of the tables ever sees an entry  *)
(* half posted, a row of an entry that is not posted, or totals that are   *)
(* not those of the rows.                                                  *)
THEOREM LedgerKeepsBooks == Spec => KeepsBooks
<1> QED BY InitRefines, NextRefines, BooksInvariance, PTL DEF Spec, B!Spec, KeepsBooks
===============================================================================
