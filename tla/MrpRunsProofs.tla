---------------------------- MODULE MrpRunsProofs ----------------------------
(***************************************************************************)
(* MrpRuns for every number of requests, passes, workers and runs: a       *)
(* tenant has at most one active run, planned orders exist exactly for the *)
(* completed ones, and a status moves only along the documented            *)
(* transitions.  All three follow from IInv, which every step keeps.       *)
(***************************************************************************)
EXTENDS MrpRuns, Sums

NotCompleted(i) == run[i].status # "completed"

-----------------------------------------------------------------------------
(* The row the next insertion takes is a free one.                         *)
LEMMA FreshRunIsFree ==
    ASSUME FreshRuns # {}
    PROVE  FreshRun \in Runs /\ run[FreshRun].status = "none"
<1>1. FreshRuns \in SUBSET Nat
  BY MrpConstants DEF FreshRuns, Runs
<1>2. \E i \in FreshRuns : \A j \in FreshRuns : i <= j
  BY <1>1, LeastNatural
<1>3. FreshRun \in FreshRuns
  BY Zenon, <1>2 DEF FreshRun
<1> QED BY <1>3 DEF FreshRuns

(* A step that changes the status of one run, to or from anything but      *)
(* "completed", keeps the index and the planned orders: it makes a run     *)
(* active only when no other is.                                           *)
LEMMA OneRunMoves ==
    ASSUME IInv, NEW i \in Runs,
           run' \in [Runs -> RunRow],
           \A j \in Runs : j # i => run'[j].status = run[j].status,
           planned' = planned,
           NotCompleted(i), NotCompleted(i)',
           run'[i].status \in {"pending", "running"} => i \in Active \/ Active = {}
    PROVE  AtMostOneActive' /\ PlannedIffCompleted'
<1>1. \A j \in Active' : j = i \/ j \in Active
  BY DEF Active
<1>2. i \in Active' => i \in Active \/ Active = {}
  BY DEF Active
<1>3. AtMostOneActive'
  BY <1>1, <1>2 DEF IInv, AtMostOneActive
<1>4. \A j \in Runs : run'[j].status = "completed" <=> run[j].status = "completed"
  BY DEF NotCompleted
<1>5. PlannedIffCompleted'
  BY <1>4 DEF IInv, PlannedIffCompleted
<1> QED BY <1>3, <1>5

(* So does a step that leaves every status.                                *)
LEMMA NoRunMoves ==
    ASSUME IInv, planned' = planned,
           \A j \in Runs : run'[j].status = run[j].status
    PROVE  AtMostOneActive' /\ PlannedIffCompleted'
<1>1. Active' = Active
  BY DEF Active
<1>2. {i \in Runs : run[i].status = "completed"}'
        = {i \in Runs : run[i].status = "completed"}
  OBVIOUS
<1> QED BY <1>1, <1>2 DEF IInv, AtMostOneActive, PlannedIffCompleted

LEMMA FaultType == ASSUME IInv, Fault PROVE faults' \in 0 .. MaxFaults
BY MrpConstants DEF IInv, StepsOK, Fault

LEMMA AddedType ==
    ASSUME IInv, NEW i \in Runs
    PROVE  Added(i) \in [Runs -> {"none", "waiting", "active", "finished"}]
BY DEF IInv, StepsOK, Added

-----------------------------------------------------------------------------
(* The steps of a reconciliation pass keep its record whole.               *)
LEMMA IdlePassType == IdlePass \in PassStep
BY DEF IdlePass, PassStep, NoRun

LEMMA SelectType ==
    ASSUME IInv, NEW p \in Passes,
           NEW loop \in {"idle", "pending", "failed", "expired", "stuck"},
           NEW rows \in SUBSET Row,
           loop = "failed" => \A x \in rows : x.retry < RetryLimit,
           Select(p, loop, rows)
    PROVE  pass' \in [Passes -> PassStep]
<1>1. IdlePass \in PassStep /\ IdlePass.call = "none"
  BY IdlePassType DEF IdlePass
<1>2. [IdlePass EXCEPT !.loop = loop, !.rows = rows] \in PassStep
  BY <1>1 DEF PassStep
<1> QED BY <1>2 DEF Select, IInv, StepsOK

LEMMA RowsType ==
    ASSUME IInv, NEW ids \in SUBSET Runs
    PROVE  Rows(ids) \in SUBSET Row
<1>1. ASSUME NEW i \in ids PROVE [id |-> i, retry |-> run[i].retry] \in Row
  <2>1. run[i].retry \in 0 .. RetryLimit
    BY DEF IInv, StepsOK, RunRow
  <2> QED BY <2>1, MrpConstants DEF Row
<1> QED BY <1>1 DEF Rows

LEMMA CallType ==
    ASSUME IInv, NEW p \in Passes, pass[p].call # "none",
           NEW call \in {"none", "get", "remove", "add", "update"},
           Call(p, call)
    PROVE  pass' \in [Passes -> PassStep]
<1>1. pass[p] \in PassStep
  BY DEF IInv, StepsOK
<1>2. [pass[p] EXCEPT !.call = call] \in PassStep
  BY <1>1 DEF PassStep
<1>3. pass' = [pass EXCEPT ![p] = [pass[p] EXCEPT !.call = call]]
  BY DEF Call
<1> QED BY <1>2, <1>3 DEF IInv, StepsOK

LEMMA TakeType ==
    ASSUME IInv, NEW p \in Passes, NEW x \in pass[p].rows,
           NEW call \in {"none", "get", "remove", "add", "update"},
           Take(p, x, call)
    PROVE  pass' \in [Passes -> PassStep]
<1>1. pass[p] \in PassStep
  BY DEF IInv, StepsOK
<1>2. x \in Row
  BY <1>1 DEF PassStep
<1>3. [pass[p] EXCEPT !.rows = pass[p].rows \ {x}, !.call = call, !.id = x.id,
                     !.retry = x.retry] \in PassStep
  BY <1>1, <1>2 DEF PassStep, Row
<1>4. pass' = [pass EXCEPT ![p] =
                 [pass[p] EXCEPT !.rows = pass[p].rows \ {x}, !.call = call,
                                 !.id = x.id, !.retry = x.retry]]
  BY Zenon DEF Take
<1> QED BY <1>3, <1>4 DEF IInv, StepsOK

LEMMA PassFacts ==
    ASSUME IInv, NEW p \in Passes
    PROVE  /\ pass[p].call # "none" => pass[p].id \in Runs
           /\ pass[p].retry \in Nat
           /\ \A x \in pass[p].rows : x.id \in Runs /\ x.retry \in Nat
           /\ pass[p].loop = "failed" => \A x \in pass[p].rows : x.retry < RetryLimit
<1>1. pass[p] \in PassStep
  BY DEF IInv, StepsOK
<1> QED BY <1>1 DEF PassStep, Row

-----------------------------------------------------------------------------
(* The requests: trigger and cancel.                                       *)
LEMMA TriggerInv ==
    ASSUME IInv, NEW c \in Clients, Trigger(c)
    PROVE  IInv'
<1> USE DEF IInv
<1>0. client[c] \in ClientStep /\ IdleClient \in ClientStep
  BY DEF StepsOK, ClientStep, IdleClient, NoRun
<1>1. CASE TriggerCheck(c)
  <2>1. [client[c] EXCEPT !.pc = "insert"] \in ClientStep
    BY <1>0 DEF ClientStep
  <2>2. StepsOK'
    BY <1>1, <2>1 DEF TriggerCheck, StepsOK
  <2> QED BY <1>1, <2>2, NoRunMoves DEF TriggerCheck
<1>2. CASE TriggerInsert(c)
  <2>1. FreshRun \in Runs /\ run[FreshRun].status = "none"
    BY <1>2, FreshRunIsFree DEF TriggerInsert
  <2> DEFINE i == FreshRun
             row == [status |-> "pending", retry |-> 0, old |-> FALSE,
                     started |-> "never"]
             step == [pc |-> "enqueue", id |-> i]
  <2>2. row \in RunRow /\ row.status = "pending" /\ step \in ClientStep
    BY <2>1, MrpConstants DEF RunRow, Statuses, ClientStep
  <2>3. /\ UNCHANGED <<planned, job, pass, worker, faults>>
        /\ \/ Active = {} /\ run' = [run EXCEPT ![i] = row]
              /\ client' = [client EXCEPT ![c] = step]
           \/ client' = [client EXCEPT ![c] = IdleClient] /\ UNCHANGED run
    BY <1>2 DEF TriggerInsert, IndexAllows
  <2> HIDE DEF i, row, step
  <2>4. StepsOK'
    BY <1>0, <2>1, <2>2, <2>3 DEF StepsOK, i
  <2>5. CASE UNCHANGED run
    BY <2>3, <2>4, <2>5, NoRunMoves
  <2>6. CASE Active = {} /\ run' = [run EXCEPT ![i] = row]
    <3>1. run'[i] = row /\ \A j \in Runs : j # i => run'[j] = run[j]
      BY <2>1, <2>6 DEF StepsOK, i
    <3> QED BY <2>1, <2>2, <2>3, <2>4, <2>6, <3>1, OneRunMoves
            DEF NotCompleted, StepsOK, i
  <2> QED BY <2>3, <2>5, <2>6
<1>3. CASE TriggerEnqueue(c)
  <2>1. client[c].id \in Runs
    BY <1>0, <1>3 DEF TriggerEnqueue, ClientStep
  <2>2. job' \in [Runs -> {"none", "waiting", "active", "finished"}]
    BY <1>3, <2>1, AddedType DEF TriggerEnqueue, StepsOK
  <2>3. faults' \in 0 .. MaxFaults
    BY <1>3, FaultType DEF TriggerEnqueue, StepsOK
  <2>4. StepsOK'
    BY <1>0, <1>3, <2>2, <2>3 DEF TriggerEnqueue, StepsOK
  <2> QED BY <1>3, <2>4, NoRunMoves DEF TriggerEnqueue
<1> QED BY <1>1, <1>2, <1>3 DEF Trigger

LEMMA CancelInv ==
    ASSUME IInv, NEW c \in Clients, Cancel(c)
    PROVE  IInv'
<1> USE DEF IInv
<1>0. client[c] \in ClientStep /\ IdleClient \in ClientStep
  BY DEF StepsOK, ClientStep, IdleClient, NoRun
<1>1. CASE CancelUpdate(c)
  <2>1. PICK i \in Runs :
          /\ Cancellable(i)
          /\ run' = [run EXCEPT ![i].status = "cancelled"]
          /\ client' = [client EXCEPT ![c] = [pc |-> "remove", id |-> i]]
    BY <1>1 DEF CancelUpdate
  <2>2. [run[i] EXCEPT !.status = "cancelled"] \in RunRow
    BY DEF StepsOK, RunRow, Statuses
  <2>3. [pc |-> "remove", id |-> i] \in ClientStep
    BY DEF ClientStep
  <2>4. UNCHANGED <<planned, job, pass, worker, faults>>
    BY <1>1 DEF CancelUpdate
  <2>5. StepsOK'
    BY <2>1, <2>2, <2>3, <2>4 DEF StepsOK
  <2>6. /\ run'[i].status = "cancelled"
        /\ \A j \in Runs : j # i => run'[j] = run[j]
    BY <2>1 DEF StepsOK, RunRow
  <2> QED BY <2>1, <2>4, <2>5, <2>6, OneRunMoves DEF NotCompleted, StepsOK, Cancellable
<1>2. CASE CancelRemove(c)
  <2>1. client[c].id \in Runs
    BY <1>0, <1>2 DEF CancelRemove, ClientStep
  <2>2. job' \in [Runs -> {"none", "waiting", "active", "finished"}]
    BY <1>2, <2>1 DEF CancelRemove, StepsOK
  <2>3. faults' \in 0 .. MaxFaults
    BY <1>2, FaultType DEF CancelRemove, StepsOK
  <2>4. StepsOK'
    BY <1>0, <1>2, <2>2, <2>3 DEF CancelRemove, StepsOK
  <2> QED BY <1>2, <2>4, NoRunMoves DEF CancelRemove
<1> QED BY <1>1, <1>2 DEF Cancel

LEMMA ClientCrashInv ==
    ASSUME IInv, NEW c \in Clients, ClientCrash(c)
    PROVE  IInv'
<1> USE DEF IInv
<1>1. IdleClient \in ClientStep
  BY DEF ClientStep, IdleClient, NoRun
<1>2. faults' \in 0 .. MaxFaults
  BY FaultType DEF ClientCrash
<1>3. StepsOK'
  BY <1>1, <1>2 DEF ClientCrash, StepsOK
<1> QED BY <1>3, NoRunMoves DEF ClientCrash

-----------------------------------------------------------------------------
(* The reconciliation pass.                                                *)

(* Steps that change nothing but the pass.                                 *)
LEMMA PassOnly ==
    ASSUME IInv, pass' \in [Passes -> PassStep],
           UNCHANGED <<run, planned, client, worker>>,
           job' \in [Runs -> {"none", "waiting", "active", "finished"}],
           faults' \in 0 .. MaxFaults
    PROVE  IInv'
<1>1. StepsOK'
  BY DEF IInv, StepsOK
<1> QED BY <1>1, NoRunMoves DEF IInv

LEMMA SelectInv ==
    ASSUME IInv, NEW p \in Passes,
           \/ BeginPass(p) \/ SelectFailed(p) \/ SelectStuck(p) \/ EndPass(p)
    PROVE  IInv'
<1>1. UNCHANGED <<run, planned, job, client, worker, faults>>
  BY DEF BeginPass, SelectFailed, SelectStuck, EndPass
<1>2. /\ job' \in [Runs -> {"none", "waiting", "active", "finished"}]
      /\ faults' \in 0 .. MaxFaults
  BY <1>1 DEF IInv, StepsOK
<1>3. CASE BeginPass(p)
  <2>1. Rows({i \in Runs : PendingRow(i)}) \in SUBSET Row
    BY RowsType
  <2>2. pass' \in [Passes -> PassStep]
    BY <1>3, <2>1, SelectType DEF BeginPass
  <2> QED BY <1>1, <1>2, <2>2, PassOnly
<1>4. CASE SelectFailed(p)
  <2> DEFINE rows == Rows({i \in Runs : RetryableRow(i)})
  <2>1. rows \in SUBSET Row
    BY RowsType
  <2>2. \A x \in rows : x.retry < RetryLimit
    BY DEF Rows, RetryableRow
  <2>3. Select(p, "failed", rows)
    BY <1>4 DEF SelectFailed
  <2> HIDE DEF rows
  <2>4. pass' \in [Passes -> PassStep]
    BY <2>1, <2>2, <2>3, SelectType
  <2> QED BY <1>1, <1>2, <2>4, PassOnly
<1>5. CASE SelectStuck(p)
  <2>1. Rows({i \in Runs : StuckRow(i)}) \in SUBSET Row
    BY RowsType
  <2>2. pass' \in [Passes -> PassStep]
    BY <1>5, <2>1, SelectType DEF SelectStuck
  <2> QED BY <1>1, <1>2, <2>2, PassOnly
<1>6. CASE EndPass(p)
  <2>1. pass' \in [Passes -> PassStep]
    BY <1>6, SelectType DEF EndPass
  <2> QED BY <1>1, <1>2, <2>1, PassOnly
<1> QED BY <1>3, <1>4, <1>5, <1>6

LEMMA TakePendingInv ==
    ASSUME IInv, NEW p \in Passes, TakePending(p)
    PROVE  IInv'
<1>1. pass' \in [Passes -> PassStep]
  BY TakeType DEF TakePending
<1>2. UNCHANGED <<run, planned, job, client, worker, faults>>
  BY DEF TakePending
<1> QED BY <1>1, <1>2, PassOnly DEF IInv, StepsOK

(* A failed run becomes pending only when the index admits it, and its new *)
(* count of retries is within the limit.                                   *)
LEMMA RetryFailedInv ==
    ASSUME IInv, NEW p \in Passes, RetryFailed(p)
    PROVE  IInv'
<1>1. UNCHANGED <<planned, job, client, worker, faults>> /\ pass[p].loop = "failed"
  BY DEF RetryFailed, Between
<1>2. PICK x \in pass[p].rows :
        IF ~ StillFailed(x.id)
        THEN Take(p, x, "none") /\ UNCHANGED run
        ELSE IF IndexAllows
        THEN /\ run' = [run EXCEPT ![x.id].status = "pending",
                                   ![x.id].retry = NextRetry(x.retry)]
             /\ Take(p, x, "get")
        ELSE Select(p, "idle", {}) /\ UNCHANGED run
  BY DEF RetryFailed
<1>3. x.id \in Runs /\ x.retry \in Nat /\ x.retry < RetryLimit
  BY <1>1, PassFacts
<1>4. pass' \in [Passes -> PassStep]
  BY <1>2, TakeType, SelectType
<1>5. CASE UNCHANGED run
  BY <1>1, <1>4, <1>5, PassOnly DEF IInv, StepsOK
<1>6. CASE /\ StillFailed(x.id) /\ IndexAllows
           /\ run' = [run EXCEPT ![x.id].status = "pending",
                                 ![x.id].retry = NextRetry(x.retry)]
  <2> DEFINE row == [run[x.id] EXCEPT !.status = "pending", !.retry = NextRetry(x.retry)]
  <2>1. NextRetry(x.retry) \in 0 .. RetryLimit
    BY <1>3, MrpConstants DEF NextRetry
  <2>2. run[x.id] \in RunRow
    BY <1>3 DEF IInv, StepsOK
  <2>3. row \in RunRow /\ row.status = "pending"
    BY <2>1, <2>2 DEF RunRow, Statuses
  <2>4. run' = [run EXCEPT ![x.id] = row]
    BY Zenon, <1>6
  <2> HIDE DEF row
  <2>5. run'[x.id] = row /\ \A j \in Runs : j # x.id => run'[j] = run[j]
    BY <1>3, <2>4 DEF IInv, StepsOK
  <2>6. StepsOK'
    BY <1>1, <1>3, <1>4, <2>3, <2>4 DEF IInv, StepsOK
  <2> QED BY <1>1, <1>3, <1>6, <2>3, <2>5, <2>6, OneRunMoves
          DEF IInv, NotCompleted, StillFailed, IndexAllows, StepsOK
<1> QED BY <1>2, <1>5, <1>6

LEMMA ExpireFailedInv ==
    ASSUME IInv, NEW p \in Passes, ExpireFailed(p)
    PROVE  IInv'
<1>1. /\ UNCHANGED <<planned, job, client, worker, faults>>
      /\ run' = [i \in Runs |-> IF ExpiredRow(i)
                                THEN [run[i] EXCEPT !.status = "failed_permanent"]
                                ELSE run[i]]
  BY DEF ExpireFailed
<1>2. pass' \in [Passes -> PassStep]
  BY SelectType DEF ExpireFailed
<1>3. ASSUME NEW i \in Runs
      PROVE  [run[i] EXCEPT !.status = "failed_permanent"] \in RunRow
  <2>1. run[i] \in RunRow
    BY DEF IInv, StepsOK
  <2> QED BY <2>1 DEF RunRow, Statuses
<1>4. run' \in [Runs -> RunRow]
  BY <1>1, <1>3 DEF IInv, StepsOK
<1>5. ASSUME NEW i \in Runs
      PROVE  \/ run'[i] = run[i]
             \/ run[i].status = "failed" /\ run'[i].status = "failed_permanent"
  <2>1. run[i] \in RunRow
    BY DEF IInv, StepsOK
  <2>2. [run[i] EXCEPT !.status = "failed_permanent"].status = "failed_permanent"
    BY <2>1 DEF RunRow
  <2> QED BY <1>1, <2>2 DEF ExpiredRow
<1>6. Active' = Active
  BY <1>5 DEF Active
<1>7. {i \in Runs : run[i].status = "completed"}'
        = {i \in Runs : run[i].status = "completed"}
  BY <1>5
<1> QED BY <1>1, <1>2, <1>4, <1>6, <1>7
        DEF IInv, StepsOK, AtMostOneActive, PlannedIffCompleted

LEMMA CheckStuckInv ==
    ASSUME IInv, NEW p \in Passes, CheckStuck(p)
    PROVE  IInv'
<1>1. UNCHANGED <<run, planned, job, client, worker>>
  BY DEF CheckStuck
<1>2. pass' \in [Passes -> PassStep] /\ faults' \in 0 .. MaxFaults
  <2>1. CASE \E x \in pass[p].rows :
               Take(p, x, IF job[x.id] = "active" THEN "none" ELSE "update")
    BY <2>1, TakeType, FaultType DEF CheckStuck, IInv, StepsOK
  <2>2. CASE Fault /\ Select(p, "idle", {})
    BY <2>2, SelectType, FaultType
  <2> QED BY <2>1, <2>2, FaultType DEF CheckStuck, IInv, StepsOK
<1> QED BY <1>1, <1>2, PassOnly DEF IInv, StepsOK

(* A stuck run was the active one: pending again or failed for good, it    *)
(* leaves no second one.                                                   *)
LEMMA RetryStuckInv ==
    ASSUME IInv, NEW p \in Passes, RetryStuck(p)
    PROVE  IInv'
<1> DEFINE i == pass[p].id
           retry == NextRetry(pass[p].retry)
<1>1. /\ UNCHANGED <<planned, job, client, worker, faults>> /\ pass[p].call = "update"
      /\ \/ Call(p, "none") /\ UNCHANGED run
         \/ /\ run[i].status = "running" /\ RetriesLeft(retry) /\ Call(p, "get")
            /\ run' = [run EXCEPT ![i].status = "pending", ![i].retry = retry,
                                  ![i].started = "never"]
         \/ /\ run[i].status = "running" /\ Call(p, "none")
            /\ run' = [run EXCEPT ![i].status = "failed_permanent"]
  BY DEF RetryStuck
<1>2. i \in Runs /\ retry \in Nat
  BY <1>1, PassFacts DEF NextRetry
<1> HIDE DEF i, retry
<1>3. pass' \in [Passes -> PassStep]
  BY <1>1, CallType
<1>4. CASE UNCHANGED run
  BY <1>1, <1>3, <1>4, PassOnly DEF IInv, StepsOK
<1>5. run[i] \in RunRow
  BY <1>2 DEF IInv, StepsOK
<1>6. ASSUME run[i].status = "running", NEW row \in RunRow,
             row.status \in {"pending", "failed_permanent"},
             run' = [run EXCEPT ![i] = row]
      PROVE  IInv'
  <2>1. run'[i] = row /\ \A j \in Runs : j # i => run'[j] = run[j]
    BY <1>2, <1>6 DEF IInv, StepsOK
  <2>2. StepsOK'
    BY <1>1, <1>2, <1>3, <1>6 DEF IInv, StepsOK
  <2>3. i \in Active
    BY <1>2, <1>6 DEF Active
  <2> QED BY <1>1, <1>2, <1>6, <2>1, <2>2, <2>3, OneRunMoves
          DEF IInv, NotCompleted, StepsOK
<1>7. CASE /\ run[i].status = "running" /\ RetriesLeft(retry)
           /\ run' = [run EXCEPT ![i].status = "pending", ![i].retry = retry,
                                 ![i].started = "never"]
  <2> DEFINE row == [run[i] EXCEPT !.status = "pending", !.retry = retry,
                                   !.started = "never"]
  <2>1. retry \in 0 .. RetryLimit
    BY <1>2, <1>7, MrpConstants DEF RetriesLeft
  <2>2. row \in RunRow /\ row.status = "pending"
    BY <1>5, <2>1 DEF RunRow, Statuses
  <2>3. run' = [run EXCEPT ![i] = row]
    BY Zenon, <1>7
  <2> HIDE DEF row
  <2> QED BY <1>6, <1>7, <2>2, <2>3
<1>8. CASE run[i].status = "running" /\ run' = [run EXCEPT ![i].status = "failed_permanent"]
  <2> DEFINE row == [run[i] EXCEPT !.status = "failed_permanent"]
  <2>1. row \in RunRow /\ row.status = "failed_permanent"
    BY <1>5 DEF RunRow, Statuses
  <2>2. run' = [run EXCEPT ![i] = row]
    BY Zenon, <1>8
  <2> HIDE DEF row
  <2> QED BY <1>6, <1>8, <2>1, <2>2
<1> QED BY <1>1, <1>4, <1>7, <1>8

(* ensureQueued: the calls of the queue, and their failure.                *)
LEMMA EnsureQueuedInv ==
    ASSUME IInv, NEW p \in Passes,
           \/ GetJob(p) \/ RemoveJob(p) \/ AddJob(p) \/ QueueError(p) \/ PassCrash(p)
    PROVE  IInv'
<1>1. UNCHANGED <<run, planned, client, worker>>
  BY DEF GetJob, RemoveJob, AddJob, QueueError, PassCrash
<1>2. pass[p].call # "none" => pass[p].id \in Runs
  BY PassFacts
<1>3. faults' \in 0 .. MaxFaults
  BY FaultType DEF GetJob, RemoveJob, AddJob, QueueError, PassCrash, IInv, StepsOK
<1>4. CASE GetJob(p)
  <2> DEFINE call == CASE Queued(job[pass[p].id]) -> "none"
                       [] job[pass[p].id] = "none" -> "add"
                       [] OTHER -> "remove"
  <2>1. call \in {"none", "get", "remove", "add", "update"}
    OBVIOUS
  <2>2. Call(p, call) /\ pass[p].call # "none" /\ UNCHANGED job
    BY <1>4 DEF GetJob
  <2> HIDE DEF call
  <2>3. pass' \in [Passes -> PassStep]
    BY <2>1, <2>2, CallType
  <2> QED BY <1>1, <1>3, <2>2, <2>3, PassOnly DEF IInv, StepsOK
<1>5. CASE RemoveJob(p)
  <2>1. pass' \in [Passes -> PassStep]
    BY <1>5, CallType DEF RemoveJob
  <2>2. job' \in [Runs -> {"none", "waiting", "active", "finished"}]
    BY <1>5 DEF RemoveJob, IInv, StepsOK
  <2> QED BY <1>1, <1>3, <2>1, <2>2, PassOnly
<1>6. CASE AddJob(p)
  <2>1. pass' \in [Passes -> PassStep]
    BY <1>6, CallType DEF AddJob
  <2>2. job' \in [Runs -> {"none", "waiting", "active", "finished"}]
    BY <1>2, <1>6, AddedType DEF AddJob
  <2> QED BY <1>1, <1>3, <2>1, <2>2, PassOnly
<1>7. CASE QueueError(p)
  <2>1. pass' \in [Passes -> PassStep]
    BY <1>7, CallType DEF QueueError
  <2> QED BY <1>1, <1>3, <1>7, <2>1, PassOnly DEF QueueError, IInv, StepsOK
<1>8. CASE PassCrash(p)
  <2>1. pass' \in [Passes -> PassStep]
    BY <1>8, SelectType DEF PassCrash
  <2> QED BY <1>1, <1>3, <1>8, <2>1, PassOnly DEF PassCrash, IInv, StepsOK
<1> QED BY <1>4, <1>5, <1>6, <1>7, <1>8

LEMMA ReconcileInv ==
    ASSUME IInv, NEW p \in Passes, Reconcile(p) \/ QueueError(p) \/ PassCrash(p)
    PROVE  IInv'
BY SelectInv, TakePendingInv, RetryFailedInv, ExpireFailedInv, CheckStuckInv,
   RetryStuckInv, EnsureQueuedInv DEF Reconcile

-----------------------------------------------------------------------------
(* The worker and the queue.                                               *)
LEMMA WorkerFacts ==
    ASSUME IInv, NEW w \in Workers
    PROVE  /\ worker[w] \in WorkerStep /\ IdleWorker \in WorkerStep
           /\ worker[w].pc # "idle" => worker[w].id \in Runs
BY DEF IInv, StepsOK, WorkerStep, IdleWorker, NoRun

(* The worker's writes: the guard of each is the status it expects.        *)
LEMMA WorkInv ==
    ASSUME IInv, NEW w \in Workers, Work(w)
    PROVE  IInv'
<1>1. /\ worker[w] \in WorkerStep /\ IdleWorker \in WorkerStep
      /\ worker[w].pc # "idle" => worker[w].id \in Runs
  BY WorkerFacts
<1> DEFINE i == worker[w].id
<1>2. CASE TakeJob(w)
  <2>1. PICK k \in Runs :
          /\ job' = [job EXCEPT ![k] = "active"]
          /\ worker' = [worker EXCEPT ![w] = [pc |-> "claim", id |-> k, lost |-> FALSE]]
    BY <1>2 DEF TakeJob
  <2>2. [pc |-> "claim", id |-> k, lost |-> FALSE] \in WorkerStep
    BY DEF WorkerStep
  <2>3. StepsOK'
    BY <1>2, <2>1, <2>2 DEF TakeJob, IInv, StepsOK
  <2> QED BY <1>2, <2>3, NoRunMoves DEF TakeJob, IInv
<1>3. ASSUME NEW step, step \in {"calculate", "finish"}
      PROVE  [worker[w] EXCEPT !.pc = step] \in WorkerStep
                \/ worker[w].pc = "idle"
  BY <1>1, <1>3 DEF WorkerStep
<1>4. ASSUME worker[w].pc # "idle", NEW row \in RunRow,
             run[i].status \in {"pending", "running"},
             row.status \in {"pending", "running", "failed"},
             run' = [run EXCEPT ![i] = row],
             UNCHANGED <<planned, job, client, pass, faults>>,
             worker' \in [Workers -> WorkerStep]
      PROVE  IInv'
  <2>1. i \in Runs /\ i \in Active
    BY <1>1, <1>4 DEF Active
  <2>2. run'[i] = row /\ \A j \in Runs : j # i => run'[j] = run[j]
    BY <1>4, <2>1 DEF IInv, StepsOK
  <2>3. StepsOK'
    BY <1>4, <2>1 DEF IInv, StepsOK
  <2> HIDE DEF i
  <2> QED BY <1>4, <2>1, <2>2, <2>3, OneRunMoves DEF IInv, NotCompleted, StepsOK
<1>5. CASE Claim(w)
  <2>1. worker' \in [Workers -> WorkerStep] /\ worker[w].pc # "idle"
    BY <1>3, <1>5 DEF Claim, IInv, StepsOK
  <2>2. CASE UNCHANGED run
    <3>1. StepsOK'
      BY <1>5, <2>1, <2>2 DEF Claim, IInv, StepsOK
    <3> QED BY <1>5, <2>2, <3>1, NoRunMoves DEF Claim, IInv
  <2>3. CASE /\ run[i].status = "pending"
             /\ run' = [run EXCEPT ![i].status = "running", ![i].started = "recently"]
    <3> DEFINE row == [run[i] EXCEPT !.status = "running", !.started = "recently"]
    <3>1. run[i] \in RunRow
      BY <1>1, <2>1 DEF IInv, StepsOK
    <3>2. row \in RunRow /\ row.status = "running"
      BY <3>1 DEF RunRow, Statuses
    <3>3. run' = [run EXCEPT ![i] = row]
      BY Zenon, <2>3
    <3>4. UNCHANGED <<planned, job, client, pass, faults>>
      BY <1>5 DEF Claim
    <3> HIDE DEF row, i
    <3> QED BY <1>4, <2>1, <2>3, <3>2, <3>3, <3>4
  <2> QED BY <1>5, <2>2, <2>3 DEF Claim
<1>6. CASE Write(w)
  <2>1. worker' \in [Workers -> WorkerStep] /\ worker[w].pc # "idle"
    BY <1>3, <1>6 DEF Write, IInv, StepsOK
  <2>2. CASE UNCHANGED <<planned, run>>
    <3>1. StepsOK'
      BY <1>6, <2>1, <2>2 DEF Write, IInv, StepsOK
    <3> QED BY <1>6, <2>2, <3>1, NoRunMoves DEF Write, IInv
  <2>3. CASE /\ run[i].status = "running" /\ planned' = planned \union {i}
             /\ run' = [run EXCEPT ![i].status = "completed"]
    <3>1. i \in Runs /\ run[i] \in RunRow
      BY <1>1, <2>1 DEF IInv, StepsOK
    <3>2. [run[i] EXCEPT !.status = "completed"] \in RunRow
      BY <3>1 DEF RunRow, Statuses
    <3>3. /\ run'[i].status = "completed" /\ \A j \in Runs : j # i => run'[j] = run[j]
      BY <2>3, <3>1 DEF IInv, StepsOK, RunRow
    <3>4. StepsOK'
      BY <1>6, <2>1, <2>3, <3>1, <3>2 DEF Write, IInv, StepsOK
    <3>5. AtMostOneActive'
      BY <3>3 DEF IInv, AtMostOneActive, Active
    <3>6. PlannedIffCompleted'
      BY <2>3, <3>1, <3>3 DEF IInv, PlannedIffCompleted
    <3> QED BY <3>4, <3>5, <3>6 DEF IInv
  <2> QED BY <1>6, <2>2, <2>3 DEF Write
<1>7. CASE MarkFailed(w)
  <2>1. worker' \in [Workers -> WorkerStep] /\ worker[w].pc # "idle"
    BY <1>3, <1>7 DEF MarkFailed, IInv, StepsOK
  <2>2. CASE UNCHANGED run
    <3>1. StepsOK'
      BY <1>7, <2>1, <2>2 DEF MarkFailed, IInv, StepsOK
    <3> QED BY <1>7, <2>2, <3>1, NoRunMoves DEF MarkFailed, IInv
  <2>3. CASE /\ run[i].status = "running"
             /\ run' = [run EXCEPT ![i].status = "failed"]
    <3> DEFINE row == [run[i] EXCEPT !.status = "failed"]
    <3>1. run[i] \in RunRow
      BY <1>1, <2>1 DEF IInv, StepsOK
    <3>2. row \in RunRow /\ row.status = "failed"
      BY <3>1 DEF RunRow, Statuses
    <3>3. run' = [run EXCEPT ![i] = row]
      BY Zenon, <2>3
    <3>4. UNCHANGED <<planned, job, client, pass, faults>>
      BY <1>7 DEF MarkFailed
    <3> HIDE DEF row, i
    <3> QED BY <1>4, <2>1, <2>3, <3>2, <3>3, <3>4
  <2> QED BY <1>7, <2>2, <2>3 DEF MarkFailed
<1>8. CASE FinishJob(w)
  <2>1. StepsOK'
    BY <1>1, <1>8 DEF FinishJob, IInv, StepsOK
  <2> QED BY <1>8, <2>1, NoRunMoves DEF FinishJob, IInv
<1> QED BY <1>2, <1>5, <1>6, <1>7, <1>8 DEF Work

LEMMA WorkerCrashInv ==
    ASSUME IInv, NEW w \in Workers, WorkerCrash(w)
    PROVE  IInv'
<1>1. IdleWorker \in WorkerStep
  BY WorkerFacts
<1>2. faults' \in 0 .. MaxFaults
  BY FaultType DEF WorkerCrash
<1>3. StepsOK'
  BY <1>1, <1>2 DEF WorkerCrash, IInv, StepsOK
<1> QED BY <1>3, NoRunMoves DEF WorkerCrash, IInv

LEMMA StallInv ==
    ASSUME IInv, NEW i \in Runs, StallOrphan(i) \/ StallSlow(i)
    PROVE  IInv'
<1>1. Unlocked(i)
  BY DEF StallOrphan, StallSlow
<1>2. faults' \in 0 .. MaxFaults
  BY FaultType DEF StallOrphan, StallSlow, IInv, StepsOK
<1>3. job' \in [Runs -> {"none", "waiting", "active", "finished"}]
  BY <1>1 DEF Unlocked, IInv, StepsOK
<1>4. ASSUME NEW w \in Workers PROVE [worker[w] EXCEPT !.lost = TRUE] \in WorkerStep
  BY WorkerFacts DEF WorkerStep
<1>5. worker' \in [Workers -> WorkerStep]
  BY <1>1, <1>4, WorkerFacts DEF Unlocked
<1>6. StepsOK'
  BY <1>1, <1>2, <1>3, <1>5 DEF Unlocked, IInv, StepsOK
<1> QED BY <1>1, <1>6, NoRunMoves DEF Unlocked, IInv

LEMMA AgeInv ==
    ASSUME IInv, NEW i \in Runs, Age(i)
    PROVE  IInv'
<1>1. /\ UNCHANGED <<planned, job, client, pass, worker, faults>>
      /\ \/ run' = [run EXCEPT ![i].old = TRUE]
         \/ run' = [run EXCEPT ![i].started = "long ago"]
  BY DEF Age
<1>2. run[i] \in RunRow
  BY DEF IInv, StepsOK
<1>3. /\ [run[i] EXCEPT !.old = TRUE] \in RunRow
      /\ [run[i] EXCEPT !.old = TRUE].status = run[i].status
  BY <1>2 DEF RunRow
<1>4. /\ [run[i] EXCEPT !.started = "long ago"] \in RunRow
      /\ [run[i] EXCEPT !.started = "long ago"].status = run[i].status
  BY <1>2 DEF RunRow
<1>5. StepsOK'
  BY <1>1, <1>3, <1>4 DEF IInv, StepsOK
<1>6. \A j \in Runs : run'[j].status = run[j].status
  BY <1>1, <1>3, <1>4 DEF IInv, StepsOK
<1> QED BY <1>1, <1>5, <1>6, NoRunMoves DEF IInv

-----------------------------------------------------------------------------
LEMMA InitInv == Init => IInv
<1> SUFFICES ASSUME Init PROVE IInv
  OBVIOUS
<1>1. /\ IdleClient \in ClientStep /\ IdleWorker \in WorkerStep
      /\ IdlePass \in PassStep
  BY IdlePassType DEF ClientStep, IdleClient, WorkerStep, IdleWorker, NoRun
<1>2. [status |-> "none", retry |-> 0, old |-> FALSE, started |-> "never"] \in RunRow
  BY MrpConstants DEF RunRow, Statuses
<1>3. StepsOK
  BY <1>1, <1>2, MrpConstants DEF Init, StepsOK
<1>4. \A i \in Runs : run[i].status = "none"
  BY DEF Init
<1> QED BY <1>3, <1>4 DEF Init, IInv, AtMostOneActive, PlannedIffCompleted, Active

LEMMA NextInv == IInv /\ [Next]_vars => IInv'
<1> SUFFICES ASSUME IInv, [Next]_vars PROVE IInv'
  OBVIOUS
<1>1. CASE Next
  BY <1>1, TriggerInv, CancelInv, ClientCrashInv, ReconcileInv, WorkInv,
     WorkerCrashInv, StallInv, AgeInv DEF Next
<1>2. CASE UNCHANGED vars
  <2>1. StepsOK'
    BY <1>2 DEF vars, IInv, StepsOK
  <2> QED BY <1>2, <2>1, NoRunMoves DEF vars, IInv
<1> QED BY <1>1, <1>2

(* Every reachable state has the inductive invariant.                      *)
THEOREM Invariance == Spec => []IInv
BY InitInv, NextInv, PTL DEF Spec

(* A tenant never has two active runs, whatever triggers, retries, crashes *)
(* and late passes there are: the unique index admits the second insert or *)
(* retry to nobody, although each checked before.                          *)
THEOREM AtMostOneRunActive == Spec => []OneActiveRun
<1>1. ASSUME IInv PROVE OneActiveRun
  <2>1. TypeOK
    BY <1>1 DEF IInv, StepsOK, TypeOK, RunRow, ClientStep, WorkerStep, PassStep,
           PlannedIffCompleted
  <2>2. CASE Active = {}
    BY <2>1, <2>2, FS_EmptySet DEF OneActiveRun
  <2>3. CASE Active # {}
    <3>1. PICK i \in Active : Active = {i}
      BY <1>1, <2>3 DEF IInv, AtMostOneActive
    <3>2. Cardinality(Active) = 1
      BY <3>1, FS_Singleton
    <3> QED BY <2>1, <3>2 DEF OneActiveRun
  <2> QED BY <2>2, <2>3
<1>2. IInv => OneActiveRun
  BY <1>1
<1> QED BY <1>2, Invariance, PTL

(* A run has planned orders exactly when it is completed: a cancel or a    *)
(* reconciliation that races the writer never leaves one without the other. *)
THEOREM PlannedExactlyWhenCompleted == Spec => []PlannedIffCompleted
<1>1. IInv => PlannedIffCompleted
  BY DEF IInv
<1> QED BY <1>1, Invariance, PTL

-----------------------------------------------------------------------------
(* Each statement that writes a status starts from one the documents let   *)
(* it start from, although what it acts on was read statements before.     *)
LEMMA StatusMoves ==
    ASSUME IInv, Next, NEW i \in Runs, run'[i].status # run[i].status
    PROVE  <<run[i].status, run'[i].status>> \in Transitions
<1>0. run \in [Runs -> RunRow]
  BY DEF IInv, StepsOK
<1> DEFINE Moves(k, from, to) ==
             /\ run[k].status \in from
             /\ \A j \in Runs : j # k => run'[j].status = run[j].status
             /\ run'[k].status = to
<1>1. CASE \E c \in Clients : Trigger(c) \/ Cancel(c) \/ ClientCrash(c)
  <2>1. PICK c \in Clients : Trigger(c) \/ Cancel(c) \/ ClientCrash(c)
    BY <1>1
  <2>2. CASE TriggerInsert(c)
    <3>1. FreshRun \in Runs /\ run[FreshRun].status = "none"
      BY <2>2, FreshRunIsFree DEF TriggerInsert
    <3>2. run' = [run EXCEPT ![FreshRun] = [status |-> "pending", retry |-> 0,
                                           old |-> FALSE, started |-> "never"]]
      BY <2>2 DEF TriggerInsert
    <3>3. Moves(FreshRun, {"none"}, "pending")
      BY <1>0, <3>1, <3>2
    <3> QED BY <3>3 DEF Transitions
  <2>3. CASE CancelUpdate(c)
    <3>1. PICK k \in Runs : /\ run[k].status \in {"pending", "running"}
                            /\ run' = [run EXCEPT ![k].status = "cancelled"]
      BY <2>3 DEF CancelUpdate, Cancellable
    <3>2. Moves(k, {"pending", "running"}, "cancelled")
      BY <1>0, <3>1 DEF RunRow
    <3> QED BY <3>2 DEF Transitions
  <2> QED BY <2>1, <2>2, <2>3
          DEF Trigger, Cancel, TriggerCheck, TriggerEnqueue, CancelRemove, ClientCrash
<1>2. CASE \E p \in Passes : Reconcile(p) \/ QueueError(p) \/ PassCrash(p)
  <2>1. PICK p \in Passes : Reconcile(p) \/ QueueError(p) \/ PassCrash(p)
    BY <1>2
  <2>2. CASE RetryFailed(p)
    <3>1. PICK x \in pass[p].rows :
            /\ run[x.id].status = "failed"
            /\ run' = [run EXCEPT ![x.id].status = "pending",
                                  ![x.id].retry = NextRetry(x.retry)]
      BY <2>2 DEF RetryFailed, StillFailed
    <3> DEFINE row == [run[x.id] EXCEPT !.status = "pending", !.retry = NextRetry(x.retry)]
    <3>2. x.id \in Runs
      BY PassFacts
    <3>3. row.status = "pending"
      BY <1>0, <3>2 DEF RunRow
    <3>4. run' = [run EXCEPT ![x.id] = row]
      BY Zenon, <3>1
    <3> HIDE DEF row
    <3>5. Moves(x.id, {"failed"}, "pending")
      BY <1>0, <3>1, <3>2, <3>3, <3>4
    <3> QED BY <3>5 DEF Transitions
  <2>3. CASE ExpireFailed(p)
    <3>1. run'[i] = IF ExpiredRow(i) THEN [run[i] EXCEPT !.status = "failed_permanent"]
                    ELSE run[i]
      BY <2>3 DEF ExpireFailed
    <3>2. run[i].status = "failed" /\ run'[i] = [run[i] EXCEPT !.status = "failed_permanent"]
      BY <3>1 DEF ExpiredRow
    <3>3. run'[i].status = "failed_permanent"
      BY <1>0, <3>2 DEF RunRow
    <3> QED BY <3>2, <3>3 DEF Transitions
  <2>4. CASE RetryStuck(p)
    <3> DEFINE k == pass[p].id  retry == NextRetry(pass[p].retry)
    <3>1. /\ run[k].status = "running"
          /\ \/ run' = [run EXCEPT ![k].status = "pending", ![k].retry = retry,
                                    ![k].started = "never"]
             \/ run' = [run EXCEPT ![k].status = "failed_permanent"]
      BY <2>4 DEF RetryStuck
    <3>2. k \in Runs
      BY <2>4, PassFacts DEF RetryStuck
    <3> HIDE DEF k, retry
    <3>3. run[k] \in RunRow
      BY <1>0, <3>2
    <3>4. CASE run' = [run EXCEPT ![k].status = "pending", ![k].retry = retry,
                                  ![k].started = "never"]
      <4> DEFINE row == [run[k] EXCEPT !.status = "pending", !.retry = retry,
                                       !.started = "never"]
      <4>1. row.status = "pending"
        BY <3>3 DEF RunRow
      <4>2. run' = [run EXCEPT ![k] = row]
        BY Zenon, <3>4
      <4> HIDE DEF row
      <4>3. Moves(k, {"running"}, "pending")
        BY <1>0, <3>1, <3>2, <4>1, <4>2
      <4> QED BY <4>3 DEF Transitions
    <3>5. CASE run' = [run EXCEPT ![k].status = "failed_permanent"]
      <4>1. Moves(k, {"running"}, "failed_permanent")
        BY <1>0, <3>1, <3>2, <3>5 DEF RunRow
      <4> QED BY <4>1 DEF Transitions
    <3> QED BY <3>1, <3>4, <3>5
  <2>5. CASE ~ (RetryFailed(p) \/ ExpireFailed(p) \/ RetryStuck(p))
    <3>1. UNCHANGED run
      BY <2>1, <2>5 DEF Reconcile, BeginPass, TakePending, SelectFailed, SelectStuck,
         CheckStuck, EndPass, GetJob, RemoveJob, AddJob, QueueError, PassCrash
    <3> QED BY <3>1
  <2> QED BY <2>2, <2>3, <2>4, <2>5
<1>3. CASE \E w \in Workers : Work(w) \/ WorkerCrash(w)
  <2>1. PICK w \in Workers : Work(w) \/ WorkerCrash(w)
    BY <1>3
  <2> DEFINE k == worker[w].id
  <2>2. CASE Claim(w)
    <3>1. /\ run[k].status = "pending"
          /\ run' = [run EXCEPT ![k].status = "running", ![k].started = "recently"]
      BY <2>2 DEF Claim
    <3>2. k \in Runs
      BY <2>2, WorkerFacts DEF Claim
    <3> DEFINE row == [run[k] EXCEPT !.status = "running", !.started = "recently"]
    <3>3. row.status = "running"
      BY <1>0, <3>2 DEF RunRow
    <3>4. run' = [run EXCEPT ![k] = row]
      BY Zenon, <3>1
    <3> HIDE DEF row, k
    <3>5. Moves(k, {"pending"}, "running")
      BY <1>0, <3>1, <3>2, <3>3, <3>4
    <3> QED BY <3>5 DEF Transitions
  <2>3. CASE Write(w) \/ MarkFailed(w)
    <3>1. PICK to \in {"completed", "failed"} :
            run[k].status = "running" /\ run' = [run EXCEPT ![k].status = to]
      BY <2>3 DEF Write, MarkFailed
    <3>2. k \in Runs
      BY <2>3, WorkerFacts DEF Write, MarkFailed
    <3> HIDE DEF k
    <3>3. Moves(k, {"running"}, to)
      BY <1>0, <3>1, <3>2 DEF RunRow
    <3> QED BY <3>3 DEF Transitions
  <2> QED BY <2>1, <2>2, <2>3 DEF Work, TakeJob, FinishJob, WorkerCrash
<1>4. CASE \E k \in Runs : StallOrphan(k) \/ StallSlow(k) \/ Age(k)
  <2>1. PICK k \in Runs : StallOrphan(k) \/ StallSlow(k) \/ Age(k)
    BY <1>4
  <2>2. CASE StallOrphan(k) \/ StallSlow(k)
    BY <2>2 DEF StallOrphan, StallSlow, Unlocked
  <2>3. CASE Age(k)
    <3>1. run' = [run EXCEPT ![k].old = TRUE] \/ run' = [run EXCEPT ![k].started = "long ago"]
      BY <2>3 DEF Age
    <3>2. run[k] \in RunRow
      BY <1>0
    <3>3. /\ [run[k] EXCEPT !.old = TRUE].status = run[k].status
          /\ [run[k] EXCEPT !.started = "long ago"].status = run[k].status
      BY <3>2 DEF RunRow
    <3>4. run'[i].status = run[i].status
      BY <1>0, <3>1, <3>3
    <3> QED BY <3>4
  <2> QED BY <2>1, <2>2, <2>3
<1> QED BY <1>1, <1>2, <1>3, <1>4 DEF Next

(* No step takes a run out of a final status or moves it in any way the    *)
(* documents do not list, although passes overlap and act on old rows.     *)
THEOREM StatusesMoveAsDocumented == Spec => OnlyTransitions
<1>1. IInv /\ [Next]_vars =>
        [\A i \in Runs : run'[i].status # run[i].status =>
                            <<run[i].status, run'[i].status>> \in Transitions]_vars
  BY StatusMoves
<1> QED BY <1>1, Invariance, PTL DEF Spec, OnlyTransitions
================================================================================
