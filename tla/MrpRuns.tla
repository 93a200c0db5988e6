------------------------------- MODULE MrpRuns -------------------------------
(***************************************************************************)
(* MRP runs of one tenant: MrpRunService (trigger, cancel), the minutely   *)
(* pass of MrpReconciliationService, the BullMQ queue and the Go worker.   *)
(*                                                                         *)
(* Nothing here runs in a transaction of several statements: every UPDATE  *)
(* of mrp_runs commits on its own, and PostgreSQL and Redis are written    *)
(* one after the other.  Every statement and every queue call is a step.   *)
(* The worker is not part of this repository; its steps are the contract   *)
(* docs/planning.md states for it, and the queue's are those of the calls  *)
(* the services make.                                                      *)
(***************************************************************************)
EXTENDS Integers, FiniteSets

CONSTANTS
    Clients,        \* requests that trigger or cancel runs
    Passes,         \* reconciliation passes that may overlap
    Workers,
    RetryLimit,     \* 3 in the code
    MaxRuns,        \* bound: rows of mrp_runs
    MaxFaults       \* bound: failed queue calls, crashes and lost job locks

Runs == 1 .. MaxRuns
NoRun == 0

ASSUME MrpConstants ==
    RetryLimit \in Nat /\ MaxRuns \in Nat /\ MaxFaults \in Nat

VARIABLES
    run,        \* mrp_runs
    planned,    \* the runs that have planned orders
    job,        \* the BullMQ job of each run: its id is made from the run's
    client,     \* what each request does next
    pass,       \* what each reconciliation pass does next
    worker,
    faults      \* faults so far

vars == <<run, planned, job, client, pass, worker, faults>>

Active == {i \in Runs : run[i].status \in {"pending", "running"}}

Fault == faults < MaxFaults /\ faults' = faults + 1

-----------------------------------------------------------------------------
(* The queue.                                                              *)

(* add() with the id of a job that exists does nothing.                    *)
Added(i) == IF job[i] = "none" THEN [job EXCEPT ![i] = "waiting"] ELSE job

(* remove() throws for a job that a worker has locked.                     *)
Removable(i) == job[i] # "active"

-----------------------------------------------------------------------------
(* MrpRunService.triggerRun                                                *)

IdleClient == [pc |-> "idle", id |-> NoRun]

(* The application's check, a statement of its own.                        *)
TriggerCheck(c) ==
    /\ client[c].pc = "idle"
    /\ Active = {}
    /\ client' = [client EXCEPT ![c].pc = "insert"]
    /\ UNCHANGED <<run, planned, job, pass, worker, faults>>

FreshRuns == {i \in Runs : run[i].status = "none"}
FreshRun == CHOOSE i \in FreshRuns : \A j \in FreshRuns : i <= j

IndexAllowsAlways == TRUE  \* Mutant: without the unique index.
(* idx_mrp_runs_one_active_per_tenant admits one more active row.          *)
IndexAllows == Active = {}

TriggerInsert(c) ==
    /\ client[c].pc = "insert"
    /\ FreshRuns # {}
    /\ IF IndexAllows
       THEN /\ run' = [run EXCEPT ![FreshRun] =
                         [status |-> "pending", retry |-> 0, old |-> FALSE,
                          started |-> "never"]]
            /\ client' = [client EXCEPT ![c] = [pc |-> "enqueue", id |-> FreshRun]]
       ELSE /\ client' = [client EXCEPT ![c] = IdleClient]
            /\ UNCHANGED run
    /\ UNCHANGED <<planned, job, pass, worker, faults>>

(* A queue failure leaves the run pending for the reconciliation.          *)
TriggerEnqueue(c) ==
    /\ client[c].pc = "enqueue"
    /\ client' = [client EXCEPT ![c] = IdleClient]
    /\ \/ job' = Added(client[c].id) /\ UNCHANGED faults
       \/ Fault /\ UNCHANGED job
    /\ UNCHANGED <<run, planned, pass, worker>>

-----------------------------------------------------------------------------
(* MrpRunService.cancel                                                    *)

(* Mutant: the status is read but not part of the UPDATE.                  *)
CancellableAlways(i) == run[i].status # "none"
Cancellable(i) == run[i].status \in {"pending", "running"}

CancelUpdate(c) ==
    /\ client[c].pc = "idle"
    /\ \E i \in Runs :
         /\ Cancellable(i)
         /\ run' = [run EXCEPT ![i].status = "cancelled"]
         /\ client' = [client EXCEPT ![c] = [pc |-> "remove", id |-> i]]
    /\ UNCHANGED <<planned, job, pass, worker, faults>>

(* getJob and remove; an error of either is ignored.                       *)
CancelRemove(c) ==
    LET i == client[c].id IN
    /\ client[c].pc = "remove"
    /\ client' = [client EXCEPT ![c] = IdleClient]
    /\ \/ /\ job' = IF Removable(i) THEN [job EXCEPT ![i] = "none"] ELSE job
          /\ UNCHANGED faults
       \/ Fault /\ UNCHANGED job
    /\ UNCHANGED <<run, planned, pass, worker>>

(* The process dies between two steps of a handler.                        *)
ClientCrash(c) ==
    /\ client[c].pc # "idle"
    /\ Fault
    /\ client' = [client EXCEPT ![c] = IdleClient]
    /\ UNCHANGED <<run, planned, job, pass, worker>>

-----------------------------------------------------------------------------
(* MrpReconciliationService.reconcileTenant: four loops, each over the     *)
(* rows its SELECT returned.  "call" is the step of the row in hand.       *)

IdlePass == [loop |-> "idle", rows |-> {}, call |-> "none", id |-> NoRun, retry |-> 0]

Rows(ids) == {[id |-> i, retry |-> run[i].retry] : i \in ids}
PendingRow(i) == run[i].status = "pending" /\ run[i].old
RetryableRow(i) == run[i].status = "failed" /\ run[i].retry < RetryLimit
ExpiredRow(i) == run[i].status = "failed" /\ run[i].retry >= RetryLimit
StuckRow(i) == run[i].status = "running" /\ run[i].started = "long ago"

Select(p, loop, rows) ==
    pass' = [pass EXCEPT ![p] = [IdlePass EXCEPT !.loop = loop, !.rows = rows]]
Call(p, call) == pass' = [pass EXCEPT ![p].call = call]
Between(p, loop) == pass[p].loop = loop /\ pass[p].call = "none"

BeginPass(p) ==
    /\ pass[p].loop = "idle"
    /\ Select(p, "pending", Rows({i \in Runs : PendingRow(i)}))
    /\ UNCHANGED <<run, planned, job, client, worker, faults>>

Take(p, x, call) ==
    pass' = [pass EXCEPT ![p].rows = @ \ {x}, ![p].call = call,
                         ![p].id = x.id, ![p].retry = x.retry]

TakePending(p) ==
    /\ Between(p, "pending")
    /\ \E x \in pass[p].rows : Take(p, x, "get")
    /\ UNCHANGED <<run, planned, job, client, worker, faults>>

SelectFailed(p) ==
    /\ Between(p, "pending") /\ pass[p].rows = {}
    /\ Select(p, "failed", Rows({i \in Runs : RetryableRow(i)}))
    /\ UNCHANGED <<run, planned, job, client, worker, faults>>

(* Mutant: the UPDATE names the id only.                                   *)
NextRetry(retry) == retry + 1
StillFailedAlways(i) == TRUE
StillFailed(i) == run[i].status = "failed"

(* UPDATE ... WHERE status = 'failed'.  When another run is active the     *)
(* unique index refuses it, and the error ends the pass.                   *)
RetryFailed(p) ==
    /\ Between(p, "failed")
    /\ \E x \in pass[p].rows :
         IF ~ StillFailed(x.id)
         THEN Take(p, x, "none") /\ UNCHANGED run
         ELSE IF IndexAllows
         THEN /\ run' = [run EXCEPT ![x.id].status = "pending",
                                    ![x.id].retry = NextRetry(x.retry)]
              /\ Take(p, x, "get")
         ELSE Select(p, "idle", {}) /\ UNCHANGED run
    /\ UNCHANGED <<planned, job, client, worker, faults>>

ExpireFailed(p) ==
    /\ Between(p, "failed") /\ pass[p].rows = {}
    /\ run' = [i \in Runs |-> IF ExpiredRow(i)
                              THEN [run[i] EXCEPT !.status = "failed_permanent"]
                              ELSE run[i]]
    /\ Select(p, "expired", {})
    /\ UNCHANGED <<planned, job, client, worker, faults>>

SelectStuck(p) ==
    /\ Between(p, "expired")
    /\ Select(p, "stuck", Rows({i \in Runs : StuckRow(i)}))
    /\ UNCHANGED <<run, planned, job, client, worker, faults>>

(* A run whose job is active only raises an alert.  An error of the queue  *)
(* is not caught here: it ends the pass.                                   *)
CheckStuck(p) ==
    /\ Between(p, "stuck")
    /\ \/ /\ \E x \in pass[p].rows :
               Take(p, x, IF job[x.id] = "active" THEN "none" ELSE "update")
          /\ UNCHANGED faults
       \/ pass[p].rows # {} /\ Fault /\ Select(p, "idle", {})
    /\ UNCHANGED <<run, planned, job, client, worker>>

RetriesLeft(retry) == retry <= RetryLimit

(* UPDATE ... WHERE status = 'running', with the count of the SELECT.      *)
RetryStuck(p) ==
    LET i == pass[p].id  retry == NextRetry(pass[p].retry) IN
    /\ pass[p].call = "update"
    /\ IF run[i].status # "running"
       THEN Call(p, "none") /\ UNCHANGED run
       ELSE IF RetriesLeft(retry)
       THEN /\ run' = [run EXCEPT ![i].status = "pending", ![i].retry = retry,
                                  ![i].started = "never"]
            /\ Call(p, "get")
       ELSE /\ run' = [run EXCEPT ![i].status = "failed_permanent"]
            /\ Call(p, "none")
    /\ UNCHANGED <<planned, job, client, worker, faults>>

EndPass(p) ==
    /\ Between(p, "stuck") /\ pass[p].rows = {}
    /\ Select(p, "idle", {})
    /\ UNCHANGED <<run, planned, job, client, worker, faults>>

(* ensureQueued: getJob and getState, then remove, then add.  Mutant: a    *)
(* job that has finished counts as queued.                                 *)
QueuedAlready(state) == state # "none"
Queued(state) == state \in {"waiting", "active"}

GetJob(p) ==
    LET i == pass[p].id IN
    /\ pass[p].call = "get"
    /\ Call(p, CASE Queued(job[i]) -> "none"
                 [] job[i] = "none" -> "add"
                 [] OTHER -> "remove")
    /\ UNCHANGED <<run, planned, job, client, worker, faults>>

RemoveJob(p) ==
    LET i == pass[p].id IN
    /\ pass[p].call = "remove"
    /\ IF Removable(i)
       THEN Call(p, "add") /\ job' = [job EXCEPT ![i] = "none"]
       ELSE Call(p, "none") /\ UNCHANGED job
    /\ UNCHANGED <<run, planned, client, worker, faults>>

AddJob(p) ==
    /\ pass[p].call = "add"
    /\ Call(p, "none")
    /\ job' = Added(pass[p].id)
    /\ UNCHANGED <<run, planned, client, worker, faults>>

(* An error of any of the three is caught and logged.                      *)
QueueError(p) ==
    /\ pass[p].call \in {"get", "remove", "add"}
    /\ Fault
    /\ Call(p, "none")
    /\ UNCHANGED <<run, planned, job, client, worker>>

PassCrash(p) ==
    /\ pass[p].loop # "idle"
    /\ Fault
    /\ Select(p, "idle", {})
    /\ UNCHANGED <<run, planned, job, client, worker>>

-----------------------------------------------------------------------------
(* The worker: takes a job its run, calculates, writes the planned *)
(* orders or marks the run failed, and finishes the job.                   *)

IdleWorker == [pc |-> "idle", id |-> NoRun, lost |-> FALSE]

TakeJob(w) ==
    /\ worker[w].pc = "idle"
    /\ \E i \in Runs :
         /\ job[i] = "waiting"
         /\ job' = [job EXCEPT ![i] = "active"]
         /\ worker' = [worker EXCEPT ![w] = [pc |-> "claim", id |-> i, lost |-> FALSE]]
    /\ UNCHANGED <<run, planned, client, pass, faults>>

Claim(w) ==
    LET i == worker[w].id IN
    /\ worker[w].pc = "claim"
    /\ IF run[i].status = "pending"
       THEN /\ run' = [run EXCEPT ![i].status = "running", ![i].started = "recently"]
            /\ worker' = [worker EXCEPT ![w].pc = "calculate"]
       ELSE /\ worker' = [worker EXCEPT ![w].pc = "finish"]
            /\ UNCHANGED run
    /\ UNCHANGED <<planned, job, client, pass, faults>>

(* The writer's transaction: the guard, the planned orders, "completed".   *)
Write(w) ==
    LET i == worker[w].id IN
    /\ worker[w].pc = "calculate"
    /\ IF run[i].status = "running"
       THEN /\ planned' = planned \union {i}
            /\ run' = [run EXCEPT ![i].status = "completed"]
       ELSE UNCHANGED <<planned, run>>
    /\ worker' = [worker EXCEPT ![w].pc = "finish"]
    /\ UNCHANGED <<job, client, pass, faults>>

MarkFailed(w) ==
    LET i == worker[w].id IN
    /\ worker[w].pc = "calculate"
    /\ run' = IF run[i].status = "running"
              THEN [run EXCEPT ![i].status = "failed"] ELSE run
    /\ worker' = [worker EXCEPT ![w].pc = "finish"]
    /\ UNCHANGED <<planned, job, client, pass, faults>>

(* A worker that lost its lock cannot move the job.                        *)
FinishJob(w) ==
    /\ worker[w].pc = "finish"
    /\ job' = IF worker[w].lost THEN job
              ELSE [job EXCEPT ![worker[w].id] = "finished"]
    /\ worker' = [worker EXCEPT ![w] = IdleWorker]
    /\ UNCHANGED <<run, planned, client, pass, faults>>

WorkerCrash(w) ==
    /\ worker[w].pc # "idle"
    /\ Fault
    /\ worker' = [worker EXCEPT ![w] = IdleWorker]
    /\ UNCHANGED <<run, planned, job, client, pass>>

Owners(i) == {w \in Workers : worker[w].id = i /\ ~ worker[w].lost}
Unlocked(i) ==
    /\ job[i] = "active"
    /\ job' \in {[job EXCEPT ![i] = s] : s \in {"waiting", "finished"}}
    /\ worker' = [w \in Workers |-> IF w \in Owners(i)
                                    THEN [worker[w] EXCEPT !.lost = TRUE] ELSE worker[w]]
    /\ UNCHANGED <<run, planned, client, pass>>

(* The queue finds the lock of an active job expired: its worker is gone,  *)
(* or too slow to renew it.                                                *)
StallOrphan(i) == Owners(i) = {} /\ Unlocked(i) /\ UNCHANGED faults
StallSlow(i) == Owners(i) # {} /\ Unlocked(i) /\ Fault

-----------------------------------------------------------------------------
(* Time: a pending run becomes older than 30 seconds, a running one starts *)
(* to count as stuck after 5 minutes.                                      *)

Age(i) ==
    /\ run[i].status # "none"
    /\ \/ ~ run[i].old /\ run' = [run EXCEPT ![i].old = TRUE]
       \/ /\ run[i].started = "recently"
          /\ run' = [run EXCEPT ![i].started = "long ago"]
    /\ UNCHANGED <<planned, job, client, pass, worker, faults>>

-----------------------------------------------------------------------------
Init ==
    /\ run = [i \in Runs |-> [status |-> "none", retry |-> 0, old |-> FALSE,
                              started |-> "never"]]
    /\ planned = {}
    /\ job = [i \in Runs |-> "none"]
    /\ client = [c \in Clients |-> IdleClient]
    /\ pass = [p \in Passes |-> IdlePass]
    /\ worker = [w \in Workers |-> IdleWorker]
    /\ faults = 0

Trigger(c) == TriggerCheck(c) \/ TriggerInsert(c) \/ TriggerEnqueue(c)
Cancel(c) == CancelUpdate(c) \/ CancelRemove(c)

Reconcile(p) ==
    \/ BeginPass(p) \/ TakePending(p)
    \/ SelectFailed(p) \/ RetryFailed(p) \/ ExpireFailed(p)
    \/ SelectStuck(p) \/ CheckStuck(p) \/ RetryStuck(p) \/ EndPass(p)
    \/ GetJob(p) \/ RemoveJob(p) \/ AddJob(p)

Work(w) == TakeJob(w) \/ Claim(w) \/ Write(w) \/ MarkFailed(w) \/ FinishJob(w)

Next ==
    \/ \E c \in Clients : Trigger(c) \/ Cancel(c) \/ ClientCrash(c)
    \/ \E p \in Passes : Reconcile(p) \/ QueueError(p) \/ PassCrash(p)
    \/ \E w \in Workers : Work(w) \/ WorkerCrash(w)
    \/ \E i \in Runs : StallOrphan(i) \/ StallSlow(i) \/ Age(i)

Spec == Init /\ [][Next]_vars

-----------------------------------------------------------------------------
Statuses == {"none", "pending", "running", "completed", "failed",
             "failed_permanent", "cancelled"}
Row == [id : Runs, retry : Nat]

TypeOK ==
    /\ run \in [Runs -> [status : Statuses, retry : 0 .. RetryLimit,
                         old : BOOLEAN, started : {"never", "recently", "long ago"}]]
    /\ planned \subseteq Runs
    /\ job \in [Runs -> {"none", "waiting", "active", "finished"}]
    /\ client \in [Clients -> [pc : {"idle", "insert", "enqueue", "remove"},
                               id : Runs \union {NoRun}]]
    /\ \A p \in Passes :
         /\ pass[p].loop \in {"idle", "pending", "failed", "expired", "stuck"}
         /\ pass[p].call \in {"none", "get", "remove", "add", "update"}
         /\ pass[p].rows \subseteq Row
    /\ worker \in [Workers -> [pc : {"idle", "claim", "calculate", "finish"},
                               id : Runs \union {NoRun}, lost : BOOLEAN]]
    /\ faults \in 0 .. MaxFaults

(* A tenant never has two active runs, whether a trigger races a trigger   *)
(* or the retry of an older run, and every row keeps its type: a pass      *)
(* never stores a retry beyond the limit.                                  *)
OneActiveRun == TypeOK /\ Cardinality(Active) <= 1

(* The statuses move only along the transitions docs/planning.md 4.2 and   *)
(* 4.6 list, although a pass acts on rows it read statements earlier and   *)
(* passes overlap: no step takes a run out of a final status.              *)
Transitions ==
    {<<"none", "pending">>, <<"pending", "running">>, <<"pending", "cancelled">>,
     <<"running", "completed">>, <<"running", "failed">>, <<"running", "cancelled">>,
     <<"failed", "pending">>, <<"failed", "failed_permanent">>,
     <<"running", "pending">>, <<"running", "failed_permanent">>}
OnlyTransitions ==
    [][\A i \in Runs : run'[i].status # run[i].status =>
                         <<run[i].status, run'[i].status>> \in Transitions]_vars

(* Planned orders exist exactly for completed runs: a cancel that races    *)
(* the writer leaves either a cancelled run without them or a conflict.    *)
PlannedIffCompleted == planned = {i \in Runs : run[i].status = "completed"}

(***************************************************************************)
(* The inductive invariant behind OneActiveRun, PlannedIffCompleted and    *)
(* OnlyTransitions: a handler, a pass or a worker that is under way has    *)
(* the id of a row, and the rows a pass holds for retrying were below the  *)
(* limit when it read them.                                                *)
(***************************************************************************)
RunRow == [status : Statuses, retry : 0 .. RetryLimit, old : BOOLEAN,
           started : {"never", "recently", "long ago"}]
ClientStep ==
    {c \in [pc : {"idle", "insert", "enqueue", "remove"}, id : Runs \union {NoRun}] :
       c.pc \in {"enqueue", "remove"} => c.id \in Runs}
PassStep ==
    {p \in [loop : {"idle", "pending", "failed", "expired", "stuck"},
            rows : SUBSET Row, call : {"none", "get", "remove", "add", "update"},
            id : Runs \union {NoRun}, retry : Nat] :
       /\ p.loop = "failed" => \A x \in p.rows : x.retry < RetryLimit
       /\ p.call # "none" => p.id \in Runs}
WorkerStep ==
    {w \in [pc : {"idle", "claim", "calculate", "finish"},
            id : Runs \union {NoRun}, lost : BOOLEAN] :
       w.pc # "idle" => w.id \in Runs}

StepsOK ==
    /\ run \in [Runs -> RunRow]
    /\ job \in [Runs -> {"none", "waiting", "active", "finished"}]
    /\ client \in [Clients -> ClientStep]
    /\ pass \in [Passes -> PassStep]
    /\ worker \in [Workers -> WorkerStep]
    /\ faults \in 0 .. MaxFaults
AtMostOneActive == \A i, j \in Active : i = j

IInv == StepsOK /\ AtMostOneActive /\ PlannedIffCompleted

Ended(i) == run[i].status \in {"completed", "cancelled", "failed_permanent"}
=============================================================================
