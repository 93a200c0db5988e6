------------------------------ MODULE MCMrpRuns ------------------------------
(***************************************************************************)
(* Small instances of MrpRuns: one run that two overlapping passes look    *)
(* after, from its trigger to its end; a run that failed once and a second *)
(* one, with one pass at a time; or two clients that trigger and cancel    *)
(* runs, next to a worker and without a pass.                              *)
(***************************************************************************)
EXTENDS MrpRuns

CONSTANTS
    OneClient,      \* the client there is with a pass
    OnePass         \* the pass there is with two runs

VARIABLE
    scope           \* bound: what a behaviour is about

mcVars == <<vars, scope>>

(* Triggered, claimed, failed by its worker; the job is finished.          *)
FailedOnce ==
    /\ run = [i \in Runs |->
         [status |-> IF i = 1 THEN "failed" ELSE "none", retry |-> 0, old |-> FALSE,
          started |-> IF i = 1 THEN "recently" ELSE "never"]]
    /\ planned = {}
    /\ job = [i \in Runs |-> IF i = 1 THEN "finished" ELSE "none"]
    /\ client = [c \in Clients |-> IdleClient]
    /\ pass = [p \in Passes |-> IdlePass]
    /\ worker = [w \in Workers |-> IdleWorker]
    /\ faults = 0

Scoped ==
    /\ scope = "two passes" => run'[2].status = "none"
    /\ scope = "two runs" => /\ \A p \in Passes \ {OnePass} : pass'[p] = IdlePass
                            /\ faults' = 0
    /\ scope = "two clients" => pass' = pass /\ faults' = 0
    /\ scope # "two clients" => \A c \in Clients \ {OneClient} : client'[c] = IdleClient
    /\ UNCHANGED scope

(* The cron starts a pass every minute and a pass runs to its end, workers *)
(* keep taking jobs, the queue notices expired locks and time passes.  No  *)
(* request has to arrive and none has to finish; faults are finitely many. *)
ScopedFairness ==
    /\ \A p \in Passes : WF_mcVars(Reconcile(p) /\ Scoped)
    /\ \A w \in Workers : WF_mcVars(Work(w) /\ Scoped)
    /\ \A i \in Runs : WF_mcVars(StallOrphan(i) /\ Scoped) /\ WF_mcVars(Age(i) /\ Scoped)

ScopedSpec ==
    /\ \/ Init /\ scope \in {"two passes", "two clients"}
       \/ FailedOnce /\ scope = "two runs"
    /\ [][Next /\ Scoped]_mcVars
    /\ ScopedFairness

(* A run that is the only one ends, although the queue, a process or a     *)
(* worker may fail at a bad moment: completed, cancelled or, out of        *)
(* retries, failed.  With two, a failed run that cannot become pending     *)
(* again ends every pass before it comes to the other one.                 *)
OnlyRunEnds == scope = "two passes" /\ run[1].status # "none" ~> Ended(1)
=============================================================================
