---------------------------- MODULE Transactions -----------------------------
(***************************************************************************)
(* What every handler of the backend is built from: a request runs on a    *)
(* pooled connection, statement by statement; executeInTransaction opens a *)
(* transaction unless it was handed one, row locks are kept until it ends, *)
(* and an error anywhere rolls it back.  PostgreSQL is external.           *)
(*                                                                         *)
(* A module that extends this one declares its tables and writes them when *)
(* a transaction commits.  "needs" are the locks that the next statement   *)
(* of a request takes: it waits until no other transaction holds them.     *)
(***************************************************************************)
EXTENDS Integers, Sequences, FiniteSetsExt

CONSTANTS
    Requests,       \* request slots, each with a connection
    MaxRequests     \* bound: requests begun in a behaviour

ASSUME TransactionsConstants == MaxRequests \in Nat

VARIABLES
    begun,          \* number of requests begun
    pc,             \* the next statement of a request
    needs,          \* the locks it takes
    tx,             \* the local variables of the handler
    locks           \* the locks held

connections == <<begun, pc, needs, tx, locks>>

NoTx == [op |-> "none"]

-----------------------------------------------------------------------------
(* Mutant: rows of orders and views are not waited for.                    *)
FreeOrdersAndViews(r, x) ==
    x[1] \in {"order", "view"} \/ \A q \in Requests \ {r} : x \notin locks[q]
Free(r, x) == \A q \in Requests \ {r} : x \notin locks[q]

(* The next statement of r is "step", and its locks can be had.            *)
At(r, step) == pc[r] = step /\ \A x \in needs[r] : Free(r, x)

Begin(r, step, need, args) ==
    /\ pc[r] = "idle"
    /\ begun < MaxRequests
    /\ begun' = begun + 1
    /\ pc' = [pc EXCEPT ![r] = step]
    /\ needs' = [needs EXCEPT ![r] = need]
    /\ tx' = [tx EXCEPT ![r] = args]
    /\ UNCHANGED locks

(* The statement is executed and "step" is the next one.                   *)
Continue(r, step, need, args) ==
    /\ pc' = [pc EXCEPT ![r] = step]
    /\ locks' = [locks EXCEPT ![r] = @ \union needs[r]]
    /\ needs' = [needs EXCEPT ![r] = need]
    /\ tx' = [tx EXCEPT ![r] = args]
    /\ UNCHANGED begun

(* COMMIT and ROLLBACK.                                                    *)
End(r) ==
    /\ pc' = [pc EXCEPT ![r] = "idle"]
    /\ needs' = [needs EXCEPT ![r] = {}]
    /\ tx' = [tx EXCEPT ![r] = NoTx]
    /\ locks' = [locks EXCEPT ![r] = {}]
    /\ UNCHANGED begun

(* Any statement may fail: the handler's own checks that no table of the   *)
(* module decides, the connection, a document number, a journal.           *)
Fail(r) == pc[r] # "idle" /\ End(r)

(* A handler whose effect is one statement outside a transaction.          *)
Autocommit(r, x) ==
    /\ pc[r] = "idle"
    /\ begun < MaxRequests /\ begun' = begun + 1
    /\ Free(r, x)
    /\ UNCHANGED <<pc, needs, tx, locks>>

(* PostgreSQL aborts one of two transactions that wait for each other.     *)
(* With two connections every cycle is one of two.                         *)
WaitsFor(r, q) == r # q /\ needs[r] \intersect locks[q] # {}

(* Mutant: no deadlock detector.                                           *)
DeadlockVictimNever(r) == FALSE
DeadlockVictim(r) == (\E q \in Requests : WaitsFor(r, q) /\ WaitsFor(q, r)) /\ End(r)

NoRequests ==
    /\ pc = [r \in Requests |-> "idle"]
    /\ needs = [r \in Requests |-> {}]
    /\ tx = [r \in Requests |-> NoTx]
    /\ locks = [r \in Requests |-> {}]

(* A request that is not in progress holds nothing.                        *)
IdleHoldsNothing ==
    /\ begun \in 0 .. MaxRequests
    /\ \A r \in Requests : pc[r] = "idle" =>
         tx[r] = NoTx /\ needs[r] = {} /\ locks[r] = {}

(* Every request ends.                                                     *)
RequestsEnd == \A r \in Requests : pc[r] # "idle" ~> pc[r] = "idle"
=============================================================================
