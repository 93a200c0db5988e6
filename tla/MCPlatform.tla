------------------------------ MODULE MCPlatform ------------------------------
(***************************************************************************)
(* Small instances of what the tenants share: the start of the backend     *)
(* (Migrations), and then the pool of one instance (TenantConnections).    *)
(* The two have nothing in common but the search_path that the migrations  *)
(* leave: a behaviour is of one or the other.                              *)
(***************************************************************************)
EXTENDS TenantConnections, Migrations

CONSTANTS TenantSchema

VARIABLE phase

vars == <<poolVars, migrationVars, phase>>

TwoAndThree == [s \in {Public, TenantSchema} |-> IF s = Public THEN 2 ELSE 3]
SeedFile == <<Public, 2>>
Unguarded == {<<Public, 1>>, <<TenantSchema, 1>>, <<TenantSchema, 2>>}

Init ==
    \/ phase = "start" /\ MigrationInit /\ client = ClosedPool /\ NoCalls
    \/ phase = "serve" /\ Database({}) /\ PoolInit

Serving(A) == phase = "serve" /\ A /\ UNCHANGED <<migrationVars, phase>>
Starting(A) == phase = "start" /\ A /\ UNCHANGED <<poolVars, phase>>
Next == Serving(PoolNext) \/ Starting(MigrationNext)

(* PostgreSQL answers every statement or the connection fails, a handler   *)
(* comes to its end, and the timer of the pool fires; a process that ended *)
(* is started again.                                                       *)
Fairness ==
    /\ \A c \in Callers : WF_vars(Serving(Proceed(c)))
    /\ \A i \in Instances : WF_vars(Starting(Proceeds(i)))

PlatformSpec == Init /\ [][Next]_vars /\ Fairness

(* Every instance starts in the end, and again whenever it crashed or met  *)
(* another one at a file, unless the seed was executed twice: then the     *)
(* bootstrap finds two roles, on every instance and for ever.              *)
EveryInstanceStarts ==
    phase = "start" => \A i \in Instances : []<>(instance[i].step = "up" \/ roles > 1)
=============================================================================
