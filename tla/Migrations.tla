------------------------------ MODULE Migrations ------------------------------
(***************************************************************************)
(* The start of the backend: MigrationService.onModuleInit and then        *)
(* BootstrapAdminService, on one or more instances of it that start, crash *)
(* and start again at any time, over one database.                         *)
(*                                                                         *)
(* A migration file is a number in the order of its name; its content does *)
(* not change (a changed one is refused by its checksum).  Most files ask  *)
(* for what they create IF NOT EXISTS and can be executed again, others    *)
(* fail then.                                                              *)
(***************************************************************************)
EXTENDS Integers, FiniteSets

CONSTANTS
    Instances,
    Public,         \* the public schema
    TenantSchemas,  \* the schemas of the active tenants
    Files,          \* [schemas -> number of files]
    OnceOnly,       \* <<schema, file>> that fail when executed again
    Seed,           \* <<schema, file>>: 006_seed_admin.sql
    MaxCrashes      \* bound: crashes in a behaviour

Schemas == {Public} \union TenantSchemas
Migration == UNION {{s} \X (1 .. Files[s]) : s \in Schemas}

ASSUME MigrationsConstants ==
    /\ Public \notin TenantSchemas
    /\ Files \in [Schemas -> Nat \ {0}]
    /\ OnceOnly \subseteq Migration /\ Seed \in Migration \ OnceOnly
    /\ MaxCrashes \in Nat

VARIABLES
    instance,       \* step of each instance, its schema and file
    recorded,       \* rows of migration_history of each file
    executed,       \* how often the statements of each file are committed
    roles,          \* rows "Super Administrator" of the seeded tenant
    crashes

migrationVars == <<instance, recorded, executed, roles, crashes>>

-----------------------------------------------------------------------------
Down == [step |-> "down", schema |-> Public, file |-> 1, left |-> {}]

Goes(i, step) == instance' = [instance EXCEPT ![i].step = step]
Current(i) == <<instance[i].schema, instance[i].file>>

(* The locks of the objects a file creates, until COMMIT.                  *)
Busy(i) ==
    \E j \in Instances \ {i} : Current(j) = Current(i) /\ instance[j].step \in {"record", "commit"}

(* runPublicMigrations, first of all.  Mutant: nobody waits for it.        *)
StartAnywhere(i) ==
    /\ instance[i].step = "down"
    /\ \E s \in Schemas :
         instance' = [instance EXCEPT ![i] = [Down EXCEPT !.step = "check", !.schema = s]]
    /\ UNCHANGED <<recorded, executed, roles, crashes>>
Start(i) ==
    /\ instance[i].step = "down"
    /\ instance' = [instance EXCEPT ![i] = [Down EXCEPT !.step = "check"]]
    /\ UNCHANGED <<recorded, executed, roles, crashes>>

(* applyMigration looks for the file in migration_history.  Mutant: it     *)
(* does not look.                                                          *)
RecordedNever(m) == FALSE
Recorded(m) == recorded[m] > 0

(* After the last file of a schema the next active tenant's turn comes.    *)
Advance(i) ==
    LET s == instance[i].schema
        left == IF s = Public THEN TenantSchemas ELSE instance[i].left
    IN
    IF instance[i].file < Files[s]
    THEN instance' = [instance EXCEPT ![i].file = @ + 1, ![i].step = "check"]
    ELSE IF left = {} THEN Goes(i, "bootstrap")
    ELSE \E t \in left :
           instance' = [instance EXCEPT ![i] = [step |-> "check", schema |-> t, file |-> 1,
                                                left |-> left \ {t}]]

Check(i) ==
    /\ instance[i].step = "check"
    /\ IF Recorded(Current(i)) THEN Advance(i) ELSE Goes(i, "execute")
    /\ UNCHANGED <<recorded, executed, roles, crashes>>

(* BEGIN and the statements of the file.  What another instance creates at *)
(* the same time is waited for.                                            *)
Execute(i) ==
    /\ instance[i].step = "execute"
    /\ ~ Busy(i)
    /\ Goes(i, IF Current(i) \in OnceOnly /\ executed[Current(i)] > 0 THEN "failed" ELSE "record")
    /\ UNCHANGED <<recorded, executed, roles, crashes>>

(* INSERT INTO migration_history: the table has no unique constraint.      *)
Record(i) ==
    /\ instance[i].step = "record"
    /\ Goes(i, "commit")
    /\ UNCHANGED <<recorded, executed, roles, crashes>>

(* The seed finds its tenant again; nothing tells it that the role is      *)
(* there.                                                                  *)
Commit(i) ==
    LET m == Current(i) IN
    /\ instance[i].step = "commit"
    /\ recorded' = [recorded EXCEPT ![m] = @ + 1]
    /\ executed' = [executed EXCEPT ![m] = @ + 1]
    /\ roles' = IF m = Seed THEN roles + 1 ELSE roles
    /\ Advance(i)
    /\ UNCHANGED crashes

(* ROLLBACK of the file in progress.  Mutant: its statements were          *)
(* committed one by one.                                                   *)
RolledBackPartly(i) ==
    IF instance[i].step \in {"record", "commit"}
    THEN executed' = [executed EXCEPT ![Current(i)] = @ + 1] ELSE UNCHANGED executed
RolledBack(i) == UNCHANGED executed

(* An error ends the process: a statement that cannot be executed again,   *)
(* or one that meets the same statement of another instance.               *)
Exit(i) ==
    /\ instance[i].step = "failed" \/ (instance[i].step = "execute" /\ Busy(i))
    /\ instance' = [instance EXCEPT ![i] = Down]
    /\ RolledBack(i)
    /\ UNCHANGED <<recorded, roles, crashes>>

(* The process ends, or its connection does, at any other moment.          *)
Crash(i) ==
    /\ crashes < MaxCrashes
    /\ instance[i].step # "down"
    /\ instance' = [instance EXCEPT ![i] = Down]
    /\ crashes' = crashes + 1
    /\ RolledBack(i)
    /\ UNCHANGED <<recorded, roles>>

(* BootstrapAdminService, configured: exactly one row of the role, and     *)
(* then the administrator is inserted or found.                            *)
Bootstrap(i) ==
    /\ instance[i].step = "bootstrap"
    /\ Goes(i, IF roles = 1 THEN "up" ELSE "failed")
    /\ UNCHANGED <<recorded, executed, roles, crashes>>

-----------------------------------------------------------------------------
(* A database that earlier releases, or starts that were cut short, have   *)
(* brought to some files: an empty one, or the first files of each schema. *)
(* The first public file of all creates the table of the tenants.  This    *)
(* release may bring new files to the public schema and to the tenants.    *)
Database(released) ==
    /\ instance = [i \in Instances |-> Down]
    /\ recorded = [m \in Migration |-> IF m \in released THEN 1 ELSE 0]
    /\ executed = recorded
    /\ roles = IF Seed \in released THEN 1 ELSE 0
    /\ crashes = 0
Lower(m) == {m[1]} \X (1 .. m[2] - 1)
Releases == {R \in SUBSET Migration :
               \A m \in R : Lower(m) \subseteq R /\ (m[1] # Public => <<Public, 1>> \in R)}

(* What a start executes before a file.                                    *)
Before(m) ==
    Lower(m) \union (IF m[1] = Public THEN {} ELSE {Public} \X (1 .. Files[Public]))

Proceeds(i) ==
    \/ Start(i) \/ Check(i) \/ Execute(i) \/ Record(i) \/ Commit(i) \/ Bootstrap(i)
    \/ Exit(i)

MigrationInit == \E released \in Releases : Database(released)

MigrationNext == \E i \in Instances : Proceeds(i) \/ Crash(i)

MigrationSpec == MigrationInit /\ [][MigrationNext]_migrationVars

-----------------------------------------------------------------------------
InstanceRow ==
    [step : {"down", "check", "execute", "record", "commit", "failed", "bootstrap", "up"},
     schema : Schemas, file : Nat, left : SUBSET TenantSchemas]
MigrationTypeOK ==
    /\ instance \in [Instances -> InstanceRow]
    /\ \A i \in Instances : Current(i) \in Migration
    /\ {recorded, executed} \subseteq [Migration -> Nat]
    /\ roles \in Nat /\ crashes \in 0 .. MaxCrashes

(* Whatever crashes, the history tells what the database contains: a file  *)
(* is recorded as often as it was executed, one that cannot be executed    *)
(* again at most once, none without those of its schema with a lower       *)
(* number; and an instance that is up has found every file there, on an    *)
(* empty database and after any upgrade.  The tables keep their types.     *)
HistoryIsTrue ==
    /\ MigrationTypeOK
    /\ recorded = executed
    /\ \A m \in OnceOnly : executed[m] <= 1
    /\ \A m \in Migration : executed[m] > 0 => \A n \in Lower(m) : executed[n] > 0
    /\ \A i \in Instances : instance[i].step = "up" =>
         \A m \in Migration : executed[m] > 0

(* A file takes effect only after those it comes after: all the public     *)
(* files, those that are new in this release too, are there before any     *)
(* more of a tenant's, although the database may have tenants already,     *)
(* instances start together and each may crash and begin again.            *)
FilesInOrder ==
    [][\A m \in Migration : executed'[m] > executed[m] =>
          \A n \in Before(m) : executed[n] > 0]_executed

(***************************************************************************)
(* The inductive invariant behind HistoryIsTrue: what an instance has      *)
(* passed was executed, and who has executed a file and not committed it   *)
(* keeps the others from executing it.                                     *)
(***************************************************************************)
InFile(i) == instance[i].step \in {"check", "execute", "record", "commit"}
Uncommitted(i) == instance[i].step \in {"record", "commit"}
Passed(i) ==
    IF instance[i].step \in {"bootstrap", "up"} THEN Migration
    ELSE Before(Current(i))
           \union {m \in Migration : /\ m[1] # Public /\ instance[i].schema # Public
                                    /\ m[1] \notin instance[i].left \union {instance[i].schema}}

HasExecuted(i) ==
    InFile(i) \/ instance[i].step \in {"bootstrap", "up"} =>
      \A m \in Passed(i) : executed[m] > 0
Alone(i) ==
    Uncommitted(i) =>
      /\ Current(i) \in OnceOnly => executed[Current(i)] = 0
      /\ \A j \in Instances \ {i} : Uncommitted(j) => Current(j) # Current(i)

MigrationInv == HistoryIsTrue /\ \A i \in Instances : HasExecuted(i) /\ Alone(i)
=============================================================================
