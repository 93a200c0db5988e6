--------------------------- MODULE StandaloneProofs ----------------------------
(***************************************************************************)
(* Proofs about the components that share no table with another one.       *)
(* First what the tenants share, for every number of clients, callers,     *)
(* tenants, instances and files: the history of the migrations is true     *)
(* whatever crashes (Migrations), a statement of a request means the       *)
(* tables of its own tenant and no client is lost (TenantConnections).     *)
(* Then, inside a tenant, the fiscal calendar and the bank, the papers     *)
(* before an order, and quality control (Paperwork).                       *)
(***************************************************************************)
EXTENDS TenantConnections, Migrations, Paperwork, Sums, SequenceTheorems

-----------------------------------------------------------------------------
(* Migrations: the files and their order.                                  *)

LEMMA CurrentOf ==
  ASSUME NEW s \in Schemas, NEW n \in 1 .. Files[s]
  PROVE  <<s, n>> \in Migration
BY DEF Migration

LEMMA MigrationParts ==
  ASSUME NEW m \in Migration
  PROVE  /\ m[1] \in Schemas /\ m[2] \in 1 .. Files[m[1]] /\ m = <<m[1], m[2]>>
         /\ Files[m[1]] \in Nat
BY MigrationsConstants DEF Migration

LEMMA BeforeFiles ==
  ASSUME NEW m \in Migration
  PROVE  Lower(m) \subseteq Before(m) /\ Before(m) \subseteq Migration
<1>1. /\ m[1] \in Schemas /\ m[2] \in 1 .. Files[m[1]] /\ Files[m[1]] \in Nat
  BY MigrationParts
<1>2. {m[1]} \X (1 .. m[2] - 1) \subseteq {m[1]} \X (1 .. Files[m[1]])
  BY <1>1
<1>3. Public \in Schemas
  BY DEF Schemas
<1> QED BY <1>1, <1>2, <1>3 DEF Before, Lower, Migration

(* The files up to and including m, when there is one after it.            *)
LEMMA BeforeNext ==
  ASSUME NEW s, NEW n \in Nat \ {0}
  PROVE  Before(<<s, n + 1>>) = Before(<<s, n>>) \union {<<s, n>>}
<1>1. 1 .. (n + 1) - 1 = (1 .. n - 1) \union {n}
  OBVIOUS
<1>2. {s} \X ((1 .. n - 1) \union {n}) = ({s} \X (1 .. n - 1)) \union {<<s, n>>}
  OBVIOUS
<1> QED BY <1>1, <1>2 DEF Before, Lower

(* What one schema after another leaves behind: the next file of an        *)
(* instance has everything before it executed.                             *)
LEMMA AdvancePasses ==
  ASSUME MigrationInv, NEW i \in Instances, InFile(i), Advance(i),
         executed' \in [Migration -> Nat],
         \A m \in Migration : executed[m] > 0 => executed'[m] > 0,
         executed'[Current(i)] > 0
  PROVE  /\ instance' = [instance EXCEPT ![i] = instance'[i]]
         /\ instance'[i] \in InstanceRow /\ Current(i)' \in Migration
         /\ HasExecuted(i)'
         /\ instance'[i].step \in {"check", "bootstrap"}
<1> DEFINE a == instance[i]
           s == a.schema
           n == a.file
           b == instance'[i]
           rest == IF s = Public THEN TenantSchemas ELSE a.left
<1>1. /\ instance \in [Instances -> InstanceRow] /\ a \in InstanceRow
      /\ Current(i) \in Migration /\ HasExecuted(i)
  BY DEF MigrationInv, HistoryIsTrue, MigrationTypeOK
<1>2. /\ s \in Schemas /\ n \in 1 .. Files[s] /\ Files[s] \in Nat
      /\ a.step \in {"check", "execute", "record", "commit"}
  BY <1>1, MigrationParts DEF Current, InFile
<1>3. \A m \in Before(<<s, n>>) \union {<<s, n>>} : executed'[m] > 0
  <2>1. \A m \in Before(<<s, n>>) : executed[m] > 0 /\ m \in Migration
    BY <1>1, <1>2, BeforeFiles DEF HasExecuted, Passed, Current
  <2> QED BY <2>1 DEF Current
<1>4. \A m \in Migration : m[1] # Public /\ s # Public
         /\ m[1] \notin a.left \union {s} => executed'[m] > 0
  BY <1>1, <1>2 DEF HasExecuted, Passed
<1>5. Public \in Schemas /\ \A x \in Schemas : x # Public => x \in TenantSchemas
  BY DEF Schemas
<1>6. CASE n < Files[s]
  <2>1. instance' = [instance EXCEPT ![i] = [a EXCEPT !.file = n + 1, !.step = "check"]]
    BY <1>6 DEF Advance
  <2>2. b = [a EXCEPT !.file = n + 1, !.step = "check"]
    BY <1>1, <2>1
  <2>3. /\ b.step = "check" /\ b.schema = s /\ b.file = n + 1 /\ b.left = a.left
    BY <1>1, <2>2 DEF InstanceRow
  <2>7. b \in InstanceRow
    <3>1. n + 1 \in Nat
      BY <1>2
    <3> QED BY <1>1, <2>2, <3>1 DEF InstanceRow
  <2>4. <<b.schema, b.file>> \in Migration
    BY <1>2, <1>6, <2>3, CurrentOf
  <2>5. HasExecuted(i)'
    <3>1. Before(<<b.schema, b.file>>) = Before(<<s, n>>) \union {<<s, n>>}
      BY <1>2, <2>3, BeforeNext
    <3>2. Passed(i)' = Before(<<b.schema, b.file>>)
             \union {m \in Migration : /\ m[1] # Public /\ b.schema # Public
                                     /\ m[1] \notin b.left \union {b.schema}}
      BY <2>3 DEF Passed, Current
    <3>3. \A m \in Passed(i)' : executed'[m] > 0
      BY <1>3, <1>4, <2>3, <3>1, <3>2
    <3> QED BY <3>3 DEF HasExecuted
  <2> QED BY <1>1, <2>1, <2>2, <2>3, <2>4, <2>5, <2>7 DEF Current
<1>7. CASE ~ (n < Files[s])
  <2>1. n = Files[s]
    BY <1>2, <1>7
  <2>2. \A m \in Migration : m[1] = s => executed'[m] > 0
    <3>1. SUFFICES ASSUME NEW m \in Migration, m[1] = s PROVE executed'[m] > 0
      OBVIOUS
    <3>2. m = <<s, m[2]>> /\ m[2] \in 1 .. n
      BY <2>1, <3>1, MigrationParts
    <3>3. m[2] \in 1 .. n - 1 \/ m[2] = n
      BY <1>2, <3>2
    <3>4. m \in Before(<<s, n>>) \union {<<s, n>>}
      BY <3>2, <3>3 DEF Before, Lower
    <3> QED BY <1>3, <3>4
  <2>3. \A m \in Migration : m[1] = Public => executed'[m] > 0
    <3>1. SUFFICES ASSUME NEW m \in Migration, m[1] = Public, s # Public
                   PROVE  executed'[m] > 0
      BY <2>2
    <3>2. m = <<Public, m[2]>> /\ m[2] \in 1 .. Files[Public]
      BY <3>1, MigrationParts
    <3>3. m \in Before(<<s, n>>)
      BY <3>1, <3>2 DEF Before
    <3> QED BY <1>3, <3>3
  <2>4. \A m \in Migration : m[1] \notin rest => executed'[m] > 0
    <3>1. SUFFICES ASSUME NEW m \in Migration, m[1] \notin rest
                   PROVE  executed'[m] > 0
      OBVIOUS
    <3>2. m[1] \in Schemas
      BY MigrationParts
    <3>3. CASE m[1] = Public \/ m[1] = s
      BY <2>2, <2>3, <3>3
    <3>4. CASE m[1] # Public /\ m[1] # s
      BY <1>4, <1>5, <3>1, <3>2, <3>4
    <3> QED BY <3>3, <3>4
  <2>5. CASE rest = {}
    <3>1. instance' = [instance EXCEPT ![i].step = "bootstrap"]
      BY <1>7, <2>5 DEF Advance, Goes
    <3>2. b = [a EXCEPT !.step = "bootstrap"]
      BY <1>1, <3>1
    <3>3. /\ b.step = "bootstrap" /\ b.schema = s /\ b.file = n /\ b \in InstanceRow
      BY <1>1, <3>2 DEF InstanceRow
    <3>4. instance' = [instance EXCEPT ![i] = b]
      BY <1>1, <3>1, <3>2
    <3>5. HasExecuted(i)'
      <4>1. Passed(i)' = Migration
        BY <3>3 DEF Passed, Migration, Schemas
      <4> QED BY <2>4, <2>5, <4>1 DEF HasExecuted
    <3> QED BY <1>1, <3>3, <3>4, <3>5 DEF Current
  <2>6. CASE rest # {}
    <3>1. PICK t \in rest :
            instance' = [instance EXCEPT ![i] = [step |-> "check", schema |-> t, file |-> 1,
                                                 left |-> rest \ {t}]]
      BY <1>7, <2>6 DEF Advance
    <3>2. b = [step |-> "check", schema |-> t, file |-> 1, left |-> rest \ {t}]
      BY <1>1, <3>1
    <3>3. t \in TenantSchemas /\ rest \subseteq TenantSchemas /\ t \in Schemas /\ t # Public
      BY <1>1, MigrationsConstants DEF InstanceRow, Schemas
    <3>4. /\ b.step = "check" /\ b.schema = t /\ b.file = 1 /\ b.left = rest \ {t}
          /\ b \in InstanceRow
      BY <3>2, <3>3 DEF InstanceRow
    <3>5. <<b.schema, b.file>> \in Migration
      BY <3>3, <3>4, CurrentOf, MigrationsConstants
    <3>6. HasExecuted(i)'
      <4>1. Passed(i)' = Before(<<t, 1>>)
               \union {m \in Migration : m[1] # Public /\ t # Public /\ m[1] \notin b.left \union {t}}
        BY <3>4 DEF Passed, Current
      <4>2. \A m \in Before(<<t, 1>>) : m \in Migration /\ m[1] = Public
        <5>1. \A m \in Before(<<t, 1>>) : m[1] = Public
          BY DEF Before, Lower
        <5> QED BY <3>4, <3>5, <5>1, BeforeFiles
      <4>3. \A m \in Passed(i)' : executed'[m] > 0
        BY <2>3, <2>4, <3>4, <4>1, <4>2
      <4> QED BY <4>3 DEF HasExecuted
    <3> QED BY <1>1, <3>1, <3>2, <3>4, <3>5, <3>6 DEF Current
  <2> QED BY <2>5, <2>6
<1> QED BY <1>2, <1>6, <1>7

LEMMA OwnMigrationInv ==
  ASSUME MigrationInv
  PROVE  /\ MigrationTypeOK /\ recorded = executed
         /\ \A i \in Instances : /\ instance[i] \in InstanceRow /\ Current(i) \in Migration
                                 /\ HasExecuted(i) /\ Alone(i)
BY DEF MigrationInv, HistoryIsTrue, MigrationTypeOK

(* A step of one instance that commits nothing.                            *)
LEMMA InstanceStep ==
  ASSUME MigrationInv, NEW i \in Instances,
         instance' = [instance EXCEPT ![i] = instance'[i]],
         instance'[i] \in InstanceRow, Current(i)' \in Migration,
         UNCHANGED <<recorded, executed, roles>>, crashes' \in 0 .. MaxCrashes,
         HasExecuted(i)', Alone(i)'
  PROVE  MigrationInv'
<1>1. /\ MigrationTypeOK /\ instance \in [Instances -> InstanceRow]
      /\ \A j \in Instances : HasExecuted(j) /\ Alone(j) /\ Current(j) \in Migration
  BY OwnMigrationInv DEF MigrationTypeOK
<1>2. instance' \in [Instances -> InstanceRow]
  BY <1>1
<1>3. \A j \in Instances \ {i} : instance'[j] = instance[j]
  BY <1>1
<1>4. \A j \in Instances \ {i} : /\ Current(j)' = Current(j) /\ Passed(j)' = Passed(j)
                                 /\ Uncommitted(j)' = Uncommitted(j) /\ InFile(j)' = InFile(j)
  BY <1>3 DEF Current, Passed, Uncommitted, InFile
<1>5. MigrationTypeOK'
  BY <1>1, <1>2, <1>4 DEF MigrationTypeOK
<1>6. \A j \in Instances \ {i} : HasExecuted(j)'
  BY <1>1, <1>3, <1>4 DEF HasExecuted
<1>7. \A j \in Instances \ {i} : Alone(j)'
  BY <1>1, <1>4 DEF Alone
<1>8. HistoryIsTrue'
  <2>1. \A j \in Instances : instance'[j].step = "up" => \A m \in Migration : executed'[m] > 0
    BY <1>6 DEF HasExecuted, Passed
  <2>2. \A m \in Migration : Lower(m)' = Lower(m)
    BY DEF Lower
  <2> QED BY <1>5, <2>1, <2>2 DEF MigrationInv, HistoryIsTrue
<1> QED BY <1>6, <1>7, <1>8 DEF MigrationInv

(* One that goes on within its file or ends.                               *)
LEMMA GoesStep ==
  ASSUME MigrationInv, NEW i \in Instances,
         NEW step \in {"execute", "record", "commit", "failed", "up"},
         instance' = [instance EXCEPT ![i].step = step],
         UNCHANGED <<recorded, executed, roles, crashes>>,
         \/ step = "failed"
         \/ InFile(i) /\ step # "up"
         \/ instance[i].step = "bootstrap" /\ step = "up",
         step \in {"record", "commit"} =>
           \/ Uncommitted(i)
           \/ /\ ~ Busy(i)
              /\ Current(i) \in OnceOnly => executed[Current(i)] = 0
  PROVE  MigrationInv'
<1>1. /\ instance \in [Instances -> InstanceRow] /\ instance[i] \in InstanceRow
      /\ Current(i) \in Migration /\ HasExecuted(i) /\ Alone(i)
      /\ crashes \in 0 .. MaxCrashes
  BY OwnMigrationInv DEF MigrationTypeOK
<1>2. /\ instance' = [instance EXCEPT ![i] = instance'[i]]
      /\ instance'[i] = [instance[i] EXCEPT !.step = step]
  BY <1>1
<1>3. /\ instance'[i] \in InstanceRow /\ instance'[i].step = step
      /\ instance'[i].schema = instance[i].schema
      /\ instance'[i].file = instance[i].file /\ instance'[i].left = instance[i].left
  BY <1>1, <1>2 DEF InstanceRow
<1>4. Current(i)' = Current(i)
  BY <1>3 DEF Current
<1>5. HasExecuted(i)'
  <2>1. step = "up" => Passed(i) = Migration /\ Passed(i)' = Migration
    BY <1>3 DEF Passed, InFile
  <2>2. step # "up" /\ InFile(i) => Passed(i)' = Passed(i)
    BY <1>3, <1>4 DEF Passed, InFile
  <2> QED BY <1>1, <1>3, <2>1, <2>2 DEF HasExecuted, InFile
<1>6. Alone(i)'
  <2>1. \A j \in Instances \ {i} :
          Current(j)' = Current(j) /\ Uncommitted(j)' = Uncommitted(j)
    BY <1>1, <1>2 DEF Current, Uncommitted
  <2>2. Uncommitted(i)' => step \in {"record", "commit"}
    BY <1>3 DEF Uncommitted
  <2> QED BY <1>1, <1>4, <2>1, <2>2 DEF Alone, Busy, Uncommitted
<1>7. crashes' \in 0 .. MaxCrashes
  BY <1>1
<1> QED BY <1>1, <1>2, <1>3, <1>4, <1>5, <1>6, <1>7, InstanceStep

(* It starts at the first public file, or is down there.                   *)
LEMMA FirstFile ==
  /\ <<Public, 1>> \in Migration /\ Down \in InstanceRow
  /\ Before(<<Public, 1>>) = {}
<1>1. Public \in Schemas /\ 1 \in 1 .. Files[Public]
  BY MigrationsConstants DEF Schemas
<1> QED BY <1>1, CurrentOf DEF Down, InstanceRow, Before, Lower

LEMMA DownStep ==
  ASSUME MigrationInv, NEW i \in Instances, NEW step \in {"down", "check"},
         instance' = [instance EXCEPT ![i] = [Down EXCEPT !.step = step]],
         UNCHANGED <<recorded, executed, roles>>, crashes' \in 0 .. MaxCrashes
  PROVE  MigrationInv'
<1>1. instance \in [Instances -> InstanceRow]
  BY OwnMigrationInv DEF MigrationTypeOK
<1>2. /\ instance'[i] = [Down EXCEPT !.step = step]
      /\ instance' = [instance EXCEPT ![i] = instance'[i]]
  BY <1>1
<1>3. /\ instance'[i].step = step /\ instance'[i].schema = Public
      /\ instance'[i].file = 1 /\ instance'[i] \in InstanceRow
  BY <1>2, FirstFile DEF Down, InstanceRow
<1>4. Current(i)' = <<Public, 1>>
  BY <1>3 DEF Current
<1>5. Passed(i)' = {}
  BY <1>3, <1>4, FirstFile DEF Passed
<1>6. HasExecuted(i)' /\ Alone(i)'
  BY <1>3, <1>5 DEF HasExecuted, Alone, Uncommitted
<1> QED BY <1>2, <1>3, <1>4, <1>6, FirstFile, InstanceStep

LEMMA CheckHistory ==
  ASSUME MigrationInv, NEW i \in Instances, Check(i)
  PROVE  MigrationInv'
<1>1. /\ Current(i) \in Migration /\ recorded = executed /\ MigrationTypeOK
      /\ InFile(i)
  BY OwnMigrationInv DEF Check, InFile
<1>2. CASE Recorded(Current(i))
  <2>1. Advance(i) /\ executed[Current(i)] > 0 /\ UNCHANGED <<recorded, executed, roles, crashes>>
    BY <1>1, <1>2 DEF Check, Recorded
  <2>2. executed' \in [Migration -> Nat] /\ crashes' \in 0 .. MaxCrashes
    BY <1>1, <2>1 DEF MigrationTypeOK
  <2>3. /\ instance' = [instance EXCEPT ![i] = instance'[i]]
        /\ instance'[i] \in InstanceRow /\ Current(i)' \in Migration
        /\ HasExecuted(i)' /\ instance'[i].step \in {"check", "bootstrap"}
    BY <1>1, <2>1, <2>2, AdvancePasses
  <2>4. Alone(i)'
    BY <2>3 DEF Alone, Uncommitted
  <2> QED BY <2>1, <2>2, <2>3, <2>4, InstanceStep
<1>3. CASE ~ Recorded(Current(i))
  <2>1. /\ instance' = [instance EXCEPT ![i].step = "execute"]
        /\ UNCHANGED <<recorded, executed, roles, crashes>>
    BY <1>3 DEF Check, Goes
  <2> QED BY <1>1, <2>1, GoesStep
<1> QED BY <1>2, <1>3

LEMMA ExecuteHistory ==
  ASSUME MigrationInv, NEW i \in Instances, Execute(i)
  PROVE  MigrationInv'
<1>1. /\ InFile(i) /\ ~ Busy(i) /\ UNCHANGED <<recorded, executed, roles, crashes>>
      /\ executed \in [Migration -> Nat] /\ Current(i) \in Migration
  BY OwnMigrationInv DEF Execute, InFile, MigrationTypeOK
<1>2. CASE Current(i) \in OnceOnly /\ executed[Current(i)] > 0
  <2>1. instance' = [instance EXCEPT ![i].step = "failed"]
    BY <1>2 DEF Execute, Goes
  <2> QED BY <1>1, <2>1, GoesStep
<1>3. CASE ~ (Current(i) \in OnceOnly /\ executed[Current(i)] > 0)
  <2>1. /\ instance' = [instance EXCEPT ![i].step = "record"]
    BY <1>3 DEF Execute, Goes
  <2>2. Current(i) \in OnceOnly => executed[Current(i)] = 0
    BY <1>1, <1>3
  <2> HIDE <1>3
  <2> QED BY <1>1, <2>1, <2>2, GoesStep
<1> QED BY <1>2, <1>3

(* COMMIT: nobody else is at this file, and everything before it is there. *)
LEMMA CommitHistory ==
  ASSUME MigrationInv, NEW i \in Instances, Commit(i)
  PROVE  MigrationInv'
<1> DEFINE m == Current(i)
<1>1. /\ MigrationTypeOK /\ recorded = executed /\ instance \in [Instances -> InstanceRow]
      /\ m \in Migration /\ HasExecuted(i) /\ Alone(i)
      /\ executed \in [Migration -> Nat]
      /\ \A j \in Instances : HasExecuted(j) /\ Alone(j) /\ Current(j) \in Migration
  BY OwnMigrationInv DEF MigrationTypeOK
<1>2. InFile(i) /\ Uncommitted(i) /\ instance[i].step = "commit"
  BY DEF Commit, InFile, Uncommitted
<1>3. /\ executed' = [executed EXCEPT ![m] = @ + 1] /\ recorded' = executed'
      /\ Advance(i) /\ crashes' = crashes
      /\ roles' = IF m = Seed THEN roles + 1 ELSE roles
  BY <1>1 DEF Commit
<1>4. /\ executed' \in [Migration -> Nat] /\ executed'[m] = executed[m] + 1
      /\ \A n \in Migration \ {m} : executed'[n] = executed[n]
      /\ \A n \in Migration : executed[n] > 0 => executed'[n] > 0
      /\ executed'[m] > 0
  BY <1>1, <1>3
<1>5. /\ instance' = [instance EXCEPT ![i] = instance'[i]]
      /\ instance'[i] \in InstanceRow /\ Current(i)' \in Migration
      /\ HasExecuted(i)' /\ instance'[i].step \in {"check", "bootstrap"}
  BY <1>2, <1>3, <1>4, AdvancePasses
<1> HIDE DEF m
<1>6. \A j \in Instances \ {i} : instance'[j] = instance[j]
  BY <1>1, <1>5
<1>7. \A j \in Instances \ {i} : /\ Current(j)' = Current(j) /\ Passed(j)' = Passed(j)
                                 /\ Uncommitted(j)' = Uncommitted(j) /\ InFile(j)' = InFile(j)
  BY <1>6 DEF Current, Passed, Uncommitted, InFile
<1>8. MigrationTypeOK'
  <2>1. instance' \in [Instances -> InstanceRow]
    BY <1>1, <1>5
  <2>2. \A j \in Instances : Current(j)' \in Migration
    BY <1>1, <1>5, <1>7
  <2>3. roles' \in Nat /\ crashes' \in 0 .. MaxCrashes
    BY <1>1, <1>3 DEF MigrationTypeOK
  <2> QED BY <1>3, <1>4, <2>1, <2>2, <2>3 DEF MigrationTypeOK
<1>9. ASSUME NEW j \in Instances \ {i}
      PROVE  HasExecuted(j)' /\ Alone(j)'
  <2>1. HasExecuted(j)'
    <3>1. \A n \in Passed(j) : n \in Migration
      BY <1>1, BeforeFiles DEF Passed
    <3> QED BY <1>1, <1>4, <1>6, <1>7, <3>1 DEF HasExecuted
  <2>2. Uncommitted(j) => Current(j) # m
    BY <1>1, <1>2 DEF Alone, m
  <2>3. ~ Uncommitted(i)'
    BY <1>5 DEF Uncommitted
  <2>4. Uncommitted(j) => executed'[Current(j)] = executed[Current(j)]
    BY <1>1, <1>4, <2>2
  <2>5. Alone(j)'
    BY <1>1, <1>7, <2>3, <2>4 DEF Alone
  <2> QED BY <2>1, <2>5
<1>10. Alone(i)'
  BY <1>5 DEF Alone, Uncommitted
<1>11. \A n \in OnceOnly : executed'[n] <= 1
  <2>1. m \in OnceOnly => executed[m] = 0
    BY <1>1, <1>2 DEF Alone, m
  <2>2. \A n \in OnceOnly : executed[n] <= 1 /\ n \in Migration
    BY MigrationsConstants DEF MigrationInv, HistoryIsTrue
  <2> QED BY <1>4, <2>1, <2>2
<1>12. \A n \in Migration : executed'[n] > 0 => \A k \in Lower(n) : executed'[k] > 0
  <2>1. SUFFICES ASSUME NEW n \in Migration, executed'[n] > 0, NEW k \in Lower(n)
                 PROVE  executed'[k] > 0
    OBVIOUS
  <2>2. k \in Before(n) /\ k \in Migration
    BY <2>1, BeforeFiles
  <2>3. CASE n = m
    <3>1. k \in Passed(i)
      BY <1>2, <2>2, <2>3 DEF Passed, m
    <3> QED BY <1>1, <1>2, <1>4, <2>2, <3>1 DEF HasExecuted
  <2>4. CASE n # m
    <3>1. executed[n] > 0
      BY <1>4, <2>1, <2>4
    <3>2. executed[k] > 0
      BY <3>1 DEF MigrationInv, HistoryIsTrue
    <3> QED BY <1>4, <2>2, <3>2
  <2> QED BY <2>3, <2>4
<1>13. \A j \in Instances : instance'[j].step = "up" => \A n \in Migration : executed'[n] > 0
  BY <1>5, <1>9 DEF HasExecuted, Passed
<1>14. HistoryIsTrue'
  <2>1. \A n \in Migration : Lower(n)' = Lower(n)
    BY DEF Lower
  <2> QED BY <1>3, <1>8, <1>11, <1>12, <1>13, <2>1 DEF HistoryIsTrue
<1> QED BY <1>5, <1>9, <1>10, <1>14 DEF MigrationInv

LEMMA StartHistory == MigrationInit => MigrationInv
<1> SUFFICES ASSUME MigrationInit PROVE MigrationInv
  OBVIOUS
<1>1. PICK R \in Releases : Database(R)
  BY DEF MigrationInit
<1>2. /\ instance = [i \in Instances |-> Down] /\ recorded = executed
      /\ executed = [m \in Migration |-> IF m \in R THEN 1 ELSE 0]
      /\ roles \in Nat /\ crashes = 0
  BY <1>1 DEF Database
<1>3. R \subseteq Migration /\ \A m \in R : Lower(m) \subseteq R
  BY DEF Releases
<1>4. \A i \in Instances : instance[i].step = "down" /\ Current(i) = <<Public, 1>>
  BY <1>2 DEF Down, Current
<1>5. MigrationTypeOK
  BY <1>2, <1>4, FirstFile, MigrationsConstants DEF MigrationTypeOK
<1>6. HistoryIsTrue
  BY <1>2, <1>3, <1>4, <1>5, MigrationsConstants DEF HistoryIsTrue
<1>7. \A i \in Instances : HasExecuted(i) /\ Alone(i)
  BY <1>4 DEF HasExecuted, Alone, InFile, Uncommitted
<1> QED BY <1>6, <1>7 DEF MigrationInv

LEMMA NextHistory == MigrationInv /\ [MigrationNext]_migrationVars => MigrationInv'
<1> SUFFICES ASSUME MigrationInv, [MigrationNext]_migrationVars PROVE MigrationInv'
  OBVIOUS
<1>0. crashes \in 0 .. MaxCrashes
  BY OwnMigrationInv DEF MigrationTypeOK
<1>1. ASSUME NEW i \in Instances, Start(i) PROVE MigrationInv'
  <2>1. /\ instance' = [instance EXCEPT ![i] = [Down EXCEPT !.step = "check"]]
        /\ UNCHANGED <<recorded, executed, roles, crashes>>
    BY <1>1 DEF Start
  <2> QED BY <1>0, <2>1, DownStep
<1>2. ASSUME NEW i \in Instances, Exit(i) \/ Crash(i) PROVE MigrationInv'
  <2>1. /\ instance' = [instance EXCEPT ![i] = Down]
        /\ UNCHANGED <<recorded, executed, roles>> /\ crashes' \in 0 .. MaxCrashes
    BY <1>0, <1>2, MigrationsConstants DEF Exit, Crash, RolledBack
  <2>2. Down = [Down EXCEPT !.step = "down"]
    BY DEF Down
  <2> QED BY <2>1, <2>2, DownStep
<1>3. ASSUME NEW i \in Instances, Record(i) PROVE MigrationInv'
  <2>1. /\ instance' = [instance EXCEPT ![i].step = "commit"]
        /\ UNCHANGED <<recorded, executed, roles, crashes>>
        /\ InFile(i) /\ Uncommitted(i)
    BY <1>3 DEF Record, Goes, InFile, Uncommitted
  <2> QED BY <2>1, GoesStep
<1>4. ASSUME NEW i \in Instances, Bootstrap(i) PROVE MigrationInv'
  <2>1. /\ instance[i].step = "bootstrap"
        /\ UNCHANGED <<recorded, executed, roles, crashes>>
    BY <1>4 DEF Bootstrap
  <2>2. CASE roles = 1
    <3>1. instance' = [instance EXCEPT ![i].step = "up"]
      BY <1>4, <2>2 DEF Bootstrap, Goes
    <3> QED BY <2>1, <3>1, GoesStep
  <2>3. CASE roles # 1
    <3>1. instance' = [instance EXCEPT ![i].step = "failed"]
      BY <1>4, <2>3 DEF Bootstrap, Goes
    <3> QED BY <2>1, <3>1, GoesStep
  <2> QED BY <2>2, <2>3
<1>5. CASE UNCHANGED migrationVars
  BY <1>5 DEF migrationVars, MigrationInv, HistoryIsTrue, MigrationTypeOK, HasExecuted, Alone,
     Passed, Current, InFile, Uncommitted, Before, Lower
<1> QED
  BY <1>1, <1>2, <1>3, <1>4, <1>5, CheckHistory, ExecuteHistory, CommitHistory
  DEF MigrationNext, Proceeds

(* From an empty database and in any upgrade, however often instances      *)
(* start, crash and meet: a file is recorded exactly when it was executed, *)
(* in each schema never before those with a lower number, once only if it  *)
(* cannot be repeated, and an instance that is up has them all.            *)
THEOREM HistoryStaysTrue == MigrationSpec => []HistoryIsTrue
<1>1. MigrationInv => HistoryIsTrue
  BY DEF MigrationInv
<1> QED BY <1>1, StartHistory, NextHistory, PTL DEF MigrationSpec

(* A step that executes a file is the COMMIT of an instance that has       *)
(* passed all the files before it.                                         *)
InOrder == \A m \in Migration : executed'[m] > executed[m] =>
              \A n \in Before(m) : executed[n] > 0

LEMMA CommitInOrder == ASSUME MigrationInv, NEW i \in Instances, Commit(i) PROVE InOrder
<1>1. /\ executed \in [Migration -> Nat] /\ Current(i) \in Migration /\ HasExecuted(i)
      /\ instance[i].step = "commit"
  BY OwnMigrationInv DEF MigrationTypeOK, Commit
<1>2. executed' = [executed EXCEPT ![Current(i)] = @ + 1]
  BY DEF Commit
<1>3. ASSUME NEW m \in Migration, executed'[m] > executed[m], NEW n \in Before(m)
      PROVE  executed[n] > 0
  <2>1. m = Current(i)
    BY <1>1, <1>2, <1>3
  <2>2. InFile(i) /\ n \in Passed(i)
    BY <1>1, <1>3, <2>1 DEF InFile, Passed
  <2> QED BY <1>1, <2>2 DEF HasExecuted
<1> QED BY <1>3 DEF InOrder

LEMMA NextInOrder ==
  ASSUME MigrationInv, [MigrationNext]_migrationVars
  PROVE  [InOrder]_executed
<1>1. ASSUME NEW i \in Instances, ~ Commit(i), Proceeds(i) \/ Crash(i)
      PROVE  executed' = executed
  BY <1>1 DEF Proceeds, Start, Check, Execute, Record, Bootstrap, Exit, Crash, RolledBack
<1> QED BY <1>1, CommitInOrder DEF MigrationNext, migrationVars

(* New public files take effect before a tenant's next one, although the   *)
(* tenants of an upgraded database have files already.                     *)
THEOREM FilesGoInOrder == MigrationSpec => FilesInOrder
<1>1. MigrationInv /\ [MigrationNext]_migrationVars => [InOrder]_executed
  BY NextInOrder
<1>2. MigrationSpec => [][InOrder]_executed
  BY <1>1, StartHistory, NextHistory, PTL DEF MigrationSpec
<1> QED BY <1>2 DEF FilesInOrder, InOrder

-----------------------------------------------------------------------------
(* TenantConnections: the queue of the pool.                               *)

Queued(q, c) == \E n \in DOMAIN q : q[n] = c
Queue(q) == q \in Seq(Callers) /\ \A m, n \in DOMAIN q : q[m] = q[n] => m = n

LEMMA QueueAppend ==
  ASSUME NEW q, Queue(q), NEW c \in Callers, ~ Queued(q, c)
  PROVE  /\ Queue(Append(q, c))
         /\ \A d \in Callers : Queued(Append(q, c), d) <=> (d = c \/ Queued(q, d))
<1>1. q \in Seq(Callers) /\ Len(q) \in Nat /\ DOMAIN q = 1 .. Len(q)
  BY DEF Queue
<1>2. /\ Append(q, c) \in Seq(Callers) /\ Len(Append(q, c)) = Len(q) + 1
      /\ \A n \in 1 .. Len(q) : Append(q, c)[n] = q[n]
      /\ Append(q, c)[Len(q) + 1] = c
  BY <1>1, AppendProperties
<1>3. DOMAIN Append(q, c) = 1 .. Len(q) + 1
  BY <1>1, <1>2
<1> HIDE DEF Queue
<1>4. \A m, n \in 1 .. Len(q) : q[m] = q[n] => m = n
  BY <1>1 DEF Queue
<1>5. \A n \in 1 .. Len(q) : q[n] # c
  BY <1>1 DEF Queued
<1>6. \A n \in 1 .. Len(q) + 1 : n \in 1 .. Len(q) \/ n = Len(q) + 1
  BY <1>1
<1> DEFINE a == Append(q, c)
<1>7. a \in Seq(Callers) /\ DOMAIN a = 1 .. Len(q) + 1
  BY <1>2, <1>3
<1>8. \A n \in 1 .. Len(q) : a[n] = q[n]
  BY <1>2
<1>9. a[Len(q) + 1] = c
  BY <1>2
<1> HIDE DEF a
<1>10. Queue(a)
  BY <1>4, <1>5, <1>6, <1>7, <1>8, <1>9 DEF Queue
<1>11. \A d \in Callers : Queued(a, d) <=> (d = c \/ Queued(q, d))
  BY <1>1, <1>6, <1>7, <1>8, <1>9 DEF Queued
<1> QED BY <1>10, <1>11 DEF a

(* A queue without its n-th member: the head when it is served, any other  *)
(* when its time is out.                                                   *)
Without(q, n) == SubSeq(q, 1, n - 1) \o SubSeq(q, n + 1, Len(q))

LEMMA QueueRemove ==
  ASSUME NEW q, Queue(q), NEW n \in DOMAIN q
  PROVE  /\ Queue(Without(q, n))
         /\ \A d \in Callers : Queued(Without(q, n), d) <=> (d # q[n] /\ Queued(q, d))
<1> DEFINE N == Len(q)
           s == SubSeq(q, 1, n - 1)
           t == SubSeq(q, n + 1, N)
           w == s \o t
<1>1. /\ q \in Seq(Callers) /\ N \in Nat /\ DOMAIN q = 1 .. N
      /\ n \in 1 .. N
  BY DEF Queue
<1>2. /\ s \in Seq(Callers) /\ Len(s) = n - 1
      /\ \A k \in 1 .. n - 1 : s[k] = q[k]
  BY <1>1, SubSeqProperties
<1>3. /\ t \in Seq(Callers) /\ Len(t) = N - n
      /\ \A k \in 1 .. N - n : t[k] = q[n + k]
  <2>1. t \in Seq(Callers) /\ Len(t) = IF n + 1 <= N THEN N - (n + 1) + 1 ELSE 0
    BY <1>1, SubSeqProperties
  <2>2. Len(t) = N - n
    BY <1>1, <2>1
  <2>3. \A k \in 1 .. Len(t) : t[k] = q[n + 1 + k - 1]
    BY <1>1, SubSeqProperties
  <2>4. \A k \in 1 .. N - n : n + 1 + k - 1 = n + k
    BY <1>1
  <2> HIDE DEF t
  <2> QED BY <2>1, <2>2, <2>3, <2>4
<1> HIDE DEF s, t
<1>4. /\ w \in Seq(Callers) /\ Len(w) = N - 1
      /\ \A k \in 1 .. N - 1 : w[k] = IF k <= n - 1 THEN s[k] ELSE t[k - (n - 1)]
  <2>1. /\ s \o t \in Seq(Callers) /\ Len(s \o t) = Len(s) + Len(t)
        /\ \A k \in 1 .. Len(s) + Len(t) :
             (s \o t)[k] = IF k <= Len(s) THEN s[k] ELSE t[k - Len(s)]
    BY <1>2, <1>3, ConcatProperties
  <2>2. Len(s) + Len(t) = N - 1
    BY <1>1, <1>2, <1>3
  <2> HIDE DEF N
  <2> QED BY <1>2, <2>1, <2>2
<1> HIDE DEF w
<1>5. DOMAIN w = 1 .. N - 1
  <2>1. DOMAIN w = 1 .. Len(w)
    BY <1>4
  <2> QED BY <1>4, <2>1
<1>6. \A k \in 1 .. N - 1 : w[k] = IF k < n THEN q[k] ELSE q[k + 1]
  <2>1. SUFFICES ASSUME NEW k \in 1 .. N - 1
                 PROVE  w[k] = IF k < n THEN q[k] ELSE q[k + 1]
    OBVIOUS
  <2>2. CASE k < n
    <3>1. k \in 1 .. n - 1 /\ k <= n - 1
      BY <1>1, <2>2
    <3>2. s[k] = q[k]
      BY <1>2, <3>1
    <3>3. w[k] = s[k]
      BY <1>4, <3>1
    <3> QED BY <2>2, <3>2, <3>3
  <2>3. CASE ~ (k < n)
    <3>1. k - (n - 1) \in 1 .. N - n /\ n + (k - (n - 1)) = k + 1
      BY <1>1, <2>3
    <3>2. t[k - (n - 1)] = q[k + 1]
      BY <1>3, <3>1
    <3> QED BY <1>1, <1>4, <2>3, <3>2
  <2> QED BY <2>2, <2>3
<1> HIDE DEF N
<1>7. \A i, j \in 1 .. N : q[i] = q[j] => i = j
  BY <1>1 DEF Queue
<1>8. Queue(w)
  <2>1. ASSUME NEW i \in 1 .. N - 1, NEW j \in 1 .. N - 1, w[i] = w[j] PROVE i = j
    <3>1. /\ i \in 1 .. N /\ i + 1 \in 1 .. N /\ j \in 1 .. N /\ j + 1 \in 1 .. N
      BY <1>1
    <3> QED BY <1>1, <1>6, <1>7, <2>1, <3>1
  <2> QED BY <1>4, <1>5, <2>1 DEF Queue
<1>9. ASSUME NEW d \in Callers
      PROVE  Queued(w, d) <=> (d # q[n] /\ Queued(q, d))
  <2>1. ASSUME NEW k \in 1 .. N - 1, w[k] = d PROVE d # q[n] /\ Queued(q, d)
    <3>1. k \in 1 .. N /\ k + 1 \in 1 .. N
      BY <1>1
    <3>2. PICK i \in 1 .. N : q[i] = d /\ i # n
      BY <1>1, <1>6, <2>1, <3>1
    <3> QED BY <1>1, <1>7, <3>2 DEF Queued
  <2>2. ASSUME NEW i \in 1 .. N, q[i] = d, d # q[n] PROVE Queued(w, d)
    <3>1. i < n \/ (i > n /\ i - 1 \in 1 .. N - 1 /\ ~ (i - 1 < n))
      BY <1>1, <2>2
    <3>2. CASE i < n
      <4>1. i \in 1 .. N - 1 /\ w[i] = d
        BY <1>1, <1>6, <2>2, <3>2
      <4> QED BY <1>5, <4>1 DEF Queued
    <3>3. CASE i > n /\ i - 1 \in 1 .. N - 1 /\ ~ (i - 1 < n)
      <4>1. w[i - 1] = d
        BY <1>1, <1>6, <2>2, <3>3
      <4> QED BY <1>5, <3>3, <4>1 DEF Queued
    <3> QED BY <3>1, <3>2, <3>3
  <2> QED BY <1>1, <1>5, <2>1, <2>2 DEF Queued
<1> QED BY <1>8, <1>9 DEF w, s, t, N, Without

(* Serving the head takes it out of the queue.                             *)
LEMMA QueueTail ==
  ASSUME NEW q, Queue(q), q # <<>>
  PROVE  Tail(q) = Without(q, 1) /\ 1 \in DOMAIN q /\ Head(q) = q[1]
<1>1. q \in Seq(Callers) /\ Len(q) \in Nat /\ Len(q) # 0
  BY DEF Queue
<1>2. SubSeq(q, 1, 0) = <<>> /\ Tail(q) = SubSeq(q, 2, Len(q))
  BY <1>1, SubSeqEmpty, TailIsSubSeq
<1>3. SubSeq(q, 2, Len(q)) \in Seq(Callers)
  BY <1>1, <1>2
<1>4. <<>> \o SubSeq(q, 2, Len(q)) = SubSeq(q, 2, Len(q))
  BY <1>3, ConcatEmptySeq
<1>5. 1 - 1 = 0 /\ 1 + 1 = 2
  OBVIOUS
<1> QED BY <1>1, <1>2, <1>4, <1>5 DEF Without

LEMMA WaitingQueued == \A c : c \in Waiting <=> Queued(pending, c)
BY DEF Waiting, Queued

(* A call holds at most its own two clients, and another call holds none   *)
(* of them.                                                                *)
LEMMA OwnPoolInv ==
  ASSUME PoolInv
  PROVE  /\ client \in [Clients -> [state : {"closed", "idle", "out"},
                                    path : Tenants \union {Default}]]
         /\ caller \in [Callers -> CallerRow]
         /\ \A c \in Callers : HoldsByStep(c) /\ PathByStep(c) /\ caller[c] \in CallerRow
         /\ Queue(pending)
         /\ \A c \in Callers :
              Queued(pending, c) <=> caller[c].step \in {"connect", "lookup"}
         /\ calls \in 0 .. MaxCalls
BY WaitingQueued DEF PoolInv, Queue

(* A step of one caller that takes clients nobody has out, or gives back   *)
(* its own with a clean search_path.                                       *)
LEMMA PoolStep ==
  ASSUME PoolInv, NEW c \in Callers,
         caller' = [caller EXCEPT ![c] = caller'[c]], caller'[c] \in CallerRow,
         client' \in [Clients -> [state : {"closed", "idle", "out"},
                                  path : Tenants \union {Default}]],
         \A k \in Clients : k \notin Held(c) \union Held(c)' => client'[k] = client[k],
         \A k \in Held(c)' : client'[k].state = "out" /\ (k \in Held(c) \/ k \in Available),
         \A k \in Held(c) \ Held(c)' : client'[k].state # "out" /\ Clean(k)',
         HoldsByStep(c)', PathByStep(c)',
         Queue(pending'),
         \A d \in Callers : Queued(pending', d) <=>
           IF d = c THEN caller'[c].step \in {"connect", "lookup"} ELSE Queued(pending, d),
         calls' \in 0 .. MaxCalls
  PROVE  PoolInv'
<1>1. /\ caller \in [Callers -> CallerRow]
      /\ \A d \in Callers : HoldsByStep(d) /\ PathByStep(d)
      /\ \A d \in Callers : Queued(pending, d) <=> caller[d].step \in {"connect", "lookup"}
  BY OwnPoolInv
<1>2. /\ \A d, e \in Callers : d # e => Held(d) \intersect Held(e) = {}
      /\ \A k \in Clients : /\ (client[k].state = "out") <=> (\E d \in Callers : k \in Held(d))
                            /\ client[k].state # "out" => Clean(k)
  BY DEF PoolInv
<1>3. /\ caller' \in [Callers -> CallerRow]
      /\ \A d \in Callers \ {c} : caller'[d] = caller[d]
  BY <1>1
<1>4. /\ \A d \in Callers : Held(d) \subseteq Clients
      /\ Held(c)' \subseteq Clients
  BY <1>1, <1>3 DEF Held, CallerRow
<1>5. \A d \in Callers \ {c} : Held(d)' = Held(d)
  BY <1>3 DEF Held
<1>6. \A d \in Callers \ {c} : \A k \in Held(d) :
        k \notin Held(c) /\ k \notin Held(c)' /\ client'[k] = client[k]
  <2>1. SUFFICES ASSUME NEW d \in Callers \ {c}, NEW k \in Held(d)
                 PROVE  k \notin Held(c) /\ k \notin Held(c)' /\ client'[k] = client[k]
    OBVIOUS
  <2>2. k \in Clients /\ k \notin Held(c) /\ client[k].state = "out"
    BY <1>2, <1>4, <2>1
  <2>3. k \notin Available
    BY <2>2 DEF Available
  <2> QED BY <2>2, <2>3
<1>7. \A d, e \in Callers : d # e => Held(d)' \intersect Held(e)' = {}
  BY <1>2, <1>5, <1>6
<1>8. ASSUME NEW d \in Callers \ {c}
      PROVE  HoldsByStep(d)' /\ PathByStep(d)'
  <2>1. HoldsByStep(d)'
    BY <1>1, <1>3 DEF HoldsByStep
  <2>2. /\ caller[d].client # Nobody => client'[caller[d].client] = client[caller[d].client]
        /\ caller[d].extra # Nobody => client'[caller[d].extra] = client[caller[d].extra]
    BY <1>6 DEF Held
  <2>3. HoldsByStep(d) /\ PathByStep(d)
    BY <1>1
  <2>4. PathByStep(d)'
    BY <1>3, <2>2, <2>3 DEF PathByStep, HoldsByStep, Clean
  <2> QED BY <2>1, <2>4
<1>9. ASSUME NEW k \in Clients
      PROVE  /\ (client'[k].state = "out") <=> (\E d \in Callers : k \in Held(d)')
             /\ client'[k].state # "out" => Clean(k)'
  <2>1. CASE k \in Held(c)'
    BY <2>1
  <2>2. CASE k \in Held(c) \ Held(c)'
    <3>1. \A d \in Callers : k \notin Held(d)'
      BY <1>2, <1>5, <2>2
    <3> QED BY <2>2, <3>1
  <2>3. CASE k \notin Held(c) \union Held(c)'
    <3>1. client'[k] = client[k]
      BY <2>3
    <3>2. (\E d \in Callers : k \in Held(d)') <=> (\E d \in Callers : k \in Held(d))
      BY <1>5, <2>3
    <3>3. Clean(k)' <=> Clean(k)
      BY <3>1 DEF Clean
    <3> QED BY <1>2, <3>1, <3>2, <3>3
  <2> QED BY <2>1, <2>2, <2>3
<1>10. \A d \in Callers : (d \in Waiting)' <=> caller'[d].step \in {"connect", "lookup"}
  <2>1. \A d \in Callers : (d \in Waiting)' <=> Queued(pending', d)
    BY DEF Waiting, Queued
  <2> QED BY <1>1, <1>3, <2>1
<1> QED BY <1>3, <1>7, <1>8, <1>9, <1>10 DEF PoolInv, Queue

(* Steps that leave the clients as they are.                               *)
LEMMA QuietPoolStep ==
  ASSUME PoolInv, NEW c \in Callers,
         caller' = [caller EXCEPT ![c] = caller'[c]], caller'[c] \in CallerRow,
         client' = client,
         caller'[c].client = caller[c].client, caller'[c].extra = caller[c].extra,
         HoldsByStep(c)', PathByStep(c)',
         Queue(pending'),
         \A d \in Callers : Queued(pending', d) <=>
           IF d = c THEN caller'[c].step \in {"connect", "lookup"} ELSE Queued(pending, d),
         calls' \in 0 .. MaxCalls
  PROVE  PoolInv'
<1>1. Held(c)' = Held(c)
  BY DEF Held
<1>2. Held(c) \subseteq Clients
  BY OwnPoolInv DEF Held, CallerRow
<1>3. \A k \in Held(c) : client[k].state = "out"
  BY <1>2 DEF PoolInv
<1>4. client' \in [Clients -> [state : {"closed", "idle", "out"},
                               path : Tenants \union {Default}]]
  BY OwnPoolInv
<1> QED BY <1>1, <1>3, <1>4, PoolStep

(* What a client is after it has been given back, and what callers have    *)
(* out.                                                                    *)
LEMMA HeldOut ==
  ASSUME PoolInv, NEW c \in Callers
  PROVE  /\ Held(c) \subseteq Clients
         /\ \A k \in Held(c) : client[k].state = "out"
         /\ caller[c].client # Nobody => caller[c].client \in Held(c)
         /\ caller[c].extra # Nobody => caller[c].extra \in Held(c)
<1>1. Held(c) \subseteq Clients
  BY OwnPoolInv DEF Held, CallerRow
<1> QED BY <1>1 DEF PoolInv, Held

LEMMA NoCallerType == NoCaller \in CallerRow
BY DEF NoCaller, CallerRow

(* The caller has nothing more and is not in the queue.                    *)
LEMMA CallerDone ==
  ASSUME PoolInv, NEW c \in Callers, Done(c),
         ~ Queued(pending', c), Queue(pending'),
         \A d \in Callers \ {c} : Queued(pending', d) <=> Queued(pending, d),
         client' \in [Clients -> [state : {"closed", "idle", "out"},
                                  path : Tenants \union {Default}]],
         \A k \in Clients \ Held(c) : client'[k] = client[k],
         \A k \in Held(c) : client'[k].state # "out" /\ Clean(k)',
         calls' = calls
  PROVE  PoolInv'
<1>1. caller'[c] = NoCaller /\ caller' = [caller EXCEPT ![c] = caller'[c]]
  BY OwnPoolInv DEF Done
<1>2. /\ caller'[c] \in CallerRow /\ Held(c)' = {} /\ HoldsByStep(c)' /\ PathByStep(c)'
      /\ caller'[c].step = "idle"
  BY <1>1, NoCallerType DEF NoCaller, Held, HoldsByStep, PathByStep
<1>3. \A d \in Callers : Queued(pending', d) <=>
        IF d = c THEN caller'[c].step \in {"connect", "lookup"} ELSE Queued(pending, d)
  BY <1>2
<1>4. calls' \in 0 .. MaxCalls
  BY OwnPoolInv
<1> QED BY <1>1, <1>2, <1>3, <1>4, PoolStep

LEMMA BeginCallPool ==
  ASSUME PoolInv, NEW c \in Callers, BeginCall(c)
  PROVE  PoolInv'
<1>1. PICK kind \in {"request", "public", "pass"}, t \in Tenants :
        /\ caller[c].step = "idle" /\ calls < MaxCalls /\ calls' = calls + 1
        /\ caller' = [caller EXCEPT ![c] =
             [NoCaller EXCEPT !.kind = kind,
                              !.step = IF kind = "request" THEN "connect" ELSE "lookup",
                              !.tenant = IF kind = "request" THEN t ELSE Nobody,
                              !.lookups = 1,
                              !.todo = IF kind = "pass" THEN Tenants ELSE {}]]
        /\ pending' = Append(pending, c) /\ client' = client
  BY DEF BeginCall
<1>2. /\ caller \in [Callers -> CallerRow] /\ HoldsByStep(c) /\ Queue(pending)
      /\ Queued(pending, c) <=> caller[c].step \in {"connect", "lookup"}
      /\ calls \in 0 .. MaxCalls
  BY OwnPoolInv
<1>3. caller'[c] = [NoCaller EXCEPT !.kind = kind,
                              !.step = IF kind = "request" THEN "connect" ELSE "lookup",
                              !.tenant = IF kind = "request" THEN t ELSE Nobody,
                              !.lookups = 1,
                              !.todo = IF kind = "pass" THEN Tenants ELSE {}]
  BY <1>1, <1>2
<1>4. caller'[c] \in CallerRow
  <2> DEFINE step == IF kind = "request" THEN "connect" ELSE "lookup"
             tenant == IF kind = "request" THEN t ELSE Nobody
             todo == IF kind = "pass" THEN Tenants ELSE {}
  <2>1. /\ step \in {"connect", "lookup"} /\ tenant \in Tenants \union {Nobody}
        /\ todo \in SUBSET Tenants
    OBVIOUS
  <2>2. caller'[c] = [step |-> step, kind |-> kind, tenant |-> tenant, todo |-> todo,
                      client |-> Nobody, extra |-> Nobody, lookups |-> 1]
    BY <1>3 DEF NoCaller
  <2> HIDE DEF step, tenant, todo
  <2> QED BY <2>1, <2>2 DEF CallerRow
<1>5. /\ caller'[c].step = IF kind = "request" THEN "connect" ELSE "lookup"
      /\ caller'[c].kind = kind
      /\ caller'[c].tenant = IF kind = "request" THEN t ELSE Nobody
      /\ caller'[c].client = Nobody /\ caller'[c].extra = Nobody
  BY <1>3 DEF NoCaller
<1>6. HoldsByStep(c)' /\ PathByStep(c)'
  BY <1>5 DEF HoldsByStep, PathByStep
<1>7. caller[c].client = Nobody /\ caller[c].extra = Nobody /\ ~ Queued(pending, c)
  BY <1>1, <1>2 DEF HoldsByStep
<1>8. /\ Queue(pending')
      /\ \A d \in Callers : Queued(pending', d) <=>
           IF d = c THEN caller'[c].step \in {"connect", "lookup"} ELSE Queued(pending, d)
  BY <1>1, <1>2, <1>5, <1>7, QueueAppend
<1>9. calls' \in 0 .. MaxCalls /\ caller' = [caller EXCEPT ![c] = caller'[c]]
  BY <1>1, <1>2, <1>3, ConnectionsConstants
<1> QED BY <1>1, <1>4, <1>5, <1>6, <1>7, <1>8, <1>9, QuietPoolStep

LEMMA ServePool ==
  ASSUME PoolInv, NEW c \in Callers, Serve(c)
  PROVE  PoolInv'
<1>1. PICK k \in Available :
        /\ pending # <<>> /\ Head(pending) = c /\ pending' = Tail(pending)
        /\ client' = Out(k) /\ calls' = calls
        /\ caller' = [caller EXCEPT ![c] =
             IF @.step = "connect" THEN [@ EXCEPT !.client = k, !.step = "setPath"]
             ELSE [@ EXCEPT !.extra = k, !.step = "query"]]
  BY DEF Serve
<1>2. /\ caller \in [Callers -> CallerRow] /\ caller[c] \in CallerRow
      /\ HoldsByStep(c) /\ PathByStep(c) /\ Queue(pending)
      /\ \A d \in Callers : Queued(pending, d) <=> caller[d].step \in {"connect", "lookup"}
      /\ calls \in 0 .. MaxCalls
      /\ client \in [Clients -> [state : {"closed", "idle", "out"},
                                 path : Tenants \union {Default}]]
  BY OwnPoolInv
<1>3. /\ Queue(pending')
      /\ \A d \in Callers : Queued(pending', d) <=> (d # c /\ Queued(pending, d))
      /\ Queued(pending, c)
  <2>1. /\ pending' = Without(pending, 1) /\ 1 \in DOMAIN pending /\ pending[1] = c
    BY <1>1, <1>2, QueueTail
  <2>2. /\ Queue(Without(pending, 1))
        /\ \A d \in Callers : Queued(Without(pending, 1), d) <=>
                                 (d # pending[1] /\ Queued(pending, d))
    BY <1>2, <2>1, QueueRemove
  <2>3. Queued(pending, c)
    BY <2>1 DEF Queued
  <2> QED BY <2>1, <2>2, <2>3
<1>4. /\ k \in Clients /\ client[k].state # "out" /\ Clean(k) /\ k # Nobody
      /\ k \notin Held(c)
  BY <1>1, HeldOut, ConnectionsConstants DEF Available, PoolInv
<1>5. /\ client'[k] = [state |-> "out",
                       path |-> IF client[k].state = "closed" THEN Default ELSE client[k].path]
      /\ \A i \in Clients \ {k} : client'[i] = client[i]
  BY <1>1, <1>2, <1>4 DEF Out
<1>6. client' \in [Clients -> [state : {"closed", "idle", "out"},
                               path : Tenants \union {Default}]]
  <2>1. client'[k] \in [state : {"closed", "idle", "out"}, path : Tenants \union {Default}]
    BY <1>2, <1>4, <1>5
  <2>2. client' = [client EXCEPT ![k] = client'[k]]
    BY <1>1, <1>2, <1>4 DEF Out
  <2> QED BY <1>2, <2>1, <2>2
<1>7. client'[k].state = "out" /\ Clean(k)'
  BY <1>4, <1>5 DEF Clean
<1>8. CASE caller[c].step = "connect"
  <2>1. caller'[c] = [caller[c] EXCEPT !.client = k, !.step = "setPath"]
    BY <1>1, <1>2, <1>8
  <2>2. /\ caller'[c] \in CallerRow
        /\ caller'[c].step = "setPath" /\ caller'[c].client = k
        /\ caller'[c].extra = caller[c].extra /\ caller'[c].tenant = caller[c].tenant
    <3>1. caller'[c] = [step |-> "setPath", kind |-> caller[c].kind,
                        tenant |-> caller[c].tenant, todo |-> caller[c].todo, client |-> k,
                        extra |-> caller[c].extra, lookups |-> caller[c].lookups]
      BY <1>2, <2>1 DEF CallerRow
    <3> QED BY <1>2, <1>4, <3>1 DEF CallerRow
  <2>3. caller[c].client = Nobody /\ caller[c].extra = Nobody /\ caller[c].tenant \in Tenants
    BY <1>2, <1>8 DEF HoldsByStep
  <2>4. Held(c) = {} /\ Held(c)' = {k}
    BY <1>4, <2>2, <2>3 DEF Held
  <2>5. HoldsByStep(c)' /\ PathByStep(c)'
    BY <1>4, <1>7, <2>2, <2>3 DEF HoldsByStep, PathByStep
  <2>6. caller' = [caller EXCEPT ![c] = caller'[c]]
    BY <1>1, <1>2, <2>1
  <2>7. \A d \in Callers : Queued(pending', d) <=>
          IF d = c THEN caller'[c].step \in {"connect", "lookup"} ELSE Queued(pending, d)
    BY <1>3, <2>2
  <2>8. /\ \A i \in Clients : i \notin Held(c) \union Held(c)' => client'[i] = client[i]
        /\ \A i \in Held(c)' : client'[i].state = "out" /\ (i \in Held(c) \/ i \in Available)
        /\ Held(c) \ Held(c)' = {} /\ calls' \in 0 .. MaxCalls
    BY <1>1, <1>2, <1>5, <1>7, <2>4
  <2> QED BY <1>3, <1>6, <2>2, <2>5, <2>6, <2>7, <2>8, PoolStep
<1>9. CASE caller[c].step # "connect"
  <2>1. caller'[c] = [caller[c] EXCEPT !.extra = k, !.step = "query"]
    BY <1>1, <1>2, <1>9
  <2>2. /\ caller'[c] \in CallerRow
        /\ caller'[c].step = "query" /\ caller'[c].extra = k
        /\ caller'[c].client = caller[c].client /\ caller'[c].tenant = caller[c].tenant
        /\ caller'[c].kind = caller[c].kind
    <3>1. caller'[c] = [step |-> "query", kind |-> caller[c].kind,
                        tenant |-> caller[c].tenant, todo |-> caller[c].todo,
                        client |-> caller[c].client, extra |-> k,
                        lookups |-> caller[c].lookups]
      BY <1>2, <2>1 DEF CallerRow
    <3> QED BY <1>2, <1>4, <3>1 DEF CallerRow
  <2>3. caller[c].step = "lookup" /\ caller[c].extra = Nobody
    BY <1>2, <1>3, <1>9 DEF HoldsByStep
  <2>4. Held(c)' = Held(c) \union {k}
    BY <1>4, <2>2, <2>3 DEF Held
  <2>5. caller[c].client # Nobody => /\ caller[c].client \in Clients \ {k}
                                     /\ client'[caller[c].client] = client[caller[c].client]
    BY <1>4, <1>5, HeldOut
  <2>6. HoldsByStep(c)' /\ PathByStep(c)'
    BY <1>2, <1>4, <1>7, <2>2, <2>3, <2>5 DEF HoldsByStep, PathByStep
  <2>7. caller' = [caller EXCEPT ![c] = caller'[c]]
    BY <1>1, <1>2, <2>1
  <2>8. \A i \in Held(c)' : client'[i].state = "out" /\ (i \in Held(c) \/ i \in Available)
    BY <1>1, <1>5, <1>7, <2>4, HeldOut
  <2>9. \A i \in Clients : i \notin Held(c) \union Held(c)' => client'[i] = client[i]
    BY <1>5, <2>4
  <2>10. \A d \in Callers : Queued(pending', d) <=>
           IF d = c THEN caller'[c].step \in {"connect", "lookup"} ELSE Queued(pending, d)
    BY <1>3, <2>2
  <2>11. Held(c) \ Held(c)' = {} /\ calls' \in 0 .. MaxCalls
    BY <1>1, <1>2, <2>4
  <2> QED BY <1>3, <1>6, <2>2, <2>6, <2>7, <2>8, <2>9, <2>10, <2>11, PoolStep
<1> QED BY <1>8, <1>9

LEMMA GotoFields ==
  ASSUME PoolInv, NEW c \in Callers,
         NEW step \in {"salt", "lookup", "handler", "statement", "reset"},
         caller' = [caller EXCEPT ![c].step = step]
  PROVE  /\ caller' = [caller EXCEPT ![c] = caller'[c]] /\ caller'[c] \in CallerRow
         /\ caller'[c].step = step /\ caller'[c].kind = caller[c].kind
         /\ caller'[c].tenant = caller[c].tenant
         /\ caller'[c].client = caller[c].client /\ caller'[c].extra = caller[c].extra
<1>1. caller \in [Callers -> CallerRow] /\ caller[c] \in CallerRow
  BY OwnPoolInv
<1>2. caller'[c] = [caller[c] EXCEPT !.step = step]
  BY <1>1
<1>3. caller' = [caller EXCEPT ![c] = caller'[c]]
  BY <1>1, <1>2
<1> QED BY <1>1, <1>2, <1>3 DEF CallerRow

LEMMA GaveBack ==
  ASSUME PoolInv, NEW k \in Clients, client' = Idle(k)
  PROVE  /\ client' \in [Clients -> [state : {"closed", "idle", "out"},
                                     path : Tenants \union {Default}]]
         /\ client'[k].state = "idle" /\ client'[k].path = client[k].path
         /\ \A i \in Clients \ {k} : client'[i] = client[i]
BY OwnPoolInv DEF Idle

(* A request goes on with the client it has, or lets it go.                *)
LEMMA OnwardPool ==
  ASSUME PoolInv, NEW c \in Callers,
         NEW step \in {"handler", "statement", "reset"},
         caller' = [caller EXCEPT ![c].step = step],
         client' = client, pending' = pending, calls' = calls,
         caller[c].client # Nobody, caller[c].extra = Nobody,
         caller[c].step \in {"salt", "handler", "statement"}
  PROVE  PoolInv'
<1>1. /\ HoldsByStep(c) /\ PathByStep(c) /\ Queue(pending)
      /\ \A d \in Callers : Queued(pending, d) <=> caller[d].step \in {"connect", "lookup"}
      /\ calls \in 0 .. MaxCalls
  BY OwnPoolInv
<1>2. /\ caller' = [caller EXCEPT ![c] = caller'[c]] /\ caller'[c] \in CallerRow
      /\ caller'[c].step = step
      /\ caller'[c].tenant = caller[c].tenant
      /\ caller'[c].client = caller[c].client /\ caller'[c].extra = caller[c].extra
  BY GotoFields
<1>3. HoldsByStep(c)' /\ PathByStep(c)'
  BY <1>1, <1>2 DEF HoldsByStep, PathByStep
<1>4. \A d \in Callers : Queued(pending', d) <=>
        IF d = c THEN caller'[c].step \in {"connect", "lookup"} ELSE Queued(pending, d)
  BY <1>1, <1>2
<1> QED BY <1>1, <1>2, <1>3, <1>4, QuietPoolStep

LEMMA ConnectTimeoutPool ==
  ASSUME PoolInv, NEW c \in Callers, ConnectTimeout(c)
  PROVE  PoolInv'
<1>1. PICK n \in DOMAIN pending : pending[n] = c /\ pending' = Without(pending, n)
  BY DEF ConnectTimeout, Without
<1>2. /\ HoldsByStep(c) /\ PathByStep(c) /\ Queue(pending)
      /\ \A d \in Callers : Queued(pending, d) <=> caller[d].step \in {"connect", "lookup"}
      /\ calls \in 0 .. MaxCalls
      /\ client \in [Clients -> [state : {"closed", "idle", "out"},
                                 path : Tenants \union {Default}]]
  BY OwnPoolInv
<1>3. /\ Queue(pending')
      /\ \A d \in Callers : Queued(pending', d) <=> (d # c /\ Queued(pending, d))
  BY <1>1, <1>2, QueueRemove
<1>4. client' = client /\ calls' = calls
  BY DEF ConnectTimeout
<1>5. caller[c].step \in {"connect", "lookup"} /\ caller[c].extra = Nobody
  <2>1. Queued(pending, c)
    BY <1>1 DEF Queued
  <2>2. caller[c].step \in {"connect", "lookup"}
    BY <1>2, <2>1
  <2> QED BY <1>2, <2>2 DEF HoldsByStep
<1>6. CASE caller[c].client = Nobody
  <2>1. Done(c) /\ Held(c) = {}
    BY <1>5, <1>6 DEF ConnectTimeout, Held
  <2> QED BY <1>2, <1>3, <1>4, <2>1, CallerDone
<1>7. CASE caller[c].client # Nobody
  <2>1. caller' = [caller EXCEPT ![c].step = "reset"]
    BY <1>7 DEF ConnectTimeout, Goto
  <2>2. /\ caller' = [caller EXCEPT ![c] = caller'[c]] /\ caller'[c] \in CallerRow
        /\ caller'[c].step = "reset" /\ caller'[c].tenant = caller[c].tenant
        /\ caller'[c].client = caller[c].client /\ caller'[c].extra = caller[c].extra
    BY <2>1, GotoFields
  <2>3. HoldsByStep(c)' /\ PathByStep(c)'
    BY <1>2, <1>5, <1>7, <2>2 DEF HoldsByStep, PathByStep
  <2>4. \A d \in Callers : Queued(pending', d) <=>
          IF d = c THEN caller'[c].step \in {"connect", "lookup"} ELSE Queued(pending, d)
    BY <1>3, <2>2
  <2> QED BY <1>2, <1>3, <1>4, <2>2, <2>3, <2>4, QuietPoolStep
<1> QED BY <1>6, <1>7

LEMMA SetPathPool ==
  ASSUME PoolInv, NEW c \in Callers, SetPath(c)
  PROVE  PoolInv'
<1>0. PICK k : k = caller[c].client
  OBVIOUS
<1>1. /\ caller[c].step = "setPath" /\ pending' = pending /\ calls' = calls
  BY DEF SetPath
<1>2. /\ HoldsByStep(c) /\ PathByStep(c) /\ Queue(pending)
      /\ \A d \in Callers : Queued(pending, d) <=> caller[d].step \in {"connect", "lookup"}
      /\ calls \in 0 .. MaxCalls
      /\ client \in [Clients -> [state : {"closed", "idle", "out"},
                                 path : Tenants \union {Default}]]
  BY OwnPoolInv
<1>3. /\ k # Nobody /\ caller[c].extra = Nobody /\ caller[c].tenant \in Tenants
      /\ Clean(k) /\ ~ Queued(pending, c)
  BY <1>0, <1>1, <1>2 DEF HoldsByStep, PathByStep
<1>4. Held(c) = {k} /\ k \in Clients /\ client[k].state = "out"
  BY <1>0, <1>3, HeldOut DEF Held
<1>5. CASE /\ client' = [client EXCEPT ![k].path = caller[c].tenant]
           /\ Goto(c, IF caller[c].kind = "request" THEN "salt" ELSE "handler")
  <2> DEFINE step == IF caller[c].kind = "request" THEN "salt" ELSE "handler"
  <2>1. caller' = [caller EXCEPT ![c].step = step]
    BY <1>5 DEF Goto
  <2>2. step \in {"salt", "handler"}
    OBVIOUS
  <2>3. step = "salt" => caller[c].kind = "request"
    OBVIOUS
  <2> HIDE DEF step
  <2>4. /\ caller' = [caller EXCEPT ![c] = caller'[c]] /\ caller'[c] \in CallerRow
        /\ caller'[c].step = step /\ caller'[c].kind = caller[c].kind
        /\ caller'[c].tenant = caller[c].tenant
        /\ caller'[c].client = k /\ caller'[c].extra = Nobody
    BY <1>0, <1>3, <2>1, <2>2, GotoFields
  <2>5. /\ client' \in [Clients -> [state : {"closed", "idle", "out"},
                                    path : Tenants \union {Default}]]
        /\ client'[k].state = "out" /\ client'[k].path = caller[c].tenant
        /\ \A i \in Clients \ {k} : client'[i] = client[i]
    BY <1>2, <1>3, <1>4, <1>5
  <2>6. Held(c)' = {k}
    BY <1>3, <2>4 DEF Held
  <2>7. HoldsByStep(c)' /\ PathByStep(c)'
    BY <1>3, <2>2, <2>3, <2>4, <2>5 DEF HoldsByStep, PathByStep
  <2>8. \A d \in Callers : Queued(pending', d) <=>
          IF d = c THEN caller'[c].step \in {"connect", "lookup"} ELSE Queued(pending, d)
    BY <1>1, <1>3, <2>2, <2>4
  <2> QED BY <1>1, <1>2, <1>4, <2>4, <2>5, <2>6, <2>7, <2>8, PoolStep
<1>6. CASE client' = Idle(k) /\ Done(c)
  <2>1. /\ client' \in [Clients -> [state : {"closed", "idle", "out"},
                                    path : Tenants \union {Default}]]
        /\ client'[k].state = "idle" /\ client'[k].path = client[k].path
        /\ \A i \in Clients \ {k} : client'[i] = client[i]
    BY <1>4, <1>6, GaveBack
  <2>2. Clean(k)'
    BY <1>3, <2>1 DEF Clean
  <2>3. Done(c)
    BY <1>6
  <2> QED BY <1>1, <1>2, <1>3, <1>4, <2>1, <2>2, <2>3, CallerDone
<1> QED BY <1>0, <1>5, <1>6 DEF SetPath

LEMMA SaltPool ==
  ASSUME PoolInv, NEW c \in Callers, Salt(c)
  PROVE  PoolInv'
<1>1. caller[c].step = "salt" /\ client' = client /\ calls' = calls
  BY DEF Salt
<1>2. /\ HoldsByStep(c) /\ PathByStep(c) /\ Queue(pending)
      /\ \A d \in Callers : Queued(pending, d) <=> caller[d].step \in {"connect", "lookup"}
      /\ calls \in 0 .. MaxCalls
  BY OwnPoolInv
<1>3. caller[c].client # Nobody /\ caller[c].extra = Nobody /\ ~ Queued(pending, c)
  BY <1>1, <1>2 DEF HoldsByStep
<1>4. CASE caller[c].tenant \in saltCache
  <2>1. caller' = [caller EXCEPT ![c].step = "handler"] /\ pending' = pending
    BY <1>4 DEF Salt, Goto
  <2> QED BY <1>1, <1>3, <2>1, OnwardPool
<1>5. CASE caller[c].tenant \notin saltCache
  <2>1. caller' = [caller EXCEPT ![c].step = "lookup"] /\ pending' = Append(pending, c)
    BY <1>5 DEF Salt, Goto
  <2>2. /\ caller' = [caller EXCEPT ![c] = caller'[c]] /\ caller'[c] \in CallerRow
        /\ caller'[c].step = "lookup" /\ caller'[c].kind = caller[c].kind
        /\ caller'[c].tenant = caller[c].tenant
        /\ caller'[c].client = caller[c].client /\ caller'[c].extra = caller[c].extra
    BY <2>1, GotoFields
  <2>3. HoldsByStep(c)' /\ PathByStep(c)'
    BY <1>1, <1>2, <2>2 DEF HoldsByStep, PathByStep
  <2>4. /\ Queue(pending')
        /\ \A d \in Callers : Queued(pending', d) <=>
             IF d = c THEN caller'[c].step \in {"connect", "lookup"} ELSE Queued(pending, d)
    BY <1>2, <1>3, <2>1, <2>2, QueueAppend
  <2> QED BY <1>1, <1>2, <2>2, <2>3, <2>4, QuietPoolStep
<1> QED BY <1>4, <1>5

(* The caller gets its answer: it gives back the client it asked with and  *)
(* goes on, to the next query if there is one.                             *)
LEMMA AnsweredPool ==
  ASSUME PoolInv, NEW c \in Callers, caller[c].step = "query",
         client' = Idle(caller[c].extra),
         NEW step \in {"lookup", "handler", "reset", "next"},
         caller' = [caller EXCEPT ![c] = caller'[c]], caller'[c] \in CallerRow,
         caller'[c].step = step, caller'[c].kind = caller[c].kind,
         caller'[c].tenant = caller[c].tenant,
         caller'[c].client = caller[c].client, caller'[c].extra = Nobody,
         step = "next" <=> caller[c].kind # "request",
         pending' = IF step = "lookup" THEN Append(pending, c) ELSE pending,
         calls' = calls
  PROVE  PoolInv'
<1>1. /\ HoldsByStep(c) /\ PathByStep(c) /\ Queue(pending)
      /\ \A d \in Callers : Queued(pending, d) <=> caller[d].step \in {"connect", "lookup"}
      /\ calls \in 0 .. MaxCalls
  BY OwnPoolInv
<1>2. PICK k : k = caller[c].extra
  OBVIOUS
<1>3. /\ k # Nobody /\ k \in Held(c) /\ k \in Clients /\ Clean(k)
      /\ caller[c].client # k /\ ~ Queued(pending, c)
  BY <1>1, <1>2, HeldOut DEF HoldsByStep, PathByStep
<1>4. /\ client' \in [Clients -> [state : {"closed", "idle", "out"},
                                  path : Tenants \union {Default}]]
      /\ client'[k].state = "idle" /\ client'[k].path = client[k].path
      /\ \A i \in Clients \ {k} : client'[i] = client[i]
  BY <1>2, <1>3, GaveBack
<1>5. Held(c) = Held(c)' \union {k} /\ k \notin Held(c)'
  BY <1>2, <1>3 DEF Held
<1>6. Clean(k)'
  BY <1>3, <1>4 DEF Clean
<1>7. caller[c].client # Nobody => client'[caller[c].client] = client[caller[c].client]
  BY <1>3, <1>4, HeldOut
<1>8. HoldsByStep(c)' /\ PathByStep(c)'
  BY <1>1, <1>7 DEF HoldsByStep, PathByStep
<1>9. /\ Queue(pending')
      /\ \A d \in Callers : Queued(pending', d) <=>
           IF d = c THEN caller'[c].step \in {"connect", "lookup"} ELSE Queued(pending, d)
  <2>1. CASE step = "lookup"
    BY <1>1, <1>3, <2>1, QueueAppend
  <2>2. CASE step # "lookup"
    BY <1>1, <1>3, <2>2
  <2> QED BY <2>1, <2>2
<1>10. \A i \in Held(c)' : client'[i].state = "out" /\ i \in Held(c)
  BY <1>4, <1>5, HeldOut
<1>11. \A i \in Clients : i \notin Held(c) \union Held(c)' => client'[i] = client[i]
  BY <1>3, <1>4
<1>12. \A i \in Held(c) \ Held(c)' : client'[i].state # "out" /\ Clean(i)'
  BY <1>4, <1>5, <1>6
<1> QED BY <1>1, <1>4, <1>8, <1>9, <1>10, <1>11, <1>12, PoolStep

LEMMA TenantFoundPool ==
  ASSUME PoolInv, NEW c \in Callers, TenantFound(c)
  PROVE  PoolInv'
<1>1. caller \in [Callers -> CallerRow] /\ caller[c] \in CallerRow
  BY OwnPoolInv
<1>2. caller' = [caller EXCEPT ![c] =
        [@ EXCEPT !.extra = Nobody, !.step = "lookup", !.lookups = 2]]
  BY <1>1 DEF TenantFound
<1>3. caller'[c] = [caller[c] EXCEPT !.extra = Nobody, !.step = "lookup", !.lookups = 2]
  BY <1>1, <1>2
<1>4. /\ caller'[c] \in CallerRow /\ caller'[c].step = "lookup"
      /\ caller'[c].kind = caller[c].kind /\ caller'[c].tenant = caller[c].tenant
      /\ caller'[c].client = caller[c].client /\ caller'[c].extra = Nobody
  <2>1. caller'[c] = [step |-> "lookup", kind |-> caller[c].kind,
                      tenant |-> caller[c].tenant, todo |-> caller[c].todo,
                      client |-> caller[c].client, extra |-> Nobody, lookups |-> 2]
    BY <1>1, <1>3 DEF CallerRow
  <2>2. 2 \in 0 .. 2
    OBVIOUS
  <2> QED BY <1>1, <2>1, <2>2 DEF CallerRow
<1>5. caller' = [caller EXCEPT ![c] = caller'[c]]
  BY <1>1, <1>2, <1>3
<1>6. /\ caller[c].step = "query" /\ caller[c].kind = "request"
      /\ client' = Idle(caller[c].extra) /\ pending' = Append(pending, c) /\ calls' = calls
  BY DEF TenantFound
<1> QED BY <1>4, <1>5, <1>6, AnsweredPool

LEMMA SaltFoundPool ==
  ASSUME PoolInv, NEW c \in Callers, SaltFound(c)
  PROVE  PoolInv'
<1>1. caller \in [Callers -> CallerRow] /\ caller[c] \in CallerRow
  BY OwnPoolInv
<1>2. caller' = [caller EXCEPT ![c] = [@ EXCEPT !.extra = Nobody, !.step = "handler"]]
  BY <1>1 DEF SaltFound
<1>3. caller'[c] = [caller[c] EXCEPT !.extra = Nobody, !.step = "handler"]
  BY <1>1, <1>2
<1>4. /\ caller'[c] \in CallerRow /\ caller'[c].step = "handler"
      /\ caller'[c].kind = caller[c].kind /\ caller'[c].tenant = caller[c].tenant
      /\ caller'[c].client = caller[c].client /\ caller'[c].extra = Nobody
  BY <1>1, <1>3 DEF CallerRow
<1>5. caller' = [caller EXCEPT ![c] = caller'[c]]
  BY <1>1, <1>2, <1>3
<1>6. /\ caller[c].step = "query" /\ caller[c].kind = "request"
      /\ client' = Idle(caller[c].extra) /\ pending' = pending /\ calls' = calls
  BY DEF SaltFound
<1> QED BY <1>4, <1>5, <1>6, AnsweredPool

(* A query of the public schema gives its client back, whatever it found.  *)
LEMMA PublicDone ==
  ASSUME PoolInv, NEW c \in Callers, caller[c].step = "query",
         caller[c].kind # "request", client' = Idle(caller[c].extra), Done(c),
         pending' = pending, calls' = calls
  PROVE  PoolInv'
<1>1. /\ HoldsByStep(c) /\ PathByStep(c) /\ Queue(pending)
      /\ \A d \in Callers : Queued(pending, d) <=> caller[d].step \in {"connect", "lookup"}
  BY OwnPoolInv
<1>2. PICK k : k = caller[c].extra
  OBVIOUS
<1>3. Held(c) = {k} /\ k \in Clients /\ Clean(k) /\ ~ Queued(pending, c)
  <2>1. k # Nobody /\ caller[c].client = Nobody /\ Clean(k) /\ ~ Queued(pending, c)
    BY <1>1, <1>2 DEF HoldsByStep, PathByStep
  <2> QED BY <1>2, <2>1, HeldOut DEF Held
<1>4. /\ client' \in [Clients -> [state : {"closed", "idle", "out"},
                                  path : Tenants \union {Default}]]
      /\ client'[k].state = "idle" /\ client'[k].path = client[k].path
      /\ \A i \in Clients \ {k} : client'[i] = client[i]
  BY <1>2, <1>3, GaveBack
<1>5. Clean(k)'
  BY <1>3, <1>4 DEF Clean
<1> QED BY <1>1, <1>3, <1>4, <1>5, CallerDone

LEMMA PublicAnsweredPool ==
  ASSUME PoolInv, NEW c \in Callers, PublicAnswered(c)
  PROVE  PoolInv'
<1>1. caller \in [Callers -> CallerRow] /\ caller[c] \in CallerRow
  BY OwnPoolInv
<1>2. /\ caller[c].step = "query" /\ caller[c].kind # "request"
      /\ client' = Idle(caller[c].extra) /\ pending' = pending /\ calls' = calls
  BY DEF PublicAnswered
<1>3. CASE caller[c].kind = "public"
  <2>1. Done(c)
    BY <1>3 DEF PublicAnswered
  <2> QED BY <1>2, <2>1, PublicDone
<1>4. CASE caller[c].kind # "public"
  <2>1. caller' = [caller EXCEPT ![c] = [@ EXCEPT !.extra = Nobody, !.step = "next"]]
    BY <1>1, <1>4 DEF PublicAnswered
  <2>2. caller'[c] = [caller[c] EXCEPT !.extra = Nobody, !.step = "next"]
    BY <1>1, <2>1
  <2>3. /\ caller'[c] \in CallerRow /\ caller'[c].step = "next"
        /\ caller'[c].kind = caller[c].kind /\ caller'[c].tenant = caller[c].tenant
        /\ caller'[c].client = caller[c].client /\ caller'[c].extra = Nobody
    BY <1>1, <2>2 DEF CallerRow
  <2>4. caller' = [caller EXCEPT ![c] = caller'[c]]
    BY <1>1, <2>1, <2>2
  <2> QED BY <1>2, <2>3, <2>4, AnsweredPool
<1> QED BY <1>3, <1>4

LEMMA LookupFailsPool ==
  ASSUME PoolInv, NEW c \in Callers, LookupFails(c)
  PROVE  PoolInv'
<1>1. caller \in [Callers -> CallerRow] /\ caller[c] \in CallerRow
  BY OwnPoolInv
<1>2. /\ caller[c].step = "query"
      /\ client' = Idle(caller[c].extra) /\ pending' = pending /\ calls' = calls
  BY DEF LookupFails
<1>3. CASE caller[c].kind # "request"
  <2>1. Done(c)
    BY <1>3 DEF LookupFails, FailedLookup
  <2> QED BY <1>2, <1>3, <2>1, PublicDone
<1>4. CASE caller[c].kind = "request"
  <2>1. caller' = [caller EXCEPT ![c] = [@ EXCEPT !.extra = Nobody, !.step = "reset"]]
    BY <1>1, <1>4 DEF LookupFails, FailedLookup
  <2>2. caller'[c] = [caller[c] EXCEPT !.extra = Nobody, !.step = "reset"]
    BY <1>1, <2>1
  <2>3. /\ caller'[c] \in CallerRow /\ caller'[c].step = "reset"
        /\ caller'[c].kind = caller[c].kind /\ caller'[c].tenant = caller[c].tenant
        /\ caller'[c].client = caller[c].client /\ caller'[c].extra = Nobody
    BY <1>1, <2>2 DEF CallerRow
  <2>4. caller' = [caller EXCEPT ![c] = caller'[c]]
    BY <1>1, <2>1, <2>2
  <2> QED BY <1>2, <1>4, <2>3, <2>4, AnsweredPool
<1> QED BY <1>3, <1>4


(* The handler holds one client, and so does whoever puts it back.         *)
LEMMA HandlerHolds ==
  ASSUME PoolInv, NEW c \in Callers,
         caller[c].step \in {"handler", "statement", "reset"}
  PROVE  /\ Held(c) = {caller[c].client} /\ caller[c].client \in Clients
         /\ caller[c].client # Nobody /\ caller[c].extra = Nobody
         /\ ~ Queued(pending, c)
<1>1. HoldsByStep(c) /\ (Queued(pending, c) <=> caller[c].step \in {"connect", "lookup"})
  BY OwnPoolInv
<1>2. caller[c].client # Nobody /\ caller[c].extra = Nobody /\ ~ Queued(pending, c)
  BY <1>1 DEF HoldsByStep
<1> QED BY <1>2, HeldOut DEF Held

LEMMA HandlerStatementPool ==
  ASSUME PoolInv, NEW c \in Callers, HandlerStatement(c)
  PROVE  PoolInv'
<1>1. /\ caller[c].step \in {"handler", "statement"}
      /\ caller' = [caller EXCEPT ![c].step = "statement"]
      /\ client' = client /\ pending' = pending /\ calls' = calls
  BY DEF HandlerStatement, Goto, AfterStatement
<1> QED BY <1>1, HandlerHolds, OnwardPool

LEMMA HandlerEndsPool ==
  ASSUME PoolInv, NEW c \in Callers, HandlerEnds(c)
  PROVE  PoolInv'
<1>1. /\ caller[c].step \in {"handler", "statement"}
      /\ caller' = [caller EXCEPT ![c].step = "reset"]
      /\ client' = client /\ pending' = pending /\ calls' = calls
  BY DEF HandlerEnds, Goto
<1> QED BY <1>1, HandlerHolds, OnwardPool

LEMMA ResetPool ==
  ASSUME PoolInv, NEW c \in Callers, Reset(c)
  PROVE  PoolInv'
<1>1. PICK k : k = caller[c].client
  OBVIOUS
<1>2. /\ caller[c].step = "reset" /\ pending' = pending /\ calls' = calls
      /\ client' = [client EXCEPT ![k] = [state |-> "idle", path |-> Default]]
  BY <1>1 DEF Reset
<1>3. /\ caller \in [Callers -> CallerRow] /\ caller[c] \in CallerRow
      /\ Queue(pending) /\ calls \in 0 .. MaxCalls
      /\ \A d \in Callers : Queued(pending, d) <=> caller[d].step \in {"connect", "lookup"}
      /\ client \in [Clients -> [state : {"closed", "idle", "out"},
                                 path : Tenants \union {Default}]]
  BY OwnPoolInv
<1>4. /\ Held(c) = {k} /\ k \in Clients /\ caller[c].extra = Nobody /\ ~ Queued(pending, c)
  BY <1>1, <1>2, HandlerHolds
<1>5. /\ client' \in [Clients -> [state : {"closed", "idle", "out"},
                                  path : Tenants \union {Default}]]
      /\ client'[k].state = "idle" /\ client'[k].path = Default
      /\ \A i \in Clients \ {k} : client'[i] = client[i]
  BY <1>2, <1>3, <1>4
<1>6. Clean(k)'
  BY <1>5 DEF Clean
<1>7. CASE caller[c].kind # "pass"
  <2>1. Done(c)
    BY <1>7 DEF Reset
  <2> QED BY <1>2, <1>3, <1>4, <1>5, <1>6, <2>1, CallerDone
<1>8. CASE caller[c].kind = "pass"
  <2>1. caller' = [caller EXCEPT ![c] = [@ EXCEPT !.client = Nobody, !.step = "next"]]
    BY <1>3, <1>8 DEF Reset
  <2>2. caller'[c] = [caller[c] EXCEPT !.client = Nobody, !.step = "next"]
    BY <1>3, <2>1
  <2>3. /\ caller'[c] \in CallerRow /\ caller'[c].step = "next"
        /\ caller'[c].client = Nobody /\ caller'[c].extra = Nobody
    BY <1>3, <1>4, <2>2 DEF CallerRow
  <2>4. caller' = [caller EXCEPT ![c] = caller'[c]]
    BY <1>3, <2>1, <2>2
  <2>5. Held(c)' = {} /\ HoldsByStep(c)' /\ PathByStep(c)'
    BY <2>3 DEF Held, HoldsByStep, PathByStep
  <2>6. \A d \in Callers : Queued(pending', d) <=>
          IF d = c THEN caller'[c].step \in {"connect", "lookup"} ELSE Queued(pending, d)
    BY <1>2, <1>4, <2>3
  <2> QED BY <1>2, <1>3, <1>4, <1>5, <1>6, <2>3, <2>4, <2>5, <2>6, PoolStep
<1> QED BY <1>7, <1>8

LEMMA ResetFailsPool ==
  ASSUME PoolInv, NEW c \in Callers, ResetFails(c)
  PROVE  PoolInv'
<1>1. PICK k : k = caller[c].client
  OBVIOUS
<1>2. /\ caller[c].step = "reset" /\ pending' = pending /\ calls' = calls /\ Done(c)
      /\ client' = [client EXCEPT ![k] = [state |-> "closed", path |-> Default]]
  BY <1>1 DEF ResetFails, AfterFailedReset
<1>3. /\ Queue(pending)
      /\ client \in [Clients -> [state : {"closed", "idle", "out"},
                                 path : Tenants \union {Default}]]
  BY OwnPoolInv
<1>4. Held(c) = {k} /\ k \in Clients /\ ~ Queued(pending, c)
  BY <1>1, <1>2, HandlerHolds
<1>5. /\ client' \in [Clients -> [state : {"closed", "idle", "out"},
                                  path : Tenants \union {Default}]]
      /\ client'[k].state = "closed" /\ client'[k].path = Default
      /\ \A i \in Clients \ {k} : client'[i] = client[i]
  BY <1>2, <1>3, <1>4
<1>6. Clean(k)'
  BY <1>5 DEF Clean
<1> QED BY <1>2, <1>3, <1>4, <1>5, <1>6, CallerDone

LEMMA NextTenantPool ==
  ASSUME PoolInv, NEW c \in Callers, NextTenant(c)
  PROVE  PoolInv'
<1>1. caller[c].step = "next" /\ client' = client /\ calls' = calls
  BY DEF NextTenant
<1>2. /\ caller \in [Callers -> CallerRow] /\ caller[c] \in CallerRow
      /\ HoldsByStep(c) /\ Queue(pending) /\ calls \in 0 .. MaxCalls
      /\ \A d \in Callers : Queued(pending, d) <=> caller[d].step \in {"connect", "lookup"}
      /\ client \in [Clients -> [state : {"closed", "idle", "out"},
                                 path : Tenants \union {Default}]]
  BY OwnPoolInv
<1>3. caller[c].client = Nobody /\ caller[c].extra = Nobody /\ ~ Queued(pending, c)
  BY <1>1, <1>2 DEF HoldsByStep
<1>4. CASE caller[c].todo = {}
  <2>1. Done(c) /\ pending' = pending
    BY <1>4 DEF NextTenant
  <2>2. Held(c) = {}
    BY <1>3 DEF Held
  <2> QED BY <1>1, <1>2, <1>3, <2>1, <2>2, CallerDone
<1>5. CASE caller[c].todo # {}
  <2>1. PICK t \in caller[c].todo :
          /\ caller' = [caller EXCEPT ![c].tenant = t, ![c].step = "connect",
                                      ![c].todo = @ \ {t}]
          /\ pending' = Append(pending, c)
    BY <1>5 DEF NextTenant
  <2>2. /\ caller'[c] = [caller[c] EXCEPT !.tenant = t, !.step = "connect",
                                          !.todo = caller[c].todo \ {t}]
        /\ \A d \in Callers \ {c} : caller'[d] = caller[d]
        /\ caller' \in [Callers -> {caller'[d] : d \in Callers}]
    BY <1>2, <2>1
  <2>3. t \in Tenants /\ caller[c].todo \ {t} \in SUBSET Tenants
    BY <1>2, <2>1 DEF CallerRow
  <2>4. /\ caller'[c] \in CallerRow /\ caller'[c].step = "connect"
        /\ caller'[c].tenant = t
        /\ caller'[c].client = caller[c].client /\ caller'[c].extra = caller[c].extra
    <3>1. caller'[c] = [step |-> "connect", kind |-> caller[c].kind, tenant |-> t,
                        todo |-> caller[c].todo \ {t}, client |-> caller[c].client,
                        extra |-> caller[c].extra, lookups |-> caller[c].lookups]
      BY <1>2, <2>2 DEF CallerRow
    <3> QED BY <1>2, <2>3, <3>1 DEF CallerRow
  <2>5. caller' = [caller EXCEPT ![c] = caller'[c]]
    BY <1>2, <2>2
  <2>6. HoldsByStep(c)' /\ PathByStep(c)'
    BY <1>3, <2>3, <2>4 DEF HoldsByStep, PathByStep
  <2>7. /\ Queue(pending')
        /\ \A d \in Callers : Queued(pending', d) <=>
             IF d = c THEN caller'[c].step \in {"connect", "lookup"} ELSE Queued(pending, d)
    BY <1>2, <1>3, <2>1, <2>4, QueueAppend
  <2> QED BY <1>1, <1>2, <2>4, <2>5, <2>6, <2>7, QuietPoolStep
<1> QED BY <1>4, <1>5

(* The pool starts with closed connections, but for the one that ran the   *)
(* migrations.                                                             *)
LEMMA InitPool == PoolInit => PoolInv
<1> SUFFICES ASSUME PoolInit PROVE PoolInv
  OBVIOUS
<1>1. PICK k \in Clients :
        client = [ClosedPool EXCEPT ![k] = [state |-> "idle", path |-> LastMigrated]]
  BY DEF PoolInit
<1>2. caller = [c \in Callers |-> NoCaller] /\ pending = <<>> /\ calls = 0
  BY DEF PoolInit, NoCalls
<1>3. /\ client \in [Clients -> [state : {"closed", "idle", "out"},
                                 path : Tenants \union {Default}]]
      /\ \A i \in Clients : client[i].state # "out" /\ Clean(i)
  BY <1>1, ConnectionsConstants DEF ClosedPool, Clean
<1>4. /\ caller \in [Callers -> CallerRow]
      /\ \A c \in Callers : caller[c] = NoCaller
  BY <1>2, NoCallerType
<1>5. \A c \in Callers : Held(c) = {} /\ HoldsByStep(c) /\ PathByStep(c)
  BY <1>4 DEF NoCaller, Held, HoldsByStep, PathByStep
<1>6. pending \in Seq(Callers) /\ DOMAIN pending = {}
  BY <1>2
<1>7. \A c \in Callers : c \in Waiting <=> caller[c].step \in {"connect", "lookup"}
  BY <1>4, <1>6 DEF Waiting, NoCaller
<1>8. calls \in 0 .. MaxCalls
  BY <1>2, ConnectionsConstants
<1> QED BY <1>3, <1>4, <1>5, <1>6, <1>7, <1>8 DEF PoolInv

LEMMA NextPool == PoolInv /\ [PoolNext]_poolVars => PoolInv'
<1> SUFFICES ASSUME PoolInv, [PoolNext]_poolVars PROVE PoolInv'
  OBVIOUS
<1>1. CASE UNCHANGED poolVars
  <2>1. /\ client' = client /\ caller' = caller /\ pending' = pending
        /\ saltCache' = saltCache /\ calls' = calls
    BY <1>1 DEF poolVars
  <2>2. /\ \A c \in Callers : HoldsByStep(c) /\ PathByStep(c)
        /\ \A c, d \in Callers : c # d => Held(c) \intersect Held(d) = {}
        /\ \A k \in Clients : /\ client[k].state = "out" <=> \E c \in Callers : k \in Held(c)
                              /\ client[k].state # "out" => Clean(k)
        /\ \A c \in Callers : c \in Waiting <=> caller[c].step \in {"connect", "lookup"}
    BY DEF PoolInv
  <2>3. /\ \A c : Held(c)' = Held(c)
        /\ \A c : HoldsByStep(c)' <=> HoldsByStep(c)
        /\ \A c : PathByStep(c)' <=> PathByStep(c)
        /\ \A k : Clean(k)' <=> Clean(k)
        /\ \A c : (c \in Waiting)' <=> c \in Waiting
    BY <2>1 DEF Held, HoldsByStep, PathByStep, Clean, Waiting
  <2> QED BY <2>1, <2>2, <2>3 DEF PoolInv
<1>2. ASSUME NEW c \in Callers, BeginCall(c) \/ Proceed(c) \/ HandlerStatement(c)
      PROVE  PoolInv'
  <2>1. CASE BeginCall(c)
    BY <2>1, BeginCallPool
  <2>2. CASE HandlerStatement(c)
    BY <2>2, HandlerStatementPool
  <2>3. CASE Serve(c)
    BY <2>3, ServePool
  <2>4. CASE ConnectTimeout(c)
    BY <2>4, ConnectTimeoutPool
  <2>5. CASE SetPath(c)
    BY <2>5, SetPathPool
  <2>6. CASE Salt(c)
    BY <2>6, SaltPool
  <2>7. CASE TenantFound(c)
    BY <2>7, TenantFoundPool
  <2>8. CASE SaltFound(c)
    BY <2>8, SaltFoundPool
  <2>9. CASE PublicAnswered(c)
    BY <2>9, PublicAnsweredPool
  <2>10. CASE LookupFails(c)
    BY <2>10, LookupFailsPool
  <2>11. CASE HandlerEnds(c)
    BY <2>11, HandlerEndsPool
  <2>12. CASE Reset(c)
    BY <2>12, ResetPool
  <2>13. CASE ResetFails(c)
    BY <2>13, ResetFailsPool
  <2>14. CASE NextTenant(c)
    BY <2>14, NextTenantPool
  <2> QED BY <1>2, <2>1, <2>2, <2>3, <2>4, <2>5, <2>6, <2>7, <2>8, <2>9, <2>10, <2>11,
             <2>12, <2>13, <2>14 DEF Proceed
<1> QED BY <1>1, <1>2 DEF PoolNext

(* A client is held by those who have it, and by one only.                 *)
LEMMA HoldersHold ==
  ASSUME PoolInv, NEW k \in Clients
  PROVE  /\ Holders(k) = {c \in Callers : k \in Held(c)}
         /\ \A c \in Callers : k \in Held(c) => Holders(k) = {c}
<1>1. k # Nobody
  BY ConnectionsConstants
<1>2. Holders(k) = {c \in Callers : k \in Held(c)}
  BY <1>1 DEF Holders, Held
<1>3. \A c, d \in Callers : c # d => Held(c) \intersect Held(d) = {}
  BY DEF PoolInv
<1> QED BY <1>2, <1>3

(* As many wait as the queue is long.                                      *)
LEMMA WaitingCount ==
  ASSUME Queue(pending)
  PROVE  Cardinality(Waiting) = Len(pending)
<1>1. Len(pending) \in Nat /\ DOMAIN pending = 1 .. Len(pending)
  BY DEF Queue
<1>2. \A m, n \in 1 .. Len(pending) : pending[m] = pending[n] => m = n
  BY <1>1 DEF Queue
<1>3. Waiting = {pending[n] : n \in 1 .. Len(pending)}
  BY <1>1 DEF Waiting
<1> DEFINE f == [n \in 1 .. Len(pending) |-> pending[n]]
<1>4. f \in Bijection(1 .. Len(pending), Waiting)
  <2>1. f \in [1 .. Len(pending) -> Waiting]
    BY <1>3
  <2>2. \A m, n \in 1 .. Len(pending) : f[m] = f[n] => m = n
    BY <1>2
  <2>3. \A w \in Waiting : \E n \in 1 .. Len(pending) : f[n] = w
    BY <1>3
  <2> HIDE DEF f
  <2> QED BY <2>1, <2>2, <2>3 DEF Bijection, Injection, Surjection, IsInjective
<1>5. ExistsBijection(1 .. Len(pending), Waiting)
  BY <1>4 DEF ExistsBijection
<1> QED BY <1>1, <1>5, FS_CountingElements

(* From SET to RESET a client belongs to one caller, and every statement   *)
(* of its handler means the tables of its own tenant.                      *)
LEMMA OwnSchema == PoolInv => StatementsInOwnSchema
<1> SUFFICES ASSUME PoolInv, NEW c \in Callers,
                    caller[c].step \in {"salt", "lookup", "query", "handler", "statement"},
                    caller[c].client # Nobody
             PROVE  /\ client[caller[c].client].path = caller[c].tenant
                    /\ Holders(caller[c].client) = {c}
  BY DEF StatementsInOwnSchema
<1>1. client[caller[c].client].path = caller[c].tenant
  <2>1. PathByStep(c)
    BY OwnPoolInv
  <2> QED BY <2>1 DEF PathByStep
<1>2. caller[c].client \in Held(c) /\ caller[c].client \in Clients
  BY HeldOut
<1> QED BY <1>1, <1>2, HoldersHold

LEMMA CleanReturn == PoolInv => ClientsReturnClean
<1> SUFFICES ASSUME PoolInv PROVE ClientsReturnClean
  OBVIOUS
<1>1. ASSUME NEW k \in Clients
      PROVE  /\ (client[k].state = "out") <=> Holders(k) # {}
             /\ client[k].state # "out" => client[k].path \in {Default, LastMigrated}
  <2>1. /\ (client[k].state = "out") <=> (\E c \in Callers : k \in Held(c))
        /\ client[k].state # "out" => Clean(k)
    BY DEF PoolInv
  <2>2. Holders(k) # {} <=> (\E c \in Callers : k \in Held(c))
    BY HoldersHold
  <2> QED BY <2>1, <2>2 DEF Clean
<1>2. \A c \in Callers :
        /\ caller[c].tenant \in Tenants \union {Nobody}
        /\ {caller[c].client, caller[c].extra} \subseteq Clients \union {Nobody}
        /\ c \in Waiting <=> caller[c].step \in {"connect", "lookup"}
  BY OwnPoolInv, WaitingQueued DEF CallerRow
<1>3. PoolTypeOK
  BY <1>2, OwnPoolInv, WaitingCount DEF PoolTypeOK
<1> QED BY <1>1, <1>3 DEF ClientsReturnClean

(* The invariant of the pool is one: each step of a call, from taking a    *)
(* client to RESET or a timeout, keeps it.                                 *)
LEMMA PoolInvariance == PoolSpec => []PoolInv
BY InitPool, NextPool, PTL DEF PoolSpec

(* Whoever is served from the same pool, and whatever fails or times out:  *)
(* a statement of a handler means the tables of its own tenant, on a       *)
(* client that belongs to its request alone.                               *)
THEOREM StatementsStayInSchema == PoolSpec => []StatementsInOwnSchema
BY PoolInvariance, OwnSchema, PTL

(* No client is lost: one is out exactly when somebody holds it, and it    *)
(* comes back without the search_path of the tenant it served.             *)
THEOREM ClientsComeBackClean == PoolSpec => []ClientsReturnClean
BY PoolInvariance, CleanReturn, PTL

-----------------------------------------------------------------------------
(***************************************************************************)
(* Paperwork: the fiscal calendar and the bank, the papers before an       *)
(* order, quality control.                                                 *)
(***************************************************************************)
-----------------------------------------------------------------------------
(* The parts of the inductive invariant.                                   *)
tables == <<calendarTables, sourcingTables, qualityTables, desk>>

CalendarRight == CalendarWhole /\ ReconciledByBalance
SourcingRight == QuotesCarryOneAnswer /\ PapersRight
RowsRight == CalendarRight /\ SourcingRight /\ InspectionsRight /\ desk \in Desks

RequestsRight ==
    /\ IdleHoldsNothing /\ LocksExclusive
    /\ pc = [r \in Requests |-> pc[r]] /\ needs = [r \in Requests |-> needs[r]]
    /\ tx = [r \in Requests |-> tx[r]] /\ locks = [r \in Requests |-> locks[r]]

LEMMA Parts == IInv <=> RowsRight /\ RequestsRight /\ \A r \in Requests : Knows(r)
BY DEF IInv, RowsRight, RequestsRight, CalendarRight, SourcingRight

LEMMA NextParts ==
    ASSUME RowsRight', RequestsRight', \A r \in Requests : Knows(r)'
    PROVE  IInv'
BY DEF IInv, RowsRight, RequestsRight, CalendarRight, SourcingRight

LEMMA SameTables ==
    ASSUME tables' = tables
    PROVE  /\ year' = year /\ period' = period /\ banked' = banked /\ recon' = recon
           /\ paper' = paper /\ quote' = quote /\ ordered' = ordered
           /\ parameter' = parameter /\ checklist' = checklist
           /\ inspection' = inspection /\ result' = result /\ defects' = defects
           /\ desk' = desk
BY DEF tables, calendarTables, sourcingTables, qualityTables

-----------------------------------------------------------------------------
(* What a step leaves to those that hold the given locks.                  *)
CalendarRespected(held) ==
    /\ \A y \in Years : YearLock(y) \in held =>
         year'[y] = year[y] /\ PeriodsOf(y)' = PeriodsOf(y)
    /\ \A p \in Periods :
         /\ p \in Periods'
         /\ period'[p].first = period[p].first /\ period'[p].last = period[p].last
         /\ period'[p].status = "open" => period[p].status = "open"
    /\ \A c \in Recons :
         /\ c \in Recons'
         /\ recon'[c].account = recon[c].account
         /\ recon'[c].difference = recon[c].difference
    /\ \A b \in BankIds : banked[b].account \in BankAccounts =>
         banked'[b].account = banked[b].account

SourcingRespected(held) ==
    /\ FiledQuotes \subseteq FiledQuotes'
    /\ \A q \in Quotes : QuoteLock(q) \in held => quote'[q].answers = quote[q].answers

QualityRespected(held) ==
    /\ \A c \in CreatedChecklists :
         c \in CreatedChecklists' /\ checklist'[c].required = checklist[c].required
    /\ \A i \in Created :
         /\ i \in Created' /\ inspection'[i].checklist = inspection[i].checklist
         /\ InspectionLock(i) \in held => inspection'[i].status = inspection[i].status

Respects(held) ==
    /\ desk' = desk
    /\ CalendarRespected(held) /\ SourcingRespected(held) /\ QualityRespected(held)

SameRequest(q) ==
    pc'[q] = pc[q] /\ needs'[q] = needs[q] /\ tx'[q] = tx[q] /\ locks'[q] = locks[q]

(* The tables of a desk that nobody writes.                                *)
LEMMA CalendarSame ==
    ASSUME CalendarRight, UNCHANGED calendarTables
    PROVE  CalendarRight' /\ \A held : CalendarRespected(held)
<1>1. year' = year /\ period' = period /\ banked' = banked /\ recon' = recon
  BY DEF calendarTables
<1>2. Periods' = Periods /\ Recons' = Recons
  BY <1>1 DEF Periods, Recons
<1>3. \A y : PeriodsOf(y)' = PeriodsOf(y)
  BY <1>1, <1>2 DEF PeriodsOf
<1>4. \A y : OpenPeriods(y)' = OpenPeriods(y)
  BY <1>1, <1>3 DEF OpenPeriods
<1>5. CalendarWhole'
  BY <1>1, <1>2, <1>3, <1>4 DEF CalendarRight, CalendarWhole, CalendarTypeOK, WithinYear
<1>6. ReconciledByBalance'
  BY <1>1, <1>2 DEF CalendarRight, ReconciledByBalance
<1> QED BY <1>1, <1>2, <1>3, <1>5, <1>6 DEF CalendarRight, CalendarRespected

LEMMA SourcingSame ==
    ASSUME SourcingRight, UNCHANGED sourcingTables
    PROVE  SourcingRight' /\ \A held : SourcingRespected(held)
<1>1. paper' = paper /\ quote' = quote /\ ordered' = ordered
  BY DEF sourcingTables
<1>2. FiledQuotes' = FiledQuotes
  BY <1>1 DEF FiledQuotes
<1> QED BY <1>1, <1>2 DEF SourcingRight, QuotesCarryOneAnswer, SourcingTypeOK, PapersRight,
           SourcingRespected

LEMMA QualitySame ==
    ASSUME InspectionsRight, UNCHANGED qualityTables
    PROVE  InspectionsRight' /\ \A held : QualityRespected(held)
<1>1. /\ parameter' = parameter /\ checklist' = checklist /\ inspection' = inspection
      /\ result' = result /\ defects' = defects
  BY DEF qualityTables
<1>2. Created' = Created /\ CreatedChecklists' = CreatedChecklists
  BY <1>1 DEF Created, CreatedChecklists
<1> QED BY <1>1, <1>2 DEF InspectionsRight, QualityTypeOK, RequiredItems, QualityRespected

LEMMA RowsUnchanged ==
    ASSUME RowsRight, tables' = tables
    PROVE  RowsRight' /\ \A held : Respects(held)
<1>1. /\ UNCHANGED calendarTables /\ UNCHANGED sourcingTables /\ UNCHANGED qualityTables
      /\ desk' = desk
  BY DEF tables
<1> QED BY <1>1, CalendarSame, SourcingSame, QualitySame DEF RowsRight, Respects

-----------------------------------------------------------------------------
(* What a request knows stays true when another one makes a step.          *)
LEMMA PeriodKept ==
    ASSUME NEW q, PeriodKnows(q), SameRequest(q), CalendarRespected(locks[q])
    PROVE  PeriodKnows(q)'
<1>1. PICK y : y = tx[q].year
  OBVIOUS
<1>2. PICK new : new = tx[q].new
  OBVIOUS
<1>3. y \in Years /\ tx'[q].year = y /\ tx'[q].new = new /\ pc'[q] = pc[q]
  BY <1>1, <1>2 DEF PeriodKnows, PeriodOrder, SameRequest
<1>4. CASE pc[q] = "yearOfPeriod"
  BY <1>4 DEF PeriodKnows, SameRequest
<1>5. CASE pc[q] # "yearOfPeriod"
  <2>1. YearLock(y) \in locks[q] /\ year[y] = "open" /\ WithinYear(y, new)
        /\ (pc[q] = "insertPeriod" => \A p \in PeriodsOf(y) : ~ Overlaps(p, new))
    BY <1>1, <1>2, <1>5 DEF PeriodKnows
  <2>2. year'[y] = year[y] /\ PeriodsOf(y)' = PeriodsOf(y)
    BY <1>3, <2>1 DEF CalendarRespected
  <2>3. ASSUME NEW p \in PeriodsOf(y)', pc[q] = "insertPeriod" PROVE ~ Overlaps(p, new)'
    <3>1. p \in PeriodsOf(y) /\ p \in Periods
      BY <2>2, <2>3 DEF PeriodsOf
    <3> QED BY <2>1, <2>3, <3>1 DEF CalendarRespected, Overlaps
  <2>4. tx'[q] \in PeriodOrder /\ new.first < new.last /\ YearLock(y) \in locks'[q]
        /\ pc'[q] \in {"periodNumber", "periodRange", "insertPeriod"}
    BY <1>2, <1>5, <2>1 DEF PeriodKnows, SameRequest
  <2>5. year'[y] = "open" /\ WithinYear(y, new)
    BY <2>1, <2>2
  <2> QED BY <1>3, <1>5, <2>3, <2>4, <2>5 DEF PeriodKnows
<1> QED BY <1>4, <1>5

LEMMA CloseKept ==
    ASSUME NEW q, CloseKnows(q), SameRequest(q), CalendarRespected(locks[q])
    PROVE  CloseKnows(q)'
<1>1. PICK y : y = tx[q].year
  OBVIOUS
<1>2. /\ y \in Years /\ tx'[q].year = y /\ pc'[q] = pc[q]
      /\ pc[q] # "closedYear" => YearLock(y) \in locks[q]
  BY <1>1 DEF CloseKnows, SameRequest
<1>3. CASE pc[q] = "writeYear"
  <2>1. PeriodsOf(y)' = PeriodsOf(y) /\ OpenPeriods(y) = {}
    BY <1>1, <1>2, <1>3 DEF CloseKnows, CalendarRespected
  <2>2. OpenPeriods(y)' = {}
    BY <2>1 DEF OpenPeriods, PeriodsOf, CalendarRespected
  <2> QED BY <1>1, <1>2, <1>3, <2>2 DEF CloseKnows, SameRequest
<1>4. CASE pc[q] # "writeYear"
  BY <1>4 DEF CloseKnows, SameRequest
<1> QED BY <1>3, <1>4

LEMMA BankKept ==
    ASSUME CalendarRight, NEW q, BankKnows(q), SameRequest(q), CalendarRespected(locks[q])
    PROVE  BankKnows(q)'
<1>1. Periods \subseteq Periods' /\ Recons \subseteq Recons'
  BY DEF CalendarRespected
<1>2. CASE pc[q] \in {"lockPeriod", "writePeriod", "insertRecon", "lockRecon"}
  BY <1>1, <1>2 DEF BankKnows, SameRequest
<1>3. CASE pc[q] \in {"markBanked", "commitRecon"}
  <2>1. PICK c : c = tx[q].id
    OBVIOUS
  <2>2. PICK seen : seen = tx[q].seen
    OBVIOUS
  <2>3. /\ c \in Recons /\ seen \in SUBSET BankIds /\ tx[q] \in Marking
        /\ recon[c].difference \in -1 .. 1
        /\ pc[q] = "commitRecon" => \A b \in seen : banked[b].account = recon[c].account
    BY <1>3, <2>1, <2>2 DEF BankKnows, Marking
  <2>4. recon[c].account \in BankAccounts
    BY <2>3 DEF CalendarRight, CalendarWhole, CalendarTypeOK, Recons, ReconRow, NoRecon
  <2>5. /\ recon'[c].difference \in -1 .. 1 /\ recon'[c].account = recon[c].account
    BY <2>3 DEF CalendarRespected
  <2>6. pc[q] = "commitRecon" => \A b \in seen : banked'[b].account = recon'[c].account
    BY <2>3, <2>4, <2>5 DEF CalendarRespected
  <2>7. tx'[q] \in Marking'
    BY <1>1, <2>3 DEF Marking, SameRequest
  <2> QED BY <1>3, <2>1, <2>2, <2>5, <2>6, <2>7 DEF BankKnows, SameRequest
<1> QED BY <1>2, <1>3 DEF BankKnows

LEMMA SourcingKept ==
    ASSUME NEW q, SourcingKnows(q), SameRequest(q), SourcingRespected(locks[q])
    PROVE  SourcingKnows(q)'
<1>1. CASE PaperKnows(q)
  BY <1>1 DEF PaperKnows, SourcingKnows, SameRequest, SourcingRespected
<1>2. CASE AnswerKnows(q)
  BY <1>2 DEF AnswerKnows, SourcingKnows, SameRequest, SourcingRespected
<1>3. CASE SelectKnows(q)
  <2>1. FiledQuotes \subseteq FiledQuotes'
    BY DEF SourcingRespected
  <2> QED BY <1>3, <2>1 DEF SelectKnows, SourcingKnows, SameRequest
<1> QED BY <1>1, <1>2, <1>3 DEF SourcingKnows

LEMMA QualityKept ==
    ASSUME InspectionsRight, NEW q, QualityKnows(q), SameRequest(q), QualityRespected(locks[q])
    PROVE  QualityKnows(q)'
<1>1. Created \subseteq Created' /\ CreatedChecklists \subseteq CreatedChecklists'
  BY DEF QualityRespected
<1>2. CASE pc[q] \in {"deactivate", "insertInspection", "cancelInspection"}
  BY <1>1, <1>2 DEF QualityKnows, CompleteKnows, SameRequest
<1>3. CASE pc[q] \in {"lockInspection", "requiredItems", "commitInspection"}
  <2>1. CompleteKnows(q)
    BY <1>3 DEF QualityKnows
  <2>2. PICK i : i = tx[q].id
    OBVIOUS
  <2>3. i \in Created /\ tx[q] \in Completion /\ tx'[q] \in Completion'
    BY <1>1, <2>1, <2>2 DEF CompleteKnows, Completion, SameRequest
  <2>4. inspection[i].checklist \in CreatedChecklists
    BY <2>3 DEF InspectionsRight
  <2>5. RequiredItems(i)' = RequiredItems(i)
    BY <2>3, <2>4 DEF QualityRespected, RequiredItems
  <2>6. InspectionLock(i) \in locks[q] => inspection'[i].status = inspection[i].status
    BY <2>3 DEF QualityRespected
  <2>7. CompleteKnows(q)'
    BY <2>1, <2>2, <2>3, <2>5, <2>6 DEF CompleteKnows, SameRequest
  <2> QED BY <2>7 DEF QualityKnows
<1> QED BY <1>2, <1>3 DEF QualityKnows, CompleteKnows

LEMMA KnowsKept ==
    ASSUME RowsRight, NEW q, Knows(q), SameRequest(q), Respects(locks[q])
    PROVE  Knows(q)'
<1>1. CASE pc[q] = "idle"
  BY <1>1 DEF Knows, SameRequest
<1>2. /\ desk' = desk /\ CalendarRespected(locks[q]) /\ SourcingRespected(locks[q])
      /\ QualityRespected(locks[q])
  BY DEF Respects
<1>3. CASE desk = "calendar" /\ CalendarKnows(q)
  BY <1>2, <1>3, PeriodKept, CloseKept, BankKept DEF Knows, CalendarKnows, RowsRight
<1>4. CASE desk = "sourcing" /\ SourcingKnows(q)
  BY <1>2, <1>4, SourcingKept DEF Knows
<1>5. CASE desk = "quality" /\ QualityKnows(q)
  BY <1>2, <1>5, QualityKept DEF Knows, RowsRight
<1> QED BY <1>1, <1>3, <1>4, <1>5 DEF Knows

-----------------------------------------------------------------------------
(* Steps of one request: what has to be shown of each.                     *)
LEMMA TakenExclusive ==
    ASSUME RequestsRight, NEW r \in Requests, NEW taken, \A x \in taken : Free(r, x),
           locks' = [locks EXCEPT ![r] = locks[r] \union taken]
    PROVE  LocksExclusive'
<1>1. \A q \in Requests \ {r} : taken \intersect locks[q] = {}
  BY DEF Free
<1>2. DOMAIN locks = Requests
  BY DEF RequestsRight
<1>3. locks'[r] = locks[r] \union taken /\ \A q \in Requests \ {r} : locks'[q] = locks[q]
  BY <1>2
<1>4. \A p, q \in Requests : p # q => locks[p] \intersect locks[q] = {}
  BY DEF RequestsRight, LocksExclusive
<1>5. ASSUME NEW p \in Requests, NEW q \in Requests, p # q
      PROVE  locks'[p] \intersect locks'[q] = {}
  <2>1. CASE p = r
    BY <1>1, <1>3, <1>4, <1>5, <2>1
  <2>2. CASE q = r
    BY <1>1, <1>3, <1>4, <1>5, <2>2
  <2>3. CASE p # r /\ q # r
    BY <1>3, <1>4, <1>5, <2>3
  <2> QED BY <2>1, <2>2, <2>3
<1> QED BY <1>5 DEF LocksExclusive

(* The request r has step t, need and held after it; the others find what  *)
(* they know respected.                                                    *)
LEMMA RequestStep ==
    ASSUME IInv, NEW r \in Requests, NEW step, NEW need, NEW t, NEW held,
           begun' \in 0 .. MaxRequests,
           pc' = [pc EXCEPT ![r] = step], needs' = [needs EXCEPT ![r] = need],
           tx' = [tx EXCEPT ![r] = t], locks' = [locks EXCEPT ![r] = held],
           LocksExclusive', step = "idle" => t = NoTx /\ need = {} /\ held = {},
           RowsRight', \A q \in Requests \ {r} : Respects(locks[q]),
           pc'[r] = step /\ needs'[r] = need /\ tx'[r] = t /\ locks'[r] = held => Knows(r)'
    PROVE  IInv'
<1>1. RowsRight /\ RequestsRight /\ \A q \in Requests : Knows(q)
  BY Parts
<1>2. DOMAIN pc = Requests /\ DOMAIN needs = Requests /\ DOMAIN tx = Requests
      /\ DOMAIN locks = Requests
  BY <1>1 DEF RequestsRight
<1>3. pc'[r] = step /\ needs'[r] = need /\ tx'[r] = t /\ locks'[r] = held
  BY <1>2
<1>4. \A q \in Requests \ {r} : SameRequest(q)
  BY <1>2 DEF SameRequest
<1>5. ASSUME NEW q \in Requests PROVE Knows(q)'
  <2>1. CASE q = r
    BY <1>3, <2>1
  <2>2. CASE q # r
    BY <1>1, <1>4, <2>2, KnowsKept
  <2> QED BY <2>1, <2>2
<1>6. IdleHoldsNothing'
  <2>1. ASSUME NEW q \in Requests, pc'[q] = "idle"
        PROVE  tx'[q] = NoTx /\ needs'[q] = {} /\ locks'[q] = {}
    <3>1. CASE q = r
      BY <1>3, <2>1, <3>1
    <3>2. CASE q # r
      BY <1>1, <1>4, <2>1, <3>2 DEF SameRequest, RequestsRight, IdleHoldsNothing
    <3> QED BY <3>1, <3>2
  <2> QED BY <2>1 DEF IdleHoldsNothing
<1>7. /\ pc' = [q \in Requests |-> pc'[q]] /\ needs' = [q \in Requests |-> needs'[q]]
      /\ tx' = [q \in Requests |-> tx'[q]] /\ locks' = [q \in Requests |-> locks'[q]]
  BY <1>2
<1>8. RequestsRight'
  BY <1>6, <1>7 DEF RequestsRight
<1> QED BY <1>5, <1>8, NextParts

LEMMA BegunBound == ASSUME IInv PROVE MaxRequests \in Nat /\ begun \in 0 .. MaxRequests
BY TransactionsConstants DEF IInv, IdleHoldsNothing

LEMMA ReleasedExclusive ==
    ASSUME IInv, NEW r \in Requests, locks' = [locks EXCEPT ![r] = {}]
    PROVE  LocksExclusive'
<1>1. DOMAIN locks = Requests /\ LocksExclusive
  BY Parts DEF RequestsRight
<1>2. locks'[r] = {} /\ \A q \in Requests \ {r} : locks'[q] = locks[q]
  BY <1>1
<1>3. ASSUME NEW p \in Requests, NEW q \in Requests, p # q
      PROVE  locks'[p] \intersect locks'[q] = {}
  <2>1. CASE p = r \/ q = r
    BY <1>2, <2>1
  <2>2. CASE p # r /\ q # r
    BY <1>1, <1>2, <1>3, <2>2 DEF LocksExclusive
  <2> QED BY <2>1, <2>2
<1> QED BY <1>3 DEF LocksExclusive

(* COMMIT.                                                                 *)
LEMMA EndStep ==
    ASSUME IInv, NEW r \in Requests, End(r), RowsRight',
           \A q \in Requests \ {r} : Respects(locks[q])
    PROVE  IInv'
<1>1. /\ pc' = [pc EXCEPT ![r] = "idle"] /\ needs' = [needs EXCEPT ![r] = {}]
      /\ tx' = [tx EXCEPT ![r] = NoTx] /\ locks' = [locks EXCEPT ![r] = {}]
      /\ begun' \in 0 .. MaxRequests
  BY BegunBound DEF End
<1>2. LocksExclusive'
  BY <1>1, ReleasedExclusive
<1>3. pc'[r] = "idle" => Knows(r)'
  BY DEF Knows
<1> DEFINE t == NoTx
<1> HIDE DEF t
<1>4. tx' = [tx EXCEPT ![r] = t] /\ t = NoTx
  BY <1>1 DEF t
<1> QED BY <1>1, <1>2, <1>3, <1>4, RequestStep

(* ROLLBACK.                                                               *)
LEMMA RollbackStep ==
    ASSUME IInv, NEW r \in Requests, End(r), tables' = tables
    PROVE  IInv'
<1>1. RowsRight
  BY Parts
<1> QED BY <1>1, RowsUnchanged, EndStep

LEMMA IdleFacts ==
    ASSUME IInv, NEW r \in Requests, pc[r] = "idle"
    PROVE  tx[r] = NoTx /\ needs[r] = {} /\ locks[r] = {}
BY Parts DEF RequestsRight, IdleHoldsNothing

LEMMA AutoStep ==
    ASSUME IInv, NEW r \in Requests, NEW x, Autocommit(r, x), RowsRight',
           \A q \in Requests \ {r} : Respects(locks[q])
    PROVE  IInv'
<1>1. /\ pc[r] = "idle" /\ pc' = pc /\ needs' = needs /\ tx' = tx /\ locks' = locks
      /\ begun' \in 0 .. MaxRequests
  BY BegunBound DEF Autocommit
<1>2. tx[r] = NoTx /\ needs[r] = {} /\ locks[r] = {}
  BY <1>1, IdleFacts
<1>3. DOMAIN pc = Requests /\ DOMAIN needs = Requests /\ DOMAIN tx = Requests
      /\ DOMAIN locks = Requests
  BY Parts DEF RequestsRight
<1> DEFINE t == NoTx
<1> HIDE DEF t
<1>4. /\ pc = [q \in Requests |-> pc[q]] /\ needs = [q \in Requests |-> needs[q]]
      /\ tx = [q \in Requests |-> tx[q]] /\ locks = [q \in Requests |-> locks[q]]
  BY Parts DEF RequestsRight
<1>5. /\ pc' = [pc EXCEPT ![r] = "idle"] /\ needs' = [needs EXCEPT ![r] = {}]
      /\ locks' = [locks EXCEPT ![r] = {}]
  BY <1>1, <1>2, <1>3, <1>4
<1>6. tx' = [tx EXCEPT ![r] = t] /\ t = NoTx
  BY <1>1, <1>2, <1>3, <1>4 DEF t
<1>7. LocksExclusive'
  BY <1>5, ReleasedExclusive
<1>8. pc'[r] = "idle" => Knows(r)'
  BY DEF Knows
<1>9. begun' \in 0 .. MaxRequests
  BY <1>1
<1> QED BY <1>5, <1>6, <1>7, <1>8, <1>9, RequestStep

LEMMA BeginStep ==
    ASSUME IInv, NEW r \in Requests, NEW step, NEW need, NEW t, step # "idle",
           Begin(r, step, need, t), tables' = tables,
           pc'[r] = step /\ needs'[r] = need /\ tx'[r] = t /\ locks'[r] = {} => Knows(r)'
    PROVE  IInv'
<1>1. /\ pc[r] = "idle" /\ pc' = [pc EXCEPT ![r] = step]
      /\ needs' = [needs EXCEPT ![r] = need] /\ tx' = [tx EXCEPT ![r] = t] /\ locks' = locks
      /\ begun' \in 0 .. MaxRequests
  BY BegunBound DEF Begin
<1>2. locks[r] = {} /\ locks = [q \in Requests |-> locks[q]]
  BY <1>1, IdleFacts, Parts DEF RequestsRight
<1>3. locks' = [locks EXCEPT ![r] = {}]
  BY <1>1, <1>2
<1>4. LocksExclusive'
  BY <1>3, ReleasedExclusive
<1>5. RowsRight
  BY Parts
<1>6. RowsRight' /\ \A q \in Requests \ {r} : Respects(locks[q])
  BY <1>5, RowsUnchanged
<1> QED BY <1>1, <1>3, <1>4, <1>6, RequestStep

LEMMA ContinueStep ==
    ASSUME IInv, NEW r \in Requests, NEW step, NEW need, NEW t, step # "idle",
           \A x \in needs[r] : Free(r, x), Continue(r, step, need, t), tables' = tables,
           pc'[r] = step /\ needs'[r] = need /\ tx'[r] = t
             /\ locks'[r] = locks[r] \union needs[r] => Knows(r)'
    PROVE  IInv'
<1> DEFINE taken == needs[r]  held == locks[r] \union taken
<1>1. /\ pc' = [pc EXCEPT ![r] = step]
      /\ needs' = [needs EXCEPT ![r] = need] /\ tx' = [tx EXCEPT ![r] = t]
      /\ locks' = [locks EXCEPT ![r] = held] /\ begun' \in 0 .. MaxRequests
  BY BegunBound DEF Continue
<1>2. \A x \in taken : Free(r, x)
  OBVIOUS
<1>3. pc'[r] = step /\ needs'[r] = need /\ tx'[r] = t /\ locks'[r] = held => Knows(r)'
  OBVIOUS
<1>4. RowsRight /\ RequestsRight
  BY Parts
<1> HIDE DEF taken
<1>5. LocksExclusive'
  BY <1>1, <1>2, <1>4, TakenExclusive
<1>6. RowsRight' /\ \A q \in Requests \ {r} : Respects(locks[q])
  BY <1>4, RowsUnchanged
<1> HIDE DEF held
<1> QED BY <1>1, <1>3, <1>5, <1>6, RequestStep

LEMMA NobodyElse ==
    ASSUME RequestsRight, NEW r \in Requests, NEW x, x \in locks[r] \/ Free(r, x)
    PROVE  \A q \in Requests \ {r} : x \notin locks[q]
BY DEF RequestsRight, LocksExclusive, Free

-----------------------------------------------------------------------------
(* What the request knows, by the statement it is at.                      *)
LEMMA PeriodAt ==
    ASSUME NEW r, Knows(r), desk = "calendar",
           pc[r] \in {"yearOfPeriod", "periodNumber", "periodRange", "insertPeriod"}
    PROVE  PeriodKnows(r)
BY DEF Knows, CalendarKnows, CloseKnows, BankKnows

LEMMA CloseAt ==
    ASSUME NEW r, Knows(r), desk = "calendar",
           pc[r] \in {"closedYear", "openPeriods", "writeYear"}
    PROVE  CloseKnows(r)
BY DEF Knows, CalendarKnows, PeriodKnows, BankKnows

LEMMA BankAt ==
    ASSUME NEW r, Knows(r), desk = "calendar",
           pc[r] \in {"lockPeriod", "writePeriod", "insertRecon", "lockRecon", "markBanked",
                      "commitRecon"}
    PROVE  BankKnows(r)
BY DEF Knows, CalendarKnows, PeriodKnows, CloseKnows

LEMMA SourcingAt ==
    ASSUME NEW r, Knows(r), desk = "sourcing", pc[r] # "idle"
    PROVE  SourcingKnows(r)
BY DEF Knows

LEMMA QualityAt ==
    ASSUME NEW r, Knows(r), desk = "quality", pc[r] # "idle"
    PROVE  QualityKnows(r)
BY DEF Knows

LEMMA LeastFree ==
    ASSUME NEW S \in SUBSET Nat, S # {}
    PROVE  Min(S) \in S
<1>1. \E n \in S : \A m \in S : n <= m
  BY LeastNatural
<1> QED BY <1>1 DEF Min

-----------------------------------------------------------------------------
(* The calendar.  A step at its desk concerns its tables alone.            *)
AtCalendar == OnlyCalendar /\ desk' = desk

LEMMA CalendarRows ==
    ASSUME RowsRight, AtCalendar, CalendarRight'
    PROVE  RowsRight' /\ \A held : CalendarRespected(held) => Respects(held)
BY SourcingSame, QualitySame DEF AtCalendar, OnlyCalendar, RowsRight, Respects

LEMMA CalendarQuiet ==
    ASSUME AtCalendar, UNCHANGED calendarTables
    PROVE  tables' = tables
BY DEF AtCalendar, OnlyCalendar, tables

PeriodsRight ==
    /\ year \in [Years -> {"none", "open", "closed"}]
    /\ period \in [PeriodIds -> PeriodRow \union {NoPeriod}]
    /\ \A y \in Years :
         /\ \A p \in PeriodsOf(y) : WithinYear(y, period[p])
         /\ \A p, q \in PeriodsOf(y) : p # q =>
              /\ period[p].number # period[q].number
              /\ period[p].last <= period[q].first \/ period[q].last <= period[p].first
         /\ year[y] = "closed" => OpenPeriods(y) = {}

BankTypes ==
    /\ banked \in [BankIds -> BankedRow \union {NoBanked}]
    /\ recon \in [ReconIds -> ReconRow \union {NoRecon}]
    /\ \A c \in Recons : recon[c].period \in Periods

LEMMA CalendarParts == CalendarRight <=> PeriodsRight /\ BankTypes /\ ReconciledByBalance
BY DEF CalendarRight, CalendarWhole, CalendarTypeOK, PeriodsRight, BankTypes

LEMMA NextCalendar ==
    ASSUME PeriodsRight', BankTypes', ReconciledByBalance'
    PROVE  CalendarRight'
BY DEF CalendarRight, CalendarWhole, CalendarTypeOK, PeriodsRight, BankTypes

LEMMA BanksSame ==
    ASSUME BankTypes, ReconciledByBalance, banked' = banked, recon' = recon,
           Periods \subseteq Periods'
    PROVE  /\ BankTypes' /\ ReconciledByBalance'
           /\ Recons' = Recons
<1>1. Recons' = Recons
  BY DEF Recons
<1> QED BY <1>1 DEF BankTypes, ReconciledByBalance

LEMMA PeriodsSame ==
    ASSUME PeriodsRight, year' = year, period' = period
    PROVE  /\ PeriodsRight' /\ Periods' = Periods
           /\ \A y : PeriodsOf(y)' = PeriodsOf(y)
<1>1. Periods' = Periods
  BY DEF Periods
<1>2. \A y : PeriodsOf(y)' = PeriodsOf(y)
  BY <1>1 DEF PeriodsOf
<1>3. \A y : OpenPeriods(y)' = OpenPeriods(y)
  BY <1>2 DEF OpenPeriods
<1> QED BY <1>1, <1>2, <1>3 DEF PeriodsRight, WithinYear

(* The status of a year.                                                   *)
LEMMA YearChange ==
    ASSUME RowsRight, AtCalendar, NEW y \in Years, NEW s \in {"open", "closed"},
           year' = [year EXCEPT ![y] = s], period' = period, banked' = banked, recon' = recon,
           s = "closed" => OpenPeriods(y) = {}
    PROVE  RowsRight' /\ \A held : YearLock(y) \notin held => Respects(held)
<1>1. PeriodsRight /\ BankTypes /\ ReconciledByBalance
  BY CalendarParts DEF RowsRight
<1>2. /\ year' \in [Years -> {"none", "open", "closed"}] /\ year'[y] = s
      /\ \A x \in Years \ {y} : year'[x] = year[x]
  BY <1>1 DEF PeriodsRight
<1>3. Periods' = Periods
  BY DEF Periods
<1>4. \A x : PeriodsOf(x)' = PeriodsOf(x)
  BY <1>3 DEF PeriodsOf
<1>5. \A x : OpenPeriods(x)' = OpenPeriods(x)
  BY <1>4 DEF OpenPeriods
<1>6. PeriodsRight'
  BY <1>1, <1>2, <1>4, <1>5 DEF PeriodsRight, WithinYear
<1>7. CalendarRight'
  BY <1>1, <1>3, <1>6, BanksSame, NextCalendar
<1>8. ASSUME NEW held, YearLock(y) \notin held PROVE CalendarRespected(held)
  <2>1. Recons' = Recons
    BY DEF Recons
  <2>2. \A x \in Years : YearLock(x) \in held => x # y
    BY <1>8
  <2> QED BY <1>2, <1>3, <1>4, <2>1, <2>2 DEF CalendarRespected
<1> QED BY <1>7, <1>8, CalendarRows

LEMMA CreateYearStep ==
    ASSUME IInv, NEW r \in Requests, CreateYear(r), AtCalendar
    PROVE  IInv'
<1>1. PICK y \in Years : /\ Autocommit(r, YearLock(y)) /\ year' = [year EXCEPT ![y] = "open"]
                         /\ UNCHANGED <<period, banked, recon>>
  BY DEF CreateYear
<1>2. RowsRight /\ RequestsRight
  BY Parts
<1>3. RowsRight' /\ \A held : YearLock(y) \notin held => Respects(held)
  BY <1>1, <1>2, YearChange
<1>4. \A q \in Requests \ {r} : YearLock(y) \notin locks[q]
  BY <1>1, <1>2, NobodyElse DEF Autocommit
<1> QED BY <1>1, <1>3, <1>4, AutoStep

LEMMA WriteYearStep ==
    ASSUME IInv, NEW r \in Requests, WriteYear(r), AtCalendar
    PROVE  IInv'
<1>1. PICK y : y = tx[r].year
  OBVIOUS
<1>2. /\ pc[r] = "writeYear" /\ year' = [year EXCEPT ![y] = "closed"] /\ End(r)
      /\ period' = period /\ banked' = banked /\ recon' = recon
  BY <1>1 DEF WriteYear, At
<1>3. RowsRight /\ RequestsRight /\ CloseKnows(r)
  BY <1>2, Parts, CloseAt DEF AtCalendar, OnlyCalendar
<1>4. y \in Years /\ YearLock(y) \in locks[r] /\ OpenPeriods(y) = {}
  BY <1>1, <1>2, <1>3 DEF CloseKnows
<1>5. RowsRight' /\ \A held : YearLock(y) \notin held => Respects(held)
  BY <1>2, <1>3, <1>4, YearChange
<1>6. \A q \in Requests \ {r} : YearLock(y) \notin locks[q]
  BY <1>3, <1>4, NobodyElse
<1> QED BY <1>2, <1>5, <1>6, EndStep

LEMMA BeginPeriodStep ==
    ASSUME IInv, NEW r \in Requests, BeginPeriod(r), AtCalendar
    PROVE  IInv'
<1>1. PICK y \in Years, new \in PeriodRequests :
        /\ new.first < new.last
        /\ Begin(r, "yearOfPeriod", YearRow(y), [op |-> "period", year |-> y, new |-> new])
  BY DEF BeginPeriod
<1>2. PICK t : t = [op |-> "period", year |-> y, new |-> new]
  OBVIOUS
<1>3. tables' = tables
  BY CalendarQuiet DEF BeginPeriod
<1>4. t \in PeriodOrder /\ t.year = y /\ t.new = new
  BY <1>2 DEF PeriodOrder
<1>5. Begin(r, "yearOfPeriod", YearRow(y), t)
  BY <1>1, <1>2
<1>6. ASSUME pc'[r] = "yearOfPeriod", needs'[r] = YearRow(y), tx'[r] = t PROVE Knows(r)'
  <2>1. PeriodKnows(r)'
    BY <1>1, <1>4, <1>6 DEF PeriodKnows, YearRow
  <2> QED BY <2>1 DEF Knows, CalendarKnows, AtCalendar, OnlyCalendar
<1> QED BY <1>3, <1>5, <1>6, BeginStep

(* The handler goes on with what it read, or rolls back.                   *)
LEMMA AbortStep ==
    ASSUME IInv, NEW r \in Requests, Abort(r), AtCalendar
    PROVE  IInv'
BY CalendarQuiet, RollbackStep DEF Abort

LEMMA ProceedStep ==
    ASSUME IInv, NEW r \in Requests, NEW step, NEW need, NEW t, step # "idle",
           \A x \in needs[r] : Free(r, x), NextStatement(r, step, need, t), AtCalendar,
           tables' = tables /\ pc'[r] = step /\ needs'[r] = need /\ tx'[r] = t
             /\ locks'[r] = locks[r] \union needs[r] => CalendarKnows(r)'
    PROVE  IInv'
<1>1. Continue(r, step, need, t) /\ tables' = tables
  BY CalendarQuiet DEF NextStatement
<1>2. desk' = "calendar"
  BY DEF AtCalendar, OnlyCalendar
<1>3. pc'[r] = step /\ needs'[r] = need /\ tx'[r] = t
        /\ locks'[r] = locks[r] \union needs[r] => Knows(r)'
  BY <1>1, <1>2 DEF Knows
<1> QED BY <1>1, <1>3, ContinueStep

LEMMA YearOfPeriodStep ==
    ASSUME IInv, NEW r \in Requests, YearOfPeriod(r), AtCalendar
    PROVE  IInv'
<1>1. PICK y : y = tx[r].year
  OBVIOUS
<1>2. /\ PeriodKnows(r) /\ pc[r] = "yearOfPeriod" /\ \A x \in needs[r] : Free(r, x)
  BY Parts, PeriodAt DEF YearOfPeriod, At, AtCalendar, OnlyCalendar
<1>3. PICK t : t = tx[r]
  OBVIOUS
<1>4. CASE year[y] = "open" /\ WithinYear(y, t.new)
  <2>1. NextStatement(r, "periodNumber", {}, t)
    BY <1>1, <1>3, <1>4 DEF YearOfPeriod
  <2>2. ASSUME tables' = tables, pc'[r] = "periodNumber", tx'[r] = t,
               locks'[r] = locks[r] \union needs[r]
        PROVE  CalendarKnows(r)'
    <3>1. year'[y] = "open"
      BY <1>4, <2>2, SameTables
    <3>2. YearLock(y) \in locks'[r]
      BY <1>1, <1>2, <2>2 DEF PeriodKnows
    <3>3. t \in PeriodOrder /\ t.new.first < t.new.last /\ t.year = y
      BY <1>1, <1>2, <1>3 DEF PeriodKnows
    <3>4. PeriodKnows(r)'
      BY <1>4, <2>2, <3>1, <3>2, <3>3 DEF PeriodKnows, WithinYear
    <3> QED BY <3>4 DEF CalendarKnows
  <2> QED BY <1>2, <2>1, <2>2, ProceedStep
<1>5. CASE ~ (year[y] = "open" /\ WithinYear(y, t.new))
  BY <1>1, <1>3, <1>5, AbortStep DEF YearOfPeriod
<1> QED BY <1>4, <1>5

LEMMA PeriodOnStep ==
    ASSUME IInv, NEW r \in Requests, AtCalendar, PeriodKnows(r),
           pc[r] \in {"periodNumber", "periodRange"}, \A x \in needs[r] : Free(r, x),
           NEW step \in {"periodRange", "insertPeriod"}, NextStatement(r, step, {}, tx[r]),
           step = "insertPeriod" => \A p \in PeriodsOf(tx[r].year) : ~ Overlaps(p, tx[r].new)
    PROVE  IInv'
<1>1. PICK y : y = tx[r].year
  OBVIOUS
<1>2. PICK t : t = tx[r]
  OBVIOUS
<1>3. ASSUME tables' = tables, pc'[r] = step, tx'[r] = t,
             locks'[r] = locks[r] \union needs[r]
      PROVE  CalendarKnows(r)'
  <2>1. YearLock(y) \in locks'[r] /\ year'[y] = "open" /\ WithinYear(y, t.new)
    BY <1>1, <1>2, <1>3, SameTables DEF PeriodKnows
  <2>2. t \in PeriodOrder /\ t.new.first < t.new.last /\ t.year = y
    BY <1>1, <1>2 DEF PeriodKnows
  <2>3. PeriodsOf(y)' = PeriodsOf(y) /\ period' = period
    BY <1>3, SameTables DEF PeriodsOf, Periods
  <2>4. ASSUME step = "insertPeriod", NEW p \in PeriodsOf(y)' PROVE ~ Overlaps(p, t.new)'
    BY <1>1, <1>2, <2>3, <2>4 DEF Overlaps
  <2>5. PeriodKnows(r)'
    BY <1>3, <2>1, <2>2, <2>4 DEF PeriodKnows, WithinYear
  <2> QED BY <2>5 DEF CalendarKnows
<1>4. step # "idle" /\ NextStatement(r, step, {}, t)
  BY <1>2
<1> QED BY <1>3, <1>4, ProceedStep

LEMMA PeriodNumberStep ==
    ASSUME IInv, NEW r \in Requests, PeriodNumber(r), AtCalendar
    PROVE  IInv'
<1>1. PeriodKnows(r) /\ pc[r] = "periodNumber" /\ \A x \in needs[r] : Free(r, x)
  BY Parts, PeriodAt DEF PeriodNumber, At, AtCalendar, OnlyCalendar
<1>2. Abort(r) \/ NextStatement(r, "periodRange", {}, tx[r])
  BY DEF PeriodNumber
<1> QED BY <1>1, <1>2, AbortStep, PeriodOnStep

LEMMA PeriodRangeStep ==
    ASSUME IInv, NEW r \in Requests, PeriodRange(r), AtCalendar
    PROVE  IInv'
<1>1. PeriodKnows(r) /\ pc[r] = "periodRange" /\ \A x \in needs[r] : Free(r, x)
  BY Parts, PeriodAt DEF PeriodRange, At, AtCalendar, OnlyCalendar
<1>2. \/ Abort(r)
      \/ /\ NextStatement(r, "insertPeriod", {}, tx[r])
         /\ \A p \in PeriodsOf(tx[r].year) : ~ Overlaps(p, tx[r].new)
  BY DEF PeriodRange
<1> QED BY <1>1, <1>2, AbortStep, PeriodOnStep

(* A period more.  Its number and range were looked at under the lock of   *)
(* the year.                                                               *)
LEMMA InsertPeriodStep ==
    ASSUME IInv, NEW r \in Requests, InsertPeriod(r), AtCalendar
    PROVE  IInv'
<1>1. PICK y : y = tx[r].year
  OBVIOUS
<1>2. PICK new : new = tx[r].new
  OBVIOUS
<1>3. PICK free : free = PeriodIds \ Periods
  OBVIOUS
<1>4. PICK n : n = Min(free)
  OBVIOUS
<1>5. PICK row : row = [status |-> "open", year |-> y, number |-> new.number,
                        first |-> new.first, last |-> new.last]
  OBVIOUS
<1>6. /\ RowsRight /\ RequestsRight /\ PeriodKnows(r) /\ pc[r] = "insertPeriod"
      /\ PeriodsRight /\ BankTypes /\ ReconciledByBalance
  BY Parts, PeriodAt, CalendarParts DEF InsertPeriod, At, AtCalendar, OnlyCalendar, RowsRight
<1>7. /\ y \in Years /\ new \in PeriodRequests /\ new.first < new.last
      /\ YearLock(y) \in locks[r] /\ year[y] = "open" /\ WithinYear(y, new)
      /\ \A p \in PeriodsOf(y) : ~ Overlaps(p, new)
  BY <1>1, <1>2, <1>6 DEF PeriodKnows, PeriodOrder
<1>8. /\ year' = year /\ banked' = banked /\ recon' = recon /\ End(r)
  BY DEF InsertPeriod
<1>9. CASE free = {} \/ NumberTaken(y, new.number)
  <2>1. UNCHANGED calendarTables
    BY <1>1, <1>2, <1>3, <1>8, <1>9 DEF InsertPeriod, calendarTables
  <2> QED BY <1>8, <2>1, CalendarQuiet, RollbackStep
<1>10. CASE ~ (free = {} \/ NumberTaken(y, new.number))
  <2>1. period' = [period EXCEPT ![n] = row]
    BY <1>1, <1>2, <1>3, <1>4, <1>5, <1>10 DEF InsertPeriod
  <2>2. n \in PeriodIds /\ n \notin Periods
    <3>1. free \in SUBSET Nat
      BY <1>3, CalendarConstants
    <3> QED BY <1>3, <1>4, <1>10, <3>1, LeastFree
  <2>3. new.first \in Nat /\ new.last \in Nat /\ new.number \in Nat
    BY <1>7, CalendarConstants
  <2>4. row \in PeriodRow
    BY <1>5, <1>7, <2>3 DEF PeriodRow
  <2>5. /\ period' \in [PeriodIds -> PeriodRow \union {NoPeriod}] /\ period'[n] = row
        /\ \A p \in PeriodIds \ {n} : period'[p] = period[p]
    BY <1>6, <2>1, <2>2, <2>4 DEF PeriodsRight
  <2>6. Periods' = Periods \union {n}
    BY <2>2, <2>4, <2>5 DEF Periods, PeriodRow
  <2>7. \A p \in Periods : period'[p] = period[p]
    BY <2>2, <2>5 DEF Periods
  <2>8. PeriodsOf(y)' = PeriodsOf(y) \union {n}
        /\ \A x \in Years \ {y} : PeriodsOf(x)' = PeriodsOf(x)
    BY <1>5, <2>5, <2>6, <2>7 DEF PeriodsOf
  <2>9. \A x \in Years \ {y} : OpenPeriods(x)' = OpenPeriods(x)
    BY <2>7, <2>8 DEF OpenPeriods, PeriodsOf
  <2>10. \A p \in PeriodsOf(y) :
           /\ period[p].number # new.number
           /\ period[p].last <= new.first \/ new.last <= period[p].first
    <3>1. ASSUME NEW p \in PeriodsOf(y)
          PROVE  period[p].last <= new.first \/ new.last <= period[p].first
      <4>1. period[p] \in PeriodRow
        BY <1>6 DEF PeriodsRight, PeriodsOf, Periods, NoPeriod
      <4>2. ~ (period[p].first < new.last /\ period[p].last > new.first)
        BY <1>7 DEF Overlaps
      <4> QED BY <2>3, <4>1, <4>2 DEF PeriodRow
    <3> QED BY <1>10, <3>1 DEF NumberTaken
  <2>11. PeriodsRight'
    <3>1. ASSUME NEW x \in Years, NEW p \in PeriodsOf(x)' PROVE WithinYear(x, period'[p])
      <4>1. CASE p = n /\ x = y
        BY <1>5, <1>7, <2>5, <4>1 DEF WithinYear
      <4>2. CASE p # n \/ x # y
        <5>1. p \in PeriodsOf(x) /\ p \in Periods
          BY <2>2, <2>8, <3>1, <4>2 DEF PeriodsOf
        <5> QED BY <1>6, <2>7, <5>1 DEF PeriodsRight
      <4> QED BY <4>1, <4>2
    <3>2. ASSUME NEW x \in Years, NEW p \in PeriodsOf(x)', NEW q \in PeriodsOf(x)', p # q
          PROVE  /\ period'[p].number # period'[q].number
                 /\ period'[p].last <= period'[q].first \/ period'[q].last <= period'[p].first
      <4>1. CASE x = y /\ p = n
        <5>1. q \in PeriodsOf(y) /\ period'[q] = period[q]
          BY <2>7, <2>8, <3>2, <4>1 DEF PeriodsOf
        <5> QED BY <1>5, <2>5, <2>10, <4>1, <5>1
      <4>2. CASE x = y /\ q = n
        <5>1. p \in PeriodsOf(y) /\ period'[p] = period[p]
          BY <2>7, <2>8, <3>2, <4>2 DEF PeriodsOf
        <5> QED BY <1>5, <2>5, <2>10, <4>2, <5>1
      <4>3. CASE x # y \/ (p # n /\ q # n)
        <5>1. p \in PeriodsOf(x) /\ q \in PeriodsOf(x)
          BY <2>8, <3>2, <4>3
        <5>2. period'[p] = period[p] /\ period'[q] = period[q]
          BY <2>7, <5>1 DEF PeriodsOf
        <5> QED BY <1>6, <3>2, <5>1, <5>2 DEF PeriodsRight
      <4> QED BY <4>1, <4>2, <4>3
    <3>3. ASSUME NEW x \in Years, year'[x] = "closed" PROVE OpenPeriods(x)' = {}
      BY <1>6, <1>7, <1>8, <2>9, <3>3 DEF PeriodsRight
    <3>4. year' \in [Years -> {"none", "open", "closed"}]
      BY <1>6, <1>8 DEF PeriodsRight
    <3> QED BY <2>5, <3>1, <3>2, <3>3, <3>4 DEF PeriodsRight, WithinYear
  <2>12. CalendarRight'
    BY <1>6, <1>8, <2>6, <2>11, BanksSame, NextCalendar
  <2>13. ASSUME NEW q \in Requests \ {r} PROVE Respects(locks[q])
    <3>1. YearLock(y) \notin locks[q]
      BY <1>6, <1>7, NobodyElse
    <3>2. Recons' = Recons
      BY <1>8 DEF Recons
    <3>3. \A x \in Years : YearLock(x) \in locks[q] => x # y
      BY <3>1
    <3>4. CalendarRespected(locks[q])
      BY <1>8, <2>6, <2>7, <2>8, <3>2, <3>3 DEF CalendarRespected
    <3> QED BY <1>6, <2>12, <3>4, CalendarRows
  <2> QED BY <1>6, <1>8, <2>12, <2>13, CalendarRows, EndStep
<1> QED BY <1>9, <1>10

-----------------------------------------------------------------------------
(* closeFiscalYear and updatePeriodStatus.                                 *)
LEMMA BeginCloseYearStep ==
    ASSUME IInv, NEW r \in Requests, BeginCloseYear(r), AtCalendar
    PROVE  IInv'
<1>1. PICK y \in Years :
        Begin(r, "closedYear", YearRow(y), [op |-> "closeYear", year |-> y])
  BY DEF BeginCloseYear
<1>2. PICK t : t = [op |-> "closeYear", year |-> y]
  OBVIOUS
<1>3. tables' = tables
  BY CalendarQuiet DEF BeginCloseYear
<1>4. Begin(r, "closedYear", YearRow(y), t)
  BY <1>1, <1>2
<1>5. ASSUME pc'[r] = "closedYear", needs'[r] = YearRow(y), tx'[r] = t PROVE Knows(r)'
  <2>1. CloseKnows(r)'
    BY <1>2, <1>5 DEF CloseKnows, YearRow
  <2> QED BY <2>1 DEF Knows, CalendarKnows, AtCalendar, OnlyCalendar
<1> QED BY <1>3, <1>4, <1>5, BeginStep

LEMMA CloseYearStep ==
    ASSUME IInv, NEW r \in Requests, CloseYear(r), AtCalendar
    PROVE  IInv'
<1>1. PICK t : t = tx[r]
  OBVIOUS
<1>2. PICK y : y = t.year
  OBVIOUS
<1>3. CloseKnows(r) /\ pc[r] = "closedYear" /\ \A x \in needs[r] : Free(r, x)
  BY Parts, CloseAt DEF CloseYear, At, AtCalendar, OnlyCalendar
<1>4. PICK need : need = {PeriodLock(p) : p \in OpenPeriods(y)}
  OBVIOUS
<1>5. Abort(r) \/ NextStatement(r, "openPeriods", need, t)
  BY <1>1, <1>2, <1>4 DEF CloseYear
<1>6. ASSUME pc'[r] = "openPeriods", tx'[r] = t, locks'[r] = locks[r] \union needs[r]
      PROVE  CalendarKnows(r)'
  <2>1. YearLock(y) \in locks'[r] /\ t \in [op : {"closeYear"}, year : Years]
    BY <1>1, <1>2, <1>3, <1>6 DEF CloseKnows
  <2>2. CloseKnows(r)'
    BY <1>2, <1>6, <2>1 DEF CloseKnows
  <2> QED BY <2>2 DEF CalendarKnows
<1> QED BY <1>3, <1>5, <1>6, AbortStep, ProceedStep

LEMMA LockOpenPeriodsStep ==
    ASSUME IInv, NEW r \in Requests, LockOpenPeriods(r), AtCalendar
    PROVE  IInv'
<1>1. PICK t : t = tx[r]
  OBVIOUS
<1>2. PICK y : y = t.year
  OBVIOUS
<1>3. CloseKnows(r) /\ pc[r] = "openPeriods" /\ \A x \in needs[r] : Free(r, x)
  BY Parts, CloseAt DEF LockOpenPeriods, At, AtCalendar, OnlyCalendar
<1>4. Abort(r) \/ (NextStatement(r, "writeYear", {}, t) /\ OpenPeriods(y) = {})
  BY <1>1, <1>2 DEF LockOpenPeriods
<1>5. ASSUME tables' = tables, pc'[r] = "writeYear", tx'[r] = t, OpenPeriods(y) = {},
             locks'[r] = locks[r] \union needs[r]
      PROVE  CalendarKnows(r)'
  <2>1. YearLock(y) \in locks'[r] /\ t \in [op : {"closeYear"}, year : Years]
    BY <1>1, <1>2, <1>3, <1>5 DEF CloseKnows
  <2>2. OpenPeriods(y)' = {}
    BY <1>5, SameTables DEF OpenPeriods, PeriodsOf, Periods
  <2>3. CloseKnows(r)'
    BY <1>2, <1>5, <2>1, <2>2 DEF CloseKnows
  <2> QED BY <2>3 DEF CalendarKnows
<1> QED BY <1>3, <1>4, <1>5, AbortStep, ProceedStep

LEMMA BeginPeriodStatusStep ==
    ASSUME IInv, NEW r \in Requests, BeginPeriodStatus(r), AtCalendar
    PROVE  IInv'
<1>1. PICK p \in Periods, to \in {"closed", "locked"} :
        Begin(r, "lockPeriod", {PeriodLock(p)}, [op |-> "status", id |-> p, to |-> to])
  BY DEF BeginPeriodStatus
<1>2. PICK t : t = [op |-> "status", id |-> p, to |-> to]
  OBVIOUS
<1>3. tables' = tables
  BY CalendarQuiet DEF BeginPeriodStatus
<1>4. Begin(r, "lockPeriod", {PeriodLock(p)}, t)
  BY <1>1, <1>2
<1>5. ASSUME pc'[r] = "lockPeriod", tx'[r] = t PROVE Knows(r)'
  <2>1. p \in Periods'
    BY <1>3, SameTables DEF Periods
  <2>2. BankKnows(r)'
    BY <1>2, <1>5, <2>1 DEF BankKnows
  <2> QED BY <2>2 DEF Knows, CalendarKnows, AtCalendar, OnlyCalendar
<1> QED BY <1>3, <1>4, <1>5, BeginStep

LEMMA LockPeriodStep ==
    ASSUME IInv, NEW r \in Requests, LockPeriod(r), AtCalendar
    PROVE  IInv'
<1>1. PICK t : t = tx[r]
  OBVIOUS
<1>2. BankKnows(r) /\ pc[r] = "lockPeriod" /\ \A x \in needs[r] : Free(r, x)
  BY Parts, BankAt DEF LockPeriod, At, AtCalendar, OnlyCalendar
<1>3. Abort(r) \/ NextStatement(r, "writePeriod", {}, t)
  BY <1>1 DEF LockPeriod
<1>4. ASSUME tables' = tables, pc'[r] = "writePeriod", tx'[r] = t
      PROVE  CalendarKnows(r)'
  <2>1. t \in [op : {"status"}, id : Periods, to : {"closed", "locked"}]
    BY <1>1, <1>2 DEF BankKnows
  <2>2. Periods' = Periods
    BY <1>4, SameTables DEF Periods
  <2>3. BankKnows(r)'
    BY <1>4, <2>1, <2>2 DEF BankKnows
  <2> QED BY <2>3 DEF CalendarKnows
<1> QED BY <1>2, <1>3, <1>4, AbortStep, ProceedStep

(* A period never becomes open again.                                      *)
LEMMA WritePeriodStep ==
    ASSUME IInv, NEW r \in Requests, WritePeriod(r), AtCalendar
    PROVE  IInv'
<1>1. PICK n : n = tx[r].id
  OBVIOUS
<1>2. PICK row : row = [period[n] EXCEPT !.status = tx[r].to]
  OBVIOUS
<1>3. /\ RowsRight /\ BankKnows(r) /\ pc[r] = "writePeriod"
      /\ PeriodsRight /\ BankTypes /\ ReconciledByBalance
  BY Parts, BankAt, CalendarParts DEF WritePeriod, At, AtCalendar, OnlyCalendar, RowsRight
<1>4. n \in Periods /\ n \in PeriodIds /\ tx[r].to \in {"closed", "locked"}
  BY <1>1, <1>3 DEF BankKnows, Periods
<1>5. /\ period' = [period EXCEPT ![n] = row] /\ End(r)
      /\ year' = year /\ banked' = banked /\ recon' = recon
  BY <1>1, <1>2 DEF WritePeriod
<1>6. period[n] \in PeriodRow
  BY <1>3, <1>4 DEF PeriodsRight, Periods, NoPeriod
<1>7. /\ row \in PeriodRow /\ row.status \in {"closed", "locked"} /\ row.year = period[n].year
      /\ row.number = period[n].number
      /\ row.first = period[n].first /\ row.last = period[n].last
  BY <1>2, <1>4, <1>6 DEF PeriodRow
<1>8. /\ period' \in [PeriodIds -> PeriodRow \union {NoPeriod}] /\ period'[n] = row
      /\ \A p \in PeriodIds \ {n} : period'[p] = period[p]
  BY <1>3, <1>4, <1>5, <1>7 DEF PeriodsRight
<1>9. \A p \in Periods :
        /\ period'[p].year = period[p].year /\ period'[p].number = period[p].number
        /\ period'[p].first = period[p].first /\ period'[p].last = period[p].last
        /\ period'[p].status = "open" => period[p].status = "open"
  BY <1>7, <1>8 DEF Periods
<1>10. Periods' = Periods
  BY <1>4, <1>7, <1>8 DEF Periods
<1>11. \A x : PeriodsOf(x)' = PeriodsOf(x)
  BY <1>9, <1>10 DEF PeriodsOf
<1>12. PeriodsRight'
  <2>1. ASSUME NEW x \in Years
        PROVE  /\ \A p \in PeriodsOf(x) : WithinYear(x, period'[p])
               /\ \A p, q \in PeriodsOf(x) : p # q =>
                    /\ period'[p].number # period'[q].number
                    /\ \/ period'[p].last <= period'[q].first
                       \/ period'[q].last <= period'[p].first
    BY <1>3, <1>9 DEF PeriodsRight, WithinYear, PeriodsOf
  <2>2. ASSUME NEW x \in Years, year'[x] = "closed" PROVE OpenPeriods(x)' = {}
    <3>1. OpenPeriods(x) = {}
      BY <1>3, <1>5, <2>2 DEF PeriodsRight
    <3> QED BY <1>9, <1>11, <3>1 DEF OpenPeriods, PeriodsOf
  <2>3. year' \in [Years -> {"none", "open", "closed"}]
    BY <1>3, <1>5 DEF PeriodsRight
  <2> QED BY <1>8, <1>11, <2>1, <2>2, <2>3 DEF PeriodsRight, WithinYear
<1>13. CalendarRight'
  BY <1>3, <1>5, <1>10, <1>12, BanksSame, NextCalendar
<1>14. \A held : CalendarRespected(held)
  <2>1. Recons' = Recons
    BY <1>5 DEF Recons
  <2> QED BY <1>5, <1>9, <1>10, <1>11, <2>1 DEF CalendarRespected
<1> QED BY <1>3, <1>5, <1>13, <1>14, CalendarRows, EndStep

-----------------------------------------------------------------------------
(* The bank.                                                               *)
LEMMA BankChange ==
    ASSUME RowsRight, AtCalendar, year' = year, period' = period,
           Periods' = Periods => BankTypes', ReconciledByBalance',
           \A c \in Recons : /\ c \in Recons'
                             /\ recon'[c].account = recon[c].account
                             /\ recon'[c].difference = recon[c].difference,
           \A b \in BankIds : banked[b].account \in BankAccounts =>
             banked'[b].account = banked[b].account
    PROVE  RowsRight' /\ \A held : Respects(held)
<1>1. PeriodsRight
  BY CalendarParts DEF RowsRight
<1>2. PeriodsRight' /\ Periods' = Periods /\ \A y : PeriodsOf(y)' = PeriodsOf(y)
  BY <1>1, PeriodsSame
<1>3. CalendarRight'
  BY <1>2, NextCalendar
<1>4. \A held : CalendarRespected(held)
  BY <1>2 DEF CalendarRespected
<1> QED BY <1>3, <1>4, CalendarRows

LEMMA CreateBankedStep ==
    ASSUME IInv, NEW r \in Requests, CreateBanked(r), AtCalendar
    PROVE  IInv'
<1>1. PICK free : free = {b \in BankIds : banked[b] = NoBanked}
  OBVIOUS
<1>2. PICK n : n = Min(free)
  OBVIOUS
<1>3. PICK a \in BankAccounts :
        /\ free # {} /\ Autocommit(r, BankedLock(n))
        /\ banked' = [banked EXCEPT ![n] = [account |-> a, reconciled |-> FALSE]]
        /\ UNCHANGED <<year, period, recon>>
  BY <1>1, <1>2 DEF CreateBanked
<1>4. PICK row : row = [account |-> a, reconciled |-> FALSE]
  OBVIOUS
<1>5. RowsRight /\ BankTypes /\ ReconciledByBalance
  BY Parts, CalendarParts DEF RowsRight
<1>6. n \in BankIds /\ banked[n] = NoBanked
  <2>1. free \in SUBSET Nat
    BY <1>1, CalendarConstants
  <2> QED BY <1>1, <1>2, <1>3, <2>1, LeastFree
<1>7. row \in BankedRow /\ ~ row.reconciled
  BY <1>4 DEF BankedRow
<1>8. /\ banked' \in [BankIds -> BankedRow \union {NoBanked}] /\ banked'[n] = row
      /\ \A b \in BankIds \ {n} : banked'[b] = banked[b]
  BY <1>3, <1>4, <1>5, <1>6, <1>7 DEF BankTypes
<1>9. Recons' = Recons /\ recon' = recon
  BY <1>3 DEF Recons
<1>10. Periods' = Periods => BankTypes'
  BY <1>5, <1>8, <1>9 DEF BankTypes
<1>11. ReconciledByBalance'
  BY <1>5, <1>7, <1>8, <1>9 DEF ReconciledByBalance
<1>12. \A b \in BankIds : banked[b].account \in BankAccounts =>
         banked'[b].account = banked[b].account
  BY <1>6, <1>8, CalendarConstants DEF NoBanked
<1> QED BY <1>3, <1>5, <1>9, <1>10, <1>11, <1>12, BankChange, AutoStep

LEMMA BeginReconStep ==
    ASSUME IInv, NEW r \in Requests, BeginRecon(r), AtCalendar
    PROVE  IInv'
<1>1. PICK a \in BankAccounts, p \in Periods, d \in Differences :
        Begin(r, "insertRecon", {}, [op |-> "recon",
              row |-> [status |-> "draft", account |-> a, period |-> p, difference |-> d]])
  BY DEF BeginRecon
<1>2. PICK row : row = [status |-> "draft", account |-> a, period |-> p, difference |-> d]
  OBVIOUS
<1>3. PICK t : t = [op |-> "recon", row |-> row]
  OBVIOUS
<1>4. tables' = tables
  BY CalendarQuiet DEF BeginRecon
<1>5. Begin(r, "insertRecon", {}, t)
  BY <1>1, <1>2, <1>3
<1>6. ASSUME pc'[r] = "insertRecon", tx'[r] = t PROVE Knows(r)'
  <2>1. p \in Periods'
    BY <1>4, SameTables DEF Periods
  <2>2. row \in ReconRow /\ row.status = "draft" /\ row.period = p /\ t.row = row
    BY <1>2, <1>3 DEF ReconRow, Periods
  <2>3. BankKnows(r)'
    BY <1>6, <2>1, <2>2 DEF BankKnows
  <2> QED BY <2>3 DEF Knows, CalendarKnows, AtCalendar, OnlyCalendar
<1> QED BY <1>4, <1>5, <1>6, BeginStep

(* UNIQUE(bank_account_id, period_id) decides.                             *)
LEMMA InsertReconStep ==
    ASSUME IInv, NEW r \in Requests, InsertRecon(r), AtCalendar
    PROVE  IInv'
<1>1. PICK free : free = ReconIds \ Recons
  OBVIOUS
<1>2. PICK n : n = Min(free)
  OBVIOUS
<1>3. PICK row : row = tx[r].row
  OBVIOUS
<1>4. /\ RowsRight /\ BankKnows(r) /\ pc[r] = "insertRecon"
      /\ BankTypes /\ ReconciledByBalance
  BY Parts, BankAt, CalendarParts DEF InsertRecon, At, AtCalendar, OnlyCalendar, RowsRight
<1>5. row \in ReconRow /\ row.status = "draft" /\ row.period \in Periods
  BY <1>3, <1>4 DEF BankKnows
<1>6. End(r) /\ year' = year /\ period' = period /\ banked' = banked
  BY DEF InsertRecon
<1>7. CASE ~ (free # {} /\ ReconAllowed(row.account, row.period))
  <2>1. UNCHANGED calendarTables
    BY <1>1, <1>3, <1>6, <1>7 DEF InsertRecon, calendarTables
  <2> QED BY <1>6, <2>1, CalendarQuiet, RollbackStep
<1>8. CASE free # {} /\ ReconAllowed(row.account, row.period)
  <2>1. recon' = [recon EXCEPT ![n] = row]
    BY <1>1, <1>2, <1>3, <1>8 DEF InsertRecon
  <2>2. n \in ReconIds /\ n \notin Recons
    <3>1. free \in SUBSET Nat
      BY <1>1, CalendarConstants
    <3> QED BY <1>1, <1>2, <1>8, <3>1, LeastFree
  <2>3. /\ recon' \in [ReconIds -> ReconRow \union {NoRecon}] /\ recon'[n] = row
        /\ \A c \in ReconIds \ {n} : recon'[c] = recon[c]
    BY <1>4, <1>5, <2>1, <2>2 DEF BankTypes
  <2>4. Recons' = Recons \union {n} /\ \A c \in Recons : recon'[c] = recon[c]
    BY <1>5, <2>2, <2>3 DEF Recons
  <2>5. Periods' = Periods => BankTypes'
    BY <1>4, <1>5, <1>6, <2>3, <2>4 DEF BankTypes
  <2>6. \A c \in Recons : ~ (recon[c].account = row.account /\ recon[c].period = row.period)
    BY <1>8 DEF ReconAllowed, ReconOf
  <2>7. ReconciledByBalance'
    <3>1. \A c, d \in Recons' : c # d =>
            <<recon'[c].account, recon'[c].period>> # <<recon'[d].account, recon'[d].period>>
      BY <1>4, <2>3, <2>4, <2>6 DEF ReconciledByBalance
    <3>2. \A b \in BankIds : banked'[b].reconciled =>
            \E c \in Recons' : /\ recon'[c].status = "completed"
                               /\ recon'[c].account = banked'[b].account
                               /\ recon'[c].difference \in -1 .. 1
      BY <1>4, <1>6, <2>4 DEF ReconciledByBalance
    <3> QED BY <3>1, <3>2 DEF ReconciledByBalance
  <2>8. RowsRight' /\ \A held : Respects(held)
    BY <1>4, <1>6, <2>4, <2>5, <2>7, BankChange
  <2> QED BY <1>6, <2>8, EndStep
<1> QED BY <1>7, <1>8

LEMMA BeginReconcileStep ==
    ASSUME IInv, NEW r \in Requests, BeginReconcile(r), AtCalendar
    PROVE  IInv'
<1>1. PICK c \in Recons :
        Begin(r, "lockRecon", {ReconLock(c)}, [op |-> "reconcile", id |-> c])
  BY DEF BeginReconcile
<1>2. PICK t : t = [op |-> "reconcile", id |-> c]
  OBVIOUS
<1>3. tables' = tables
  BY CalendarQuiet DEF BeginReconcile
<1>4. Begin(r, "lockRecon", {ReconLock(c)}, t)
  BY <1>1, <1>2
<1>5. ASSUME pc'[r] = "lockRecon", tx'[r] = t PROVE Knows(r)'
  <2>1. c \in Recons'
    BY <1>3, SameTables DEF Recons
  <2>2. BankKnows(r)'
    BY <1>2, <1>5, <2>1 DEF BankKnows
  <2> QED BY <2>2 DEF Knows, CalendarKnows, AtCalendar, OnlyCalendar
<1> QED BY <1>3, <1>4, <1>5, BeginStep

LEMMA LockReconStep ==
    ASSUME IInv, NEW r \in Requests, LockRecon(r), AtCalendar
    PROVE  IInv'
<1>1. PICK c : c = tx[r].id
  OBVIOUS
<1>2. PICK seen : seen = Unreconciled(recon[c].account)
  OBVIOUS
<1>3. PICK t : t = [op |-> "reconcile", id |-> c, seen |-> seen]
  OBVIOUS
<1>4. BankKnows(r) /\ pc[r] = "lockRecon" /\ \A x \in needs[r] : Free(r, x)
  BY Parts, BankAt DEF LockRecon, At, AtCalendar, OnlyCalendar
<1>5. c \in Recons /\ seen \in SUBSET BankIds
  BY <1>1, <1>2, <1>4 DEF BankKnows, Unreconciled
<1>6. PICK need : need = BankedLocks(recon[c].account)
  OBVIOUS
<1>7. Abort(r) \/ (Completable(c) /\ NextStatement(r, "markBanked", need, t))
  BY <1>1, <1>2, <1>3, <1>6 DEF LockRecon
<1>8. ASSUME tables' = tables, pc'[r] = "markBanked", tx'[r] = t, Completable(c)
      PROVE  CalendarKnows(r)'
  <2>1. c \in Recons' /\ recon'[c].difference \in -1 .. 1
    BY <1>5, <1>8, SameTables DEF Recons, Completable
  <2>2. t \in Marking' /\ t.id = c
    BY <1>3, <1>5, <2>1 DEF Marking
  <2>3. BankKnows(r)'
    BY <1>8, <2>1, <2>2 DEF BankKnows
  <2> QED BY <2>3 DEF CalendarKnows
<1> QED BY <1>4, <1>7, <1>8, AbortStep, ProceedStep

LEMMA MarkBankedStep ==
    ASSUME IInv, NEW r \in Requests, MarkBanked(r), AtCalendar
    PROVE  IInv'
<1>1. PICK c : c = tx[r].id
  OBVIOUS
<1>2. PICK now : now = Unreconciled(recon[c].account)
  OBVIOUS
<1>3. BankKnows(r) /\ pc[r] = "markBanked" /\ \A x \in needs[r] : Free(r, x)
  BY Parts, BankAt DEF MarkBanked, At, AtCalendar, OnlyCalendar
<1>4. c \in Recons /\ tx[r] \in Marking /\ recon[c].difference \in -1 .. 1
  BY <1>1, <1>3 DEF BankKnows, Marking
<1>5. PICK seen \in {tx[r].seen \intersect now, now} :
        NextStatement(r, "commitRecon", {}, [tx[r] EXCEPT !.seen = seen])
  BY <1>1, <1>2 DEF MarkBanked
<1>6. PICK t : t = [tx[r] EXCEPT !.seen = seen]
  OBVIOUS
<1>7. seen \in SUBSET BankIds /\ \A b \in seen : banked[b].account = recon[c].account
  BY <1>2, <1>5 DEF Unreconciled
<1>8. ASSUME tables' = tables, pc'[r] = "commitRecon", tx'[r] = t
      PROVE  CalendarKnows(r)'
  <2>1. c \in Recons' /\ recon'[c].difference \in -1 .. 1
        /\ \A b \in seen : banked'[b].account = recon'[c].account
    BY <1>4, <1>7, <1>8, SameTables DEF Recons
  <2>2. t \in Marking' /\ t.id = c /\ t.seen = seen
    BY <1>1, <1>4, <1>6, <1>7, <2>1 DEF Marking
  <2>3. BankKnows(r)'
    BY <1>8, <2>1, <2>2 DEF BankKnows
  <2> QED BY <2>3 DEF CalendarKnows
<1>9. NextStatement(r, "commitRecon", {}, t)
  BY <1>5, <1>6
<1> QED BY <1>3, <1>8, <1>9, ProceedStep

LEMMA CommitReconStep ==
    ASSUME IInv, NEW r \in Requests, CommitRecon(r), AtCalendar
    PROVE  IInv'
<1>1. PICK n : n = tx[r].id
  OBVIOUS
<1>2. PICK seen : seen = tx[r].seen
  OBVIOUS
<1>3. PICK row : row = [recon[n] EXCEPT !.status = "completed"]
  OBVIOUS
<1>4. /\ RowsRight /\ BankKnows(r) /\ pc[r] = "commitRecon"
      /\ BankTypes /\ ReconciledByBalance
  BY Parts, BankAt, CalendarParts DEF CommitRecon, At, AtCalendar, OnlyCalendar, RowsRight
<1>5. /\ n \in Recons /\ n \in ReconIds /\ seen \in SUBSET BankIds
      /\ recon[n].difference \in -1 .. 1
      /\ \A b \in seen : banked[b].account = recon[n].account
  BY <1>1, <1>2, <1>4 DEF BankKnows, Marking, Recons
<1>6. /\ recon' = [recon EXCEPT ![n] = row] /\ End(r) /\ year' = year /\ period' = period
      /\ banked' = [b \in BankIds |-> IF b \in seen
                                      THEN [banked[b] EXCEPT !.reconciled = TRUE]
                                      ELSE banked[b]]
  BY <1>1, <1>2, <1>3 DEF CommitRecon
<1>7. recon[n] \in ReconRow
  BY <1>4, <1>5 DEF BankTypes, Recons, NoRecon
<1>8. /\ row \in ReconRow /\ row.status = "completed" /\ row.account = recon[n].account
      /\ row.period = recon[n].period /\ row.difference = recon[n].difference
  BY <1>3, <1>7 DEF ReconRow
<1>9. /\ recon' \in [ReconIds -> ReconRow \union {NoRecon}] /\ recon'[n] = row
      /\ \A c \in ReconIds \ {n} : recon'[c] = recon[c]
  BY <1>4, <1>5, <1>6, <1>8 DEF BankTypes
<1>10. /\ Recons' = Recons
       /\ \A c \in Recons : /\ recon'[c].account = recon[c].account
                            /\ recon'[c].period = recon[c].period
                            /\ recon'[c].difference = recon[c].difference
                            /\ recon[c].status = "completed" => recon'[c].status = "completed"
  BY <1>5, <1>8, <1>9 DEF Recons
<1>11. recon[n].account \in BankAccounts
  BY <1>7 DEF ReconRow
<1>12. ASSUME NEW b \in BankIds
       PROVE  /\ banked'[b] \in BankedRow \union {NoBanked}
              /\ banked'[b].account = banked[b].account
              /\ b \notin seen => banked'[b] = banked[b]
  <2>1. CASE b \in seen
    <3>1. banked[b].account \in BankAccounts /\ banked[b] \in BankedRow
      BY <1>4, <1>5, <1>11, <2>1, CalendarConstants DEF BankTypes, NoBanked
    <3>2. banked'[b] = [banked[b] EXCEPT !.reconciled = TRUE]
      BY <1>6, <2>1
    <3> QED BY <2>1, <3>1, <3>2 DEF BankedRow
  <2>2. CASE b \notin seen
    BY <1>4, <1>6, <2>2 DEF BankTypes
  <2> QED BY <2>1, <2>2
<1>13. Periods' = Periods => BankTypes'
  <2>1. banked' \in [BankIds -> BankedRow \union {NoBanked}]
    BY <1>6, <1>12
  <2> QED BY <1>4, <1>9, <1>10, <2>1 DEF BankTypes
<1>14. ReconciledByBalance'
  <2>1. \A c, d \in Recons' : c # d =>
          <<recon'[c].account, recon'[c].period>> # <<recon'[d].account, recon'[d].period>>
    BY <1>4, <1>10 DEF ReconciledByBalance
  <2>2. ASSUME NEW b \in BankIds, banked'[b].reconciled
        PROVE  \E c \in Recons' : /\ recon'[c].status = "completed"
                                  /\ recon'[c].account = banked'[b].account
                                  /\ recon'[c].difference \in -1 .. 1
    <3>1. CASE b \in seen
      BY <1>5, <1>8, <1>9, <1>10, <1>12, <3>1
    <3>2. CASE b \notin seen
      <4>1. banked'[b] = banked[b]
        BY <1>12, <3>2
      <4> QED BY <1>4, <1>10, <2>2, <4>1 DEF ReconciledByBalance
    <3> QED BY <3>1, <3>2
  <2> QED BY <2>1, <2>2 DEF ReconciledByBalance
<1>15. RowsRight' /\ \A held : Respects(held)
  BY <1>4, <1>6, <1>10, <1>12, <1>13, <1>14, BankChange
<1> QED BY <1>6, <1>15, EndStep

LEMMA CalendarStep ==
    ASSUME IInv, NEW r \in Requests, CalendarHandle(r) \/ CalendarStatement(r), AtCalendar
    PROVE  IInv'
<1>1. CASE CreateYear(r) \/ WriteYear(r)
  BY <1>1, CreateYearStep, WriteYearStep
<1>2. CASE \/ BeginPeriod(r) \/ YearOfPeriod(r) \/ PeriodNumber(r) \/ PeriodRange(r)
           \/ InsertPeriod(r)
  BY <1>2, BeginPeriodStep, YearOfPeriodStep, PeriodNumberStep, PeriodRangeStep,
     InsertPeriodStep
<1>3. CASE BeginCloseYear(r) \/ CloseYear(r) \/ LockOpenPeriods(r)
  BY <1>3, BeginCloseYearStep, CloseYearStep, LockOpenPeriodsStep
<1>4. CASE BeginPeriodStatus(r) \/ LockPeriod(r) \/ WritePeriod(r)
  BY <1>4, BeginPeriodStatusStep, LockPeriodStep, WritePeriodStep
<1>5. CASE CreateBanked(r) \/ BeginRecon(r) \/ InsertRecon(r)
  BY <1>5, CreateBankedStep, BeginReconStep, InsertReconStep
<1>6. CASE BeginReconcile(r) \/ LockRecon(r) \/ MarkBanked(r) \/ CommitRecon(r)
  BY <1>6, BeginReconcileStep, LockReconStep, MarkBankedStep, CommitReconStep
<1> QED BY <1>1, <1>2, <1>3, <1>4, <1>5, <1>6 DEF CalendarHandle, CalendarStatement

-----------------------------------------------------------------------------
(* The papers before an order.                                             *)
AtSourcing == OnlySourcing /\ desk' = desk

LEMMA SourcingRows ==
    ASSUME RowsRight, AtSourcing, SourcingRight'
    PROVE  RowsRight' /\ \A held : SourcingRespected(held) => Respects(held)
BY CalendarSame, QualitySame DEF AtSourcing, OnlySourcing, RowsRight, Respects

LEMMA SourcingQuiet ==
    ASSUME AtSourcing, UNCHANGED sourcingTables
    PROVE  tables' = tables
BY DEF AtSourcing, OnlySourcing, tables

LEMMA SourcingBegin ==
    ASSUME IInv, NEW r \in Requests, NEW step, NEW need, NEW t, step # "idle",
           Begin(r, step, need, t), AtSourcing, UNCHANGED sourcingTables,
           tables' = tables /\ pc'[r] = step /\ needs'[r] = need /\ tx'[r] = t
             => SourcingKnows(r)'
    PROVE  IInv'
<1>1. tables' = tables /\ desk' = "sourcing"
  BY SourcingQuiet DEF AtSourcing, OnlySourcing
<1>2. pc'[r] = step /\ needs'[r] = need /\ tx'[r] = t /\ locks'[r] = {} => Knows(r)'
  BY <1>1 DEF Knows
<1> QED BY <1>1, <1>2, BeginStep

LEMMA SourcingContinue ==
    ASSUME IInv, NEW r \in Requests, NEW step, NEW need, NEW t, step # "idle",
           \A x \in needs[r] : Free(r, x), Continue(r, step, need, t), AtSourcing,
           UNCHANGED sourcingTables,
           tables' = tables /\ pc'[r] = step /\ needs'[r] = need /\ tx'[r] = t
             /\ locks'[r] = locks[r] \union needs[r] => SourcingKnows(r)'
    PROVE  IInv'
<1>1. tables' = tables /\ desk' = "sourcing"
  BY SourcingQuiet DEF AtSourcing, OnlySourcing
<1>2. pc'[r] = step /\ needs'[r] = need /\ tx'[r] = t
        /\ locks'[r] = locks[r] \union needs[r] => Knows(r)'
  BY <1>1 DEF Knows
<1> QED BY <1>1, <1>2, ContinueStep

LEMMA PaperAt ==
    ASSUME NEW r, Knows(r), desk = "sourcing", pc[r] = "writePaper"
    PROVE  PaperKnows(r)
BY DEF Knows, SourcingKnows, AnswerKnows, SelectKnows

LEMMA AnswerAt ==
    ASSUME NEW r, Knows(r), desk = "sourcing",
           pc[r] \in {"findQuote", "writeQuote", "deleteLines", "insertLines"}
    PROVE  AnswerKnows(r)
BY DEF Knows, SourcingKnows, PaperKnows, SelectKnows

LEMMA SelectAt ==
    ASSUME NEW r, Knows(r), desk = "sourcing",
           pc[r] \in {"rejectOthers", "selectOne", "closeRfq", "insertOrder"}
    PROVE  SelectKnows(r)
BY DEF Knows, SourcingKnows, PaperKnows, AnswerKnows

LEMMA BeginPaperStep ==
    ASSUME IInv, NEW r \in Requests, ReadPaper(r), AtSourcing
    PROVE  IInv'
<1>1. PICK p \in Papers, to \in {"submitted", "approved", "rejected", "sent", "accepted",
                                 "cancelled"} :
        /\ <<paper[p], to>> \in StepsOf(p)
        /\ Begin(r, "writePaper", {PaperLock(p)}, [op |-> "move", id |-> p, to |-> to])
  BY DEF ReadPaper
<1>2. PICK t : t = [op |-> "move", id |-> p, to |-> to]
  OBVIOUS
<1>3. Begin(r, "writePaper", {PaperLock(p)}, t) /\ t.id = p /\ t.to = to
  BY <1>1, <1>2
<1>4. UNCHANGED sourcingTables
  BY DEF ReadPaper
<1>5. ASSUME tables' = tables, pc'[r] = "writePaper", tx'[r] = t PROVE SourcingKnows(r)'
  <2>1. \E step \in StepsOf(p) : step[2] = to
    BY <1>1
  <2>2. PaperKnows(r)'
    BY <1>3, <1>5, <2>1 DEF PaperKnows, StepsOf
  <2> QED BY <2>2 DEF SourcingKnows
<1> QED BY <1>3, <1>4, <1>5, SourcingBegin

(* Where the steps of a paper lead.                                        *)
RequestStatus == {"draft", "submitted", "approved", "rejected"}
RfqStatus == {"draft", "sent", "closed"}
QuotationStatus == {"draft", "sent", "accepted", "rejected", "cancelled"}

LEMMA StepsLead ==
    ASSUME NEW p \in Papers, NEW step \in StepsOf(p)
    PROVE  /\ p \in PurchaseRequests => step[2] \in RequestStatus
           /\ p \in Rfqs => step[2] \in RfqStatus
           /\ p \in Quotations => step[2] \in QuotationStatus
<1>1. CASE p \in PurchaseRequests
  BY <1>1, SourcingConstants DEF StepsOf, RequestSteps, RequestStatus
<1>2. CASE p \in Quotations
  <2>1. step \in QuotationSteps
    BY <1>2, SourcingConstants DEF StepsOf
  <2>2. step[2] \in {"sent", "accepted", "rejected", "cancelled"}
    BY <2>1 DEF QuotationSteps
  <2> QED BY <1>2, <2>2, SourcingConstants DEF QuotationStatus
<1>3. CASE p \in Rfqs
  BY <1>3, SourcingConstants DEF StepsOf, RfqSteps, RfqStatus
<1> QED BY <1>1, <1>2, <1>3 DEF Papers

(* A paper gets another status.                                            *)
LEMMA PaperChange ==
    ASSUME RowsRight, NEW p \in Papers, NEW to, paper' = [paper EXCEPT ![p] = to],
           p \in PurchaseRequests => to \in RequestStatus,
           p \in Rfqs => to \in RfqStatus,
           p \in Quotations => to \in QuotationStatus
    PROVE  /\ \A x \in PurchaseRequests : paper'[x] \in RequestStatus
           /\ \A x \in Rfqs : paper'[x] \in RfqStatus
           /\ \A x \in Quotations : paper'[x] \in QuotationStatus
           /\ paper' = [x \in Papers |-> paper'[x]]
           /\ paper'[p] = to /\ \A x \in Papers \ {p} : paper'[x] = paper[x]
<1>1. /\ paper = [x \in Papers |-> paper[x]] /\ SourcingTypeOK
  BY DEF RowsRight, SourcingRight, PapersRight, QuotesCarryOneAnswer
<1>2. paper'[p] = to /\ \A x \in Papers \ {p} : paper'[x] = paper[x]
  BY <1>1
<1>3. paper' = [x \in Papers |-> paper'[x]]
  BY <1>1
<1>4. PurchaseRequests \subseteq Papers /\ Rfqs \subseteq Papers /\ Quotations \subseteq Papers
  BY DEF Papers
<1>5. /\ \A x \in PurchaseRequests : paper'[x] \in RequestStatus
      /\ \A x \in Rfqs : paper'[x] \in RfqStatus
      /\ \A x \in Quotations : paper'[x] \in QuotationStatus
  BY <1>1, <1>2, <1>4 DEF SourcingTypeOK, RequestStatus, RfqStatus, QuotationStatus
<1> QED BY <1>2, <1>3, <1>5

LEMMA WritePaperStep ==
    ASSUME IInv, NEW r \in Requests, WritePaper(r), AtSourcing
    PROVE  IInv'
<1>1. PICK p : p = tx[r].id
  OBVIOUS
<1>2. PICK to : to = tx[r].to
  OBVIOUS
<1>3. RowsRight /\ PaperKnows(r)
  BY Parts, PaperAt DEF WritePaper, At, AtSourcing, OnlySourcing
<1>4. p \in Papers /\ \E step \in StepsOf(p) : step[2] = to
  BY <1>1, <1>2, <1>3 DEF PaperKnows
<1>5. /\ p \in PurchaseRequests => to \in RequestStatus
      /\ p \in Rfqs => to \in RfqStatus
      /\ p \in Quotations => to \in QuotationStatus
  BY <1>4, StepsLead
<1>6. /\ paper' = [paper EXCEPT ![p] = to] /\ End(r) /\ quote' = quote /\ ordered' = ordered
  BY <1>1, <1>2 DEF WritePaper
<1>7. /\ \A x \in PurchaseRequests : paper'[x] \in RequestStatus
      /\ \A x \in Rfqs : paper'[x] \in RfqStatus
      /\ \A x \in Quotations : paper'[x] \in QuotationStatus
      /\ paper' = [x \in Papers |-> paper'[x]]
  BY <1>3, <1>4, <1>5, <1>6, PaperChange
<1>8. QuotesCarryOneAnswer'
  BY <1>3, <1>6, <1>7 DEF RowsRight, SourcingRight, QuotesCarryOneAnswer, SourcingTypeOK,
     RequestStatus, RfqStatus, QuotationStatus
<1>9. PapersRight'
  BY <1>3, <1>6, <1>7 DEF RowsRight, SourcingRight, PapersRight
<1>10. \A held : SourcingRespected(held)
  <2>1. FiledQuotes' = FiledQuotes
    BY <1>6 DEF FiledQuotes
  <2> QED BY <1>6, <2>1 DEF SourcingRespected
<1> QED BY <1>3, <1>6, <1>8, <1>9, <1>10, SourcingRows, EndStep DEF SourcingRight

-----------------------------------------------------------------------------
(* submitQuote.                                                            *)
LEMMA BeginQuoteStep ==
    ASSUME IInv, NEW r \in Requests, BeginQuote(r), AtSourcing
    PROVE  IInv'
<1>1. PICK q \in Quotes :
        Begin(r, "findQuote", {}, [op |-> "quote", id |-> q, answer |-> begun])
  BY DEF BeginQuote
<1>2. PICK t : t = [op |-> "quote", id |-> q, answer |-> begun]
  OBVIOUS
<1>3. Begin(r, "findQuote", {}, t) /\ t.id = q /\ t.answer \in 0 .. MaxRequests
  BY <1>1, <1>2, BegunBound
<1>4. UNCHANGED sourcingTables
  BY DEF BeginQuote
<1>5. ASSUME pc'[r] = "findQuote", tx'[r] = t PROVE SourcingKnows(r)'
  BY <1>3, <1>5 DEF SourcingKnows, AnswerKnows
<1> QED BY <1>3, <1>4, <1>5, SourcingBegin

LEMMA FindQuoteStep ==
    ASSUME IInv, NEW r \in Requests, FindQuote(r), AtSourcing
    PROVE  IInv'
<1>1. PICK q : q = tx[r].id
  OBVIOUS
<1>2. PICK t : t = [op |-> "quote", id |-> q, answer |-> tx[r].answer,
                    found |-> quote[q].status # "none", gone |-> {}]
  OBVIOUS
<1>3. AnswerKnows(r) /\ \A x \in needs[r] : Free(r, x)
  BY Parts, AnswerAt DEF FindQuote, At, AtSourcing, OnlySourcing
<1>4. q \in Quotes /\ t.id = q /\ t.answer \in 0 .. MaxRequests /\ t.gone = {}
  BY <1>1, <1>2, <1>3 DEF AnswerKnows
<1>5. Continue(r, "writeQuote", {QuoteLock(q)}, t) /\ UNCHANGED sourcingTables
  BY <1>1, <1>2 DEF FindQuote, LockedFirst
<1>6. ASSUME tables' = tables, pc'[r] = "writeQuote", needs'[r] = {QuoteLock(q)}, tx'[r] = t
      PROVE  SourcingKnows(r)'
  BY <1>4, <1>6 DEF SourcingKnows, AnswerKnows
<1> QED BY <1>3, <1>5, <1>6, SourcingContinue

(* The row of the quote is locked from here on; a quote that is not there  *)
(* has no lines.                                                           *)
LEMMA WriteQuoteStep ==
    ASSUME IInv, NEW r \in Requests, WriteQuote(r), AtSourcing
    PROVE  IInv'
<1>1. PICK q : q = tx[r].id
  OBVIOUS
<1>2. PICK t : t = tx[r]
  OBVIOUS
<1>3. /\ RowsRight /\ AnswerKnows(r) /\ pc[r] = "writeQuote"
      /\ \A x \in needs[r] : Free(r, x)
  BY Parts, AnswerAt DEF WriteQuote, At, AtSourcing, OnlySourcing
<1>4. /\ q \in Quotes /\ t.id = q /\ t.answer \in 0 .. MaxRequests
      /\ t.gone = {} /\ QuoteLock(q) \in needs[r]
  BY <1>1, <1>2, <1>3 DEF AnswerKnows
<1>5. UNCHANGED sourcingTables
  BY DEF WriteQuote
<1>6. CASE t.found
  <2>1. Continue(r, "deleteLines", {}, t)
    BY <1>2, <1>6 DEF WriteQuote
  <2>2. ASSUME pc'[r] = "deleteLines", tx'[r] = t, locks'[r] = locks[r] \union needs[r]
        PROVE  SourcingKnows(r)'
    BY <1>4, <2>2 DEF SourcingKnows, AnswerKnows
  <2> QED BY <1>3, <1>5, <2>1, <2>2, SourcingContinue
<1>7. CASE ~ t.found /\ quote[q].status = "none"
  <2>1. Continue(r, "insertLines", {}, t)
    BY <1>1, <1>2, <1>7 DEF WriteQuote
  <2>2. quote[q].answers = {}
    BY <1>3, <1>4, <1>7 DEF RowsRight, SourcingRight, PapersRight
  <2>3. ASSUME tables' = tables, pc'[r] = "insertLines", tx'[r] = t,
               locks'[r] = locks[r] \union needs[r]
        PROVE  SourcingKnows(r)'
    <3>1. quote'[q].answers = {}
      BY <2>2, <2>3, SameTables
    <3> QED BY <1>4, <2>3, <3>1 DEF SourcingKnows, AnswerKnows
  <2> QED BY <1>3, <1>5, <2>1, <2>3, SourcingContinue
<1>8. CASE ~ t.found /\ quote[q].status # "none"
  BY <1>1, <1>2, <1>5, <1>8, SourcingQuiet, RollbackStep DEF WriteQuote
<1> QED BY <1>6, <1>7, <1>8

LEMMA DeleteLinesStep ==
    ASSUME IInv, NEW r \in Requests, DeleteLines(r), AtSourcing
    PROVE  IInv'
<1>1. PICK q : q = tx[r].id
  OBVIOUS
<1>2. PICK t : t = [op |-> "quote", id |-> q, answer |-> tx[r].answer,
                    gone |-> quote[q].answers]
  OBVIOUS
<1>3. AnswerKnows(r) /\ pc[r] = "deleteLines" /\ \A x \in needs[r] : Free(r, x)
  BY Parts, AnswerAt DEF DeleteLines, At, AtSourcing, OnlySourcing
<1>4. /\ q \in Quotes /\ tx[r].answer \in 0 .. MaxRequests /\ QuoteLock(q) \in locks[r]
  BY <1>1, <1>3 DEF AnswerKnows
<1>5. Continue(r, "insertLines", {}, t) /\ UNCHANGED sourcingTables
  BY <1>1, <1>2 DEF DeleteLines
<1>6. ASSUME tables' = tables, pc'[r] = "insertLines", tx'[r] = t,
             locks'[r] = locks[r] \union needs[r]
      PROVE  SourcingKnows(r)'
  <2>1. t.id = q /\ t.answer = tx[r].answer /\ t.gone = quote'[q].answers
    BY <1>1, <1>2, <1>4, <1>6, SameTables
  <2> QED BY <1>4, <1>6, <2>1 DEF SourcingKnows, AnswerKnows
<1> QED BY <1>3, <1>5, <1>6, SourcingContinue

(* The lines that were deleted are all there were, because the quote is    *)
(* held since it was written.                                              *)
LEMMA InsertLinesStep ==
    ASSUME IInv, NEW r \in Requests, InsertLines(r), AtSourcing
    PROVE  IInv'
<1>1. PICK n : n = tx[r].id
  OBVIOUS
<1>2. PICK a : a = tx[r].answer
  OBVIOUS
<1>3. PICK row : row = [status |-> "received",
                        answers |-> (quote[n].answers \ tx[r].gone) \union {a}]
  OBVIOUS
<1>4. RowsRight /\ RequestsRight /\ AnswerKnows(r) /\ pc[r] = "insertLines"
  BY Parts, AnswerAt DEF InsertLines, At, AtSourcing, OnlySourcing
<1>5. /\ n \in Quotes /\ a \in 0 .. MaxRequests /\ QuoteLock(n) \in locks[r]
      /\ tx[r].gone = quote[n].answers
  BY <1>1, <1>2, <1>4 DEF AnswerKnows
<1>6. /\ quote' = [quote EXCEPT ![n] = row] /\ End(r) /\ paper' = paper
      /\ ordered' = ordered
  BY <1>1, <1>2, <1>3 DEF InsertLines
<1>7. row.status = "received" /\ row.answers = {a}
      /\ row \in [status : {"none", "received", "selected", "rejected"},
                  answers : SUBSET (0 .. MaxRequests)]
  BY <1>3, <1>5
<1>8. SourcingTypeOK /\ \A q \in Quotes : quote[q].status # "none" => Cardinality(quote[q].answers) = 1
  BY <1>4 DEF RowsRight, SourcingRight, QuotesCarryOneAnswer
<1>9. /\ quote' \in [Quotes -> [status : {"none", "received", "selected", "rejected"},
                                answers : SUBSET (0 .. MaxRequests)]]
      /\ quote'[n] = row /\ \A q \in Quotes \ {n} : quote'[q] = quote[q]
  BY <1>5, <1>6, <1>7, <1>8 DEF SourcingTypeOK
<1>10. Cardinality(row.answers) = 1
  BY <1>7, FS_Singleton
<1>11. QuotesCarryOneAnswer'
  BY <1>6, <1>8, <1>9, <1>10 DEF QuotesCarryOneAnswer, SourcingTypeOK
<1>12. PapersRight'
  BY <1>4, <1>6, <1>7, <1>9 DEF RowsRight, SourcingRight, PapersRight
<1>13. FiledQuotes \subseteq FiledQuotes'
  BY <1>5, <1>7, <1>9 DEF FiledQuotes
<1>14. ASSUME NEW q \in Requests \ {r} PROVE SourcingRespected(locks[q])
  <2>1. QuoteLock(n) \notin locks[q]
    BY <1>4, <1>5, NobodyElse
  <2>2. \A x \in Quotes : QuoteLock(x) \in locks[q] => x # n
    BY <2>1
  <2> QED BY <1>9, <1>13, <2>2 DEF SourcingRespected
<1> QED BY <1>4, <1>6, <1>11, <1>12, <1>14, SourcingRows, EndStep DEF SourcingRight

-----------------------------------------------------------------------------
(* selectQuote and the orders made from quotations.                        *)
LEMMA BeginSelectStep ==
    ASSUME IInv, NEW r \in Requests, BeginSelect(r), AtSourcing
    PROVE  IInv'
<1>1. PICK q \in Quotes :
        /\ quote[q].status = "received"
        /\ Begin(r, "rejectOthers", QuoteLocks(Others(q)),
                 [op |-> "select", id |-> q, seen |-> Others(q)])
  BY DEF BeginSelect
<1>2. PICK t : t = [op |-> "select", id |-> q, seen |-> Others(q)]
  OBVIOUS
<1>3. Begin(r, "rejectOthers", QuoteLocks(Others(q)), t) /\ UNCHANGED sourcingTables
  BY <1>1, <1>2 DEF BeginSelect
<1>4. q \in FiledQuotes /\ Others(q) \in SUBSET FiledQuotes
  BY <1>1 DEF FiledQuotes, Others, StoredQuotes
<1>5. ASSUME tables' = tables, pc'[r] = "rejectOthers", tx'[r] = t PROVE SourcingKnows(r)'
  <2>1. FiledQuotes' = FiledQuotes
    BY <1>5, SameTables DEF FiledQuotes
  <2> QED BY <1>2, <1>4, <1>5, <2>1 DEF SourcingKnows, SelectKnows
<1> QED BY <1>3, <1>5, SourcingBegin

(* The locks are those of the quotes that the UPDATE rejects.              *)
LEMMA RejectOthersStep ==
    ASSUME IInv, NEW r \in Requests, RejectOthers(r), AtSourcing
    PROVE  IInv'
<1>1. PICK q : q = tx[r].id
  OBVIOUS
<1>2. RowsRight /\ RequestsRight /\ SelectKnows(r) /\ pc[r] = "rejectOthers"
  BY Parts, SelectAt DEF RejectOthers, At, AtSourcing, OnlySourcing
<1>3. tx[r] \in [op : {"select"}, id : FiledQuotes, seen : SUBSET FiledQuotes]
  BY <1>2 DEF SelectKnows
<1>4. PICK others \in {tx[r].seen, Others(q)} :
        /\ \A o \in others : Free(r, QuoteLock(o))
        /\ pc' = [pc EXCEPT ![r] = "selectOne"]
        /\ locks' = [locks EXCEPT ![r] = QuoteLocks(others)]
        /\ needs' = [needs EXCEPT ![r] = {QuoteLock(q)}]
        /\ tx' = [tx EXCEPT ![r].seen = others]
  BY <1>1 DEF RejectOthers
<1>5. others \in SUBSET FiledQuotes
  BY <1>3, <1>4 DEF FiledQuotes, Others, StoredQuotes
<1>6. PICK t : t = [tx[r] EXCEPT !.seen = others]
  OBVIOUS
<1>7. tx' = [tx EXCEPT ![r] = t]
  BY <1>4, <1>6
<1>8. t \in [op : {"select"}, id : FiledQuotes, seen : SUBSET FiledQuotes]
  BY <1>3, <1>5, <1>6
<1>9. begun' \in 0 .. MaxRequests /\ UNCHANGED sourcingTables
  BY BegunBound DEF RejectOthers
<1>10. tables' = tables /\ desk' = "sourcing"
  BY <1>9, SourcingQuiet DEF AtSourcing, OnlySourcing
<1>11. PICK held : held = QuoteLocks(others)
  OBVIOUS
<1>12. LocksExclusive'
  <2>1. DOMAIN locks = Requests /\ LocksExclusive
    BY <1>2 DEF RequestsRight
  <2>2. locks'[r] = held /\ \A x \in Requests \ {r} : locks'[x] = locks[x]
    BY <1>4, <1>11, <2>1
  <2>3. \A x \in Requests \ {r} : held \intersect locks[x] = {}
    BY <1>4, <1>11 DEF QuoteLocks, Free
  <2>4. ASSUME NEW x \in Requests, NEW z \in Requests, x # z
        PROVE  locks'[x] \intersect locks'[z] = {}
    <3>1. CASE x = r
      BY <2>2, <2>3, <2>4, <3>1
    <3>2. CASE z = r
      BY <2>2, <2>3, <2>4, <3>2
    <3>3. CASE x # r /\ z # r
      BY <2>1, <2>2, <2>4, <3>3 DEF LocksExclusive
    <3> QED BY <3>1, <3>2, <3>3
  <2> QED BY <2>4 DEF LocksExclusive
<1>13. ASSUME pc'[r] = "selectOne", tx'[r] = t PROVE Knows(r)'
  <2>1. FiledQuotes' = FiledQuotes
    BY <1>10, SameTables DEF FiledQuotes
  <2>2. SelectKnows(r)'
    BY <1>8, <1>13, <2>1 DEF SelectKnows
  <2> QED BY <1>10, <2>2 DEF Knows, SourcingKnows
<1>14. RowsRight' /\ \A x \in Requests \ {r} : Respects(locks[x])
  BY <1>2, <1>10, RowsUnchanged
<1>15. locks' = [locks EXCEPT ![r] = held] /\ pc' = [pc EXCEPT ![r] = "selectOne"]
       /\ needs' = [needs EXCEPT ![r] = {QuoteLock(q)}]
  BY <1>4, <1>11
<1> QED BY <1>7, <1>9, <1>12, <1>13, <1>14, <1>15, RequestStep

LEMMA SelectOneStep ==
    ASSUME IInv, NEW r \in Requests, SelectOne(r), AtSourcing
    PROVE  IInv'
<1>1. PICK t : t = tx[r]
  OBVIOUS
<1>2. SelectKnows(r) /\ pc[r] = "selectOne" /\ \A x \in needs[r] : Free(r, x)
  BY Parts, SelectAt DEF SelectOne, At, AtSourcing, OnlySourcing
<1>3. t \in [op : {"select"}, id : FiledQuotes, seen : SUBSET FiledQuotes]
  BY <1>1, <1>2 DEF SelectKnows
<1>4. PICK need : need = {PaperLock(tx[r].id[1])}
  OBVIOUS
<1>5. Continue(r, "closeRfq", need, t) /\ UNCHANGED sourcingTables
  BY <1>1, <1>4 DEF SelectOne
<1>6. ASSUME tables' = tables, pc'[r] = "closeRfq", tx'[r] = t PROVE SourcingKnows(r)'
  <2>1. FiledQuotes' = FiledQuotes
    BY <1>6, SameTables DEF FiledQuotes
  <2> QED BY <1>3, <1>6, <2>1 DEF SourcingKnows, SelectKnows
<1> QED BY <1>2, <1>5, <1>6, SourcingContinue

LEMMA CloseRfqStep ==
    ASSUME IInv, NEW r \in Requests, CloseRfq(r), AtSourcing
    PROVE  IInv'
<1>1. PICK n : n = tx[r].id
  OBVIOUS
<1>2. PICK seen : seen = tx[r].seen
  OBVIOUS
<1>3. RowsRight /\ SelectKnows(r) /\ pc[r] = "closeRfq"
  BY Parts, SelectAt DEF CloseRfq, At, AtSourcing, OnlySourcing
<1>4. n \in FiledQuotes /\ seen \in SUBSET FiledQuotes /\ n \in Quotes
  BY <1>1, <1>2, <1>3 DEF SelectKnows, FiledQuotes
<1>5. /\ quote' = [o \in Quotes |->
                     IF o = n THEN [quote[o] EXCEPT !.status = "selected"]
                     ELSE IF o \in seen THEN [quote[o] EXCEPT !.status = "rejected"]
                     ELSE quote[o]]
      /\ paper' = [paper EXCEPT ![n[1]] = "closed"] /\ End(r) /\ ordered' = ordered
  BY <1>1, <1>2 DEF CloseRfq
<1>6. n[1] \in Rfqs /\ n[1] \in Papers
  BY <1>4 DEF Quotes, Papers
<1>7. n[1] \notin PurchaseRequests /\ n[1] \notin Quotations
  BY <1>6, SourcingConstants
<1>8. /\ \A x \in PurchaseRequests : paper'[x] \in RequestStatus
      /\ \A x \in Rfqs : paper'[x] \in RfqStatus
      /\ \A x \in Quotations : paper'[x] \in QuotationStatus
      /\ paper' = [x \in Papers |-> paper'[x]]
  <2>1. PICK p : p = n[1]
    OBVIOUS
  <2>2. p \in Papers /\ paper' = [paper EXCEPT ![p] = "closed"]
    BY <1>5, <1>6, <2>1
  <2>3. p \in Rfqs /\ p \notin PurchaseRequests /\ p \notin Quotations
    BY <1>6, <1>7, <2>1
  <2>4. "closed" \in RfqStatus
    BY DEF RfqStatus
  <2> QED BY <1>3, <2>2, <2>3, <2>4, PaperChange
<1>9. SourcingTypeOK /\ \A q \in Quotes : quote[q].status # "none" => Cardinality(quote[q].answers) = 1
  BY <1>3 DEF RowsRight, SourcingRight, QuotesCarryOneAnswer
<1>10. ASSUME NEW q \in Quotes
       PROVE  /\ quote'[q] \in [status : {"none", "received", "selected", "rejected"},
                                answers : SUBSET (0 .. MaxRequests)]
              /\ quote'[q].answers = quote[q].answers
              /\ quote'[q].status = "none" <=> quote[q].status = "none"
  <2>1. quote[q] \in [status : {"none", "received", "selected", "rejected"},
                      answers : SUBSET (0 .. MaxRequests)]
    BY <1>9 DEF SourcingTypeOK
  <2>2. CASE q = n
    <3>1. quote'[q] = [quote[q] EXCEPT !.status = "selected"] /\ quote[q].status # "none"
      BY <1>4, <1>5, <2>2 DEF FiledQuotes
    <3> QED BY <2>1, <3>1
  <2>3. CASE q # n /\ q \in seen
    <3>1. quote'[q] = [quote[q] EXCEPT !.status = "rejected"] /\ quote[q].status # "none"
      BY <1>4, <1>5, <2>3 DEF FiledQuotes
    <3> QED BY <2>1, <3>1
  <2>4. CASE q # n /\ q \notin seen
    BY <1>5, <2>1, <2>4
  <2> QED BY <2>2, <2>3, <2>4
<1>11. quote' \in [Quotes -> [status : {"none", "received", "selected", "rejected"},
                              answers : SUBSET (0 .. MaxRequests)]]
  BY <1>5, <1>10
<1>12. QuotesCarryOneAnswer'
  <2>1. \A q \in Quotes : quote'[q].status # "none" => Cardinality(quote'[q].answers) = 1
    BY <1>9, <1>10
  <2>2. SourcingTypeOK'
    BY <1>5, <1>8, <1>9, <1>11 DEF SourcingTypeOK, RequestStatus, RfqStatus, QuotationStatus
  <2> QED BY <2>1, <2>2 DEF QuotesCarryOneAnswer
<1>13. PapersRight'
  BY <1>3, <1>5, <1>8, <1>10 DEF RowsRight, SourcingRight, PapersRight
<1>14. FiledQuotes' = FiledQuotes
  BY <1>10 DEF FiledQuotes
<1>15. \A held : SourcingRespected(held)
  BY <1>10, <1>14 DEF SourcingRespected
<1> QED BY <1>3, <1>5, <1>12, <1>13, <1>15, SourcingRows, EndStep DEF SourcingRight

LEMMA BeginOrderStep ==
    ASSUME IInv, NEW r \in Requests, BeginOrder(r), AtSourcing
    PROVE  IInv'
<1>1. PICK s \in Quotations : Begin(r, "insertOrder", {}, [op |-> "order", id |-> s])
  BY DEF BeginOrder
<1>2. PICK t : t = [op |-> "order", id |-> s]
  OBVIOUS
<1>3. Begin(r, "insertOrder", {}, t) /\ UNCHANGED sourcingTables
  BY <1>1, <1>2 DEF BeginOrder
<1>4. ASSUME tables' = tables, pc'[r] = "insertOrder", tx'[r] = t PROVE SourcingKnows(r)'
  BY <1>2, <1>4 DEF SourcingKnows, SelectKnows
<1> QED BY <1>3, <1>4, SourcingBegin

LEMMA InsertOrderStep ==
    ASSUME IInv, NEW r \in Requests, InsertOrder(r), AtSourcing
    PROVE  IInv'
<1>1. PICK s : s = tx[r].id
  OBVIOUS
<1>2. RowsRight /\ SelectKnows(r) /\ pc[r] = "insertOrder"
  BY Parts, SelectAt DEF InsertOrder, At, AtSourcing, OnlySourcing
<1>3. s \in Quotations
  BY <1>1, <1>2 DEF SelectKnows
<1>4. ordered' = ordered \union {s} /\ End(r) /\ paper' = paper /\ quote' = quote
  BY <1>1 DEF InsertOrder
<1>5. SourcingRight'
  BY <1>2, <1>3, <1>4 DEF RowsRight, SourcingRight, QuotesCarryOneAnswer, SourcingTypeOK,
     PapersRight
<1>6. \A held : SourcingRespected(held)
  <2>1. FiledQuotes' = FiledQuotes
    BY <1>4 DEF FiledQuotes
  <2> QED BY <1>4, <2>1 DEF SourcingRespected
<1> QED BY <1>2, <1>4, <1>5, <1>6, SourcingRows, EndStep

LEMMA SourcingStep ==
    ASSUME IInv, NEW r \in Requests, SourcingHandle(r) \/ SourcingStatement(r), AtSourcing
    PROVE  IInv'
<1>1. CASE ReadPaper(r) \/ WritePaper(r)
  BY <1>1, BeginPaperStep, WritePaperStep
<1>2. CASE BeginQuote(r) \/ FindQuote(r) \/ WriteQuote(r) \/ DeleteLines(r) \/ InsertLines(r)
  BY <1>2, BeginQuoteStep, FindQuoteStep, WriteQuoteStep, DeleteLinesStep, InsertLinesStep
<1>3. CASE BeginSelect(r) \/ RejectOthers(r) \/ SelectOne(r) \/ CloseRfq(r)
  BY <1>3, BeginSelectStep, RejectOthersStep, SelectOneStep, CloseRfqStep
<1>4. CASE BeginOrder(r) \/ InsertOrder(r)
  BY <1>4, BeginOrderStep, InsertOrderStep
<1> QED BY <1>1, <1>2, <1>3, <1>4 DEF SourcingHandle, SourcingStatement

-----------------------------------------------------------------------------
(* Quality control.                                                        *)
AtQuality == OnlyQuality /\ desk' = desk

LEMMA QualityRows ==
    ASSUME RowsRight, AtQuality, InspectionsRight'
    PROVE  RowsRight' /\ \A held : QualityRespected(held) => Respects(held)
BY CalendarSame, SourcingSame DEF AtQuality, OnlyQuality, RowsRight, Respects

LEMMA QualityQuiet ==
    ASSUME AtQuality, UNCHANGED qualityTables
    PROVE  tables' = tables
BY DEF AtQuality, OnlyQuality, tables

LEMMA QualityBegin ==
    ASSUME IInv, NEW r \in Requests, NEW step, NEW need, NEW t, step # "idle",
           Begin(r, step, need, t), AtQuality, UNCHANGED qualityTables,
           tables' = tables /\ pc'[r] = step /\ needs'[r] = need /\ tx'[r] = t
             => QualityKnows(r)'
    PROVE  IInv'
<1>1. tables' = tables /\ desk' = "quality"
  BY QualityQuiet DEF AtQuality, OnlyQuality
<1>2. pc'[r] = step /\ needs'[r] = need /\ tx'[r] = t /\ locks'[r] = {} => Knows(r)'
  BY <1>1 DEF Knows
<1> QED BY <1>1, <1>2, BeginStep

LEMMA QualityContinue ==
    ASSUME IInv, NEW r \in Requests, NEW step, NEW need, NEW t, step # "idle",
           \A x \in needs[r] : Free(r, x), Continue(r, step, need, t), AtQuality,
           UNCHANGED qualityTables,
           tables' = tables /\ pc'[r] = step /\ needs'[r] = need /\ tx'[r] = t
             /\ locks'[r] = locks[r] \union needs[r] => QualityKnows(r)'
    PROVE  IInv'
<1>1. tables' = tables /\ desk' = "quality"
  BY QualityQuiet DEF AtQuality, OnlyQuality
<1>2. pc'[r] = step /\ needs'[r] = need /\ tx'[r] = t
        /\ locks'[r] = locks[r] \union needs[r] => Knows(r)'
  BY <1>1 DEF Knows
<1> QED BY <1>1, <1>2, ContinueStep

LEMMA CompleteAt ==
    ASSUME NEW r, Knows(r), desk = "quality",
           pc[r] \in {"lockInspection", "requiredItems", "commitInspection"}
    PROVE  CompleteKnows(r)
BY DEF Knows, QualityKnows

LEMMA DeskQuality ==
    ASSUME IInv, AtQuality
    PROVE  desk = "quality" /\ RowsRight /\ InspectionsRight /\ QualityTypeOK
BY Parts DEF AtQuality, OnlyQuality, RowsRight, InspectionsRight

LEMMA SameQuality ==
    ASSUME tables' = tables
    PROVE  /\ Created' = Created /\ CreatedChecklists' = CreatedChecklists
           /\ \A i : RequiredItems(i)' = RequiredItems(i)
           /\ Completion' = Completion
<1>1. checklist' = checklist /\ inspection' = inspection
  BY SameTables
<1> QED BY <1>1 DEF Created, CreatedChecklists, RequiredItems, Completion

(* A parameter gets a status.                                              *)
LEMMA ParameterChange ==
    ASSUME IInv, AtQuality, NEW p \in Parameters, NEW s \in {"active", "inactive"},
           parameter' = [parameter EXCEPT ![p] = s],
           UNCHANGED <<checklist, inspection, result, defects>>
    PROVE  RowsRight' /\ \A held : Respects(held)
<1>1. RowsRight /\ InspectionsRight /\ QualityTypeOK
  BY DeskQuality
<1>2. parameter' \in [Parameters -> {"none", "active", "inactive"}]
  BY <1>1 DEF QualityTypeOK
<1>3. Created' = Created /\ CreatedChecklists' = CreatedChecklists
  BY DEF Created, CreatedChecklists
<1>4. \A i : RequiredItems(i)' = RequiredItems(i)
  BY DEF RequiredItems
<1>5. InspectionsRight'
  BY <1>1, <1>2, <1>3, <1>4 DEF InspectionsRight, QualityTypeOK
<1>6. \A held : QualityRespected(held)
  BY <1>3 DEF QualityRespected
<1> QED BY <1>1, <1>5, <1>6, QualityRows

LEMMA CreateParameterStep ==
    ASSUME IInv, NEW r \in Requests, CreateParameter(r), AtQuality
    PROVE  IInv'
<1>1. PICK p \in Parameters :
        /\ Autocommit(r, ParameterLock(p)) /\ parameter' = [parameter EXCEPT ![p] = "active"]
  BY DEF CreateParameter
<1>2. UNCHANGED <<checklist, inspection, result, defects>>
  BY DEF CreateParameter
<1>3. RowsRight' /\ \A held : Respects(held)
  BY <1>1, <1>2, ParameterChange
<1> QED BY <1>1, <1>3, AutoStep

LEMMA BeginDeactivateStep ==
    ASSUME IInv, NEW r \in Requests, BeginDeactivate(r), AtQuality
    PROVE  IInv'
<1>1. PICK p \in Parameters :
        Begin(r, "deactivate", {ParameterLock(p)}, [op |-> "deactivate", id |-> p])
  BY DEF BeginDeactivate
<1>2. UNCHANGED qualityTables
  BY DEF BeginDeactivate
<1>3. PICK t : t = [op |-> "deactivate", id |-> p]
  OBVIOUS
<1>4. pc'[r] = "deactivate" /\ tx'[r] = t => QualityKnows(r)'
  BY <1>3 DEF QualityKnows
<1>5. Begin(r, "deactivate", {ParameterLock(p)}, t)
  BY <1>1, <1>3
<1> QED BY <1>2, <1>4, <1>5, QualityBegin

LEMMA DeactivateParameterStep ==
    ASSUME IInv, NEW r \in Requests, DeactivateParameter(r), AtQuality
    PROVE  IInv'
<1>1. PICK p : p = tx[r].id
  OBVIOUS
<1>2. pc[r] = "deactivate" /\ Knows(r) /\ desk = "quality"
  BY DeskQuality, Parts DEF DeactivateParameter, At
<1>3. p \in Parameters
  BY <1>1, <1>2 DEF Knows, QualityKnows, CompleteKnows
<1>4. /\ parameter' = [parameter EXCEPT ![p] = "inactive"] /\ End(r)
      /\ UNCHANGED <<checklist, inspection, result, defects>>
  BY <1>1 DEF DeactivateParameter
<1>5. RowsRight' /\ \A held : Respects(held)
  BY <1>3, <1>4, ParameterChange
<1> QED BY <1>4, <1>5, EndStep

LEMMA CreateChecklistStep ==
    ASSUME IInv, NEW r \in Requests, CreateChecklist(r), AtQuality
    PROVE  IInv'
<1>1. PICK free : free = {c \in Checklists : checklist[c].status = "none"}
  OBVIOUS
<1>2. PICK n : n = Min(free)
  OBVIOUS
<1>3. PICK f \in Forms :
        /\ free # {} /\ Autocommit(r, ChecklistLock(n))
        /\ checklist' = [checklist EXCEPT ![n] =
             [status |-> "active", type |-> f.type, all |-> f.all, required |-> f.required]]
  BY <1>1, <1>2 DEF CreateChecklist
<1>4. UNCHANGED <<parameter, inspection, result, defects>>
  BY DEF CreateChecklist
<1>5. n \in free
  <2>1. free \subseteq Nat
    BY <1>1, QualityConstants
  <2> QED BY <1>2, <1>3, <2>1, LeastFree
<1>6. RowsRight /\ InspectionsRight /\ QualityTypeOK
  BY DeskQuality
<1>7. PICK row : row = [status |-> "active", type |-> f.type, all |-> f.all,
                        required |-> f.required]
  OBVIOUS
<1>8. row \in ChecklistRow /\ row.status = "active"
  BY <1>7, QualityConstants DEF ChecklistRow
<1>9. /\ n \in Checklists /\ checklist[n].status = "none"
      /\ checklist' = [checklist EXCEPT ![n] = row]
  BY <1>1, <1>3, <1>5, <1>7
<1>10. checklist' \in [Checklists -> ChecklistRow \union {NoChecklist}]
  BY <1>6, <1>8, <1>9 DEF QualityTypeOK
<1>11. n \notin CreatedChecklists /\ \A c \in CreatedChecklists : checklist'[c] = checklist[c]
  BY <1>6, <1>9 DEF CreatedChecklists, QualityTypeOK
<1>12. CreatedChecklists \subseteq CreatedChecklists' /\ Created' = Created
  BY <1>4, <1>11 DEF CreatedChecklists, Created
<1>13. \A i \in Created : RequiredItems(i)' = RequiredItems(i)
  BY <1>4, <1>6, <1>11 DEF InspectionsRight, RequiredItems
<1>14. InspectionsRight'
  <2>1. \A i \in Inspections : inspection[i].status = "completed" => i \in Created
    BY DEF Created
  <2> QED BY <1>4, <1>6, <1>10, <1>12, <1>13, <2>1 DEF InspectionsRight, QualityTypeOK
<1>15. \A held : QualityRespected(held)
  BY <1>4, <1>11, <1>12 DEF QualityRespected
<1>16. RowsRight' /\ \A held : Respects(held)
  BY <1>6, <1>14, <1>15, QualityRows
<1> QED BY <1>3, <1>16, AutoStep

LEMMA DeactivateChecklistStep ==
    ASSUME IInv, NEW r \in Requests, DeactivateChecklist(r), AtQuality
    PROVE  IInv'
<1>1. PICK c \in Checklists :
        /\ checklist[c].status # "none" /\ Autocommit(r, ChecklistLock(c))
        /\ checklist' = [checklist EXCEPT ![c].status = "inactive"]
  BY DEF DeactivateChecklist
<1>2. UNCHANGED <<parameter, inspection, result, defects>>
  BY DEF DeactivateChecklist
<1>3. RowsRight /\ InspectionsRight /\ QualityTypeOK
  BY DeskQuality
<1>4. PICK row : row = [checklist[c] EXCEPT !.status = "inactive"]
  OBVIOUS
<1>5. checklist[c] \in ChecklistRow
  BY <1>1, <1>3 DEF QualityTypeOK, NoChecklist
<1>6. row \in ChecklistRow /\ row.status = "inactive" /\ row.required = checklist[c].required
  BY <1>4, <1>5 DEF ChecklistRow
<1>7. checklist' = [checklist EXCEPT ![c] = row]
  BY <1>1, <1>4
<1>8. checklist' \in [Checklists -> ChecklistRow \union {NoChecklist}]
  BY <1>3, <1>6, <1>7 DEF QualityTypeOK
<1>9. /\ checklist'[c] = row
      /\ \A x \in Checklists \ {c} : checklist'[x] = checklist[x]
  BY <1>3, <1>7 DEF QualityTypeOK
<1>10. \A x \in Checklists : checklist'[x].required = checklist[x].required
  BY <1>6, <1>9
<1>11. CreatedChecklists \subseteq CreatedChecklists'
  BY <1>6, <1>9 DEF CreatedChecklists
<1>12. Created' = Created
  BY <1>2 DEF Created
<1>13. CreatedChecklists \subseteq Checklists
  BY DEF CreatedChecklists
<1>14. \A i \in Created : RequiredItems(i)' = RequiredItems(i)
  BY <1>2, <1>3, <1>10, <1>13 DEF InspectionsRight, RequiredItems
<1>15. InspectionsRight'
  <2>1. \A i \in Inspections : inspection[i].status = "completed" => i \in Created
    BY DEF Created
  <2> QED BY <1>2, <1>3, <1>8, <1>11, <1>12, <1>14, <2>1 DEF InspectionsRight, QualityTypeOK
<1>16. \A held : QualityRespected(held)
  BY <1>2, <1>10, <1>11, <1>12, <1>13 DEF QualityRespected
<1>17. RowsRight' /\ \A held : Respects(held)
  BY <1>3, <1>15, <1>16, QualityRows
<1> QED BY <1>1, <1>17, AutoStep

-----------------------------------------------------------------------------
(* Inspections.                                                            *)
LEMMA BeginInspectionStep ==
    ASSUME IInv, NEW r \in Requests, BeginInspection(r), AtQuality
    PROVE  IInv'
<1>1. PICK c \in Checklists :
        /\ checklist[c].status = "active"
        /\ Begin(r, "insertInspection", {}, [op |-> "inspect", checklist |-> c])
  BY DEF BeginInspection
<1>2. UNCHANGED qualityTables
  BY DEF BeginInspection
<1>3. PICK t : t = [op |-> "inspect", checklist |-> c]
  OBVIOUS
<1>4. c \in CreatedChecklists
  BY <1>1 DEF CreatedChecklists
<1>5. tables' = tables /\ pc'[r] = "insertInspection" /\ tx'[r] = t => QualityKnows(r)'
  BY <1>3, <1>4, SameQuality DEF QualityKnows
<1>6. Begin(r, "insertInspection", {}, t)
  BY <1>1, <1>3
<1> QED BY <1>2, <1>5, <1>6, QualityBegin

(* One row of qc_inspections is written, in a way that its checklist is    *)
(* kept and that a completed one has its required answers.                 *)
LEMMA InspectionChange ==
    ASSUME IInv, AtQuality, NEW i \in Inspections, NEW row \in InspectionRow,
           inspection' = [inspection EXCEPT ![i] = row],
           inspection[i].status # "none" => row.checklist = inspection[i].checklist,
           row.checklist \in CreatedChecklists,
           result' = [j \in Inspections |-> result'[j]],
           \A j \in Inspections \ {i} : result'[j] = result[j],
           row.status = "completed" => checklist[row.checklist].required \subseteq DOMAIN result'[i],
           defects' \in [Inspections -> SUBSET DefectTypes],
           UNCHANGED <<parameter, checklist>>
    PROVE  /\ RowsRight'
           /\ \A held : InspectionLock(i) \notin held => Respects(held)
<1>1. RowsRight /\ InspectionsRight /\ QualityTypeOK
  BY DeskQuality
<1>2. inspection' \in [Inspections -> InspectionRow \union {NoInspection}]
  BY <1>1 DEF QualityTypeOK
<1>3. /\ inspection'[i] = row
      /\ \A j \in Inspections \ {i} : inspection'[j] = inspection[j]
  BY <1>1 DEF QualityTypeOK
<1>4. row.status # "none"
  BY DEF InspectionRow
<1>5. Created \subseteq Created' /\ CreatedChecklists' = CreatedChecklists
  BY <1>3, <1>4 DEF Created, CreatedChecklists
<1>6. \A j \in Created : inspection'[j].checklist = inspection[j].checklist
  BY <1>3 DEF Created
<1>7. ASSUME NEW j \in Created' PROVE inspection'[j].checklist \in CreatedChecklists
  <2>1. CASE j = i
    BY <1>3, <2>1
  <2>2. CASE j # i
    BY <1>1, <1>3, <1>7, <2>2 DEF Created, InspectionsRight
  <2> QED BY <2>1, <2>2
<1>8. ASSUME NEW j \in Inspections, inspection'[j].status = "completed"
      PROVE  RequiredItems(j)' \subseteq DOMAIN result'[j]
  <2>1. CASE j = i
    BY <1>3, <1>8, <2>1 DEF RequiredItems
  <2>2. CASE j # i
    BY <1>1, <1>3, <1>8, <2>2 DEF InspectionsRight, RequiredItems
  <2> QED BY <2>1, <2>2
<1>9. QualityTypeOK'
  BY <1>1, <1>2 DEF QualityTypeOK
<1>10. InspectionsRight'
  BY <1>5, <1>7, <1>8, <1>9 DEF InspectionsRight
<1>11. ASSUME NEW held, InspectionLock(i) \notin held PROVE QualityRespected(held)
  <2>1. \A c \in CreatedChecklists :
          c \in CreatedChecklists' /\ checklist'[c].required = checklist[c].required
    BY <1>5
  <2>2. \A j \in Created : InspectionLock(j) \in held => j # i
    BY <1>11
  <2>3. \A j \in Created : InspectionLock(j) \in held =>
          inspection'[j].status = inspection[j].status
    BY <1>3, <2>2 DEF Created
  <2> QED BY <1>5, <1>6, <2>1, <2>3 DEF QualityRespected
<1> QED BY <1>1, <1>10, <1>11, QualityRows

LEMMA InsertInspectionStep ==
    ASSUME IInv, NEW r \in Requests, InsertInspection(r), AtQuality
    PROVE  IInv'
<1>1. PICK free : free = {i \in Inspections : inspection[i].status = "none"}
  OBVIOUS
<1>2. PICK n : n = Min(free)
  OBVIOUS
<1>3. PICK c : c = tx[r].checklist
  OBVIOUS
<1>4. PICK row : row = [status |-> "draft", checklist |-> c]
  OBVIOUS
<1>5. /\ inspection' = IF free = {} THEN inspection ELSE [inspection EXCEPT ![n] = row]
      /\ End(r) /\ UNCHANGED <<parameter, checklist, result, defects>>
  BY <1>1, <1>2, <1>3, <1>4 DEF InsertInspection
<1>6. pc[r] = "insertInspection" /\ Knows(r) /\ desk = "quality" /\ InspectionsRight
  BY DeskQuality, Parts DEF InsertInspection, At
<1>7. c \in CreatedChecklists
  BY <1>3, <1>6 DEF Knows, QualityKnows, CompleteKnows
<1>8. CASE free = {}
  <2>1. UNCHANGED qualityTables
    BY <1>5, <1>8 DEF qualityTables
  <2> QED BY <1>5, <2>1, QualityQuiet, RollbackStep
<1>9. CASE free # {}
  <2>1. free \subseteq Nat
    BY <1>1, QualityConstants
  <2>2. n \in free
    BY <1>2, <1>9, <2>1, LeastFree
  <2>3. n \in Inspections /\ inspection[n].status = "none"
    BY <1>1, <2>2
  <2>4. inspection' = [inspection EXCEPT ![n] = row]
    BY <1>5, <1>9
  <2>5. row \in InspectionRow /\ row.status = "draft" /\ row.checklist = c
    BY <1>4, <1>7 DEF InspectionRow, CreatedChecklists
  <2>6. /\ result' = [j \in Inspections |-> result'[j]] /\ result' = result
        /\ defects' \in [Inspections -> SUBSET DefectTypes] /\ UNCHANGED <<parameter, checklist>>
    BY <1>5, <1>6 DEF InspectionsRight, QualityTypeOK
  <2>7. RowsRight' /\ \A held : InspectionLock(n) \notin held => Respects(held)
    BY <1>7, <2>3, <2>4, <2>5, <2>6, InspectionChange
  <2>8. \A held : Respects(held)
    \* Nobody knows of the new row.
    <3>1. n \notin Created
      BY <2>3 DEF Created
    <3>2. ASSUME NEW held PROVE Respects(held)
      <4>1. PICK rest : rest = held \ {InspectionLock(n)}
        OBVIOUS
      <4>2. Respects(rest)
        BY <2>7, <4>1
      <4>3. \A j \in Created : InspectionLock(j) \in held => InspectionLock(j) \in rest
        BY <3>1, <4>1 DEF InspectionLock
      <4>4. QualityRespected(held)
        BY <4>2, <4>3 DEF Respects, QualityRespected
      <4>5. RowsRight /\ InspectionsRight'
        BY <2>7, Parts DEF RowsRight
      <4> QED BY <4>4, <4>5, QualityRows
    <3> QED BY <3>2
  <2> QED BY <1>5, <2>7, <2>8, EndStep
<1> QED BY <1>8, <1>9

-----------------------------------------------------------------------------
(* complete.                                                               *)
LEMMA BeginCompleteStep ==
    ASSUME IInv, NEW r \in Requests, BeginComplete(r), AtQuality
    PROVE  IInv'
<1>1. PICK i \in Inspections, a \in Answers, d \in SUBSET DefectTypes :
        /\ inspection[i].status # "none"
        /\ Begin(r, "lockInspection", {InspectionLock(i)},
                 [op |-> "complete", id |-> i, answers |-> a, defects |-> d])
  BY DEF BeginComplete
<1>2. UNCHANGED qualityTables
  BY DEF BeginComplete
<1>3. PICK t : t = [op |-> "complete", id |-> i, answers |-> a, defects |-> d]
  OBVIOUS
<1>4. t \in Completion /\ t.id = i
  BY <1>1, <1>3 DEF Completion, Created
<1>5. ASSUME tables' = tables, pc'[r] = "lockInspection", needs'[r] = {InspectionLock(i)},
             tx'[r] = t
      PROVE  QualityKnows(r)'
  <2>1. tx'[r] \in Completion' /\ tx'[r].id = i
    BY <1>4, <1>5, SameQuality
  <2>2. CompleteKnows(r)'
    BY <1>5, <2>1 DEF CompleteKnows
  <2> QED BY <2>2 DEF QualityKnows
<1>6. Begin(r, "lockInspection", {InspectionLock(i)}, t)
  BY <1>1, <1>3
<1> QED BY <1>2, <1>5, <1>6, QualityBegin

LEMMA LockInspectionStep ==
    ASSUME IInv, NEW r \in Requests, LockInspection(r), AtQuality
    PROVE  IInv'
<1>1. PICK i : i = tx[r].id
  OBVIOUS
<1>2. PICK t : t = tx[r]
  OBVIOUS
<1>3. /\ pc[r] = "lockInspection" /\ \A x \in needs[r] : Free(r, x)
      /\ IF OpenInspection(i) THEN Continue(r, "requiredItems", {}, t) ELSE End(r)
      /\ UNCHANGED qualityTables
  BY <1>1, <1>2 DEF LockInspection, At
<1>4. CompleteKnows(r)
  BY <1>3, DeskQuality, Parts, CompleteAt
<1>5. CASE OpenInspection(i)
  <2>1. t \in Completion /\ needs[r] = {InspectionLock(i)} /\ inspection[i].status = "draft"
    BY <1>1, <1>2, <1>3, <1>4, <1>5 DEF CompleteKnows, OpenInspection
  <2>2. ASSUME tables' = tables, pc'[r] = "requiredItems", needs'[r] = {}, tx'[r] = t,
               locks'[r] = locks[r] \union needs[r]
        PROVE  QualityKnows(r)'
    <3>1. /\ tx'[r] \in Completion' /\ tx'[r].id = i /\ InspectionLock(i) \in locks'[r]
          /\ inspection'[i].status = "draft"
      BY <1>1, <1>2, <2>1, <2>2, SameQuality, SameTables
    <3>2. CompleteKnows(r)'
      BY <2>2, <3>1 DEF CompleteKnows
    <3> QED BY <3>2 DEF QualityKnows
  <2>3. Continue(r, "requiredItems", {}, t)
    BY <1>3, <1>5
  <2> QED BY <1>3, <2>2, <2>3, QualityContinue
<1>6. CASE ~ OpenInspection(i)
  BY <1>3, <1>6, QualityQuiet, RollbackStep
<1> QED BY <1>5, <1>6

LEMMA CheckRequiredStep ==
    ASSUME IInv, NEW r \in Requests, CheckRequired(r), AtQuality
    PROVE  IInv'
<1>1. PICK i : i = tx[r].id
  OBVIOUS
<1>2. PICK t : t = tx[r]
  OBVIOUS
<1>3. /\ pc[r] = "requiredItems" /\ \A x \in needs[r] : Free(r, x)
      /\ \/ Continue(r, "commitInspection", {}, t) /\ RequiredItems(i) \subseteq DOMAIN t.answers
         \/ End(r)
      /\ UNCHANGED qualityTables
  BY <1>1, <1>2 DEF CheckRequired, At
<1>4. CompleteKnows(r)
  BY <1>3, DeskQuality, Parts, CompleteAt
<1>5. /\ t \in Completion /\ InspectionLock(i) \in locks[r] /\ inspection[i].status = "draft"
  BY <1>1, <1>2, <1>3, <1>4 DEF CompleteKnows
<1>6. CASE Continue(r, "commitInspection", {}, t) /\ RequiredItems(i) \subseteq DOMAIN t.answers
  <2>1. ASSUME tables' = tables, pc'[r] = "commitInspection", needs'[r] = {}, tx'[r] = t,
               locks'[r] = locks[r] \union needs[r]
        PROVE  QualityKnows(r)'
    <3>1. /\ tx'[r] \in Completion' /\ tx'[r].id = i /\ InspectionLock(i) \in locks'[r]
          /\ inspection'[i].status = "draft" /\ RequiredItems(i)' = RequiredItems(i)
      BY <1>1, <1>2, <1>5, <2>1, SameQuality, SameTables
    <3>2. RequiredItems(i)' \subseteq DOMAIN tx'[r].answers
      BY <1>6, <2>1, <3>1
    <3>3. CompleteKnows(r)'
      BY <2>1, <3>1, <3>2 DEF CompleteKnows
    <3> QED BY <3>3 DEF QualityKnows
  <2> QED BY <1>3, <1>6, <2>1, QualityContinue
<1>7. CASE End(r)
  BY <1>3, <1>7, QualityQuiet, RollbackStep
<1> QED BY <1>3, <1>6, <1>7

(* The inspection whose lock is needed or held, and no one else's.         *)
LEMMA OthersRespected ==
    ASSUME IInv, NEW r \in Requests, NEW i, InspectionLock(i) \in locks[r] \/ Free(r, InspectionLock(i)),
           \A held : InspectionLock(i) \notin held => Respects(held)
    PROVE  \A q \in Requests \ {r} : Respects(locks[q])
BY Parts, NobodyElse

LEMMA CommitInspectionStep ==
    ASSUME IInv, NEW r \in Requests, CommitInspection(r), AtQuality
    PROVE  IInv'
<1>1. PICK i : i = tx[r].id
  OBVIOUS
<1>2. PICK a : a = tx[r].answers
  OBVIOUS
<1>3. PICK row : row = [inspection[i] EXCEPT !.status = "completed"]
  OBVIOUS
<1>4. pc[r] = "commitInspection" /\ CompleteKnows(r) /\ InspectionsRight /\ QualityTypeOK
  BY DeskQuality, Parts, CompleteAt DEF CommitInspection, At
<1>5. /\ i \in Created /\ tx[r].defects \in SUBSET DefectTypes
      /\ InspectionLock(i) \in locks[r] /\ RequiredItems(i) \subseteq DOMAIN a
  BY <1>1, <1>2, <1>4 DEF CompleteKnows, Completion
<1>6. i \in Inspections /\ inspection[i].status # "none"
      /\ inspection[i].checklist \in CreatedChecklists
  BY <1>4, <1>5 DEF Created, InspectionsRight
<1>7. inspection[i] \in InspectionRow
  BY <1>4, <1>6 DEF QualityTypeOK, NoInspection
<1>8. /\ row \in InspectionRow /\ row.status = "completed"
      /\ row.checklist = inspection[i].checklist
  BY <1>3, <1>7 DEF InspectionRow
<1>9. inspection' = [inspection EXCEPT ![i] = row] /\ End(r) /\ UNCHANGED <<parameter, checklist>>
  BY <1>1, <1>3 DEF CommitInspection
<1>10. PICK verdicts : verdicts = [p \in DOMAIN a |-> WithinSpec(p, a[p])]
  OBVIOUS
<1>11. result' = [result EXCEPT ![i] = verdicts]
  BY <1>1, <1>2, <1>10 DEF CommitInspection
<1>12. /\ result' = [j \in Inspections |-> result'[j]] /\ result'[i] = verdicts
       /\ \A j \in Inspections \ {i} : result'[j] = result[j]
  BY <1>4, <1>6, <1>11 DEF InspectionsRight
<1>13. checklist[row.checklist].required \subseteq DOMAIN result'[i]
  BY <1>5, <1>8, <1>10, <1>12 DEF RequiredItems
<1>14. defects' \in [Inspections -> SUBSET DefectTypes]
  <2>1. defects' = [defects EXCEPT ![i] = defects[i] \union tx[r].defects]
    BY <1>1 DEF CommitInspection
  <2> QED BY <1>4, <1>5, <1>6, <2>1 DEF QualityTypeOK
<1>15. RowsRight' /\ \A held : InspectionLock(i) \notin held => Respects(held)
  BY <1>6, <1>8, <1>9, <1>12, <1>13, <1>14, InspectionChange
<1>16. \A q \in Requests \ {r} : Respects(locks[q])
  BY <1>5, <1>15, OthersRespected
<1> QED BY <1>9, <1>15, <1>16, EndStep

LEMMA BeginCancelStep ==
    ASSUME IInv, NEW r \in Requests, BeginCancel(r), AtQuality
    PROVE  IInv'
<1>1. PICK i \in Inspections :
        /\ inspection[i].status \in {"draft", "cancelled"}
        /\ Begin(r, "cancelInspection", {InspectionLock(i)}, [op |-> "cancel", id |-> i])
  BY DEF BeginCancel
<1>2. UNCHANGED qualityTables
  BY DEF BeginCancel
<1>3. PICK t : t = [op |-> "cancel", id |-> i]
  OBVIOUS
<1>4. i \in Created
  BY <1>1 DEF Created
<1>5. tables' = tables /\ pc'[r] = "cancelInspection" /\ needs'[r] = {InspectionLock(i)}
        /\ tx'[r] = t => QualityKnows(r)'
  BY <1>3, <1>4, SameQuality DEF QualityKnows
<1>6. Begin(r, "cancelInspection", {InspectionLock(i)}, t)
  BY <1>1, <1>3
<1> QED BY <1>2, <1>5, <1>6, QualityBegin

LEMMA CancelInspectionStep ==
    ASSUME IInv, NEW r \in Requests, CancelInspection(r), AtQuality
    PROVE  IInv'
<1>1. PICK i : i = tx[r].id
  OBVIOUS
<1>2. PICK row : row = [inspection[i] EXCEPT !.status = "cancelled"]
  OBVIOUS
<1>3. /\ pc[r] = "cancelInspection" /\ \A x \in needs[r] : Free(r, x)
      /\ inspection' = IF StillDraft(i) THEN [inspection EXCEPT ![i] = row] ELSE inspection
      /\ End(r) /\ UNCHANGED <<parameter, checklist, result, defects>>
  BY <1>1, <1>2 DEF CancelInspection, At
<1>4. Knows(r) /\ desk = "quality" /\ InspectionsRight /\ QualityTypeOK
  BY DeskQuality, Parts
<1>5. i \in Created /\ needs[r] = {InspectionLock(i)}
  BY <1>1, <1>3, <1>4 DEF Knows, QualityKnows, CompleteKnows
<1>6. CASE StillDraft(i)
  <2>1. i \in Inspections /\ inspection[i].checklist \in CreatedChecklists
    BY <1>4, <1>5 DEF Created, InspectionsRight
  <2>2. inspection[i] \in InspectionRow
    BY <1>4, <1>6, <2>1 DEF QualityTypeOK, NoInspection, StillDraft
  <2>3. /\ row \in InspectionRow /\ row.status = "cancelled"
        /\ row.checklist = inspection[i].checklist
    BY <1>2, <2>2 DEF InspectionRow
  <2>4. inspection' = [inspection EXCEPT ![i] = row]
    BY <1>3, <1>6
  <2>5. /\ result' = [j \in Inspections |-> result'[j]] /\ result' = result
        /\ defects' \in [Inspections -> SUBSET DefectTypes] /\ UNCHANGED <<parameter, checklist>>
    BY <1>3, <1>4 DEF InspectionsRight, QualityTypeOK
  <2>6. RowsRight' /\ \A held : InspectionLock(i) \notin held => Respects(held)
    BY <2>1, <2>3, <2>4, <2>5, InspectionChange
  <2>7. \A q \in Requests \ {r} : Respects(locks[q])
    BY <1>3, <1>5, <2>6, OthersRespected
  <2> QED BY <1>3, <2>6, <2>7, EndStep
<1>7. CASE ~ StillDraft(i)
  <2>1. UNCHANGED qualityTables
    BY <1>3, <1>7 DEF qualityTables
  <2> QED BY <1>3, <2>1, QualityQuiet, RollbackStep
<1> QED BY <1>6, <1>7

LEMMA QualityStep ==
    ASSUME IInv, NEW r \in Requests, QualityHandle(r) \/ QualityStatement(r), AtQuality
    PROVE  IInv'
<1>1. CASE CreateParameter(r) \/ BeginDeactivate(r) \/ DeactivateParameter(r)
  BY <1>1, CreateParameterStep, BeginDeactivateStep, DeactivateParameterStep
<1>2. CASE CreateChecklist(r) \/ DeactivateChecklist(r)
  BY <1>2, CreateChecklistStep, DeactivateChecklistStep
<1>3. CASE BeginInspection(r) \/ InsertInspection(r)
  BY <1>3, BeginInspectionStep, InsertInspectionStep
<1>4. CASE BeginComplete(r) \/ LockInspection(r) \/ CheckRequired(r) \/ CommitInspection(r)
  BY <1>4, BeginCompleteStep, LockInspectionStep, CheckRequiredStep, CommitInspectionStep
<1>5. CASE BeginCancel(r) \/ CancelInspection(r)
  BY <1>5, BeginCancelStep, CancelInspectionStep
<1> QED BY <1>1, <1>2, <1>3, <1>4, <1>5 DEF QualityHandle, QualityStatement

-----------------------------------------------------------------------------
(* The inductive invariant.                                                *)
LEMMA InitCalendar == ASSUME EmptyCalendar PROVE CalendarRight
<1>1. Periods = {} /\ Recons = {}
  BY DEF EmptyCalendar, Periods, Recons, NoPeriod, NoRecon
<1>2. \A y : PeriodsOf(y) = {} /\ OpenPeriods(y) = {}
  BY <1>1 DEF PeriodsOf, OpenPeriods
<1>3. CalendarTypeOK
  BY <1>1 DEF EmptyCalendar, CalendarTypeOK
<1>4. \A b \in BankIds : banked[b].reconciled = FALSE
  BY DEF EmptyCalendar, NoBanked
<1> QED BY <1>1, <1>2, <1>3, <1>4 DEF CalendarRight, CalendarWhole, ReconciledByBalance

LEMMA InitSourcing == ASSUME DraftPapers PROVE SourcingRight
<1>1. NoQuote \in [status : {"none", "received", "selected", "rejected"},
                   answers : SUBSET (0 .. MaxRequests)]
  BY DEF NoQuote
<1>2. SourcingTypeOK
  BY <1>1 DEF DraftPapers, SourcingTypeOK, Papers
<1>3. QuotesCarryOneAnswer
  BY <1>2 DEF DraftPapers, QuotesCarryOneAnswer, NoQuote
<1>4. PapersRight
  BY DEF DraftPapers, PapersRight, NoQuote
<1> QED BY <1>3, <1>4 DEF SourcingRight

LEMMA InitQuality == ASSUME NoInspections PROVE InspectionsRight
<1>1. Created = {}
  BY DEF NoInspections, Created, NoInspection
<1>2. \A i \in Inspections : inspection[i].status # "completed"
  BY DEF NoInspections, NoInspection
<1>3. QualityTypeOK
  BY DEF NoInspections, QualityTypeOK
<1>4. result = [i \in Inspections |-> result[i]]
  BY DEF NoInspections
<1> QED BY <1>1, <1>2, <1>3, <1>4 DEF InspectionsRight

LEMMA InitIsRight == Init => IInv
<1> SUFFICES ASSUME Init PROVE IInv
  OBVIOUS
<1>1. RowsRight
  BY InitCalendar, InitSourcing, InitQuality DEF Init, RowsRight
<1>2. /\ pc = [r \in Requests |-> "idle"] /\ needs = [r \in Requests |-> {}]
      /\ locks = [r \in Requests |-> {}] /\ begun = 0
  BY DEF Init, NoRequests
<1>3. tx = [r \in Requests |-> NoTx]
  BY DEF Init, NoRequests
<1>4. \A r \in Requests : pc[r] = "idle" /\ needs[r] = {} /\ locks[r] = {} /\ tx[r] = NoTx
  BY <1>2, <1>3
<1>5. IdleHoldsNothing /\ LocksExclusive
  BY <1>2, <1>4, TransactionsConstants DEF IdleHoldsNothing, LocksExclusive
<1>6. tx = [r \in Requests |-> tx[r]]
  BY <1>3
<1>7. RequestsRight
  BY <1>2, <1>5, <1>6 DEF RequestsRight
<1>8. \A r \in Requests : Knows(r)
  BY <1>4 DEF Knows
<1> QED BY <1>1, <1>7, <1>8, Parts

LEMMA IdleStep == ASSUME IInv, UNCHANGED vars PROVE IInv'
<1>1. /\ tables' = tables /\ begun' = begun /\ pc' = pc /\ needs' = needs /\ tx' = tx
      /\ locks' = locks
  BY DEF vars, tables, connections
<1>2. RowsRight /\ RequestsRight /\ \A r \in Requests : Knows(r)
  BY Parts
<1>3. RowsRight' /\ \A held : Respects(held)
  BY <1>1, <1>2, RowsUnchanged
<1>4. RequestsRight'
  BY <1>1, <1>2 DEF RequestsRight, IdleHoldsNothing, LocksExclusive
<1>5. \A r : SameRequest(r)
  BY <1>1 DEF SameRequest
<1>6. \A r \in Requests : Knows(r)'
  BY <1>2, <1>3, <1>5, KnowsKept
<1> QED BY <1>3, <1>4, <1>6, NextParts

(* The desk of a step, or its failure.                                     *)
LEMMA Desk ==
    ASSUME NEW r, Handle(r) \/ Statement(r)
    PROVE  \/ (CalendarHandle(r) \/ CalendarStatement(r)) /\ AtCalendar
           \/ (SourcingHandle(r) \/ SourcingStatement(r)) /\ AtSourcing
           \/ (QualityHandle(r) \/ QualityStatement(r)) /\ AtQuality
           \/ End(r) /\ tables' = tables
<1>1. CASE (Fail(r) \/ DeadlockVictim(r))
           /\ UNCHANGED <<calendarTables, sourcingTables, qualityTables>> /\ desk' = desk
  BY <1>1 DEF Fail, DeadlockVictim, tables
<1> QED BY <1>1 DEF Handle, Statement, AtCalendar, AtSourcing, AtQuality

LEMMA RequestKeeps ==
    ASSUME IInv, NEW r \in Requests, Handle(r) \/ Statement(r)
    PROVE  IInv'
<1>1. CASE (CalendarHandle(r) \/ CalendarStatement(r)) /\ AtCalendar
  BY <1>1, CalendarStep
<1>2. CASE (SourcingHandle(r) \/ SourcingStatement(r)) /\ AtSourcing
  BY <1>2, SourcingStep
<1>3. CASE (QualityHandle(r) \/ QualityStatement(r)) /\ AtQuality
  BY <1>3, QualityStep
<1>4. CASE End(r) /\ tables' = tables
  BY <1>4, RollbackStep
<1> QED BY <1>1, <1>2, <1>3, <1>4, Desk

LEMMA NextKeeps == IInv /\ [Next]_vars => IInv'
BY IdleStep, RequestKeeps DEF Next

(* The inductive invariant holds in every state of every behaviour.        *)
THEOREM PaperworkInvariance == Spec => []IInv
<1>1. Init => IInv
  BY InitIsRight
<1>2. IInv /\ [Next]_vars => IInv'
  BY NextKeeps
<1> QED BY <1>1, <1>2, PTL DEF Spec

(* The periods of a year lie in it, their numbers and ranges apart, and a  *)
(* closed year has no open period, however createPeriod, closeFiscalYear   *)
(* and the status of a period meet.                                        *)
THEOREM WholeCalendar == Spec => []CalendarWhole
<1>1. IInv => CalendarWhole
  BY DEF IInv
<1> QED BY <1>1, PaperworkInvariance, PTL

(* A bank transaction counts as reconciled only after a reconciliation of  *)
(* its account whose balances agree, and no period of an account is        *)
(* reconciled twice, whatever is recorded while reconcile marks the rows.  *)
THEOREM ReconciledOnce == Spec => []ReconciledByBalance
<1>1. IInv => ReconciledByBalance
  BY DEF IInv
<1> QED BY <1>1, PaperworkInvariance, PTL

(* A quote of a supplier has the lines of exactly one of its answers, with *)
(* two answers and a selection under way at once.                          *)
THEOREM OneAnswer == Spec => []QuotesCarryOneAnswer
<1>1. IInv => QuotesCarryOneAnswer
  BY DEF IInv
<1> QED BY <1>1, PaperworkInvariance, PTL

-----------------------------------------------------------------------------
(* What is concluded rests.                                                *)
Concluded(i) == inspection[i].status \in {"completed", "cancelled"}

InspectionsRest ==
    QualityTypeOK' /\ \A i \in Inspections :
      /\ inspection[i].status \in {"completed", "cancelled"} =>
           <<inspection[i], result[i], defects[i]>>'
             = <<inspection[i], result[i], defects[i]>>
      /\ inspection'[i].status = "completed" =>
           RequiredItems(i)' \subseteq DOMAIN result'[i]

LEMMA InsertInspectionRests ==
    ASSUME IInv, NEW r \in Requests, InsertInspection(r), AtQuality,
           NEW i \in Inspections, Concluded(i)
    PROVE  inspection'[i] = inspection[i] /\ result'[i] = result[i] /\ defects'[i] = defects[i]
<1>1. PICK free : free = {j \in Inspections : inspection[j].status = "none"}
  OBVIOUS
<1>2. PICK n : n = Min(free)
  OBVIOUS
<1>3. PICK row : row = [status |-> "draft", checklist |-> tx[r].checklist]
  OBVIOUS
<1>4. /\ inspection' = IF free = {} THEN inspection ELSE [inspection EXCEPT ![n] = row]
      /\ result' = result /\ defects' = defects
  BY <1>1, <1>2, <1>3 DEF InsertInspection
<1>5. CASE free # {}
  <2>1. free \subseteq Nat
    BY <1>1, QualityConstants
  <2>2. n \in free
    BY <1>2, <1>5, <2>1, LeastFree
  <2>3. n # i
    BY <1>1, <2>2 DEF Concluded
  <2>4. QualityTypeOK
    BY DeskQuality
  <2> QED BY <1>4, <1>5, <2>3, <2>4 DEF QualityTypeOK
<1> QED BY <1>4, <1>5

LEMMA CommitInspectionRests ==
    ASSUME IInv, NEW r \in Requests, CommitInspection(r), AtQuality,
           NEW i \in Inspections, Concluded(i)
    PROVE  inspection'[i] = inspection[i] /\ result'[i] = result[i] /\ defects'[i] = defects[i]
<1>1. PICK x : x = tx[r].id
  OBVIOUS
<1>2. CompleteKnows(r) /\ QualityTypeOK /\ InspectionsRight
  BY DeskQuality, Parts, CompleteAt DEF CommitInspection, At
<1>3. x # i
  BY <1>1, <1>2 DEF CompleteKnows, CommitInspection, At, Concluded
<1>4. PICK row : inspection' = [inspection EXCEPT ![x] = row]
  BY <1>1 DEF CommitInspection
<1>5. PICK more : defects' = [defects EXCEPT ![x] = more]
  BY <1>1 DEF CommitInspection
<1>6. PICK verdicts : result' = [result EXCEPT ![x] = verdicts]
  BY <1>1 DEF CommitInspection
<1> QED BY <1>2, <1>3, <1>4, <1>5, <1>6 DEF QualityTypeOK, InspectionsRight

LEMMA CancelInspectionRests ==
    ASSUME IInv, NEW r \in Requests, CancelInspection(r), AtQuality,
           NEW i \in Inspections, Concluded(i)
    PROVE  inspection'[i] = inspection[i] /\ result'[i] = result[i] /\ defects'[i] = defects[i]
<1>1. PICK x : x = tx[r].id
  OBVIOUS
<1>2. QualityTypeOK
  BY DeskQuality
<1>3. PICK row : inspection' = IF StillDraft(x) THEN [inspection EXCEPT ![x] = row] ELSE inspection
  BY <1>1 DEF CancelInspection
<1>4. StillDraft(x) => x # i
  BY DEF StillDraft, Concluded
<1>5. result' = result /\ defects' = defects
  BY DEF CancelInspection
<1> QED BY <1>2, <1>3, <1>4, <1>5 DEF QualityTypeOK

LEMMA RequestRests ==
    ASSUME IInv, NEW r \in Requests, Handle(r) \/ Statement(r),
           NEW i \in Inspections, Concluded(i)
    PROVE  inspection'[i] = inspection[i] /\ result'[i] = result[i] /\ defects'[i] = defects[i]
<1>1. CASE inspection' = inspection /\ result' = result /\ defects' = defects
  BY <1>1
<1>2. CASE AtCalendar \/ AtSourcing \/ tables' = tables
  BY <1>1, <1>2, SameTables DEF AtCalendar, AtSourcing, OnlyCalendar, OnlySourcing, qualityTables
<1>3. CASE (QualityHandle(r) \/ QualityStatement(r)) /\ AtQuality
  <2>1. CASE CreateParameter(r) \/ DeactivateParameter(r) \/ CreateChecklist(r)
             \/ DeactivateChecklist(r)
    BY <1>1, <2>1 DEF CreateParameter, DeactivateParameter, CreateChecklist,
       DeactivateChecklist
  <2>2. CASE BeginDeactivate(r) \/ BeginInspection(r) \/ BeginComplete(r) \/ BeginCancel(r)
    BY <1>1, <2>2 DEF BeginDeactivate, BeginInspection, BeginComplete, BeginCancel,
       qualityTables
  <2>3. CASE LockInspection(r) \/ CheckRequired(r)
    BY <1>1, <2>3 DEF LockInspection, CheckRequired, qualityTables
  <2>4. CASE InsertInspection(r) \/ CommitInspection(r) \/ CancelInspection(r)
    BY <1>3, <2>4, InsertInspectionRests, CommitInspectionRests, CancelInspectionRests
  <2> QED BY <1>3, <2>1, <2>2, <2>3, <2>4 DEF QualityHandle, QualityStatement
<1> QED BY <1>2, <1>3, Desk

LEMMA NextRests == ASSUME IInv, [Next]_vars PROVE [InspectionsRest]_qualityTables
<1>1. CASE UNCHANGED vars
  BY <1>1 DEF vars
<1>2. CASE Next
  <2>1. InspectionsRight'
    BY NextKeeps DEF IInv
  <2>2. \A i \in Inspections : Concluded(i) =>
          inspection'[i] = inspection[i] /\ result'[i] = result[i] /\ defects'[i] = defects[i]
    BY <1>2, RequestRests DEF Next
  <2> QED BY <2>1, <2>2 DEF InspectionsRest, InspectionsRight, Concluded
<1> QED BY <1>1, <1>2

(* An inspection that is completed has the answers its checklist requires, *)
(* and a completed or cancelled one is never changed again, by a second    *)
(* completion or by a cancellation under way.                              *)
THEOREM ConcludedForGood == Spec => ConcludedInspectionsRest
<1>1. IInv /\ [Next]_vars => [InspectionsRest]_qualityTables
  BY NextRests
<1>2. Spec => [][InspectionsRest]_qualityTables
  BY <1>1, PaperworkInvariance, PTL DEF Spec
<1> QED BY <1>2 DEF ConcludedInspectionsRest, InspectionsRest
===============================================================================
