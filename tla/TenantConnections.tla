-------------------------- MODULE TenantConnections ---------------------------
(***************************************************************************)
(* The pool of PostgreSQL clients of one instance of the backend, and who  *)
(* takes them: TenantInterceptor, DatabaseService and the loop over the    *)
(* tenants in MrpReconciliationService, next to queries of the public      *)
(* schema (login, token cleanup).  A client has a session: its search_path *)
(* decides which tenant's tables a statement means.                        *)
(*                                                                         *)
(* The pool (pg) is external: clients are handed out in the order they     *)
(* are asked for, and a caller that waits too long gets an error.  Who     *)
(* the caller is, and what its statements do, is left to other modules.    *)
(***************************************************************************)
EXTENDS Integers, Sequences, FiniteSets

CONSTANTS
    Clients,        \* the connections of the pool: max
    Callers,        \* requests and cron passes that may run at a time
    Tenants,
    LastMigrated,   \* the tenant whose search_path MigrationService left
    Default,        \* the search_path of a new session
    Nobody,         \* no client, no tenant
    MaxCalls        \* bound: calls begun in a behaviour

ASSUME ConnectionsConstants ==
    /\ LastMigrated \in Tenants /\ Default \notin Tenants
    /\ Nobody \notin Clients \union Tenants /\ MaxCalls \in Nat

VARIABLES
    client,         \* state of each connection and the search_path of its session
    caller,         \* what each caller does and which clients it holds
    pending,        \* the callers that wait for a client
    saltCache,      \* the tenants whose salt this instance knows
    calls           \* number of calls begun

poolVars == <<client, caller, pending, saltCache, calls>>

-----------------------------------------------------------------------------
NoCaller == [step |-> "idle", kind |-> "none", tenant |-> Nobody, todo |-> {},
             client |-> Nobody, extra |-> Nobody, lookups |-> 0]

(* A closed connection is opened again when it is needed.                  *)
Available == {k \in Clients : client[k].state # "out"}
Waiting == {pending[n] : n \in DOMAIN pending}

Out(k) == [client EXCEPT ![k] = [state |-> "out",
                                 path |-> IF @.state = "closed" THEN Default ELSE @.path]]
Idle(k) == [client EXCEPT ![k].state = "idle"]

(* Caller c goes on to a step, waits for a client there, or ends.          *)
Goto(c, step) == caller' = [caller EXCEPT ![c].step = step]
Done(c) == caller' = [caller EXCEPT ![c] = NoCaller]

-----------------------------------------------------------------------------
(* A request of a tenant, a query of the public schema, or a cron pass     *)
(* that reads the tenants and then visits each.                            *)
BeginCall(c) ==
    \E kind \in {"request", "public", "pass"}, t \in Tenants :
      /\ caller[c].step = "idle"
      /\ calls < MaxCalls
      /\ calls' = calls + 1
      /\ caller' = [caller EXCEPT ![c] =
           [NoCaller EXCEPT !.kind = kind,
                            !.step = IF kind = "request" THEN "connect" ELSE "lookup",
                            !.tenant = IF kind = "request" THEN t ELSE Nobody,
                            !.lookups = 1,
                            !.todo = IF kind = "pass" THEN Tenants ELSE {}]]
      /\ pending' = Append(pending, c)
      /\ UNCHANGED <<client, saltCache>>

(* pool.connect: for the tenant, or for one query of the public schema.    *)
Serve(c) ==
    \E k \in Available :
      /\ pending # <<>> /\ Head(pending) = c
      /\ pending' = Tail(pending)
      /\ client' = Out(k)
      /\ caller' = [caller EXCEPT ![c] =
           IF @.step = "connect" THEN [@ EXCEPT !.client = k, !.step = "setPath"]
           ELSE [@ EXCEPT !.extra = k, !.step = "query"]]
      /\ UNCHANGED <<saltCache, calls>>

(* connectionTimeoutMillis.  Mutant: callers wait for as long as it takes. *)
TimesOutNever(c) == FALSE
TimesOut(c) == c \in Waiting

(* A request that fails while it holds a client releases it.               *)
ConnectTimeout(c) ==
    /\ TimesOut(c)
    /\ \E n \in DOMAIN pending :
         /\ pending[n] = c
         /\ pending' = SubSeq(pending, 1, n - 1) \o SubSeq(pending, n + 1, Len(pending))
    /\ IF caller[c].client = Nobody THEN Done(c) ELSE Goto(c, "reset")
    /\ UNCHANGED <<client, saltCache, calls>>

-----------------------------------------------------------------------------
(* getTenantDb: SET search_path, or the client goes back as it is.         *)
SetPath(c) ==
    LET k == caller[c].client IN
    /\ caller[c].step = "setPath"
    /\ \/ /\ client' = [client EXCEPT ![k].path = caller[c].tenant]
          /\ Goto(c, IF caller[c].kind = "request" THEN "salt" ELSE "handler")
       \/ /\ client' = Idle(k)
          /\ Done(c)
    /\ UNCHANGED <<pending, saltCache, calls>>

(* The salt is cached, or read with a second client of the same pool.      *)
Salt(c) ==
    /\ caller[c].step = "salt"
    /\ IF caller[c].tenant \in saltCache
       THEN Goto(c, "handler") /\ UNCHANGED pending
       ELSE Goto(c, "lookup") /\ pending' = Append(pending, c)
    /\ UNCHANGED <<client, saltCache, calls>>

(* The queries for a salt are two, each with a client of its own: tenants  *)
(* and tenant_secrets.  When both are answered the salt is cached.         *)
TenantFound(c) ==
    /\ caller[c].step = "query" /\ caller[c].kind = "request" /\ caller[c].lookups = 1
    /\ client' = Idle(caller[c].extra)
    /\ caller' = [caller EXCEPT ![c].extra = Nobody, ![c].step = "lookup",
                                ![c].lookups = 2]
    /\ pending' = Append(pending, c)
    /\ UNCHANGED <<saltCache, calls>>

SaltFound(c) ==
    /\ caller[c].step = "query" /\ caller[c].kind = "request" /\ caller[c].lookups = 2
    /\ client' = Idle(caller[c].extra)
    /\ caller' = [caller EXCEPT ![c].extra = Nobody, ![c].step = "handler"]
    /\ saltCache' = saltCache \union {caller[c].tenant}
    /\ UNCHANGED <<pending, calls>>

(* The one query of a public caller, and the first one of a pass.          *)
PublicAnswered(c) ==
    /\ caller[c].step = "query" /\ caller[c].kind # "request"
    /\ client' = Idle(caller[c].extra)
    /\ IF caller[c].kind = "public" THEN Done(c)
       ELSE caller' = [caller EXCEPT ![c].extra = Nobody, ![c].step = "next"]
    /\ UNCHANGED <<pending, saltCache, calls>>

(* The query fails, or finds no tenant or no salt: a request releases the  *)
(* client it has.  Mutant: it throws.                                      *)
FailedLookupThrows(c) == Done(c)
FailedLookup(c) ==
    IF caller[c].kind = "request"
    THEN caller' = [caller EXCEPT ![c].extra = Nobody, ![c].step = "reset"]
    ELSE Done(c)

LookupFails(c) ==
    /\ caller[c].step = "query"
    /\ client' = Idle(caller[c].extra)
    /\ FailedLookup(c)
    /\ UNCHANGED <<pending, saltCache, calls>>

-----------------------------------------------------------------------------
(* The handler runs a statement: Kysely takes the client from the tenant's *)
(* own "pool" and gives it back with a release that does nothing.  Mutant: *)
(* it is the release of the real pool.                                     *)
AfterStatementReleased(c) == Idle(caller[c].client)
AfterStatement(c) == client

HandlerStatement(c) ==
    /\ caller[c].step \in {"handler", "statement"}
    /\ Goto(c, "statement")
    /\ client' = AfterStatement(c)
    /\ UNCHANGED <<pending, saltCache, calls>>

(* The response is complete, with an error or without.                     *)
HandlerEnds(c) ==
    /\ caller[c].step \in {"handler", "statement"}
    /\ Goto(c, "reset")
    /\ UNCHANGED <<client, pending, saltCache, calls>>

(* release: RESET search_path, or the connection is closed.                *)
AfterFailedReset(k) == [client EXCEPT ![k] = [state |-> "closed", path |-> Default]]

Reset(c) ==
    LET k == caller[c].client IN
    /\ caller[c].step = "reset"
    /\ client' = [client EXCEPT ![k] = [state |-> "idle", path |-> Default]]
    /\ IF caller[c].kind = "pass"
       THEN caller' = [caller EXCEPT ![c].client = Nobody, ![c].step = "next"]
       ELSE Done(c)
    /\ UNCHANGED <<pending, saltCache, calls>>

(* The error ends a request, and a pass before its next tenant.            *)
ResetFails(c) ==
    /\ caller[c].step = "reset"
    /\ client' = AfterFailedReset(caller[c].client)
    /\ Done(c)
    /\ UNCHANGED <<pending, saltCache, calls>>

(* reconcileStuckJobs: one tenant after the other.                         *)
NextTenant(c) ==
    /\ caller[c].step = "next"
    /\ IF caller[c].todo = {} THEN Done(c) /\ UNCHANGED pending
       ELSE \E t \in caller[c].todo :
              /\ caller' = [caller EXCEPT ![c].tenant = t, ![c].step = "connect",
                                          ![c].todo = @ \ {t}]
              /\ pending' = Append(pending, c)
    /\ UNCHANGED <<client, saltCache, calls>>

-----------------------------------------------------------------------------
(* MigrationService ran on the first client and left its search_path.      *)
NoCalls ==
    /\ caller = [c \in Callers |-> NoCaller] /\ pending = <<>>
    /\ saltCache = {} /\ calls = 0

ClosedPool == [k \in Clients |-> [state |-> "closed", path |-> Default]]
PoolInit ==
    /\ \E k \in Clients :
         client = [ClosedPool EXCEPT ![k] = [state |-> "idle", path |-> LastMigrated]]
    /\ NoCalls

Proceed(c) ==
    \/ Serve(c) \/ ConnectTimeout(c) \/ SetPath(c) \/ Salt(c)
    \/ TenantFound(c) \/ SaltFound(c) \/ PublicAnswered(c) \/ LookupFails(c)
    \/ HandlerEnds(c) \/ Reset(c) \/ ResetFails(c) \/ NextTenant(c)

PoolNext == \E c \in Callers : BeginCall(c) \/ Proceed(c) \/ HandlerStatement(c)

PoolSpec == PoolInit /\ [][PoolNext]_poolVars

-----------------------------------------------------------------------------
PoolTypeOK ==
    /\ client \in [Clients -> [state : {"closed", "idle", "out"},
                               path : Tenants \union {Default}]]
    /\ \A c \in Callers :
         /\ caller[c].tenant \in Tenants \union {Nobody}
         /\ {caller[c].client, caller[c].extra} \subseteq Clients \union {Nobody}
         /\ c \in Waiting <=> caller[c].step \in {"connect", "lookup"}
    /\ Cardinality(Waiting) = Len(pending)
    /\ calls \in 0 .. MaxCalls

Holders(k) == {c \in Callers : caller[c].client = k} \union
              {c \in Callers : caller[c].extra = k}

(* From SET to RESET a client belongs to one caller, and every statement   *)
(* of its handler means the tables of its own tenant, whoever else is      *)
(* served from the same pool.                                              *)
StatementsInOwnSchema ==
    \A c \in Callers : caller[c].step \in {"salt", "lookup", "query", "handler", "statement"}
                         /\ caller[c].client # Nobody =>
      /\ client[caller[c].client].path = caller[c].tenant
      /\ Holders(caller[c].client) = {c}

(* No client is lost, whichever step fails or times out: one is out        *)
(* exactly when somebody holds it.  And none that served a tenant waits in *)
(* the pool with that tenant's search_path: only the migrations leave one. *)
(* Who waits is known to the pool.                                         *)
ClientsReturnClean ==
    PoolTypeOK /\ \A k \in Clients :
      /\ client[k].state = "out" <=> Holders(k) # {}
      /\ client[k].state # "out" => client[k].path \in {Default, LastMigrated}

(***************************************************************************)
(* The inductive invariant behind StatementsInOwnSchema and                *)
(* ClientsReturnClean: the step of a caller says which clients it holds,   *)
(* and nobody holds the client of another.                                 *)
(***************************************************************************)
CallerRow ==
    [step : {"idle", "connect", "setPath", "salt", "lookup", "query", "handler",
             "statement", "reset", "next"},
     kind : {"none", "request", "public", "pass"}, tenant : Tenants \union {Nobody},
     todo : SUBSET Tenants, client : Clients \union {Nobody},
     extra : Clients \union {Nobody}, lookups : 0 .. 2]

Held(c) == {caller[c].client, caller[c].extra} \ {Nobody}
Clean(k) == client[k].path \in {Default, LastMigrated}

HoldsByStep(c) ==
    LET a == caller[c] IN
    /\ a.client # Nobody <=>
         \/ a.step \in {"setPath", "salt", "handler", "statement", "reset"}
         \/ a.step \in {"lookup", "query"} /\ a.kind = "request"
    /\ a.extra # Nobody <=> a.step = "query"
    /\ a.client # Nobody => a.client # a.extra
    /\ a.client # Nobody \/ a.step = "connect" => a.tenant \in Tenants
    /\ a.step = "salt" => a.kind = "request"

(* What it has done to the search_path of what it holds.                   *)
PathByStep(c) ==
    LET a == caller[c] IN
    /\ a.step = "setPath" => Clean(a.client)
    /\ a.step = "query" => Clean(a.extra)
    /\ a.client # Nobody /\ a.step \notin {"setPath", "reset"} =>
         client[a.client].path = a.tenant

PoolInv ==
    /\ client \in [Clients -> [state : {"closed", "idle", "out"},
                               path : Tenants \union {Default}]]
    /\ caller \in [Callers -> CallerRow]
    /\ \A c \in Callers : HoldsByStep(c) /\ PathByStep(c)
    /\ \A c, d \in Callers : c # d => Held(c) \intersect Held(d) = {}
    /\ \A k \in Clients :
         /\ client[k].state = "out" <=> \E c \in Callers : k \in Held(c)
         /\ client[k].state # "out" => Clean(k)
    /\ pending \in Seq(Callers)
    /\ \A m, n \in DOMAIN pending : pending[m] = pending[n] => m = n
    /\ \A c \in Callers : c \in Waiting <=> caller[c].step \in {"connect", "lookup"}
    /\ calls \in 0 .. MaxCalls

(* Every call ends, although a request holds a client while it waits for   *)
(* the one that reads its salt: when all clients are held so, the timeout  *)
(* lets somebody go.                                                       *)
CallsEnd == \A c \in Callers : caller[c].step # "idle" ~> caller[c].step = "idle"
=============================================================================
