------------------------- MODULE EntitlementEngine -------------------------
(***************************************************************************)
(* The Entitlement Engine of the API (funhouse_api/entitlements/engine.py) *)
(* as its two callers reach it: a sync action (_apply_entitlement of       *)
(* funhouse_api/sync/service.py), which carries a client id and the time   *)
(* of the device, and the resource endpoints (entitlements/router.py),     *)
(* which carry neither a client id nor a replay.                           *)
(*                                                                         *)
(* Requests run concurrently, one database transaction each, at READ       *)
(* COMMITTED.  A draw takes the row lock and reads the row and the receipt *)
(* in its first step, and commits in its second; what it read is kept in   *)
(* the request, as the Python locals keep it.  A create looks its client   *)
(* id up in the first step, without a lock, and inserts in the second.     *)
(* A request that has ended has given its answer; the device may deliver   *)
(* the same call again, in another request, at any time.                   *)
(***************************************************************************)
EXTENDS ProductRules, FiniteSetsExt

CONSTANTS
    EntIds,          \* ids the entitlements table can hand out
    ClientIds,       \* client ids minted by the devices
    Requests,        \* the requests that may arrive
    Products,
    RulesOf,         \* products.rules of each product
    Calls,           \* what the requests may ask for
    InitialRows,     \* entitlements before the first request, None if no row
    LegacyReceipts   \* sync_log rows that migration 010 marked

Statuses == {"active", "expired", "cancelled"}

RowType ==
    [status : Statuses, product : Products, units : Nat \cup {None},
     from : Int, client : ClientIds \cup {None}]

DrawCalls ==
    [op : {"draw"}, client : ClientIds \cup {None}, now : Int,
     ent : EntIds, amount : Int]

CreateCalls ==
    [op : {"create"}, client : ClientIds \cup {None}, now : Int,
     product : Products]

\* append_sync_log: what the engine reads back of a sync_log row, and the
\* request that wrote it.
LogType ==
    [by : Requests \cup {None}, record : EntIds,
     action : {"insert", "update", "skip"},
     client : ClientIds \cup {None}, ts : Int, legacy : BOOLEAN]

Refusals ==
    {"invalid_amount", "not_found", "inactive", "insufficient_units",
     "signature_failed", "unique_violation", "database_error"}

RequestType ==
    [pc : {"idle", "locked", "creating", "done"},
     call : Calls \cup {None},
     seen : RowType \cup {None},
     receipt : {"none", "client", "legacy"},
     outcome : {"applied", "skipped"} \cup Refusals \cup {None},
     charged : Int \cup {None}]     \* period that an applied draw was taken from

Allowance(product) == AllowanceUnits(RulesOf[product])

\* A balance lies between nothing and the allowance of the product's period,
\* and only an unlimited product has no balance.
WithinAllowance(units, product) ==
    /\ units = None <=> Allowance(product) = None
    /\ units # None => units >= 0 /\ units =< Allowance(product)

ASSUME EngineAssumption ==
    /\ RulesOf \in [Products -> RulesType]
    /\ Calls \subseteq DrawCalls \cup CreateCalls
    /\ InitialRows \in [EntIds -> RowType \cup {None}]
    /\ \A e \in EntIds : InitialRows[e] # None =>
          WithinAllowance(InitialRows[e].units, InitialRows[e].product)
    /\ LegacyReceipts \subseteq LogType
    /\ \A l \in LegacyReceipts : l.legacy /\ l.client = None /\ l.by = None

ASSUME NoneAssumption ==
    /\ None \notin ClientIds
    /\ None \notin Requests
    /\ None \notin RowType
    /\ None \notin Calls
    /\ None \notin {"applied", "skipped"} \cup Refusals

\* crypto.randomUUID on the device: a client id names one action, and no
\* client id was in use before.
ASSUME ClientIdAssumption ==
    /\ \A c, d \in Calls : c.client # None /\ c.client = d.client => c = d
    /\ \A e \in EntIds : InitialRows[e] # None => InitialRows[e].client = None

VARIABLES
    entitlements,   \* the table: a row, or None, for each id
    sync_log,       \* the audit log
    req             \* the requests

vars == <<entitlements, sync_log, req>>

NewRequest ==
    [pc |-> "idle", call |-> None, seen |-> None, receipt |-> "none",
     outcome |-> None, charged |-> None]

Init ==
    /\ entitlements = InitialRows
    /\ sync_log = LegacyReceipts
    /\ req = [r \in Requests |-> NewRequest]

-----------------------------------------------------------------------------
(* What the transactions read.                                             *)

\* SELECT ... FOR UPDATE: the lock lasts until the transaction ends.
Locked(e) ==
    \E r \in Requests : req[r].pc = "locked" /\ req[r].call.ent = e

\* sync_log.client_id carries a unique index (migration 010).
ClientLogged(client) == \E l \in sync_log : l.client = client

LegacyReceipt(c) ==
    \E l \in sync_log : /\ l.legacy
                        /\ l.record = c.ent
                        /\ l.action = "update"
                        /\ l.ts = c.now

\* Mutant: no fallback to the rows that migration 010 marked.
ReceiptByClientOnly(c) ==
    IF c.client # None /\ ClientLogged(c.client) THEN "client" ELSE "none"

\* Mutant: the client id is not looked up, the index alone has to stop a replay.
ReceiptByLegacyOnly(c) ==
    IF c.client # None /\ LegacyReceipt(c) THEN "legacy" ELSE "none"

\* The receipt of an earlier delivery of this draw, looked up under the lock.
ReceiptOf(c) ==
    IF c.client = None THEN "none"
    ELSE IF ClientLogged(c.client) THEN "client"
    ELSE IF LegacyReceipt(c) THEN "legacy"
    ELSE "none"

Entry(r, c, e, action, client) ==
    [by |-> r, record |-> e, action |-> action, client |-> client,
     ts |-> c.now, legacy |-> FALSE]

Answer(r, outcome) ==
    req' = [req EXCEPT ![r].pc = "done", ![r].outcome = outcome]

\* A request that is answered without having opened a transaction.
AnswerAtOnce(r, c, outcome) ==
    req' = [req EXCEPT ![r].pc = "done", ![r].call = c, ![r].outcome = outcome]

-----------------------------------------------------------------------------
(* draw.                                                                   *)

RefuseDraw(r, c) ==
    /\ req[r].pc = "idle"
    /\ c.op = "draw"
    /\ \/ c.amount =< 0 /\ AnswerAtOnce(r, c, "invalid_amount")
       \/ /\ c.amount > 0
          /\ entitlements[c.ent] = None
          /\ AnswerAtOnce(r, c, "not_found")
    /\ UNCHANGED <<entitlements, sync_log>>

\* Mutant: the row is read without FOR UPDATE.
BeginDrawUnlocked(r, c) ==
    /\ req[r].pc = "idle"
    /\ c.op = "draw"
    /\ c.amount > 0
    /\ entitlements[c.ent] # None
    /\ req' = [req EXCEPT ![r].pc = "locked", ![r].call = c,
                          ![r].seen = entitlements[c.ent],
                          ![r].receipt = ReceiptOf(c)]
    /\ UNCHANGED <<entitlements, sync_log>>

BeginDraw(r, c) ==
    /\ req[r].pc = "idle"
    /\ c.op = "draw"
    /\ c.amount > 0
    /\ entitlements[c.ent] # None
    /\ ~Locked(c.ent)
    /\ req' = [req EXCEPT ![r].pc = "locked", ![r].call = c,
                          ![r].seen = entitlements[c.ent],
                          ![r].receipt = ReceiptOf(c)]
    /\ UNCHANGED <<entitlements, sync_log>>

\* The balance and the period that the draw is evaluated against.
Period(r) ==
    ResetIfNewPeriod(req[r].seen.units, req[r].seen.from,
                     RulesOf[req[r].seen.product], req[r].call.now)

\* The UPDATE statements of draw.  Without a new period the second field is
\* the one that was read.
Write(r, units) ==
    entitlements' = [entitlements EXCEPT ![req[r].call.ent].units = units,
                                         ![req[r].call.ent].from = Period(r).from]

\* An ordinary replay leaves client_id NULL in its audit row; the first
\* replay of a legacy draw claims it.
SkipReplay(r) ==
    LET c == req[r].call
        client == IF req[r].receipt = "legacy" THEN c.client ELSE None
    IN  /\ req[r].pc = "locked"
        /\ req[r].receipt # "none"
        /\ sync_log' = sync_log \cup {Entry(r, c, c.ent, "skip", client)}
        /\ Answer(r, "skipped")
        /\ UNCHANGED entitlements

Evaluating(r) == req[r].pc = "locked" /\ req[r].receipt = "none"

\* The reset is committed although the draw is refused.
RejectInactive(r) ==
    /\ Evaluating(r)
    /\ req[r].seen.status # "active"
    /\ Write(r, Period(r).units)
    /\ Answer(r, "inactive")
    /\ UNCHANGED sync_log

\* No balance to decrement and no signature; a sync draw leaves a receipt.
ApplyUnlimited(r) ==
    LET c == req[r].call
    IN  /\ Evaluating(r)
        /\ req[r].seen.status = "active"
        /\ Period(r).units = None
        /\ c.client = None \/ ~ClientLogged(c.client)
        /\ Write(r, None)
        /\ sync_log' = IF c.client = None THEN sync_log
                       ELSE sync_log \cup {Entry(r, c, c.ent, "skip", c.client)}
        /\ Answer(r, "applied")

RejectInsufficient(r) ==
    /\ Evaluating(r)
    /\ req[r].seen.status = "active"
    /\ Period(r).units # None
    /\ Period(r).units < req[r].call.amount
    /\ Write(r, Period(r).units)
    /\ Answer(r, "insufficient_units")
    /\ UNCHANGED sync_log

\* Mutant: the draw is not held against the balance.
FundedUnchecked(r) ==
    /\ Evaluating(r)
    /\ req[r].seen.status = "active"
    /\ Period(r).units # None

\* An active, limited entitlement with enough units for the draw.
Funded(r) ==
    /\ Evaluating(r)
    /\ req[r].seen.status = "active"
    /\ Period(r).units # None
    /\ Period(r).units >= req[r].call.amount

\* The decrement and its signature, committed together.
ApplyDraw(r) ==
    LET c == req[r].call
    IN  /\ Funded(r)
        /\ c.client = None \/ ~ClientLogged(c.client)
        /\ Write(r, Period(r).units - c.amount)
        /\ sync_log' = sync_log \cup {Entry(r, c, c.ent, "update", c.client)}
        /\ req' = [req EXCEPT ![r].pc = "done", ![r].outcome = "applied",
                              ![r].charged = Period(r).from]

\* SignatureAppendError: the savepoint undoes the decrement, the reset stays.
SignatureFails(r) ==
    /\ Funded(r)
    /\ Write(r, Period(r).units)
    /\ Answer(r, "signature_failed")
    /\ UNCHANGED sync_log

-----------------------------------------------------------------------------
(* create_entitlement, and the look-up that precedes it for a sync action. *)

SkipCreate(r, c) ==
    /\ req[r].pc = "idle"
    /\ c.op = "create"
    /\ c.client # None
    /\ \E e \in EntIds :
          /\ entitlements[e] # None
          /\ entitlements[e].client = c.client
          /\ sync_log' = sync_log \cup {Entry(r, c, e, "skip", None)}
    /\ AnswerAtOnce(r, c, "skipped")
    /\ UNCHANGED entitlements

BeginCreate(r, c) ==
    /\ req[r].pc = "idle"
    /\ c.op = "create"
    /\ \A e \in EntIds : entitlements[e] # None /\ c.client # None =>
                            entitlements[e].client # c.client
    /\ req' = [req EXCEPT ![r].pc = "creating", ![r].call = c]
    /\ UNCHANGED <<entitlements, sync_log>>

\* Mutant: no unique index on sync_log.client_id.
CommitCreateUnindexed(r) ==
    LET c == req[r].call
        window == DeriveWindow(RulesOf[c.product], c.now)
    IN  /\ req[r].pc = "creating"
        /\ \E e \in EntIds :
              /\ entitlements[e] = None
              /\ entitlements' = [entitlements EXCEPT ![e] =
                    [status |-> "active", product |-> c.product,
                     units |-> window.units, from |-> window.from,
                     client |-> c.client]]
              /\ sync_log' = sync_log \cup {Entry(r, c, e, "insert", c.client)}
        /\ Answer(r, "applied")

CommitCreate(r) ==
    LET c == req[r].call
        window == DeriveWindow(RulesOf[c.product], c.now)
    IN  /\ req[r].pc = "creating"
        /\ c.client = None \/ ~ClientLogged(c.client)
        /\ \E e \in EntIds :
              /\ entitlements[e] = None
              /\ entitlements' = [entitlements EXCEPT ![e] =
                    [status |-> "active", product |-> c.product,
                     units |-> window.units, from |-> window.from,
                     client |-> c.client]]
              /\ sync_log' = sync_log \cup {Entry(r, c, e, "insert", c.client)}
        /\ Answer(r, "applied")

\* The index refuses the audit row of a second concurrent create, and the
\* whole transaction with it.
UniqueViolation(r) ==
    /\ req[r].pc = "creating"
    /\ req[r].call.client # None
    /\ ClientLogged(req[r].call.client)
    /\ Answer(r, "unique_violation")
    /\ UNCHANGED <<entitlements, sync_log>>

-----------------------------------------------------------------------------
\* Any other exception before the commit: everything is rolled back, and
\* apply_batch answers rejected (a resource endpoint answers 500).
DatabaseFails(r) ==
    /\ req[r].pc \in {"locked", "creating"}
    /\ Answer(r, "database_error")
    /\ UNCHANGED <<entitlements, sync_log>>

\* External: nothing in the repository changes a status, an operator does.
OperatorSetsStatus(e) ==
    /\ entitlements[e] # None
    /\ ~Locked(e)
    /\ \E s \in Statuses \ {entitlements[e].status} :
          entitlements' = [entitlements EXCEPT ![e].status = s]
    /\ UNCHANGED <<sync_log, req>>

\* No request is left to arrive or to finish.
Terminating ==
    /\ \A r \in Requests : req[r].pc = "done"
    /\ UNCHANGED vars

Arrive(r, c) ==
    RefuseDraw(r, c) \/ BeginDraw(r, c) \/ SkipCreate(r, c) \/ BeginCreate(r, c)

Finish(r) ==
    \/ SkipReplay(r) \/ RejectInactive(r) \/ ApplyUnlimited(r)
    \/ RejectInsufficient(r) \/ ApplyDraw(r) \/ SignatureFails(r)
    \/ CommitCreate(r) \/ UniqueViolation(r) \/ DatabaseFails(r)

Next ==
    \/ \E r \in Requests, c \in Calls : Arrive(r, c)
    \/ \E r \in Requests : Finish(r)
    \/ \E e \in EntIds : OperatorSetsStatus(e)
    \/ Terminating

Spec == Init /\ [][Next]_vars

-----------------------------------------------------------------------------
(* Properties.                                                             *)

\* Every variable has its type: table, audit log and requests hold what the
\* schema and the engine's locals can hold; remaining_units is never
\* negative.
TypeOK ==
    /\ entitlements \in [EntIds -> RowType \cup {None}]
    /\ sync_log \subseteq LogType
    /\ req \in [Requests -> RequestType]

\* Whatever draws, resets, creates and failures interleave, the balance of an
\* entitlement stays between zero and one period's allowance: a reset adds
\* nothing to units left over (no rollover), and no unlimited product turns
\* into a limited one or back.
BalanceWithinAllowance ==
    \A e \in EntIds : entitlements[e] # None =>
        WithinAllowance(entitlements[e].units, entitlements[e].product)

\* What the current period of a row began with.
Opening(e) ==
    IF InitialRows[e] # None /\ InitialRows[e].from = entitlements[e].from
    THEN InitialRows[e].units
    ELSE Allowance(entitlements[e].product)

\* The draws that the audit log signs for, in the current period of a row.
SignedUse(e) ==
    LET signatures ==
            {l \in sync_log : /\ ~l.legacy
                              /\ l.action = "update"
                              /\ l.record = e
                              /\ req[l.by].charged = entitlements[e].from}
    IN  MapThenSumSet(LAMBDA l : req[l.by].call.amount, signatures)

\* The audit log accounts for the balance: units left plus the draws signed
\* for in the period are what the period began with.  A lost update between
\* two draws, a decrement without its signature or a signature without its
\* decrement breaks it.
BalanceIsSigned ==
    \A e \in EntIds : entitlements[e] # None /\ entitlements[e].units # None =>
        entitlements[e].units + SignedUse(e) = Opening(e)

\* However often and however concurrently a device delivers a draw, it is
\* applied once, and never if a revision of the API before migration 010
\* applied it.
DrawAppliedOnce ==
    \A q \in Requests :
        (req[q].outcome = "applied" /\ req[q].call.op = "draw"
                                    /\ req[q].call.client # None) =>
            /\ ~LegacyReceipt(req[q].call)
            /\ \A r \in Requests \ {q} :
                  req[r].outcome = "applied" => req[r].call.client # req[q].call.client

\* Two deliveries of one create never leave two entitlements, even when both
\* looked the client id up before either inserted.
CreatedOnce ==
    \A d, e \in EntIds :
        (entitlements[d] # None /\ entitlements[e] # None
            /\ entitlements[d].client # None
            /\ entitlements[d].client = entitlements[e].client) => d = e

\* A late draw with an old device timestamp never takes an entitlement back
\* into an earlier period, which would grant that period's reset again, and
\* rows are never deleted.
PeriodNeverMovesBack ==
    [][\A e \in EntIds : entitlements[e] # None =>
          /\ entitlements'[e] # None
          /\ entitlements'[e].from >= entitlements[e].from]_vars

\* A draw that is answered while its client id is already in the audit log
\* changes no entitlement and is answered skipped unless the database fails:
\* never insufficient or inactive, although the balance may be used up and the
\* entitlement cancelled by then.
ReplayIsNoOp ==
    [][\A r \in Requests :
          (/\ req[r].pc # "done"
           /\ req'[r].pc = "done"
           /\ req'[r].call.op = "draw"
           /\ req'[r].call.client # None
           /\ ClientLogged(req'[r].call.client)) =>
              /\ entitlements' = entitlements
              /\ req'[r].outcome \in {"skipped", "database_error"}]_vars
=============================================================================
