--------------------------- MODULE SessionService ---------------------------
(***************************************************************************)
(* POST /sessions and POST /payments, and what is read back from them: the *)
(* roster and history of a player, the revenue summary and the alerts      *)
(* (funhouse_api/sessions, payments, players, revenue, alerts, rbac.py).   *)
(*                                                                         *)
(* A draw commits on its own before the session is inserted; the session,  *)
(* its payment and their audit entries commit together.  A request may     *)
(* fail at any step, and the user may send it again: these endpoints take  *)
(* no client id, so each attempt is a request of its own, <<r, n>>.        *)
(* An instant is a day; a scope is what Scope.derive keeps of a user.      *)
(***************************************************************************)
EXTENDS ProductRules, FiniteSets, FiniteSetsExt

CONSTANTS
    Requests,      \* the requests that may run at the same time
    Call,          \* request -> [op, by, player, type, school, started, payment, draw]
    Player,        \* player -> [location, school, active]
    Product,       \* product -> [type, rules]
    Grant,         \* entitlement -> [player, product, location, status, to, from, units]
    Locations,
    Devices,
    LastEntry,     \* device -> location -> day of its last entry at first, or None
    Visits,        \* <<device, location, day>> on which a device may sync
    Horizon,       \* ALERT_EXPIRY_HORIZON_DAYS
    FirstDay,
    LastDay,       \* bound on the clock
    MaxFailures    \* bound on attempts that fail

ASSUME SessionAssumption ==
    /\ \A e \in DOMAIN Grant : Grant[e].player \in DOMAIN Player /\ Grant[e].product \in DOMAIN Product
    /\ FirstDay \in Nat /\ LastDay \in Nat /\ FirstDay =< LastDay
    /\ Horizon \in Nat /\ MaxFailures \in Nat
    /\ IsFiniteSet(Locations)
    /\ \A p \in DOMAIN Player : Player[p].location \in Locations
    /\ LastEntry \in [Devices -> [Locations -> 0..FirstDay \cup {None}]]

\* The request bodies: a payment has no draw, a draw takes units.
ASSUME CallAssumption ==
    \A r \in Requests :
        /\ Call[r].op \in {"session", "payment"}
        /\ Call[r].draw # None => Call[r].op = "session" /\ Call[r].draw.amount \in Nat \ {0}
        /\ Call[r].payment # None => Call[r].payment.cents \in Int
        /\ Call[r].started \in Int \cup {None}

\* derive_window gives a new entitlement the allowance of its product, and only
\* draws and later periods have changed it since.
ASSUME GrantAssumption ==
    \A e \in DOMAIN Grant :
        LET rules == Product[Grant[e].product].rules
        IN  /\ rules \in RulesType
            /\ Grant[e].to \in Int \cup {None}
            /\ Grant[e].units \in Nat \cup {None}
            /\ Grant[e].units = None <=> AllowanceUnits(rules) = None

VARIABLES
    day,           \* the clock
    pc,            \* step of each request
    attempt,       \* how often each request was sent
    began,         \* day on which the attempt began, None once it has ended
    failed,        \* attempts that died or were answered with an error
    balance,       \* entitlement -> [units, from]
    sessions,      \* rows [id, player, type, school, location, by, started, created]
    payments,      \* rows [id, player, product, cents, location, by]
    sync_log,      \* <<attempt, entity, record>>; an entitlements entry signs a draw
    synced         \* device -> location -> day of the last entry from it, or None

svars == <<day, pc, attempt, began, failed, balance, sessions, payments, sync_log, synced>>

SESSION_TYPES == {"lesson", "kit", "esports", "lounge"}
NO_RECENT_SESSION_DAYS == 7
UNSYNCED_DEVICE_DAYS == 5

Active(r) == pc[r] \in {"draw", "insert", "committed"}
Id(r) == <<r, attempt[r]>>

-----------------------------------------------------------------------------
(* Scopes.                                                                 *)

Founder == [role |-> "founder", location |-> None, school |-> None]
Manager(l) == [role |-> "manager", location |-> l, school |-> None]

\* Scope.derive fails closed.
HasScope(u) ==
    \/ u.role = "founder"
    \/ u.role = "manager" /\ u.location # None
    \/ u.role = "facilitator" /\ u.location # None /\ u.school # None

\* assert_can_write
CanWrite(u, location, school) ==
    \/ u.role = "founder"
    \/ /\ u.location = location
       /\ u.role = "facilitator" => u.school = school

\* The WHERE clause that the queries build from a scope.
Reads(u, location, school) ==
    \/ u.role = "founder"
    \/ /\ u.location = location
       /\ u.role = "facilitator" => u.school = school

-----------------------------------------------------------------------------
(* What is read back.                                                      *)

\* GET /players
Roster(u) == {p \in DOMAIN Player : Reads(u, Player[p].location, Player[p].school)}

\* GET /players/{id}/history: sessions carry a school, payments and draws take
\* that of the player.
History(u, p) ==
    [sessions |-> {s \in sessions : s.player = p /\ Reads(u, s.location, s.school)},
     payments |-> {y \in payments : y.player = p /\ Reads(u, y.location, Player[p].school)},
     draws |-> {l \in sync_log : /\ l[2] = "entitlements"
                                 /\ Grant[l[3]].player = p
                                 /\ Reads(u, Grant[l[3]].location, Player[p].school)}]

Cents(ps) == MapThenSumSet(LAMBDA y : y.cents, ps)

\* GET /revenue/summary: the cents of one stream.  The join drops a payment
\* without product.
Revenue(u, stream) ==
    Cents({y \in payments : /\ y.product # None
                            /\ Product[y.product].type = stream
                            /\ Reads(u, y.location, Player[y.player].school)})

\* COALESCE(started_at, created_at)
SessionDay(s) == IF s.started = None THEN s.created ELSE s.started

\* A plausible bug: the subquery is not tied to the player.
NoRecentSessionOfAnyone(u) ==
    {p \in DOMAIN Player :
        /\ Player[p].active
        /\ Reads(u, Player[p].location, Player[p].school)
        /\ ~\E s \in sessions : SessionDay(s) >= day - NO_RECENT_SESSION_DAYS}

NoRecentSession(u) ==
    {p \in DOMAIN Player :
        /\ Player[p].active
        /\ Reads(u, Player[p].location, Player[p].school)
        /\ ~\E s \in sessions : s.player = p /\ SessionDay(s) >= day - NO_RECENT_SESSION_DAYS}

ActiveGrants(u) ==
    {e \in DOMAIN Grant : /\ Grant[e].status = "active"
                          /\ Grant[e].to # None
                          /\ Reads(u, Grant[e].location, Player[Grant[e].player].school)}

\* A plausible bug: the last day of the horizon is left out.
ExpiringBeforeHorizon(u) ==
    {e \in ActiveGrants(u) : day =< Grant[e].to /\ Grant[e].to < day + Horizon}

EntitlementExpiring(u) ==
    {e \in ActiveGrants(u) : day =< Grant[e].to /\ Grant[e].to =< day + Horizon}

SubscriptionDue(u) ==
    {e \in ActiveGrants(u) : Product[Grant[e].product].type = "subscription" /\ Grant[e].to =< day}

\* The entries of a device are those at the locations of the scope; MAX of no
\* entry is no group.
UnsyncedDevice(u) ==
    {d \in Devices :
        LET entries == {synced[d][l] : l \in {k \in Locations : Reads(u, k, u.school)}} \ {None}
        IN  entries # {} /\ Max(entries) < day - UNSYNCED_DEVICE_DAYS}

\* GET /alerts
Alerts(u) ==
    ({"no_recent_session"} \X NoRecentSession(u))
    \cup ({"entitlement_expiring"} \X EntitlementExpiring(u))
    \cup ({"subscription_due"} \X SubscriptionDue(u))
    \cup ({"unsynced_device"} \X UnsyncedDevice(u))

-----------------------------------------------------------------------------
(* POST /sessions and POST /payments.                                      *)

Home(c) == Player[c.player].location
EffectiveSchool(c) == IF c.school # None THEN c.school ELSE Player[c.player].school

\* A plausible bug: a school that the caller names is not held against his scope.
SessionRefusalBySchoolOfPlayer(c) ==
    IF ~HasScope(c.by) THEN 403
    ELSE IF c.type \notin SESSION_TYPES THEN 422
    ELSE IF c.by.role = "facilitator" /\ (c.type = "lounge" \/ c.payment # None \/ c.draw # None) THEN 403
    ELSE IF c.player \notin DOMAIN Player THEN 404
    ELSE IF ~CanWrite(c.by, Home(c), Player[c.player].school) THEN 403
    ELSE None

\* create_session and the checks of log_session, in their order.
SessionRefusal(c) ==
    IF ~HasScope(c.by) THEN 403
    ELSE IF c.type \notin SESSION_TYPES THEN 422
    ELSE IF c.by.role = "facilitator" /\ (c.type = "lounge" \/ c.payment # None \/ c.draw # None) THEN 403
    ELSE IF c.player \notin DOMAIN Player THEN 404
    ELSE IF ~CanWrite(c.by, Home(c), Player[c.player].school) THEN 403
    ELSE IF ~CanWrite(c.by, Home(c), EffectiveSchool(c)) THEN 403
    ELSE None

\* record_payment of the router and of the service.
PaymentRefusal(c) ==
    IF ~HasScope(c.by) \/ c.by.role \notin {"founder", "manager"} THEN 403
    ELSE IF c.player \notin DOMAIN Player THEN 404
    ELSE IF ~CanWrite(c.by, Home(c), Player[c.player].school) THEN 403
    ELSE None

Refusal(c) == IF c.op = "session" THEN SessionRefusal(c) ELSE PaymentRefusal(c)

\* The request is sent, or sent again after it failed.
Begin(r) ==
    /\ pc[r] \in {"ready", "failed"}
    /\ attempt' = [attempt EXCEPT ![r] = @ + 1]
    /\ began' = [began EXCEPT ![r] = IF Refusal(Call[r]) # None THEN None ELSE day]
    /\ pc' = [pc EXCEPT ![r] = IF Refusal(Call[r]) # None THEN "refused"
                               ELSE IF Call[r].draw # None THEN "draw"
                               ELSE "insert"]
    /\ UNCHANGED <<day, failed, balance, sessions, payments, sync_log, synced>>

\* After the insert, or once the attempt is over, its beginning is of no use.
Ended(r) == began' = [began EXCEPT ![r] = IF pc'[r] = "insert" THEN @ ELSE None]

Period(e, now) ==
    ResetIfNewPeriod(balance[e].units, balance[e].from, Product[Grant[e].product].rules, now)

\* A plausible bug: what engine.draw returns is not looked at.
DrawUnlooked(r) ==
    LET e == Call[r].draw.ent
        period == Period(e, began[r])
        funded == period.units # None /\ period.units >= Call[r].draw.amount
    IN  /\ pc[r] = "draw"
        /\ pc' = [pc EXCEPT ![r] = "insert"]
        /\ balance' = [balance EXCEPT ![e] =
              [period EXCEPT !.units = IF funded THEN @ - Call[r].draw.amount ELSE @]]
        /\ sync_log' = IF funded THEN sync_log \cup {<<Id(r), "entitlements", e>>} ELSE sync_log
        /\ Ended(r)
        /\ UNCHANGED <<day, attempt, failed, sessions, payments, synced>>

\* engine.draw, in a transaction of its own: a new period is kept in every
\* case; a refused draw is answered 409; an unlimited one is not signed.
Draw(r) ==
    LET e == Call[r].draw.ent
        period == Period(e, began[r])
        active == Grant[e].status = "active"
        funded == active /\ period.units # None /\ period.units >= Call[r].draw.amount
    IN  /\ pc[r] = "draw"
        /\ IF e \notin DOMAIN Grant
           THEN pc' = [pc EXCEPT ![r] = "refused"] /\ UNCHANGED <<balance, sync_log>>
           ELSE /\ pc' = [pc EXCEPT ![r] = IF funded \/ (active /\ period.units = None)
                                           THEN "insert" ELSE "refused"]
                /\ balance' = [balance EXCEPT ![e] =
                      [period EXCEPT !.units = IF funded THEN @ - Call[r].draw.amount ELSE @]]
                /\ sync_log' = IF funded THEN sync_log \cup {<<Id(r), "entitlements", e>>} ELSE sync_log
        /\ Ended(r)
        /\ UNCHANGED <<day, attempt, failed, sessions, payments, synced>>

\* now() is the start of the transaction: a draw has committed the first one.
SessionRow(r) ==
    [id |-> Id(r), player |-> Call[r].player, type |-> Call[r].type,
     school |-> EffectiveSchool(Call[r]), location |-> Home(Call[r]), by |-> Call[r].by,
     started |-> Call[r].started, created |-> IF Call[r].draw # None THEN day ELSE began[r]]

PaymentRow(r) ==
    [id |-> Id(r), player |-> Call[r].player, product |-> Call[r].payment.product,
     cents |-> Call[r].payment.cents, location |-> Home(Call[r]), by |-> Call[r].by]

\* The foreign keys of the payment and of the session.
Insertable(c) == c.payment # None => c.payment.product \in DOMAIN Product \cup {None}

NewSessions(r) == IF Call[r].op = "session" THEN {SessionRow(r)} ELSE {}
NewPayments(r) == IF Call[r].payment # None THEN {PaymentRow(r)} ELSE {}

\* The session, the payment and their audit entries, in one transaction.
Insert(r) ==
    /\ pc[r] = "insert"
    /\ Insertable(Call[r])
    /\ sessions' = sessions \cup NewSessions(r)
    /\ payments' = payments \cup NewPayments(r)
    /\ sync_log' = sync_log \cup {<<Id(r), "sessions", Id(r)>> : s \in NewSessions(r)}
                            \cup {<<Id(r), "payments", Id(r)>> : y \in NewPayments(r)}
    /\ pc' = [pc EXCEPT ![r] = "committed"]
    /\ Ended(r)
    /\ UNCHANGED <<day, attempt, failed, balance, synced>>

\* The database refuses the rows: 500, and the units stay drawn.
InsertFails(r) ==
    /\ pc[r] = "insert"
    /\ ~Insertable(Call[r])
    /\ failed' = failed \cup {Id(r)}
    /\ pc' = [pc EXCEPT ![r] = "refused"]
    /\ Ended(r)
    /\ UNCHANGED <<day, attempt, balance, sessions, payments, sync_log, synced>>

Answer(r) ==
    /\ pc[r] = "committed"
    /\ pc' = [pc EXCEPT ![r] = "answered"]
    /\ UNCHANGED <<day, attempt, began, failed, balance, sessions, payments, sync_log, synced>>

\* The request dies or its answer is lost; what it has committed stays.
Fail(r) ==
    /\ Active(r)
    /\ Cardinality(failed) < MaxFailures
    /\ failed' = failed \cup {Id(r)}
    /\ pc' = [pc EXCEPT ![r] = "failed"]
    /\ Ended(r)
    /\ UNCHANGED <<day, attempt, balance, sessions, payments, sync_log, synced>>

\* A batch of Sync_Service writes audit entries of the device.
DeviceSync(d, l) ==
    /\ <<d, l, day>> \in Visits
    /\ synced' = [synced EXCEPT ![d][l] = day]
    /\ UNCHANGED <<day, pc, attempt, began, failed, balance, sessions, payments, sync_log>>

Tick ==
    /\ day < LastDay
    /\ day' = day + 1
    /\ UNCHANGED <<pc, attempt, began, failed, balance, sessions, payments, sync_log, synced>>

-----------------------------------------------------------------------------
Init ==
    /\ day = FirstDay
    /\ pc = [r \in Requests |-> "ready"]
    /\ attempt = [r \in Requests |-> 0]
    /\ began = [r \in Requests |-> None]
    /\ failed = {}
    /\ balance = [e \in DOMAIN Grant |-> [units |-> Grant[e].units, from |-> Grant[e].from]]
    /\ sessions = {}
    /\ payments = {}
    /\ sync_log = {}
    /\ synced = LastEntry

Handle(r) == Draw(r) \/ Insert(r) \/ InsertFails(r) \/ Answer(r)

Next ==
    \/ \E r \in Requests : Begin(r) \/ Handle(r) \/ Fail(r)
    \/ \E d \in Devices, l \in Locations : DeviceSync(d, l)
    \/ Tick

Spec == Init /\ [][Next]_svars

-----------------------------------------------------------------------------
\* Steps, balances and rows are of their types: a balance never falls below
\* zero (log_session, engine.draw).
TypeOK ==
    /\ day \in FirstDay..LastDay
    /\ pc \in [Requests -> {"ready", "draw", "insert", "committed", "answered", "refused", "failed"}]
    /\ \A e \in DOMAIN Grant : balance[e].units \in Nat \cup {None}
    /\ {s.id : s \in sessions} \cup {y.id : y \in payments} \cup failed
          \subseteq {<<r, n>> : r \in Requests, n \in 1..(MaxFailures + 1)}

Signed(id) == \E l \in sync_log : l[1] = id /\ l[2] = "entitlements"
HasSession(id) == \E s \in sessions : s.id = id
HasPayment(id) == \E y \in payments : y.id = id

\* A session is never half recorded: it has its payment, its audit entries and
\* the draw it was logged with, and no payment of a session stands without it.
\* Units are drawn without a session only by an attempt that is being handled or
\* has failed: a refusal takes none (the draw is performed first, the rest is one
\* transaction of log_session).
SessionIsWhole ==
    \A r \in Requests : \A n \in 1..attempt[r] :
        LET id == <<r, n>>
            c == Call[r]
        IN  /\ HasSession(id) =>
                 /\ c.payment # None => HasPayment(id)
                 /\ c.draw # None /\ Grant[c.draw.ent].units # None => Signed(id)
                 /\ <<id, "sessions", id>> \in sync_log
            /\ HasPayment(id) => /\ c.op = "session" => HasSession(id)
                                 /\ <<id, "payments", id>> \in sync_log
            /\ Signed(id) => \/ HasSession(id)
                             \/ id \in failed
                             \/ id = Id(r) /\ pc[r] = "insert"

\* Who may write a row may read it: the player is on the roster of the user who
\* logged the session, the session and the payment are in his history of the
\* player, and the manager of a player's location has the whole history of the
\* player (assert_can_write, _scope_conditions).
RowsAreVisible ==
    /\ \A s \in sessions :
          /\ s.player \in Roster(s.by)
          /\ s \in History(s.by, s.player).sessions
    /\ \A y \in payments : y \in History(y.by, y.player).payments
    /\ \A p \in DOMAIN Player : \A item \in {"sessions", "payments"} :
          History(Manager(Player[p].location), p)[item] = History(Founder, p)[item]

\* Every row is visible to whom it should be, and the cents of each revenue stream
\* that the managers of the locations see add up to what the founder sees, which
\* is all of them (assert_can_write, summary).
LoggedIsVisible ==
    /\ RowsAreVisible
    /\ \A stream \in {"pay_per_use", "subscription", "school_contracts"} :
          /\ Revenue(Founder, stream) = MapThenSumSet(LAMBDA l : Revenue(Manager(l), stream), Locations)
          /\ Revenue(Founder, stream)
             = Cents({y \in payments : y.product # None /\ Product[y.product].type = stream})

\* From the horizon on, an active subscription is never without an alert at its
\* location: the expiring and the due rule leave no day between them (alerts).
SubscriptionNeverSilent ==
    \A e \in DOMAIN Grant :
        /\ Grant[e].status = "active"
        /\ Product[Grant[e].product].type = "subscription"
        /\ Grant[e].to # None
        /\ Grant[e].to =< day + Horizon
        => \E a \in Alerts(Manager(Grant[e].location)) : a[2] = e

\* An alert goes away only for its reason: a session of the player, an entry of
\* the device, or the day on which an entitlement ran out, and then a
\* subscription is due (alerts).
AlertsStay ==
    [][\A a \in Alerts(Founder) \ Alerts(Founder)' :
          \/ a[1] = "no_recent_session" /\ \E s \in sessions' \ sessions : s.player = a[2]
          \/ a[1] = "unsynced_device" /\ synced'[a[2]] # synced[a[2]]
          \/ /\ a[1] = "entitlement_expiring"
             /\ day' > Grant[a[2]].to
             /\ Product[Grant[a[2]].product].type = "subscription" =>
                   <<"subscription_due", a[2]>> \in Alerts(Founder)']_svars
=============================================================================
