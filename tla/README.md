# Verification of the FunHouse LMS

FunHouse LMS records players, consents, sales of play time, sessions and
payments for a chain of gaming lounges and for schools. Staff work offline in a
browser app; the app queues what they capture and sends it to an API, which
writes it to PostgreSQL. A pipeline loads older paper records into the same
tables. This directory holds TLA+ models of the parts in which order, failure
and concurrency decide whether the books are right, TLC runs of small instances
and TLAPS proofs that hold for every instance.

- [Inventory](#inventory)
- [Modules and how they correspond to the code](#modules-and-how-they-correspond-to-the-code)
- [Runs](#runs)
- [Fairness](#fairness)
- [Proofs](#proofs)
- [What the checks found](#what-the-checks-found)
- [What is left out of the modelled parts](#what-is-left-out-of-the-modelled-parts)
- [Plan](#plan)

`tlc -config X.cfg M` runs a configuration, `tlapm M.tla` checks the proofs of a
module: the eight `...Proofs` modules. `PROJECT.json` lists
components, runs, mutants, the source lines behind every definition, findings,
hazards and theorems.

## Inventory

### Server: `funhouse_api`

| Component | State | Operations | Correct if |
|---|---|---|---|
| Entitlement_Engine (`entitlements/engine.py`) | rows of `entitlements`, receipts in `sync_log` | `create_entitlement`, `draw`, lazy weekly reset | no draw is lost or applied twice, the balance stays within one period's allowance and the audit log accounts for it |
| Product rules (same file) | none | allowance, weekday, period start, window, reset | the period is the week that ends with the local date; a reset never goes back |
| Sync_Service (`sync/service.py`, `sync/mapping.py`) | `players`, `consents`, the four natural-key tables, `sync_log` | `apply_batch` with a handler for each entity | every action has a result; replays are no-ops; the latest device time wins; nothing outside the caller's scope is written |
| RBAC (`rbac.py`) | none | `derive`, `assert_can_write`, `stamp`, `read_filter` | who may write a row may read it; nothing is written outside the scope |
| Authentication (`auth/`) | users | login, token verification | only valid tokens yield a scope |
| Player service (`players/`) | `players`, `consents`, `sync_log` | `register_player`, roster, history | an answered registration is complete; duplicates come only from requests that overlap |
| Session and payment services (`sessions/`, `payments/`) | `sessions`, `payments`, balances | `log_session` with a draw and a payment, `record_payment` | a session is never half recorded |
| Revenue and alerts (`revenue/`, `alerts/`) | none | `summary`, the four alert rules | parts add up to the whole; no alert is lost between two rules |
| Plumbing (`app.py`, `db.py`, `middleware.py` ...) | connection | wiring, error envelopes | |

### Device: `web/src`

| Component | State | Operations | Correct if |
|---|---|---|---|
| Sync_Engine (`domain/syncEngine.ts`) | a flush under way in each tab | `flush` in two phases, id resolution, `SyncScheduler` | every captured action is settled; a settled one is final; dependents go out under server ids |
| Local_Store (`store/localStore.ts`) | IndexedDB: `sync_queue` with revisions, `meta`, caches, quarantine | captures, guarded writes, encryption, legacy migration | no row is lost; a stale write is refused |
| Auth_Manager (`domain/authManager.ts`, `state/authState.tsx`) | session in memory, marker in localStorage, record in IndexedDB | login, restore, logout, 401, expiry, clean-up | a revocation wins; a late clean-up spares the successor; what a tab works under can be restored |
| Captures and screens (`domain/captures`, `ui`) | form state | build the actions of a registration, sale, session, attendance | actions of one capture are committed together |
| Entitlement calculator (`domain/entitlementCalculator.ts`) | none | balance on the device | agrees with the engine |
| Views, reference data, service worker | caches | projections, fetches | |

### Pipeline: `funhouse_pipeline`

| Component | State | Operations | Correct if |
|---|---|---|---|
| Orchestrator (`orchestrator/`) | the manifest in memory and on disk, the records of the run in memory | `run_pipeline` with stages, `--resume`, retries | the manifest never claims what did not happen; every run ends; nothing is left behind |
| Extract (`extract/`, `llm/`) | none | the lesson parser, reading a model's answer | nothing the source says is dropped or put under another lesson |
| Validate (`validate/`) | the review file of a run | rules for names, dates, amounts, confidence | what passes can be loaded as it was meant |
| Load (`load/`) | `players`, `sessions`, `payments`, `lessons`, `student_metrics`, `sync_log` | `resolve_players`, `load_clean_records` | each natural key is entered once and audited once |
| Archive (`archive/`) | the bucket | `archive_file` | what is called archived is in the bucket |
| Release evidence (`release_evidence/`) | none | collect a snapshot, validate it | PASS only for a state that the repository was in |
| Migrations, seed, role verification | schema | ordered files, queries | |

The load layer's `dedup`, `consent` and `audit` are also what the Sync_Service
and the player service call.

### Interaction

A capture commits rows to the queue. A flush sends them as one `POST /sync`.
`apply_batch` answers each action in a transaction of its own and routes
entitlement actions to the engine. The answers settle the rows and teach the
device the server's ids, which dependents need. Tabs of one browser share queue,
id map, session marker and credentials. Logout, expiry or a 401 ends every flush
of the tab at its next await, and the queue survives it.

### What is hard here

- Several API workers and several devices: look-up and write are separate
  statements at READ COMMITTED; only `draw` takes a row lock.
- At-least-once delivery: a device that gets no answer sends everything again,
  while the first request may still be running.
- Device clocks order the writes, so actions arrive late and in any order.
- The app can be killed at any await; two tabs run the same code on one store.
- Revocation races with everything that awaits: logins, restorations, answers.
- A registration and a session are several transactions: a request that dies
  between them leaves the first ones behind, and the user sends it again.
- The pipeline keeps extracted records in memory and its progress on disk; the
  language model need not read an image twice in the same way.
- Release evidence is read in many requests from a repository that changes.

`PROJECT.json` lists these as hazards, each at its line.

## Modules and how they correspond to the code

### `ProductRules`, `EntitlementEngine`

`ProductRules` holds the pure derivations of `engine.py` as operators. An
instant is a number of ticks of the UTC clock, a date a day number; the local
date is shifted by `UtcOffset`.

`EntitlementEngine` has the table, the audit log and one record for each
request. `draw` has two steps. The first (`BeginDraw`) takes the row lock and
reads row and receipt. The second commits one of the outcomes of the code:
`SkipReplay`, `RejectInactive`, `ApplyUnlimited`, `RejectInsufficient`,
`ApplyDraw`, `SignatureFails` (the savepoint undoes the decrement, the reset
stays) or `DatabaseFails`. A create looks up its client id without a lock and
inserts later; the unique index on `sync_log.client_id` of migration 010 decides
(`CommitCreate`, `UniqueViolation`). Sync actions and resource endpoints differ
in whether the call has a client id. Nothing in the repository changes a status,
so `OperatorSetsStatus` is external.

### `SyncService`

A delivery applies the actions of its batch in order. `RejectAction` answers
what a check refuses. `LookUp` is everything up to and including the key
look-up, `Commit` the write and the audit row: `ResolveExistingPlayer`,
`InsertPlayer`, `AppendConsent`, `SkipConsent`, `InsertNatural`,
`InsertConflict`, `UpdateNatural`, `SkipNatural`. What the look-up found is kept
in the delivery, as the Python locals keep it. `MaxActive` says how many
deliveries are served at a time: 1 gives the serial behaviour that the documents
describe, 2 the real one. Dedup keys and natural keys are opaque; the strings
that `mapping.py` derives for them are not modelled.

### `SyncEngine`

One row for each captured action, with its status and whether its player and
session references are local or server ids. A tab's flush is a program counter
over the awaits of `doFlush` and `transmit`. Revisions matter only for equality,
so a tab keeps the set of rows that nobody has written since it read them.
Requests may be lost, handled after the tab has given up, or answered after the
owner has changed. The API is external: it skips what it has applied, rejects
what is invalid or carries a local id, and applies the rest.

### `AuthManager`

Marker, record and the manager of each tab, with and without Web Locks. A step
runs from one await to the next. `login` goes through the reservation of a
generation, the wait for older clean-ups, the request, the lock, the
preparation, the marker, the record and the publication, with the catch block
after a failure; `restoreSession` through lock, read, upgrade and publication;
revocation is immediate in memory and queues a clean-up. Generations are only
compared with the current one, so whoever captured one has a flag that the next
increment clears. A lifecycle id stands for its token and session too.

### `PlayerRegistry`

`POST /players` as concurrent requests at READ COMMITTED: `Start` (role and
location), `ReadNames` (a second key of the name is ambiguous), `Lookup`,
`Insert` (which waits for another uncommitted insert of the key; a conflict is
read back and still counts as created), `Commit` (school, audit entry, end of the
transaction), `AppendConsent` one transaction each, `Answer`. `Crash` rolls the
open transaction back and keeps what is committed; the request may be sent again.
`overlap` is a history variable: which requests were handled at the same time.

### `SessionService`

`POST /sessions` and `POST /payments` in the steps of their transactions: `Begin`
with the checks in their order, `Draw` (committed on its own, with the reset of
`ProductRules`), `Insert` (session, payment and audit entries together),
`Answer`, and `Fail` anywhere. Roster, history, revenue and the four alert rules
are operators over the tables, as the queries build them from a scope. Each
attempt is a row of its own, since these endpoints take no client id. An instant
is a day here; `EntitlementEngine` has the finer clock and the row lock.
`LoggedIsVisible` has two parts: `RowsAreVisible` (who sees which rows) and the
sums of the revenue report.

### `Validator`, `LessonDocument`, `ModelOutput`, `Extraction`

`Validator` has the rules of Validate and the amount conversion of Load that
must agree with them. `LessonDocument` is the text parser: a document is a
sequence of blocks, and the parser is a fold over them. `ModelOutput` reads a
model's answer. `Extraction` grows documents and answers block by block and
compares the parsers and rules with reference definitions: a document cut at its
markers, birthdays instead of year arithmetic, the price list instead of the
conversion.

### `Pipeline`, `AuditedLedger`

`Pipeline` is `run_pipeline`: one process, the manifest it holds, and disk,
review files, database and bucket, which survive it. A stage is the steps between
which a crash or another writer makes a difference: the image batch, each document,
Validate, the statements of the player transaction, the name index, each school,
each row, each original, and the manifest write after each stage. Errors that the
code catches flag or mark what they hit; the others end the run. What a model reads
in an image is any member of a set, another one at each reading.

The transaction that loads the players runs at READ COMMITTED, so each statement of
`resolve_players` is a step and sees what others have committed by then:
`ReadNames` (the keys of one name), `LookUpPlayer` (the row of one key, and whether the
player is merged or counts as created), `InsertPlayer` (which holds the key until the
commit, or reads back a row that has come up meanwhile), and `CommitPlayers` with the
audit entries. `ApiLookUp` and `ApiRegister` are the API doing the same between any two
of them: `asking` holds the keys it has found missing and not yet inserted. Its insert
waits for one that the load has not committed (`Held`). The keys that the batch
resolved to stay in the process (`resolved`), since schools are attached only to
players found in that batch.

`AuditedLedger` is the abstract specification of the load layer: a transaction
enters keys and journals each new key as inserted exactly once. A key that two
transactions have found missing is entered by one of them and contested by the other,
which may journal it as inserted once more when it commits; this is granted only to
the keys in `Shared`. `SyncService` implements the ledger for natural-key rows and
consents, with nothing shared (a theorem, no run). `Pipeline` implements it under
`entered <- DOMAIN players \cup DOMAIN rows`, `journal <- audit`, `Shared <- ApiPlayers` and
`contested <- DOMAIN players \cap (asking \cup Claims)` (`LoadRefinesLedger`), where `Claims`
are the players that an open load counts as created.

### `ReleaseEvidence`

The collector of `github.py` reads main, the runs of four workflows, the jobs,
the commit statuses, both deployments twice and main again, one request a step,
while runs are created, finished and run again, deployments made and settled and
main moved. `Verdict` is `validate_snapshot`. The world at `as_of` and at the
second reading of the deployments are history variables. `Sound` says what
repository a collector can find.

### `...Proofs`

`EntitlementEngineProofs`, `SyncServiceProofs`, `SyncEngineProofs`,
`AuthManagerProofs`, `PlayerRegistryProofs`, `SessionServiceProofs`,
`PipelineProofs` and `ReleaseEvidenceProofs` extend the module they are named
after with its inductive invariant, the lemmas and the theorems. The theorems on
`AuditedLedger` itself and on `Extraction` are in `PipelineProofs`: the pipeline uses the
ledger and the functions that `Extraction` checks.

The `MC...` modules give the instances. `TypeOK` is checked in a run only for the
engine; it is proved for the engine, `SyncService`, `SyncEngine`, `PlayerRegistry`,
`AuthManager`, `SessionService` and `Pipeline`. Each module also holds the
mutants of its definitions, marked as such: plausible errors (a missing lock, a
dropped comparison, a swapped order) that each violate the property they are
listed for.

## Runs

| Run | Instance | Shows |
|---|---|---|
| `entitlement_engine` | 3 requests over 10 calls: draws of two periods, replays, a legacy receipt, creates, refusals | balance within allowance and accounted for by signatures; draws and creates once; periods only forward; replays are no-ops |
| `sync_serial` | 3 deliveries of 6 batches, one at a time | last write wins in any order and with any repetition; replays, consents included, are skipped |
| `sync_concurrent` | the same, two at a time | rows are never mixtures; one insertion is audited for each row; inserted rows are in scope |
| `sync_engine_settles` | one tab, 5 actions with all kinds of dependence, one refused producer, one crash, logout or 401, any number of lost requests | every action is settled; without a fault no dependent is sent under a local id |
| `sync_engine_two_tabs` | two tabs, one fault, screens with stale ids | settled rows are final; the device believes only what the server said |
| `auth_manager` | two tabs, an earlier lifecycle, two more ids, one revocation, one fault, with and without Web Locks | see below |
| `extraction` | documents of up to 5 blocks, answers of up to 3 candidates, dates and amounts around every limit | parsers and rules meet their reference definitions |
| `pipeline` | 4 files, 4 command lines, 2 runs, 2 attempts a call, 1 crash or error, the API registering the player that the card names, or a namesake | see below |
| `player_registry` | 3 registrations of one name, two for one child; 2 deaths | see below |
| `sessions` | 5 requests over two days, one failure; 2 locations, 3 entitlements, a device that moves | see below |
| `release_evidence` | 7 repositories, 3 ways of calling, 2 changes during the 16 requests | a PASS held at `as_of` and production was still the same when it was confirmed; a repository left alone is not blocked |
| `pipeline_resume` | as `pipeline` | a disagreement between documents and code |

`pipeline`: a saved manifest never says loaded or skipped without a row
(`ManifestNeverAhead`); an original that is called archived is in the bucket
(`OriginalsStayArchived`); what is loaded would pass Validate, at a list price,
with a player that answers to the name and, for a metric of a document, linked to
its lesson (`RowsAreSound`); a fresh run that reports success has dealt with every
file and record (`NothingLeftBehind`); the loader implements the ledger, with the
API's statements between its own (`LoadRefinesLedger`); every run ends (`RunEnds`).

`player_registry`: an answered registration has row, consents and audit entry,
also when it was merged or sent again (`AnsweredIsComplete`). The code does not
prevent two identities of one name, two insert entries of one row, or a child
without consent; `DuplicatesOverlapped` and `RosterWithoutConsent` bound these to
requests that overlapped or died. Requests do not wait for each other for ever
(`RegistrationEnds`).

`sessions`: a session has its payment, draw and audit entries, and units are taken
without a session only by an attempt that failed (`SessionIsWhole`); who may write
a row reads it, and what the managers see adds up to what the founder sees, in
histories and in cents (`LoggedIsVisible`); from the horizon on a subscription is
never without alert (`SubscriptionNeverSilent`); an alert goes away only for its
reason (`AlertsStay`).

`auth_manager` checks that a login or restoration which was under way at a
revocation publishes nothing (`RevocationWins`), that a tab loses its session
only for a reason of that session (`SessionLostForAReason`), that marker and
record of a lifecycle are removed only after its end (`OnlyTheEndedAreErased`),
that with Web Locks the record is that of the session a tab works under
(`LoggedInIsRestorable`), and that after a logout neither marker nor record is
left once the clean-ups have run (`LoggedOutIsErased`). The last one speaks of
runs without crash or storage failure: the clean-up is what makes a logout
durable, and a tab killed before it restores the session at its next start.

### Why the bounds are enough

Every conflict modelled here is between two parties. Three requests allow two
that overlap and one that comes before or after them. In `MCEntitlementEngine`
one call is on Thursday, some on Sunday, one on Monday in local time and Sunday
in UTC, so a reset, a late draw of the old period and the time zone all matter;
draws of 10 to 40 on a balance of 50 give sufficient and insufficient units.
The batches of `MCSyncService` meet on two session keys, one attendance key and
one payment key, with equal and different times; roles cover founder,
facilitator and managers of two locations. `MixedCaptures` of `MCSyncEngine` has a
player, a dependent sale, a session with an attendance, and a player that the
server refuses; `RefusalCaptures`, for two tabs, the refused player and the
session with its attendance. Two tabs suffice for races over one store; three lifecycle ids
allow an old session and two competing logins. `MaxFaults = 1`,
`MaxRevokes = 1` and `MaxExpired = 1` bound crashes and failures, revocations, and
sessions that expire by themselves: one of each meets every await of two tabs.
Invalidation by another tab is not bounded. Symmetry is used for requests,
deliveries, tabs and fresh ids, which the modules treat alike, and only in runs
that check invariants and step properties.

In `MCPipeline` two runs are enough for a first one and one that repeats or
resumes it; the card can be read as a player with a payment under the bare first
name, as a player without birth date with a payment of low confidence, or as
nothing, so the second reading may differ; card and photo have one file name; the lesson has its
title after its measurement; the photo names sessions of a known school, of an unknown one
and of an unknown type. The API registers the player of the first reading, who is a namesake
of the one in the second, so it races with the load for one key, makes a name ambiguous, or
does neither. It makes one request for the key; requests that race with each other are in
`MCPlayerRegistry`. `MaxAttempts = 2` has a retry and a last attempt, as
the code's 3 has; `MaxFaults = 1` is one crash, database, connection or parse error,
at any step of either run. Failing batches and uploads are not bounded
by it. `MCPlayerRegistry` has a conflict of keys, a conflict of names and two
deaths, so that a request which died once can meet another that did.
`MCSessionService` starts on the last day of one subscription, one day before the
end of another and five days after the device's last entry, and ends one day
later: both sides of every alert limit; two draws compete for units that suffice for
one. One device enters one visit at a second location, which is enough for a device
to be late for one manager and not for the other. `MCReleaseEvidence` has a repository where every check passes with nothing
to spare and six that differ in one respect; two changes make one event and its
undoing (a run started again and finished, a deployment made and settled).
`MCExtraction` has every kind of block; five of them make two lessons, each with a
title and a measurement.

`CHECK_DEADLOCK FALSE` stands where the system may stop: the runs are used up,
the requests are answered, the verdict is given.

## Fairness

Three properties need fairness.

`EveryActionSettles`: the 30 s tick of `SyncScheduler`
starts a flush while something is unsynced (weak fairness of `StartFlush`).
JavaScript continues what it awaits (`Continue`, `RemoveMarker`). Somebody logs
in again (`Login`). An exchange that is tried again and again succeeds at some
time, although any number of tries may fail (strong fairness of the server's
handling and of the receipt). Nothing is assumed of captures, crashes, logouts or
losses. With two tabs the property is not claimed: a tab whose requests keep
failing moves the revisions that the other one's answers depend on, and only the
phase of the ticks prevents that from repeating.

`RunEnds`: weak fairness of the steps of the process, which runs by itself.
Nothing is assumed of the calls: every batch and upload may fail each time, and
the end comes from the bounded attempts of `retry_call`.

`RegistrationEnds`: weak fairness of every step of each request, since PostgreSQL
wakes a waiting insert when the other transaction ends, and a request that died
is sent again by the person at the desk. Nothing is assumed of first arrivals
or deaths.

## Proofs

Every proof module follows one pattern. `Inv` is the inductive invariant;
`Inductive` is `Spec => []Inv`, from `Init => Inv` and one lemma per action;
the theorems follow from `Inv` (invariants) or from `Inv` and one step (action
properties). They hold for every value of the constants that satisfies the
assumptions, which are named where the constants are declared and which TLC
evaluates on every instance.

| module | theorem | states |
|---|---|---|
| `EntitlementEngineProofs` | `TypeCorrect`, `BalanceBounded`, `DrawOnce`, `CreateOnce` | `TypeOK`, `BalanceWithinAllowance`, `DrawAppliedOnce`, `CreatedOnce` |
| | `BalanceSigned` | `BalanceIsSigned` |
| | `PeriodsMoveForward`, `ReplayChangesNothing` | `PeriodNeverMovesBack`, `ReplayIsNoOp` |
| | `DrawsAreSerial` | a draw does to table, log and answer what it would as a single step at its commit |
| | `PeriodStartIsLatestAnchor` | the start of a period is the latest anchor day that is not after today |
| `SyncServiceProofs` | `TypeCorrect`, `RowsAreWhole`, `WritersStayInScope`, `OneInsertPerRow` | `TypeOK`, `NoTornRow`, `WrittenInScope`, `InsertAuditedOnce` |
| | `ServiceImplementsLedger` | `AuditedLedger` is implemented for natural-key rows and consents |
| | `LastWriteWins` (if `MaxActive = 1`) | `LatestWins` |
| | `ReplaysAreSkipped` (if `MaxActive = 1` and `OneAuthor`) | `ReplayIsSkipped` |
| `SyncEngineProofs` | `TypeCorrect`, `DeviceBelievesServer`, `SettledStays` | `TypeOK`, `BelievesServer`, `TerminalIsFinal` |
| | `NoOrphans` (for one tab) | `NoOrphanWithoutFaults` |
| `AuthManagerProofs` | `TypeCorrect`, `SessionSurvivesItsTab`, `LogoutLeavesNothing` | `TypeOK`, `LoggedInIsRestorable`, `LoggedOutIsErased` |
| | `RevocationIsFinal`, `SessionsEndForAReason`, `OnlyEndedLifecyclesGo` | `RevocationWins`, `SessionLostForAReason`, `OnlyTheEndedAreErased` |
| `PlayerRegistryProofs` | `TypeCorrect`, `AnsweredStaysComplete` | `TypeOK`, `AnsweredIsComplete` |
| | `RosterIsAccountedFor`, `DuplicatesComeFromOverlap` | `RosterWithoutConsent`, `DuplicatesOverlapped` |
| `SessionServiceProofs` | `SessionsAreWhole`, `SubscriptionsAlert`, `AlertsGoForAReason` | `SessionIsWhole`, `SubscriptionNeverSilent`, `AlertsStay` |
| | `TypeCorrect` | `TypeOK` |
| | `WhoWritesReads`, `RevenueIsWhole` | `RowsAreVisible`, the first part of `LoggedIsVisible`, and the whole of it |
| `PipelineProofs` | `ManifestsNeverAhead`, `OriginalsArchived` | `ManifestNeverAhead`, `OriginalsStayArchived` |
| | `LoadImplementsLedger` | `LoadRefinesLedger` |
| | `LedgerEnteredOnce`, `RowsEnteredOnce` | every row has exactly one insert entry, in the ledger and in the loader; a player that the API registers may have two |
| | `RowsSound`, `NothingIsLeftBehind` | `RowsAreSound`, `NothingLeftBehind` |
| | `TypeCorrect` | `TypeOK` |
| | `AnswersAreKept`, `RulesAgree`, `MetricsStay` (of `Extraction`) | `NoAnswerDropped`, `RulesMeetReference`, `MetricsStayInTheirLesson` |
| `ReleaseEvidenceProofs` | `PassesHeld`, `QuietWorldIsNotBlocked` | `PassHeld`, `QuietWorldPasses` |

### The assumptions

Most say what type a constant has. Those that say more:

- `ClientIdAssumption` of the engine: a client id names one call and is new, as
  `crypto.randomUUID` makes it. `EngineAssumption` there: initial balances lie within
  the allowance; migration 010 leaves legacy receipts without a client id.
- `BatchAssumption` of the service: a caller below the founder has a location and a
  facilitator a school (`Scope.derive`); a natural key names one player, since the
  code computes it from the player; a client id names one action; the keys of
  different tables differ.
- `RegistryAssumption`: a body without consents is answered with 422, and no consent
  type is called "insert".
- `SessionAssumption`, `CallAssumption`, `GrantAssumption` of `SessionService`: a player is of
  one of finitely many locations (`location_id UUID NOT NULL REFERENCES
  locations(id)`, `001_schema.sql`), cents are integers, a payment has no draw, a
  draw takes a positive amount; an entitlement counts units exactly if its
  product has an allowance (`derive_window`). The clock's first day is not after its
  last, and the bound on failures is a number.
- `PipelineAssumption`: at least one attempt (`RetryPolicy` refuses less), the bounds
  on runs and faults are numbers, every
  command line names a run id and a stage that the parser accepts, and a player
  registered by the API has a dedup key. The API makes one request for each key in
  `ApiPlayers` at a time: that is part of the model (`asking`), and with more of them a player
  could be journalled once by each.
- `SourceAssumption`: the source folder is a list of files; a lesson document is a
  list of blocks as the parser tells them apart, and its file name, which
  stands in for a missing title, is not blank; the model answers an image with a
  list of records. It says nothing about what these records hold.
- `PricesAssumption`: prices are cents, the threshold is between 0 and 100 (so a lesson
  record, which the text parser gives confidence 1.0, is never flagged), and today is a
  date. `InputsAssumption`: blocks are those the parser tells apart (`IsBlock`), dates are
  three integers, amounts an integer with or without "R", none, or text; a
  confidence, if there is one, is an integer.
- `WorldsAssumption` of `ReleaseEvidence`: in the repository that the collector
  finds, ids are unique and counted up, nothing is dated after the start, main is
  not among its former commits, and a CI run that succeeded passed the five-session
  gate, which is a job of that run.
- Not an `ASSUME` but part of `ReleaseEvidence`: the tick in which `as_of` is taken ends
  with it. In the code `as_of` has microseconds while GitHub stamps whole seconds, so an
  event later in the second of `as_of` is stamped before it and is not told apart from
  what was there. The theorems and the run are about repositories in which nothing
  happens in the rest of that second.
- `NoneAssumption`, wherever it occurs: `None` is different from the other values.

Three theorems have a hypothesis. `MaxActive = 1` says that batches are handled one
at a time. The documents describe last-write-wins and idempotent replay of such
a service, and with overlap both are false (see "What the checks found").
`OneAuthor` says that everything for a natural key is delivered by one account.
It is needed for replays, because scope is checked before idempotence: a replay
by a caller that may not write the row is rejected rather than skipped. The app
keeps one queue per account and delivers it with that account's token.
`NoOrphans` is about one tab whose screens hold the ids of the directory
(`~StaleScreens`): with a second tab, or a screen that is behind, the promise is
broken (see "What the checks found"). `ProducersOfTheirKind` says what the captures
do: an action names a registration as its player and a session as its session,
and a registration names no player. TLC checks the three properties on instances
that satisfy the hypotheses.

### The arguments

None of the properties above is inductive as it stands. What `Inv` adds, and why:

`EntitlementEngine`: what a request relies on between its two steps.

- `RequestsOK`: whoever holds the lock has read the row as it still is. Without
  it the decrement of a stale value could leave the allowance.
- `OneLock`: nobody else holds the lock of that row.
- `NoReceiptYet`: whoever found no receipt under the lock would still find none.
  This is where it matters that a client id names one call, hence one row, and
  that the row's lock is held: the only request that could log the client id is
  one that would need the same lock.
- `AppliedIsLogged`, `RowIsLogged`: whatever was applied or created for a client
  id is in the log, so the unique index stops a second time.
- `LoggedIsDone`: a client id in the log belongs to a call that was carried out,
  so its draw has a positive amount and an existing row; a replay is therefore
  never refused early.

The fifteen disjuncts of `Next` reduce to seven coarse steps (`CoarseNext`): refuse an
arrival, go on to the second step, end a draw, refuse a create, insert a row, set
a status, stutter. `NextShape` proves that reduction once; every part of `Inv` is
then shown to be kept by the coarse steps.

`BalanceSigned` needs more than `Inv`, since a draw changes the balance under a lock and
is then signed for in a log that other draws write too. `SignedInv` adds
`EntriesAreDraws`: a signed entry is of a request that was answered and whose
period is not later than the row's, so a reset leaves no entry to count against
the new allowance, and no later step changes what an entry stands for. `StepSigns`
shows that every step but the end of a draw leaves balances, periods and
signatures as they are; `DrawKeeps` does that one, with `RowAccounted` for its row.

`DrawsAreSerial` compares the two steps of a draw with `DrawAtOnce`, the same draw as
one step on table and log as they are when it commits. `RequestsOK` says this of the
row. It needs `ReceiptStands` for the receipt: the answer of the look-up, whichever of
the three it was, is still the answer at the commit. So an overlap shows in no row, log
entry or answer of a draw; all it costs is the wait for the lock. Creates are not serial in this sense: the
unique index refuses the second of two.

`BalanceSigned` and `RevenueIsWhole` are about sums over finite sets, written with the
folds of the community modules. The induction theorems of the library cannot be
used, so both modules prove what they need of a sum by minimal counterexample: if
a property of finite sets fails, it fails for a smallest set (`SmallestSet`, from the
well-foundedness of strict inclusion). This gives that the fold's recursive
function exists and is unique (`SumsExist`, `SumsAgree`), that an element can be taken out
in any order (`SumsTakeOut`), and from there the few facts used: the empty sum, one
more element, and for revenues the sum of disjoint parts (`TotalOfParts`).

`SyncService`: an action is looked up in one step and committed in another, and other
deliveries commit in between. `Progress` ties results to the position in the batch;
`Checked` says what survives the gap: the permission, because a row is never
moved out of its location and school, and that the row exists, because none is
deleted. The row's content does not survive it. `WrittenBefore` and `AppendedBefore`
make an action's identity new, so that `InsertedOnce` is kept; `EntriesInScope` is
`WrittenInScope` with the row it needs. For batches one at a time, `Serial` adds that
the look-up is still current and that the row is the latest action that landed;
`Replayable` adds that an action that has landed is absorbed if it is delivered
again (`Absorbed`).

The service and the pipeline write through the same load layer, and both implement
`AuditedLedger`. For the service it is stated of natural-key rows and consents, none of
them shared, with as
many entries in the journal as `sync_log` has (`Journal`). `Booked` adds what an audit
entry speaks of: it names a row that is there, also when it is the entry of a skip,
and a consent that was looked up is still there when it is skipped. With
`InsertedOnce` before and after a step, the step is one of the ledger's
(`StepCommits`). Players are left out of it: a delivery that finds the
player inserted since its look-up reads the row back and still audits an insert
(`InsertPlayer`), as often as deliveries overlap, and the ledger grants one such entry.

`SyncEngine`: `FreshIsUnsynced`: what a tab read and nobody has written since is
unsynced, so a tab never writes a settled row; this is the whole of
`TerminalIsFinal`. `RequestMatches` and `AnswerMatches`: an answer is one to the batch
that the tab still has, however late it comes and whatever happened to the tab
that sent it. `TabBelievesServer`: what a tab has learned but not yet written has
landed, so believing the server survives every crash in between.

`NoOrphans` needs a second invariant, `Calm`, as long as there is no fault. The id of
a settled producer is in the metadata or among what the flush has learned and is
yet to store (`SettledIsKnown`); at the snapshot nothing is left to store and no row
carries an id that is resolved (`PassesDone`). So a local id that a row still has
there is of an action that is unsynced, and then the row waits, or of one that
was refused. `DeferredInOrder` carries this over to the second phase, `SentInOrder` to the
request and `AnsweredInOrder` to the answer. The passes rely on `InCharge`: nobody else
writes the rows that a pass is about to rewrite, so it is not cut short.

`AuthManager`: `Fits` says of every tab, with or without Web Locks, what its step
entails: above all that a queued clean-up names a lifecycle that is over and
that a revoked operation is not fresh. `Accounted`: an issued lifecycle is the
marker's or over. `OneHolder` and `Guarded` say what the lock adds: marker and record
are as the holder left them. The last conjunct says that what was logged out of
is gone or queued for clean-up, which with no queue is `LoggedOutIsErased`.

`PlayerRegistry`: two requests of one name are told apart only by time, so the
invariant says of each stage what must have overlapped. `NamesakesOverlap`: a
namesake that a request did not see was committed while the request was
handled; `InsertsOverlap`: so was a row of its own key. `ConsentsCounted` counts, for
every consent, the requests that have appended it; `RosterAccounted` gives for a
row without consent the request that is at it or the crash that ended one.

`SessionService`: `Traced`: rows and signatures are those of attempts that were made,
so the id of a new attempt is unused; `Drawn`: past the draw the units are signed
for; `Whole` is `SessionIsWhole` of one attempt. `SubscriptionsAlert` needs no invariant
beyond the type of the clock: the windows of the two alert rules meet at the
last day of the subscription. `AlertsGoForAReason` needs `EntriesPast`. `RevenueIsWhole`
needs that payments are finitely many, of known players and in integer cents
(`PaidIn`); then the founder's revenue is the sum over the locations, since every
payment has a player and every player exactly one location. `TypeCorrect` needs
`Bounded`: a request is sent again only after it failed, so its earlier attempts are
distinct members of `failed` (`AttemptsCount`), and it is sent at most once more than
attempts may fail.

`Pipeline`: `Honest` says of a manifest what `ManifestNeverAhead` and `OriginalsStayArchived`
say of a saved one, and `Inv` says it of the one in memory too, since a save
writes that one. `Keyed`: every key tells what it is the key of. So a record that
was skipped has a row of its table and file, a player's key is never a row's key,
and an original that replaces another in the bucket has its directory and file
name. For the ledger, lemma `Commits` says what a transaction adds to the audit trail
that inserts some keys, which may be there already, and visits others (`Journals`). Such
a step is one of `AuditedLedger`'s if the keys that were there already are no longer
contested after it (`Transaction`). That needs a second invariant, `Apart`: a player that
is in the table and still claimed by the open load was entered by a request of the API
that is over. So when the load commits, or the request after the load, what it finds
entered by the other is contested before and not after (`CommitPlayersApart`,
`ApiRegisterApart`); without `Apart` the two could contest one key at once and journal it
three times. No other step claims a player that is there (`ClaimsStay`).
`LedgerEnteredOnce` needs that only shared keys are contested. `RowsEnteredOnce` combines
the two: exactly one entry for a row, since a row's key is never a player's, and for a
player two at most, and then it is one that the API registers.

`RowsSound` needs two further invariants. `OnPlace` ties the point a run is at to
its stage and to the command line (`Placed`): with `NextStageIs`, nothing selected is
passed over, and what is loaded was validated. `Sound` says of the tables what
`RowsAreSound` says and of the run what makes the next row sound (`Ready`): the
clean records are clean whoever is known, the index holds players that are in the
table and are never removed, and, as long as nothing failed, every measurement of a
document that is still to be loaded stands behind the clean record of its lesson or
the lesson is in its table (`Awaited`). That a measurement stands behind its lesson is a fact about
the text parser, proved for every document: `ReadBlockKeeps` says that each lesson
under construction has a title and a list of measurements (`ReadSoFar`),
`LessonIntroduces` that its records start with the lesson's own, and
`DocumentIntroduces`, `BatchIsSequence`, `OnlyIntroduces` carry this through reading,
selecting and joining lists. A lesson is never flagged or refused on the way
(`LessonIsClean`). A database error may lose the lesson and keep its
measurements, hence `faults = 0` in the property.

`NothingIsLeftBehind` needs one more, `Complete`. A stage is behind a run (`Behind`)
when it was asked for and is over, and `OnRecord` says for each stage what having it
behind guarantees: after Collect every file is routed or skipped, after Extract
every routed file is read or failed and every record in the manifest, after Validate
every record is clean or has another mark than `extracted`, after Load every clean row
has one and every clean player is in the table, nameless or ambiguous, after Archive
every original is stored. Within a stage the list of what is left to do bounds what may
still be missing (`Tried`, `Met`, `Kept`). Entering a stage puts nothing behind the run
that was not done, because no selected stage is passed over (`BehindEntered`), and a run
that is finished has all its stages behind it. That the keys of the players are finitely many is
part of `Complete`: a name that two of them share stays ambiguous when the API
registers more (`KnownLasts`). While the player transaction is open, a clean player is
known, resolved, or of a name that is still to be taken (`Sought`, `KnownBut`); the batch
has one group for each name (`GroupsAre`, `KeysTell`). The property and the invariant are of runs that were not
resumed; of a resumed one neither holds, as `pipeline_resume` shows. `TypeCorrect`
adds to the types that a call that waits has an attempt left (`Worked`).

These are statements about every sequence. As with the sums, the induction
theorems of the library cannot be used; `EveryNatural` takes the set of the lengths for which a fact
holds, and from it follow what the recursive functions behind `Only`,
`FlattenSeq` and `ParseLessonDocument` return (`OnlyKeeps`, `OnlySifts`,
`FlattenStrings`, `DocumentReads`).

`AnswersAreKept` and `RulesAgree` need only the type of the input (`InputType`): what is
said of an answer holds candidate by candidate (`NormalizedConfidence`), and the
two readings of the age rule and of the amount rule are equal by arithmetic
(`DateRule`, `AmountRule`).

`MetricsStay` relates the parser, which reads a document once and keeps the lesson it is
in, to `Section`, which cuts the whole document at its markers. Neither is defined
through the other, and where a section ends depends on what follows it, so the
proof goes over the prefixes of the document with `Cut` as invariant: what has been
read of a prefix are the sections of that prefix, by title and measurements
(`MatchesSection`), and its markers are numbered without a gap (`Numbered`). A
marker ends the last section where it ended before and starts one of its own
(`SectionsOfNewLesson`, `LessonCuts`); any other block lengthens the last section and no
other (`SectionsOfOtherBlock`), as it is added to the lesson the parser is in
(`BlockGrows`, `OtherBlockCuts`). What stands before the first marker is read into the
preamble, which a marker drops. `LessonsAreSections` is `Cut` of the whole document, and
`ShownFlatten` carries it to the list of records.

`ReleaseEvidence`: `Since` says what became of a repository since `as_of`: an item that is
new or different is dated later, and every old item is still there under its id
with its commit, mode and creation time. Every change of the repository has this
shape (`Moved`), so each piece that was read, at whatever time, is related to the
repository of `as_of` in the same way (`RunsRead`, `StatusesRead`, `NewestAt`). Hence whatever
the verdict selects and does not find to be of the future was what the same
selection gave at `as_of` (`SameRun`, `SameStatus`, `SameDeployment`): nothing that happened
since can stand in for it or hide it. main never returns to a commit that it has
left, so equal first and last readings say that it had not moved in between
(`MainRead`). `PassesHeld` follows, because the verdict depends on the selected items
alone (`VerdictMoves`). For `QuietWorldIsNotBlocked`, `Touched` says that a change leaves a trace, so
in a repository that looks as it did nothing has happened, and each piece is
`QuietPiece`; only the age of the preflight is measured later than at `as_of`.

### What is only model-checked

`EveryActionSettles`, `RunEnds`, `RegistrationEnds`: liveness under fairness. Every invariant
and every action property of the passing runs is stated by a theorem.

## What the checks found

`pipeline_resume` is a run with `"expect": "violation"` and an entry under
`findings`. The manifest saved after Extract marks files as done while their
records are only in memory. After a crash `--resume` skips these files, loads
nothing of them and reports success; the records stay `extracted`. The documents
say that a resumed run attempts again what is not done and that nothing
disappears silently. A run under a new id does load them.

The models show more effects that have no run of their own. Most are of requests
that overlap, which no document speaks of or only for one request at a time.

Sync and engine:

- Two overlapping deliveries of one create: the second is answered rejected by
  the unique index, and the device settles the row as rejected although the
  entitlement exists.
- Two requests on one natural key: the row is read without a lock and the UPDATE
  names only the id, so the older action can win; the conflict branch of the insert
  skips whichever came second.
- `consents.client_id` has no unique index, so two overlapping deliveries of one
  consent append two rows.
- The dedup key has no location: a registration may resolve to a player of
  another location, fill its gaps and be answered skipped.
- A later action that omits the optional `reference` keeps the stored one, so the
  result depends on the order of arrival (`service.py:768`). A facilitator's natural
  key may name a row stored under another school, which is updated unchecked
  (`service.py:679`).
- A database error is answered rejected like a refusal, and the device never sends
  a rejected action again (`service.py:237`).

Device:

- The producer's row is settled before its server id is stored. A crash or logout
  in between loses the id, and a second tab that takes its snapshot there does not
  know it: the dependents are sent under the local id and rejected.
- A screen that still holds a local id can commit between the rewrite pass and
  the snapshot (`syncEngine.ts:216`, `StaleScreens = TRUE`); therefore
  `NoOrphanWithoutFaults` is stated for screens that read the id map first.
- With two tabs progress of both is not certain (see Fairness).
- Without Web Locks a restoring tab's upgrade, or the record of a login that has
  lost, may overwrite the winner's record; the app fails closed
  (`authManager.ts:462`). A tab killed between logout and its clean-up restores the
  session at its next start (`authManager.ts:854`).

Services:

- A retried `POST /sessions` or `/payments` after a lost answer is a second
  session or payment, and units drawn by an attempt that failed stay drawn.
- A payment without a product is in no revenue stream.
- A manager may see a device as unsynced that the founder does not, when it has
  synced at another location since.

Pipeline and evidence:

- A player that the API registers between the load's look-up of its key and the load's
  insert, or the other way round, is one row with two insert entries: the insert that
  comes second reads the row back, and its id counts as created (`dedup.py:324`,
  `loader.py:437`).
- Originals that share directory name and file name overwrite each other in the
  bucket (`archive/keys.py:67`).
- A resumed run replaces `flagged-<run_id>.csv` by what it flags itself. Names are
  checked against the database, so after the first load every new player's records
  are flagged as unknown. Two lessons of one title in a document are one row. A
  batch output that lacks an image's line counts as a reading with no records.
- A player record without a name, or with a name that two dedup keys share, is
  flagged by `resolve_players` in its own list, which the run does not read
  (`pipeline.py:518`): the record stays `extracted` in the manifest, although
  nothing should disappear silently (`manifest.py:13`).
- The newest workflow run is the one with the latest `created_at`, which a re-run
  keeps.

## What is left out of the modelled parts

- `EntitlementEngine`: `valid_to`, which no operation reads. The read-only
  balance reuses the same reset. `SignatureAppendError` comes from an audit
  function that the caller injects. The index's answer to a draw is part of
  `DatabaseFails`; `NoReceiptYet` shows that a draw never meets it. Legacy
  receipts exist only initially.
- `SyncService`: batch grouping of `resolve_players`, the POPIA field filter, the
  wording of reasons. A transaction that fails is labelled "failed", which the
  code answers as rejected with another reason. Look-ups of one handler are one
  step; they are separate statements, but nothing is written between them.
  `LatestWins` leaves the optional reference out.
- `SyncEngine`: `attempt_count`, `lastSuccessfulSync` and a batch answer that
  lacks a result (all for display or defence). Rows that phase 2 reads one by one
  are read in one step, and `retainAll` bumps all rows in one step. The external
  server has no transient failure for one action.
- `AuthManager`: one user; what distinguishes users is the scope, not the
  lifecycle. Salt, keys, encryption and the migration of scoped data are one
  preparation step. Corrupt records are not among the initial states: the code
  treats them as it treats an expired token. The record that a restoration reads
  is the one at the end of its await. `getToken` of a request is immediate.
- `PlayerRegistry`: field validation and the wording of answers; the columns
  other than school and location.
- `SessionService`: `list_products`, paging and date filters of the reports, times
  within a day, other draws of the same entitlement (`EntitlementEngine` has them).
- `Pipeline`: text normalisation of names (records carry normalised ones), hashes
  (a file's content does not change), summary counts, logging, the consent
  records of the loader, which this phase does not produce, and the operator's
  approval of flagged records, which the pipeline does not call. The polling of a
  Bedrock job is part of the batch call. Of the API only registrations of players are
  there, without a school and as far as they insert; one that finds its player
  merges and changes no key.
- `Validator`: the name rule is off for records of lessons, which the text parser makes
  without a player; the code would look at a `player_name` there too (`validator.py:132`).
  Amounts on which `round()` raises (infinities, not-a-number) are not among the amounts.
- `LessonDocument`, `ModelOutput`: patterns and number formats; a block or a
  candidate is given by what the patterns tell apart.
- `ReleaseEvidence`: the checks of formats, names, titles and URLs, paging, the
  report and its files. Workflows are not enabled or disabled while the collector reads.
- Not modelled at all: see `components` with the status `not_modelled`.

## Plan

Done: the engine with its proofs, the Sync_Service, the Sync_Engine, the
Auth_Manager; the pipeline with its stages, the abstract ledger and the refinement;
the player, session, payment, revenue and alert services; release evidence;
proofs for each of them. Next, in this order:

1. `LocalStore`: quarantine, legacy migration and encryption state of rows, which
   `SyncEngine` and `AuthManager` take for granted.
2. A composition of `SyncEngine` with a `SyncService`-like server whose actions
   fail transiently, and an abstract reliable queue that it implements.
3. An abstract last-write-wins register that the serial `SyncService` implements.
4. `EntitlementCalculator` of the app against `ProductRules`.
5. Migrations runner, API authentication.

Not planned: the remote calls of the LLM back ends, service worker and caches, views, API plumbing,
because they are remote calls, browser I/O or projections without state.
