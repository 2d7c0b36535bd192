---------------------------- MODULE SyncService ----------------------------
(***************************************************************************)
(* Batch sync on the server: funhouse_api/sync/service.py with the scope   *)
(* checks of funhouse_api/rbac.py and the reused load layer                *)
(* (funhouse_pipeline/load: dedup, consent, audit).  Entitlement actions   *)
(* are the business of module EntitlementEngine.                           *)
(*                                                                         *)
(* A delivery is one POST /sync.  It applies the actions of its batch in   *)
(* order, each in a transaction of its own at READ COMMITTED: one step     *)
(* checks the action and looks its key up, a later one writes and commits. *)
(* No lock is held in between, so with MaxActive > 1 another delivery may  *)
(* commit there.  A device that got no answer delivers its batch again.    *)
(*                                                                         *)
(* A players row is named by its dedup_key and a session, attendance,      *)
(* payment or student_metrics row by its natural_key: both are UNIQUE.     *)
(* Client ids are numbers; their order stands for the order of strings.    *)
(***************************************************************************)
EXTENDS Integers, Sequences, FiniteSets

CONSTANTS
    None,             \* SQL NULL, an absent payload key, no row
    Omitted,          \* the optional key "reference" is not in the payload
    Deliveries,       \* POST /sync requests that may arrive
    MaxActive,        \* how many of them the API serves at a time
    Batches,          \* [scope, actions]: the caller and its queue
    DedupKeys,
    NameOf,           \* name_key, the name part of each dedup key
    NaturalKeys,
    Locations,
    Schools,
    Grades,
    InitialPlayers    \* players loaded before, None where there is no row

NaturalEntities == {"session", "attendance", "payment", "student_metrics"}
ValidEntities == NaturalEntities \cup {"player", "consent"}
FacilitatorEntities == {"session", "attendance", "student_metrics"}

Actions == UNION {{b.actions[i] : i \in DOMAIN b.actions} : b \in Batches}
NaturalActions == {a \in Actions : a.entity \in NaturalEntities}

\* The rows of players, of the four natural-key tables and of the ledger.
PlayerType ==
    [loc : Locations, school : Schools \cup {None}, grade : Grades \cup {None}]
RecordType ==
    [player : DedupKeys, loc : Locations, school : Schools \cup {None}, ts : Int,
     client : Int, value : {a.value : a \in Actions},
     reference : {a.reference : a \in Actions} \cup {None}]
ConsentType ==
    [id : Deliveries \X Nat, client : Int, player : {a.player : a \in Actions}]

\* What Scope.derive lets through, and what the keys are computed from: the
\* player is part of every natural_key, the table of every record id.  A client
\* id is a UUID of one action.
ASSUME BatchAssumption ==
    /\ IsFiniteSet(Deliveries)
    /\ \A b \in Batches :
          /\ b.actions \in Seq(Actions) \ {<<>>}
          /\ b.scope.loc \in Locations \cup {None}
          /\ b.scope.school \in Schools \cup {None}
          /\ b.scope.role # "founder" => b.scope.loc # None
          /\ b.scope.role = "facilitator" => b.scope.school # None
    /\ \A a \in Actions :
          /\ a.ts \in Int /\ a.client \in Int
          /\ a.loc \in Locations \cup {None}
          /\ a.school \in Schools \cup {None}
          /\ a.grade \in Grades \cup {None}
          /\ a.entity = "player" => a.key \in DedupKeys \cup {None}
          /\ a.entity \in NaturalEntities =>
                a.key \in NaturalKeys /\ a.session \in NaturalKeys \cup {None}
    /\ \A a, b \in NaturalActions : a.key = b.key => a.player = b.player
    /\ \A a, b \in NaturalActions :
          a.key = b.key /\ a.ts = b.ts /\ a.client = b.client => a = b
    /\ NaturalKeys \cap (DedupKeys \cup (Deliveries \X Nat)) = {}
    /\ DedupKeys \cap (Deliveries \X Nat) = {}

ASSUME TableAssumption ==
    /\ InitialPlayers \in [DedupKeys -> PlayerType \cup {None}]
    /\ None \notin PlayerType \cup RecordType \cup ConsentType
    /\ None \notin Locations \cup Schools \cup Batches

VARIABLES
    players,    \* [DedupKeys -> row or None]
    records,    \* [NaturalKeys -> row or None], the four natural-key tables
    consents,   \* the append-only ledger
    sync_log,   \* audit rows, each with the delivery and index that wrote it
    delivery    \* the requests

tables == <<players, records, consents>>
vars == <<players, records, consents, sync_log, delivery>>

NewDelivery ==
    [pc |-> "idle", batch |-> None, next |-> 0, seen |-> None, school |-> None,
     results |-> <<>>]

Init ==
    /\ players = InitialPlayers
    /\ records = [k \in NaturalKeys |-> None]
    /\ consents = {}
    /\ sync_log = {}
    /\ delivery = [d \in Deliveries |-> NewDelivery]

-----------------------------------------------------------------------------
(* Scope (rbac.py).                                                        *)

\* assert_can_write
CanWrite(scope, loc, school) ==
    \/ scope.role = "founder"
    \/ /\ scope.loc = loc
       /\ scope.role = "facilitator" => scope.school = school

\* stamp: the location and the school of a new player.
StampedLocation(scope, a) == IF scope.loc # None THEN scope.loc ELSE a.loc
StampedSchool(scope, a) ==
    IF scope.role = "facilitator" THEN scope.school ELSE a.school

PlayerExists(p) == p \in DedupKeys /\ players[p] # None

CanWriteFor(scope, p) ==
    PlayerExists(p) /\ CanWrite(scope, players[p].loc, players[p].school)

-----------------------------------------------------------------------------
(* What an action must satisfy; one that does not is rejected unread.      *)

\* resolve_players flags a name that would stand for two dedup keys.
Ambiguous(a) ==
    \E k \in DedupKeys \ {a.key} : players[k] # None /\ NameOf[k] = NameOf[a.key]

AcceptsPlayer(scope, a) ==
    /\ a.loc # None => CanWrite(scope, a.loc, a.school)
    /\ StampedLocation(scope, a) # None
    /\ a.key # None
    /\ ~Ambiguous(a)

AcceptsConsent(scope, a) == CanWriteFor(scope, a.player) /\ a.valid

\* An attendance names a session of the same player in the caller's scope; a
\* facilitator must name one.
AcceptsSession(scope, a) ==
    IF a.session = None THEN scope.role # "facilitator"
    ELSE /\ records[a.session] # None
         /\ CanWrite(scope, records[a.session].loc, records[a.session].school)
         /\ records[a.session].player = a.player

EffectiveSchool(a) ==
    IF a.school = None /\ a.entity \in {"session", "attendance"}
    THEN players[a.player].school ELSE a.school

\* Mutant: the school that the payload names is not checked.
AcceptsNaturalAnySchool(scope, a) ==
    /\ CanWriteFor(scope, a.player)
    /\ a.entity = "attendance" => AcceptsSession(scope, a)
    /\ a.valid

\* valid: the amount of a payment parses; a metric has a known type and a value.
AcceptsNatural(scope, a) ==
    /\ CanWriteFor(scope, a.player)
    /\ a.entity = "attendance" => AcceptsSession(scope, a)
    /\ a.valid
    /\ a.entity \in {"session", "attendance"} =>
          CanWrite(scope, players[a.player].loc, EffectiveSchool(a))

Accepts(scope, a) ==
    /\ a.entity \in ValidEntities
    /\ scope.role = "facilitator" =>
          /\ a.entity \in FacilitatorEntities
          /\ a.entity = "session" => a.lesson
    /\ a.entity = "player" => AcceptsPlayer(scope, a)
    /\ a.entity = "consent" => AcceptsConsent(scope, a)
    /\ a.entity \in NaturalEntities => AcceptsNatural(scope, a)

-----------------------------------------------------------------------------
(* apply_batch.                                                            *)

Active(d) == delivery[d].pc \in {"next", "commit"}
ScopeOf(d) == delivery[d].batch.scope
Current(d) == delivery[d].batch.actions[delivery[d].next]

Receive(d, b) ==
    /\ delivery[d].pc = "idle"
    /\ Cardinality({e \in Deliveries : Active(e)}) < MaxActive
    /\ delivery' = [delivery EXCEPT ![d].pc = "next", ![d].batch = b, ![d].next = 1]
    /\ UNCHANGED <<players, records, consents, sync_log>>

\* Exactly one result for the current action; the batch goes on.
Answer(d, status) ==
    LET me == delivery[d]
    IN  delivery' = [delivery EXCEPT ![d] =
           [me EXCEPT !.pc = IF me.next = Len(me.batch.actions) THEN "done" ELSE "next",
                      !.next = @ + 1,
                      !.seen = None,
                      !.school = None,
                      !.results = Append(@, status)]]

Audit(d, record, action) ==
    sync_log' = sync_log \cup
        {[record |-> record, action |-> action, by |-> <<d, delivery[d].next>>]}

RejectAction(d) ==
    /\ delivery[d].pc = "next"
    /\ ~Accepts(ScopeOf(d), Current(d))
    /\ Answer(d, "rejected")
    /\ UNCHANGED <<players, records, consents, sync_log>>

ConsentOf(a) == {c \in consents : c.client = a.client}

\* The row that the action's idempotency key names, or None.
Lookup(a) ==
    CASE a.entity = "player"  -> players[a.key]
      [] a.entity = "consent" -> IF ConsentOf(a) = {} THEN None
                                 ELSE CHOOSE c \in ConsentOf(a) : TRUE
      [] OTHER                -> records[a.key]

LookUp(d) ==
    LET a == Current(d)
    IN  /\ delivery[d].pc = "next"
        /\ Accepts(ScopeOf(d), a)
        /\ delivery' = [delivery EXCEPT
              ![d].pc = "commit",
              ![d].seen = Lookup(a),
              ![d].school = IF a.entity \in NaturalEntities THEN EffectiveSchool(a)
                                                            ELSE None]
        /\ UNCHANGED <<players, records, consents, sync_log>>

Writing(d, entities) ==
    delivery[d].pc = "commit" /\ Current(d).entity \in entities

\* The connection fails, a constraint refuses the row or the audit entry
\* cannot be appended: the action is rolled back and the batch goes on.
CommitFails(d) ==
    /\ delivery[d].pc = "commit"
    /\ Answer(d, "failed")
    /\ UNCHANGED <<players, records, consents, sync_log>>

-----------------------------------------------------------------------------
(* _apply_player and resolve_players.                                      *)

Coalesce(stored, offered) == IF stored = None THEN offered ELSE stored

\* _fill_existing_gaps and the school: only NULL columns of the row are set.
FillGaps(row, d) ==
    [row EXCEPT !.grade = Coalesce(@, Current(d).grade),
                !.school = Coalesce(@, StampedSchool(ScopeOf(d), Current(d)))]

ResolveExistingPlayer(d) ==
    LET a == Current(d)
    IN  /\ Writing(d, {"player"})
        /\ delivery[d].seen # None
        /\ players' = [players EXCEPT ![a.key] = FillGaps(@, d)]
        /\ Audit(d, a.key, "skip")
        /\ Answer(d, "skipped")
        /\ UNCHANGED <<records, consents>>

FillSchool(row, school) == [row EXCEPT !.school = Coalesce(@, school)]

\* ON CONFLICT DO NOTHING: a row inserted since the look-up is read back, gets
\* only the school, and is still reported as created.
InsertPlayer(d) ==
    LET a == Current(d)
        scope == ScopeOf(d)
        school == StampedSchool(scope, a)
    IN  /\ Writing(d, {"player"})
        /\ delivery[d].seen = None
        /\ players' = [players EXCEPT ![a.key] =
              IF @ = None
              THEN [loc |-> StampedLocation(scope, a), school |-> school, grade |-> a.grade]
              ELSE FillSchool(@, school)]
        /\ Audit(d, a.key, "insert")
        /\ Answer(d, "applied")
        /\ UNCHANGED <<records, consents>>

-----------------------------------------------------------------------------
(* _apply_consent and append_consent.                                      *)

SkipConsent(d) ==
    /\ Writing(d, {"consent"})
    /\ delivery[d].seen # None
    /\ Audit(d, delivery[d].seen.id, "skip")
    /\ Answer(d, "skipped")
    /\ UNCHANGED tables

AppendConsent(d) ==
    LET a == Current(d)
        id == <<d, delivery[d].next>>
    IN  /\ Writing(d, {"consent"})
        /\ delivery[d].seen = None
        /\ consents' = consents \cup {[id |-> id, client |-> a.client, player |-> a.player]}
        /\ Audit(d, id, "insert")
        /\ Answer(d, "applied")
        /\ UNCHANGED <<players, records>>

-----------------------------------------------------------------------------
(* _apply_natural_key, _insert_natural and _update_natural.                *)

\* Mutant: the later time wins and a tie is overwritten by whoever comes last.
PrefersNotEarlier(a, row) == a.ts >= row.ts /\ a.client # row.client

\* Mutant: the same action again counts as later.
PrefersSameTime(a, row) == a.ts >= row.ts

\* _prefers_incoming: the later (created_at, client_id) wins.
PrefersIncoming(a, row) ==
    a.ts > row.ts \/ (a.ts = row.ts /\ a.client > row.client)

\* _insert_natural leaves a column that the payload omits at its default.
Stored(reference) == IF reference = Omitted THEN None ELSE reference

InsertNatural(d) ==
    LET a == Current(d)
    IN  /\ Writing(d, NaturalEntities)
        /\ delivery[d].seen = None
        /\ records[a.key] = None
        /\ records' = [records EXCEPT ![a.key] =
              [player |-> a.player, loc |-> players[a.player].loc,
               school |-> delivery[d].school, ts |-> a.ts, client |-> a.client,
               value |-> a.value, reference |-> Stored(a.reference)]]
        /\ Audit(d, a.key, "insert")
        /\ Answer(d, "applied")
        /\ UNCHANGED <<players, consents>>

\* Mutant: the row read back after a conflict is audited as inserted.
InsertConflictAuditsInsert(d) ==
    LET a == Current(d)
    IN  /\ Writing(d, NaturalEntities)
        /\ delivery[d].seen = None
        /\ records[a.key] # None
        /\ Audit(d, a.key, "insert")
        /\ Answer(d, "skipped")
        /\ UNCHANGED tables

\* The key was inserted since the look-up: skipped, whichever is later.
InsertConflict(d) ==
    LET a == Current(d)
    IN  /\ Writing(d, NaturalEntities)
        /\ delivery[d].seen = None
        /\ records[a.key] # None
        /\ Audit(d, a.key, "skip")
        /\ Answer(d, "skipped")
        /\ UNCHANGED tables

\* Mutant: client_timestamp is missing from the SET list.
UpdateNaturalKeepsTime(d) ==
    LET a == Current(d)
    IN  /\ Writing(d, NaturalEntities)
        /\ delivery[d].seen # None
        /\ PrefersIncoming(a, delivery[d].seen)
        /\ records' = [records EXCEPT ![a.key].client = a.client,
                                      ![a.key].value = a.value]
        /\ Audit(d, a.key, "update")
        /\ Answer(d, "applied")
        /\ UNCHANGED <<players, consents>>

\* The decision is taken on the row that was read; the UPDATE is by id only.
\* The optional reference is left alone when the payload omits it.
UpdateNatural(d) ==
    LET a == Current(d)
    IN  /\ Writing(d, NaturalEntities)
        /\ delivery[d].seen # None
        /\ PrefersIncoming(a, delivery[d].seen)
        /\ records' = [records EXCEPT
              ![a.key].ts = a.ts, ![a.key].client = a.client, ![a.key].value = a.value,
              ![a.key].reference = IF a.reference = Omitted THEN @ ELSE a.reference]
        /\ Audit(d, a.key, "update")
        /\ Answer(d, "applied")
        /\ UNCHANGED <<players, consents>>

SkipNatural(d) ==
    /\ Writing(d, NaturalEntities)
    /\ delivery[d].seen # None
    /\ ~PrefersIncoming(Current(d), delivery[d].seen)
    /\ Audit(d, Current(d).key, "skip")
    /\ Answer(d, "skipped")
    /\ UNCHANGED tables

-----------------------------------------------------------------------------
Commit(d) ==
    \/ ResolveExistingPlayer(d) \/ InsertPlayer(d)
    \/ SkipConsent(d) \/ AppendConsent(d)
    \/ InsertNatural(d) \/ InsertConflict(d) \/ UpdateNatural(d) \/ SkipNatural(d)
    \/ CommitFails(d)

Terminating ==
    /\ \A d \in Deliveries : delivery[d].pc = "done"
    /\ UNCHANGED vars

Next ==
    \/ \E d \in Deliveries, b \in Batches : Receive(d, b)
    \/ \E d \in Deliveries : RejectAction(d) \/ LookUp(d) \/ Commit(d)
    \/ Terminating

Spec == Init /\ [][Next]_vars

-----------------------------------------------------------------------------
(* Properties.                                                             *)

\* The actions that were answered applied or skipped so far.
Landed ==
    UNION {{delivery[d].batch.actions[i] :
              i \in {j \in DOMAIN delivery[d].results :
                        delivery[d].results[j] \in {"applied", "skipped"}}}
           : d \in Deliveries}

LandedOn(k) == {a \in Landed : a.entity \in NaturalEntities /\ a.key = k}

Later(a, b) == a.ts > b.ts \/ (a.ts = b.ts /\ a.client > b.client)

LatestOn(k) == CHOOSE a \in LandedOn(k) : \A b \in LandedOn(k) \ {a} : Later(a, b)

\* Every variable has its type; a batch has one result for each action handled
\* so far and, when it is answered, exactly one for each action.
TypeOK ==
    /\ \A k \in DedupKeys :
          players[k] = None \/ DOMAIN players[k] = {"loc", "school", "grade"}
    /\ \A k \in NaturalKeys : records[k] = None \/
          DOMAIN records[k] =
             {"player", "loc", "school", "ts", "client", "value", "reference"}
    /\ \A l \in sync_log : l.action \in {"insert", "update", "skip"}
    /\ \A d \in Deliveries :
          /\ delivery[d].pc \in {"idle", "next", "commit", "done"}
          /\ Active(d) => Len(delivery[d].results) = delivery[d].next - 1
          /\ delivery[d].pc = "done" =>
                Len(delivery[d].results) = Len(delivery[d].batch.actions)

\* Last write wins, in whatever order the actions arrive and however often:
\* the row holds the time, the client id and the value of the latest of all
\* actions on its key that were answered applied or skipped.
LatestWins ==
    \A k \in NaturalKeys : LandedOn(k) # {} =>
        /\ records[k] # None
        /\ records[k].ts = LatestOn(k).ts
        /\ records[k].client = LatestOn(k).client
        /\ records[k].value = LatestOn(k).value

\* Delivering an action again that was answered applied or skipped changes no
\* table and is answered skipped, unless the transaction fails.
ReplayIsSkipped ==
    [][\A d \in Deliveries :
          (/\ Active(d)
           /\ Len(delivery'[d].results) > Len(delivery[d].results)
           /\ Current(d) \in Landed) =>
              /\ UNCHANGED tables
              /\ delivery'[d].results[delivery[d].next] \in {"skipped", "failed"}]_vars

\* A row is never a mixture of two actions: its time, its client id and its
\* value come from one action, also when two deliveries write the key at once.
NoTornRow ==
    \A k \in NaturalKeys : records[k] # None =>
        \E a \in LandedOn(k) :
            /\ records[k].ts = a.ts
            /\ records[k].client = a.client
            /\ records[k].value = a.value

\* The audit log tells one insertion for each natural-key row and each consent
\* row, and none for a row that was not inserted.
InsertAuditedOnce ==
    \A k \in NaturalKeys \cup {c.id : c \in consents} :
        Cardinality({l \in sync_log : l.record = k /\ l.action = "insert"}) =
            IF k \in NaturalKeys /\ records[k] = None THEN 0 ELSE 1

ActionOf(l) == delivery[l.by[1]].batch.actions[l.by[2]]
SchoolBound(a) == a.entity \in {"session", "attendance"}

RowInScope(l) ==
    CanWrite(ScopeOf(l.by[1]), records[l.record].loc, records[l.record].school)

\* Whoever wrote a natural-key row may write for its player, also after the
\* player was given a school; and a session or attendance lies in the scope of
\* the caller who inserted it.
WrittenInScope ==
    \A l \in sync_log : (l.record \in NaturalKeys /\ l.action # "skip") =>
        /\ CanWriteFor(ScopeOf(l.by[1]), records[l.record].player)
        /\ l.action = "insert" /\ SchoolBound(ActionOf(l)) => RowInScope(l)
=============================================================================
