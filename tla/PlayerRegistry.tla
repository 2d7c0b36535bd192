--------------------------- MODULE PlayerRegistry ---------------------------
(***************************************************************************)
(* POST /players: concurrent registrations through the dedup layer         *)
(* (funhouse_api/players, funhouse_pipeline/load/dedup.py and consent.py). *)
(*                                                                         *)
(* Each request runs on its own connection in READ COMMITTED.  The row and *)
(* its audit entry commit together; every consent then commits on its own, *)
(* because a psycopg transaction block that opens a transaction commits    *)
(* it.  A request that dies is rolled back and may be sent again.          *)
(***************************************************************************)
EXTENDS Integers, FiniteSets, Bags, Sequences, SequencesExt

CONSTANTS
    Requests,    \* the requests that may run at the same time
    Form,        \* request -> [role, scope, location, name, birth, school, consents]
    MaxCrashes   \* bound on requests that die

\* A body without consents is answered with 422 (PlayerCreate).
ASSUME RegistryAssumption ==
    /\ IsFiniteSet(Requests)
    /\ MaxCrashes \in Nat
    /\ \A r \in Requests :
          /\ Form[r].consents \in Seq(STRING)
          /\ Form[r].consents # <<>>
          /\ "insert" \notin ToSet(Form[r].consents)

VARIABLES
    pc,          \* step of each request
    created,     \* resolution.created holds the player of the request
    todo,        \* consents still to append
    pending,     \* the key the request has inserted and not committed, or NoKey
    players,     \* dedup key -> [school, location]
    consents,    \* the ledger: a bag of <<key, type>>
    audit,       \* sync_log: a bag of <<key, "insert">> and <<key, type>>
    overlap,     \* pairs of requests that were being handled at the same time
    crashes

rvars == <<pc, created, todo, pending, players, consents, audit, overlap, crashes>>

NoKey == <<>>
None == ""

\* How often an entry is in a ledger.
Copies(entry, ledger) == IF entry \in DOMAIN ledger THEN ledger[entry] ELSE 0

\* compute_dedup_key
Key(r) == <<Form[r].name, Form[r].birth>>

\* Scope.stamp: a manager writes to his own location, a founder where he says.
Location(r) == IF Form[r].role = "manager" THEN Form[r].scope ELSE Form[r].location

Active(r) == pc[r] \in {"names", "lookup", "insert", "commit", "consents"}

-----------------------------------------------------------------------------
\* The request arrives; a facilitator is forbidden, a location is required.
Start(r) ==
    /\ pc[r] \in {"ready", "dead"}
    /\ pc' = [pc EXCEPT ![r] = IF Form[r].role \notin {"founder", "manager"} \/ Location(r) = None
                               THEN "refused" ELSE "names"]
    /\ overlap' = overlap \cup {{r, q} : q \in {p \in Requests : Active(p)}}
    /\ todo' = [todo EXCEPT ![r] = Form[r].consents]
    /\ created' = [created EXCEPT ![r] = FALSE]
    /\ UNCHANGED <<pending, players, consents, audit, crashes>>

\* A plausible bug: the other keys of the name are not looked at.
ReadNamesUnchecked(r) ==
    /\ pc[r] = "names"
    /\ pc' = [pc EXCEPT ![r] = "lookup"]
    /\ UNCHANGED <<created, todo, pending, players, consents, audit, overlap, crashes>>

\* _existing_dedup_keys_for_name: a second key for the name is ambiguous (422).
ReadNames(r) ==
    /\ pc[r] = "names"
    /\ LET keys == {Key(r)} \cup {k \in DOMAIN players : k[1] = Form[r].name}
       IN  pc' = [pc EXCEPT ![r] = IF Cardinality(keys) > 1 THEN "refused" ELSE "lookup"]
    /\ UNCHANGED <<created, todo, pending, players, consents, audit, overlap, crashes>>

\* _existing_by_dedup_key: merge into the row that is there, or insert one.
Lookup(r) ==
    /\ pc[r] = "lookup"
    /\ pc' = [pc EXCEPT ![r] = IF Key(r) \in DOMAIN players THEN "commit" ELSE "insert"]
    /\ UNCHANGED <<created, todo, pending, players, consents, audit, overlap, crashes>>

\* _insert_player waits for another uncommitted insert of the key.  On a
\* conflict the id is read back and the row still counts as created.
Insert(r) ==
    /\ pc[r] = "insert"
    /\ \A q \in Requests : pending[q] # Key(r)
    /\ pending' = [pending EXCEPT ![r] = IF Key(r) \in DOMAIN players THEN NoKey ELSE Key(r)]
    /\ created' = [created EXCEPT ![r] = TRUE]
    /\ pc' = [pc EXCEPT ![r] = "commit"]
    /\ UNCHANGED <<todo, players, consents, audit, overlap, crashes>>

\* The school is filled in where none is set.
Registered(r) ==
    IF Key(r) \in DOMAIN players
    THEN [players EXCEPT ![Key(r)].school = IF @ = None THEN Form[r].school ELSE @]
    ELSE [k \in DOMAIN players \cup {Key(r)} |->
            IF k = Key(r) THEN [school |-> Form[r].school, location |-> Location(r)]
            ELSE players[k]]

\* A plausible bug: the transaction is left open.
CommitLeavesOpen(r) ==
    /\ pc[r] = "commit"
    /\ players' = Registered(r)
    /\ audit' = audit (+) SetToBag(IF created[r] THEN {<<Key(r), "insert">>} ELSE {})
    /\ pc' = [pc EXCEPT ![r] = "consents"]
    /\ UNCHANGED <<created, todo, pending, consents, overlap, crashes>>

\* The school, the audit entry of a created row, and the commit of the block.
Commit(r) ==
    /\ pc[r] = "commit"
    /\ players' = Registered(r)
    /\ audit' = audit (+) SetToBag(IF created[r] THEN {<<Key(r), "insert">>} ELSE {})
    /\ pending' = [pending EXCEPT ![r] = NoKey]
    /\ pc' = [pc EXCEPT ![r] = "consents"]
    /\ UNCHANGED <<created, todo, consents, overlap, crashes>>

\* A plausible bug: a consent the player has already is not appended, and
\* neither are those after it.
AppendUntilKnown(r) ==
    /\ pc[r] = "consents"
    /\ todo[r] # <<>>
    /\ IF BagIn(<<Key(r), Head(todo[r])>>, consents)
       THEN todo' = [todo EXCEPT ![r] = <<>>] /\ UNCHANGED <<consents, audit>>
       ELSE /\ todo' = [todo EXCEPT ![r] = Tail(@)]
            /\ consents' = consents (+) SetToBag({<<Key(r), Head(todo[r])>>})
            /\ audit' = audit (+) SetToBag({<<Key(r), Head(todo[r])>>})
    /\ UNCHANGED <<pc, created, pending, players, overlap, crashes>>

\* append_consent: one row and its audit entry, in a transaction of its own.
AppendConsent(r) ==
    /\ pc[r] = "consents"
    /\ todo[r] # <<>>
    /\ consents' = consents (+) SetToBag({<<Key(r), Head(todo[r])>>})
    /\ audit' = audit (+) SetToBag({<<Key(r), Head(todo[r])>>})
    /\ todo' = [todo EXCEPT ![r] = Tail(@)]
    /\ UNCHANGED <<pc, created, pending, players, overlap, crashes>>

\* A plausible bug: the request is answered once its row is committed.
AnswerEarly(r) ==
    /\ pc[r] = "consents"
    /\ pc' = [pc EXCEPT ![r] = "answered"]
    /\ UNCHANGED <<created, todo, pending, players, consents, audit, overlap, crashes>>

\* The row is read back and answered with 201.
Answer(r) ==
    /\ pc[r] = "consents"
    /\ todo[r] = <<>>
    /\ pc' = [pc EXCEPT ![r] = "answered"]
    /\ UNCHANGED <<created, todo, pending, players, consents, audit, overlap, crashes>>

\* The request dies (process, connection or database error): its open
\* transaction is rolled back, what it has committed stays.
Crash(r) ==
    /\ Active(r)
    /\ crashes < MaxCrashes
    /\ crashes' = crashes + 1
    /\ pc' = [pc EXCEPT ![r] = "dead"]
    /\ pending' = [pending EXCEPT ![r] = NoKey]
    /\ UNCHANGED <<created, todo, players, consents, audit, overlap>>

-----------------------------------------------------------------------------
Init ==
    /\ pc = [r \in Requests |-> "ready"]
    /\ created = [r \in Requests |-> FALSE]
    /\ todo = [r \in Requests |-> <<>>]
    /\ pending = [r \in Requests |-> NoKey]
    /\ players = <<>>
    /\ consents = EmptyBag
    /\ audit = EmptyBag
    /\ overlap = {}
    /\ crashes = 0

Handle(r) ==
    ReadNames(r) \/ Lookup(r) \/ Insert(r) \/ Commit(r) \/ AppendConsent(r) \/ Answer(r)

Next == \E r \in Requests : Start(r) \/ Handle(r) \/ Crash(r)

\* A request being handled takes its next step; a dead one is sent again.
Fairness == \A r \in Requests : WF_rvars(Handle(r)) /\ WF_rvars(pc[r] = "dead" /\ Start(r))

Spec == Init /\ [][Next]_rvars /\ Fairness

-----------------------------------------------------------------------------
\* Steps, rows and ledgers are of their types (register_player).
TypeOK ==
    /\ pc \in [Requests -> {"ready", "names", "lookup", "insert", "commit", "consents",
                            "answered", "refused", "dead"}]
    /\ \A r \in Requests : pending[r] \in {NoKey, Key(r)}
    /\ \A k \in DOMAIN players : \E r \in Requests : k = Key(r)
    /\ BagToSet(audit) \subseteq {<<k, a>> : k \in DOMAIN players,
                                             a \in {"insert"} \cup UNION {ToSet(Form[r].consents) : r \in Requests}}
    /\ crashes \in 0..MaxCrashes

\* A registration answered with 201 has its row, all its consents in the ledger,
\* and an insert entry in the audit trail, also when it was merged into another
\* request's row or sent again (register_player).
AnsweredIsComplete ==
    \A r \in Requests : pc[r] = "answered" =>
        /\ Key(r) \in DOMAIN players
        /\ Copies(<<Key(r), "insert">>, audit) >= 1
        /\ \A t \in ToSet(Form[r].consents) :
              Copies(<<Key(r), t>>, consents)
              >= Cardinality({q \in Requests : /\ pc[q] = "answered"
                                               /\ Key(q) = Key(r)
                                               /\ t \in ToSet(Form[q].consents)})

\* A child on the roster without any consent is one whose registration is still
\* being handled or has died, or was sent again after it had died and refused
\* because of a namesake registered at the same time (the row is committed
\* before its consents).
RosterWithoutConsent ==
    \A k \in DOMAIN players :
        \/ \E e \in BagToSet(consents) : e[1] = k
        \/ \E r \in Requests : Key(r) = k /\ (Active(r) \/ pc[r] = "dead")
        \/ crashes > 0 /\ \E k2 \in DOMAIN players \ {k} : k2[1] = k[1]

\* What is doubled comes from registrations that overlapped: two identities of one
\* name, because the check for namesakes and the insert are not one step, and two
\* insert entries of one row, because a conflict is read back and still counts as
\* created (resolve_players, _insert_player).
DuplicatesOverlapped ==
    /\ \A k1, k2 \in DOMAIN players : k1 # k2 /\ k1[1] = k2[1] =>
          \E r, q \in Requests : Key(r) = k1 /\ Key(q) = k2 /\ {r, q} \in overlap
    /\ \A k \in DOMAIN players : Copies(<<k, "insert">>, audit) > 1 =>
          \E r, q \in Requests : r # q /\ Key(r) = k /\ Key(q) = k /\ {r, q} \in overlap

\* Every registration that was started is answered or refused in the end:
\* requests waiting for each other's inserts do not wait for ever.
RegistrationEnds ==
    \A r \in Requests : Active(r) ~> pc[r] \in {"answered", "refused"}
=============================================================================
