--------------------------- MODULE AuditedLedger ---------------------------
(***************************************************************************)
(* What the load layer promises about the database and its audit trail,    *)
(* without saying how: a transaction enters some new keys and journals     *)
(* each of them as inserted exactly once; it may journal a visit to keys   *)
(* that are there; nothing is removed and no journal entry is taken back.  *)
(* A key that two transactions have found missing is entered by one of     *)
(* them and contested by the other, which may journal it once more when it *)
(* commits.  (load_clean_records and resolve_players, load/audit.py.)      *)
(***************************************************************************)
EXTENDS Integers

CONSTANT
    Shared     \* the keys that more than one writer may enter

VARIABLES
    entered,   \* the keys of the rows in the database
    journal,   \* sync_log: a bag of <<key, action>>
    contested  \* entered keys that an open transaction has found missing before

\* How often an entry is in the bag.
Times(e) == IF e \in DOMAIN journal THEN journal[e] ELSE 0

Inserts(k) == Times(<<k, "insert">>)

Init == entered = {} /\ DOMAIN journal = {} /\ contested = {}

\* A transaction finds something out, is given up or commits.
Commit ==
    /\ entered \subseteq entered'
    /\ contested' \subseteq contested \cup (Shared \cap (entered' \ entered))
    /\ \A k \in entered' \ entered : Inserts(k)' = Inserts(k) + 1
    /\ \A k \in entered : \/ Inserts(k)' = Inserts(k)
                          \/ Inserts(k)' = Inserts(k) + 1 /\ k \in contested \ contested'
    /\ \A e \in DOMAIN journal : Times(e) <= Times(e)'
    /\ \A e \in DOMAIN journal' : e[1] \in entered'

Spec == Init /\ [][Commit]_<<entered, journal, contested>>

\* A row is journalled as inserted exactly once, one that was contested at most
\* twice, and nothing else is journalled.
EnteredOnce ==
    /\ \A k \in entered : \/ Inserts(k) = 1
                          \/ Inserts(k) = 2 /\ k \in Shared \ contested
    /\ \A e \in DOMAIN journal : e[1] \in entered
=============================================================================
