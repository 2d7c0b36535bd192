--------------------------- MODULE SyncServiceProofs ---------------------------
(***************************************************************************)
(* What holds of POST /sync for every number of deliveries served at a     *)
(* time: no row is torn, every row is audited as inserted once, and who    *)
(* wrote a row may write for its player.                                   *)
(***************************************************************************)
EXTENDS SyncService, FiniteSetTheorems, TLAPS

-----------------------------------------------------------------------------
(* The inductive invariant.                                                *)

Statuses == {"applied", "skipped", "rejected", "failed"}

DeliveryType ==
    [pc : {"idle", "next", "commit", "done"}, batch : Batches \cup {None}, next : Nat,
     seen : PlayerType \cup RecordType \cup ConsentType \cup {None},
     school : Schools \cup {None}, results : Seq(Statuses)]

Types ==
    /\ players \in [DedupKeys -> PlayerType \cup {None}]
    /\ records \in [NaturalKeys -> RecordType \cup {None}]
    /\ consents \in SUBSET ConsentType
    /\ delivery \in [Deliveries -> DeliveryType]

\* One result for each action before the current one.
Progress(me) ==
    /\ me.pc = "idle" => me.batch = None /\ me.next = 0 /\ me.results = <<>>
    /\ me.pc # "idle" => me.batch \in Batches
    /\ me.pc \in {"next", "commit"} =>
          me.next \in 1 .. Len(me.batch.actions) /\ Len(me.results) = me.next - 1
    /\ me.pc = "done" =>
          me.next = Len(me.batch.actions) + 1 /\ Len(me.results) = Len(me.batch.actions)

\* What was checked and looked up still holds when the action is committed.
Checked(d) ==
    LET a == Current(d)
    IN  delivery[d].pc = "commit" =>
          /\ a.entity = "player" =>
                /\ a.key \in DedupKeys
                /\ StampedLocation(ScopeOf(d), a) # None
                /\ delivery[d].seen # None => players[a.key] # None
          /\ a.entity = "consent" => delivery[d].seen \in ConsentType \cup {None}
          /\ a.entity \in NaturalEntities =>
                /\ CanWriteFor(ScopeOf(d), a.player)
                /\ SchoolBound(a) =>
                      CanWrite(ScopeOf(d), players[a.player].loc, delivery[d].school)
                /\ delivery[d].seen # None => records[a.key] # None

\* A row is of the player that its key was computed from.
KeyNamesPlayer ==
    \A a \in NaturalActions : records[a.key] # None => records[a.key].player = a.player

\* An audit entry was written by an action that is over.
WrittenBefore(l) ==
    /\ l.by \in Deliveries \X Nat
    /\ delivery[l.by[1]].pc # "idle"
    /\ l.by[2] < delivery[l.by[1]].next
    /\ l.action = "insert" => l.record \in NaturalKeys \cup DedupKeys \cup {l.by}

\* A consent row has the id of the action that appended it.
AppendedBefore(c) ==
    delivery[c.id[1]].pc # "idle" /\ c.id[2] < delivery[c.id[1]].next

Inserts(k) == {l \in sync_log : l.record = k /\ l.action = "insert"}

InsertedOnce ==
    /\ \A k \in NaturalKeys :
          IF records[k] = None THEN Inserts(k) = {} ELSE \E l \in sync_log : Inserts(k) = {l}
    /\ \A c \in consents : \E l \in sync_log : Inserts(c.id) = {l}

EntriesInScope ==
    \A l \in sync_log : l.record \in NaturalKeys /\ l.action # "skip" =>
        /\ records[l.record] # None
        /\ CanWriteFor(ScopeOf(l.by[1]), records[l.record].player)
        /\ l.action = "insert" /\ SchoolBound(ActionOf(l)) => RowInScope(l)

Inv ==
    /\ Types
    /\ \A d \in Deliveries : Progress(delivery[d]) /\ Checked(d)
    /\ KeyNamesPlayer
    /\ \A l \in sync_log : WrittenBefore(l)
    /\ \A c \in consents : AppendedBefore(c)
    /\ InsertedOnce
    /\ EntriesInScope
    /\ NoTornRow

\* With one delivery at a time nothing is written between look-up and commit,
\* and the row is the latest action that has landed.
HoldsLatest(row, landed) ==
    \E a \in landed :
        /\ row.ts = a.ts /\ row.client = a.client /\ row.value = a.value
        /\ \A b \in landed \ {a} : Later(a, b)

Serial ==
    /\ \A d, e \in Deliveries : Active(d) /\ Active(e) => d = e
    /\ \A d \in Deliveries : delivery[d].pc = "commit" => delivery[d].seen = Lookup(Current(d))
    /\ \A k \in NaturalKeys :
          IF records[k] = None THEN LandedOn(k) = {} ELSE HoldsLatest(records[k], LandedOn(k))

-----------------------------------------------------------------------------
(* Lemmas on batches, answers and what has landed.                         *)

LEMMA BatchFacts ==
    ASSUME NEW b \in Batches
    PROVE  /\ Len(b.actions) \in Nat \ {0}
           /\ DOMAIN b.actions = 1 .. Len(b.actions)
           /\ \A i \in 1 .. Len(b.actions) : b.actions[i] \in Actions
<1>1. b.actions \in Seq(Actions) /\ b.actions # <<>>
  BY BatchAssumption
<1> DEFINE q == b.actions
<1> HIDE DEF q
<1>2. q \in Seq(Actions) /\ q # <<>> => /\ Len(q) \in Nat \ {0}
                                       /\ DOMAIN q = 1 .. Len(q)
                                       /\ \A i \in 1 .. Len(q) : q[i] \in Actions
  OBVIOUS
<1> QED
  BY <1>1, <1>2 DEF q

LEMMA ActiveFacts ==
    ASSUME Inv, NEW d \in Deliveries, Active(d)
    PROVE  /\ delivery[d].batch \in Batches
           /\ delivery[d].next \in 1 .. Len(delivery[d].batch.actions)
           /\ delivery[d].next \in Nat
           /\ Len(delivery[d].results) = delivery[d].next - 1
           /\ Current(d) \in Actions
<1>1. Progress(delivery[d]) /\ delivery[d].pc \in {"next", "commit"}
  BY DEF Inv, Active
<1>2. /\ delivery[d].batch \in Batches
      /\ delivery[d].next \in 1 .. Len(delivery[d].batch.actions)
      /\ Len(delivery[d].results) = delivery[d].next - 1
  BY <1>1 DEF Progress
<1> QED
  BY <1>2, BatchFacts DEF Current

\* What Answer does, without the updates of a record.
Answered(d, status) ==
    /\ delivery' \in [Deliveries -> DeliveryType]
    /\ \A e \in Deliveries \ {d} : delivery'[e] = delivery[e]
    /\ delivery'[d].batch = delivery[d].batch
    /\ delivery'[d].pc \in {"next", "done"}
    /\ delivery'[d].next = delivery[d].next + 1
    /\ delivery'[d].results = Append(delivery[d].results, status)
    /\ Progress(delivery'[d])

LEMMA AnswerStep ==
    ASSUME Inv, NEW d \in Deliveries, Active(d), NEW status \in Statuses, Answer(d, status)
    PROVE  Answered(d, status)
<1> DEFINE me == delivery[d]
           len == Len(me.batch.actions)
           pc == IF me.next = len THEN "done" ELSE "next"
           next == [me EXCEPT !.pc = pc, !.next = @ + 1, !.seen = None, !.school = None,
                              !.results = Append(@, status)]
<1>1. delivery' = [delivery EXCEPT ![d] = next]
  BY DEF Answer
<1>2. me \in DeliveryType /\ delivery \in [Deliveries -> DeliveryType]
  BY DEF Inv, Types
<1>3. /\ me.batch \in Batches /\ me.next \in 1 .. len /\ len \in Nat \ {0}
      /\ Len(me.results) = me.next - 1
  BY ActiveFacts, BatchFacts
<1>4. pc \in {"next", "done"} /\ (pc = "done" <=> me.next = len)
  OBVIOUS
<1> HIDE DEF me, pc, len
<1>5. Append(me.results, status) \in Seq(Statuses)
      /\ Len(Append(me.results, status)) = Len(me.results) + 1
  <2>1. me.results \in Seq(Statuses)
    BY <1>2 DEF DeliveryType
  <2> QED
    BY <2>1
<1>6. /\ next \in DeliveryType
      /\ next.pc = pc /\ next.batch = me.batch /\ next.next = me.next + 1
      /\ next.results = Append(me.results, status)
  <2> DEFINE Row == PlayerType \cup RecordType \cup ConsentType \cup {None}
             School == Schools \cup {None}
             Owner == Batches \cup {None}
             res == Append(me.results, status)
  <2>1. me \in [pc : {"idle", "next", "commit", "done"}, batch : Owner, next : Nat,
                seen : Row, school : School, results : Seq(Statuses)]
    BY <1>2 DEF DeliveryType
  <2>2. None \in Row /\ None \in School /\ res \in Seq(Statuses) /\ me.next + 1 \in Nat
    BY <1>5, <2>1
  <2>3. next = [me EXCEPT !.pc = pc, !.next = me.next + 1, !.seen = None, !.school = None,
                          !.results = res]
    OBVIOUS
  <2> HIDE DEF Row, School, Owner, res, next
  <2>4. /\ next \in [pc : {"idle", "next", "commit", "done"}, batch : Owner, next : Nat,
                     seen : Row, school : School, results : Seq(Statuses)]
        /\ next.pc = pc /\ next.batch = me.batch /\ next.next = me.next + 1
        /\ next.results = res
    BY <1>4, <2>1, <2>2, <2>3
  <2> QED
    BY <2>4 DEF DeliveryType, Row, School, Owner, res
<1> HIDE DEF next
<1>7. Progress(next)
  <2>1. /\ next.pc # "idle" /\ next.pc # "commit" /\ next.batch \in Batches
    BY <1>3, <1>4, <1>6
  <2>2. next.pc = "next" =>
            next.next \in 1 .. Len(next.batch.actions) /\ Len(next.results) = next.next - 1
    BY <1>3, <1>4, <1>5, <1>6 DEF len
  <2>3. next.pc = "done" => /\ next.next = Len(next.batch.actions) + 1
                            /\ Len(next.results) = Len(next.batch.actions)
    BY <1>3, <1>4, <1>5, <1>6 DEF len
  <2> QED
    BY <2>1, <2>2, <2>3 DEF Progress
<1>8. /\ delivery' \in [Deliveries -> DeliveryType] /\ delivery'[d] = next
      /\ \A e \in Deliveries \ {d} : delivery'[e] = delivery[e]
  BY <1>1, <1>2, <1>6
<1> QED
  BY <1>4, <1>6, <1>7, <1>8 DEF Answered, me

LEMMA LandedBy ==
    ASSUME NEW x
    PROVE  x \in Landed <=>
              \E d \in Deliveries : \E i \in DOMAIN delivery[d].results :
                  /\ delivery[d].results[i] \in {"applied", "skipped"}
                  /\ x = delivery[d].batch.actions[i]
<1> DEFINE of(d) == {delivery[d].batch.actions[i] :
                       i \in {j \in DOMAIN delivery[d].results :
                                delivery[d].results[j] \in {"applied", "skipped"}}}
<1>1. Landed = UNION {of(d) : d \in Deliveries}
  BY DEF Landed
<1>2. \A d : x \in of(d) <=> \E i \in DOMAIN delivery[d].results :
                               /\ delivery[d].results[i] \in {"applied", "skipped"}
                               /\ x = delivery[d].batch.actions[i]
  OBVIOUS
<1> HIDE DEF of
<1>3. x \in UNION {of(d) : d \in Deliveries} <=> \E d \in Deliveries : x \in of(d)
  OBVIOUS
<1> QED
  BY <1>1, <1>2, <1>3

LEMMA LandedByNext ==
    ASSUME NEW x
    PROVE  x \in Landed' <=>
              \E d \in Deliveries : \E i \in DOMAIN delivery'[d].results :
                  /\ delivery'[d].results[i] \in {"applied", "skipped"}
                  /\ x = delivery'[d].batch.actions[i]
<1> DEFINE of(d) == {delivery'[d].batch.actions[i] :
                       i \in {j \in DOMAIN delivery'[d].results :
                                delivery'[d].results[j] \in {"applied", "skipped"}}}
<1>1. Landed' = UNION {of(d) : d \in Deliveries}
  BY DEF Landed
<1>2. \A d : x \in of(d) <=> \E i \in DOMAIN delivery'[d].results :
                               /\ delivery'[d].results[i] \in {"applied", "skipped"}
                               /\ x = delivery'[d].batch.actions[i]
  OBVIOUS
<1> HIDE DEF of
<1>3. x \in UNION {of(d) : d \in Deliveries} <=> \E d \in Deliveries : x \in of(d)
  OBVIOUS
<1> QED
  BY <1>1, <1>2, <1>3

\* Appending a result to a sequence of results.
LEMMA OneMoreResult ==
    ASSUME NEW s \in Seq(Statuses), NEW status \in Statuses
    PROVE  /\ DOMAIN Append(s, status) = DOMAIN s \cup {Len(s) + 1}
           /\ Append(s, status)[Len(s) + 1] = status
           /\ \A i \in DOMAIN s : i # Len(s) + 1 /\ Append(s, status)[i] = s[i]
<1>1. DOMAIN s = 1 .. Len(s) /\ Len(s) \in Nat
  OBVIOUS
<1>2. DOMAIN Append(s, status) = 1 .. (Len(s) + 1)
  OBVIOUS
<1> QED
  BY <1>1, <1>2

LEMMA LandedStep ==
    ASSUME Inv, NEW d \in Deliveries, Active(d), NEW status \in Statuses, Answered(d, status),
           NEW x
    PROVE  x \in Landed' <=>
              x \in Landed \/ (status \in {"applied", "skipped"} /\ x = Current(d))
<1> DEFINE old == delivery[d].results
           new == delivery'[d].results
<1>1. /\ old \in Seq(Statuses) /\ new = Append(old, status)
      /\ Len(old) + 1 = delivery[d].next
      /\ delivery'[d].batch = delivery[d].batch
      /\ \A e \in Deliveries \ {d} : delivery'[e] = delivery[e]
  <2>1. old \in Seq(Statuses)
    BY DEF Inv, Types, DeliveryType
  <2>2. Len(old) = delivery[d].next - 1 /\ delivery[d].next \in Nat
    BY ActiveFacts
  <2> QED
    BY <2>1, <2>2 DEF Answered
<1>2. /\ DOMAIN new = DOMAIN old \cup {delivery[d].next}
      /\ new[delivery[d].next] = status
      /\ \A i \in DOMAIN old : i # delivery[d].next /\ new[i] = old[i]
  <2> HIDE DEF old, new
  <2> QED
    BY <1>1, OneMoreResult
<1> DEFINE Has(e) == \E i \in DOMAIN delivery[e].results :
                         /\ delivery[e].results[i] \in {"applied", "skipped"}
                         /\ x = delivery[e].batch.actions[i]
           HasNow(e) == \E i \in DOMAIN delivery'[e].results :
                         /\ delivery'[e].results[i] \in {"applied", "skipped"}
                         /\ x = delivery'[e].batch.actions[i]
<1>3. HasNow(d) <=> Has(d) \/ (status \in {"applied", "skipped"} /\ x = Current(d))
  BY <1>1, <1>2 DEF Current
<1>4. \A e \in Deliveries \ {d} : HasNow(e) <=> Has(e)
  BY <1>1
<1>5. (x \in Landed <=> \E e \in Deliveries : Has(e))
      /\ (x \in Landed' <=> \E e \in Deliveries : HasNow(e))
  <2>1. x \in Landed <=> \E e \in Deliveries : Has(e)
    BY LandedBy
  <2>2. x \in Landed' <=> \E e \in Deliveries : HasNow(e)
    BY LandedByNext
  <2> QED
    BY <2>1, <2>2
<1> HIDE DEF Has, HasNow
<1> QED
  BY <1>3, <1>4, <1>5

-----------------------------------------------------------------------------
(* What every step that answers an action has in common.                   *)

\* Rows stay, and what decides on their scope is set once.
PlayersGrow ==
    \A p \in DedupKeys : players[p] # None =>
        /\ players'[p] # None /\ players'[p].loc = players[p].loc
        /\ players[p].school # None => players'[p].school = players[p].school

RecordsKeep ==
    \A k \in NaturalKeys : records[k] # None =>
        /\ records'[k] # None
        /\ records'[k].player = records[k].player
        /\ records'[k].loc = records[k].loc /\ records'[k].school = records[k].school

\* A row that is written holds what the action says.
RowWritten(k, a) ==
    /\ a.entity \in NaturalEntities /\ a.key = k
    /\ records'[k].player = a.player
    /\ records'[k].ts = a.ts /\ records'[k].client = a.client /\ records'[k].value = a.value

Writes(d, status) ==
    /\ Answered(d, status)
    /\ players' \in [DedupKeys -> PlayerType \cup {None}]
    /\ records' \in [NaturalKeys -> RecordType \cup {None}]
    /\ consents' \in SUBSET ConsentType
    /\ PlayersGrow /\ RecordsKeep
    /\ sync_log \subseteq sync_log'
    /\ \A l \in sync_log' \ sync_log :
          /\ l.by = <<d, delivery[d].next>>
          /\ l.action = "insert" => l.record \in NaturalKeys \cup DedupKeys \cup {l.by}
    /\ \A c \in consents' \ consents : c.id = <<d, delivery[d].next>>
    /\ \A k \in NaturalKeys : records'[k] # None /\ records'[k] # records[k] =>
          status \in {"applied", "skipped"} /\ RowWritten(k, Current(d))

\* CanWriteFor in the next state, for a scope of this state.
MayStillWrite(scope, p) ==
    /\ p \in DedupKeys /\ players'[p] # None
    /\ CanWrite(scope, players'[p].loc, players'[p].school)

LEMMA ScopeKept ==
    ASSUME PlayersGrow, NEW b \in Batches, NEW p, CanWriteFor(b.scope, p)
    PROVE  MayStillWrite(b.scope, p) /\ players'[p].loc = players[p].loc
<1> DEFINE scope == b.scope
<1>1. scope.role = "facilitator" => scope.school # None
  BY BatchAssumption
<1> HIDE DEF scope
<1>2. CanWriteFor(scope, p)
  BY DEF scope
<1>3. MayStillWrite(scope, p) /\ players'[p].loc = players[p].loc
  BY <1>1, <1>2 DEF CanWriteFor, PlayerExists, CanWrite, PlayersGrow, MayStillWrite
<1> QED
  BY <1>3 DEF scope

\* The checks of the other deliveries survive.
LEMMA ChecksKept ==
    ASSUME Inv, PlayersGrow, RecordsKeep, NEW e \in Deliveries, delivery'[e] = delivery[e]
    PROVE  Checked(e)'
<1> DEFINE a == Current(e)
           scope == ScopeOf(e)
<1> SUFFICES ASSUME delivery[e].pc = "commit"
             PROVE  Checked(e)'
  BY DEF Checked
<1>1. delivery[e].batch \in Batches /\ a \in Actions /\ scope = delivery[e].batch.scope
  BY ActiveFacts DEF Active, ScopeOf
<1>2. Current(e)' = a /\ ScopeOf(e)' = scope
  BY DEF Current, ScopeOf
<1>3. /\ a.entity = "player" =>
            /\ a.key \in DedupKeys
            /\ StampedLocation(scope, a) # None
            /\ delivery[e].seen # None => players[a.key] # None
      /\ a.entity = "consent" => delivery[e].seen \in ConsentType \cup {None}
      /\ a.entity \in NaturalEntities =>
            /\ CanWriteFor(scope, a.player)
            /\ SchoolBound(a) => CanWrite(scope, players[a.player].loc, delivery[e].school)
            /\ delivery[e].seen # None => records[a.key] # None
  BY DEF Inv, Checked
<1> HIDE DEF a, scope
<1>4. a.entity = "player" /\ delivery[e].seen # None => players'[a.key] # None
  BY <1>3 DEF PlayersGrow
<1>5. a.entity \in NaturalEntities =>
          MayStillWrite(scope, a.player) /\ players'[a.player].loc = players[a.player].loc
  BY <1>1, <1>3, ScopeKept
<1>6. a.entity \in NaturalEntities /\ delivery[e].seen # None => records'[a.key] # None
  <2>1. a.entity \in NaturalEntities => a.key \in NaturalKeys
    BY <1>1, BatchAssumption
  <2> QED
    BY <1>3, <2>1 DEF RecordsKeep
<1> QED
  BY <1>2, <1>3, <1>4, <1>5, <1>6
     DEF Checked, CanWriteFor, PlayerExists, MayStillWrite, SchoolBound, StampedLocation

LEMMA WrittenStays ==
    ASSUME Inv, NEW d \in Deliveries, Active(d), NEW status \in Statuses, Writes(d, status)
    PROVE  /\ \A e \in Deliveries : delivery[e].pc # "idle" =>
                 /\ delivery'[e].pc # "idle" /\ delivery'[e].batch = delivery[e].batch
                 /\ delivery'[e].next \in Nat /\ delivery'[e].next >= delivery[e].next
           /\ delivery'[d].pc # "idle" /\ delivery'[d].next = delivery[d].next + 1
           /\ delivery[d].next \in Nat
<1>1. delivery[d].next \in Nat
  BY ActiveFacts
<1>2. \A e \in Deliveries : delivery[e].next \in Nat
  BY DEF Inv, Types, DeliveryType
<1>3. /\ \A e \in Deliveries \ {d} : delivery'[e] = delivery[e]
      /\ delivery'[d].batch = delivery[d].batch
      /\ delivery'[d].pc # "idle" /\ delivery'[d].next = delivery[d].next + 1
  BY DEF Writes, Answered
<1> QED
  BY <1>1, <1>2, <1>3

\* An entry is in scope in the next state.
EntrySound(l) ==
    l.record \in NaturalKeys /\ l.action # "skip" =>
        /\ records'[l.record] # None
        /\ MayStillWrite(ScopeOf(l.by[1])', records'[l.record].player)
        /\ l.action = "insert" /\ SchoolBound(ActionOf(l)') => RowInScope(l)'

\* Everything of the invariant but the entries that the step adds.
LEMMA WritesInv ==
    ASSUME Inv, NEW d \in Deliveries, Active(d), NEW status \in Statuses, Writes(d, status)
    PROVE  /\ Types'
           /\ \A e \in Deliveries : Progress(delivery'[e]) /\ Checked(e)'
           /\ KeyNamesPlayer'
           /\ \A l \in sync_log' : WrittenBefore(l)'
           /\ \A c \in consents' : AppendedBefore(c)'
           /\ NoTornRow'
           /\ \A l \in sync_log : EntrySound(l)
<1>1. Types'
  BY DEF Writes, Answered, Types
<1>2. ASSUME NEW e \in Deliveries PROVE Progress(delivery'[e]) /\ Checked(e)'
  <2>1. CASE e = d
    BY <2>1 DEF Writes, Answered, Checked
  <2>2. CASE e # d
    <3>1. delivery'[e] = delivery[e]
      BY <2>2 DEF Writes, Answered
    <3>2. Progress(delivery'[e])
      BY <3>1 DEF Inv
    <3>3. Checked(e)'
      BY <3>1, ChecksKept DEF Writes
    <3> QED
      BY <3>2, <3>3
  <2> QED
    BY <2>1, <2>2
<1>3. Current(d) \in Actions
  BY ActiveFacts
<1>4. KeyNamesPlayer'
  <2> SUFFICES ASSUME NEW a \in NaturalActions, records'[a.key] # None
               PROVE  records'[a.key].player = a.player
    BY DEF KeyNamesPlayer
  <2>1. a.key \in NaturalKeys
    BY BatchAssumption DEF NaturalActions
  <2>2. CASE records[a.key] # None
    BY <2>1, <2>2 DEF Inv, KeyNamesPlayer, Writes, RecordsKeep
  <2>3. CASE records[a.key] = None
    <3>1. RowWritten(a.key, Current(d))
      BY <2>1, <2>3 DEF Writes
    <3>2. Current(d).player = a.player
      BY <1>3, <3>1, BatchAssumption DEF RowWritten, NaturalActions
    <3> QED
      BY <3>1, <3>2 DEF RowWritten
  <2> QED
    BY <2>2, <2>3
<1>5. ASSUME NEW l \in sync_log' PROVE WrittenBefore(l)'
  <2>1. CASE l \in sync_log
    <3>1. WrittenBefore(l)
      BY <2>1 DEF Inv
    <3>2. l.by[1] \in Deliveries /\ l.by[2] \in Nat /\ delivery[l.by[1]].next \in Nat
      BY <3>1 DEF WrittenBefore, Inv, Types, DeliveryType
    <3> QED
      BY <3>1, <3>2, WrittenStays DEF WrittenBefore
  <2>2. CASE l \notin sync_log
    <3>1. /\ l.by = <<d, delivery[d].next>>
          /\ l.action = "insert" => l.record \in NaturalKeys \cup DedupKeys \cup {l.by}
      BY <2>2 DEF Writes
    <3> QED
      BY <3>1, WrittenStays DEF WrittenBefore
  <2> QED
    BY <2>1, <2>2
<1>6. ASSUME NEW c \in consents' PROVE AppendedBefore(c)'
  <2>1. CASE c \in consents
    <3>1. AppendedBefore(c) /\ c.id \in Deliveries \X Nat
      BY <2>1 DEF Inv, Types, ConsentType
    <3>2. c.id[1] \in Deliveries /\ c.id[2] \in Nat /\ delivery[c.id[1]].next \in Nat
      BY <3>1 DEF Inv, Types, DeliveryType
    <3> QED
      BY <3>1, <3>2, WrittenStays DEF AppendedBefore
  <2>2. CASE c \notin consents
    <3>1. c.id = <<d, delivery[d].next>>
      BY <2>2 DEF Writes
    <3> QED
      BY <3>1, WrittenStays DEF AppendedBefore
  <2> QED
    BY <2>1, <2>2
<1>7. NoTornRow'
  <2>1. \A x : x \in Landed' <=>
                 x \in Landed \/ (status \in {"applied", "skipped"} /\ x = Current(d))
    BY LandedStep DEF Writes
  <2> SUFFICES ASSUME NEW k \in NaturalKeys, records'[k] # None
               PROVE  \E a \in LandedOn(k)' :
                          /\ records'[k].ts = a.ts
                          /\ records'[k].client = a.client
                          /\ records'[k].value = a.value
    BY DEF NoTornRow
  <2>2. CASE records'[k] = records[k]
    <3>1. PICK a \in LandedOn(k) : /\ records[k].ts = a.ts
                                   /\ records[k].client = a.client
                                   /\ records[k].value = a.value
      BY <2>2 DEF Inv, NoTornRow
    <3>2. a \in LandedOn(k)'
      BY <2>1, <3>1 DEF LandedOn
    <3> QED
      BY <2>2, <3>1, <3>2
  <2>3. CASE records'[k] # records[k]
    <3>1. status \in {"applied", "skipped"} /\ RowWritten(k, Current(d))
      BY <2>3 DEF Writes
    <3>2. Current(d) \in LandedOn(k)'
      BY <2>1, <3>1 DEF LandedOn, RowWritten
    <3> QED
      BY <3>1, <3>2 DEF RowWritten
  <2> QED
    BY <2>2, <2>3
<1>8. ASSUME NEW l \in sync_log, l.record \in NaturalKeys, l.action # "skip"
      PROVE  /\ records'[l.record] # None
             /\ MayStillWrite(ScopeOf(l.by[1])', records'[l.record].player)
             /\ l.action = "insert" /\ SchoolBound(ActionOf(l)') => RowInScope(l)'
  <2> DEFINE e == l.by[1]
             row == records[l.record]
  <2>1. /\ row # None /\ CanWriteFor(ScopeOf(e), row.player)
        /\ l.action = "insert" /\ SchoolBound(ActionOf(l)) => RowInScope(l)
    BY <1>8 DEF Inv, EntriesInScope
  <2>2. /\ e \in Deliveries /\ delivery[e].pc # "idle" /\ delivery[e].batch \in Batches
        /\ delivery'[e].batch = delivery[e].batch
    <3>1. WrittenBefore(l)
      BY DEF Inv
    <3>2. e \in Deliveries /\ delivery[e].pc # "idle"
      BY <3>1 DEF WrittenBefore
    <3>3. delivery[e].batch \in Batches
      BY <3>2 DEF Inv, Progress
    <3> QED
      BY <3>2, <3>3, WrittenStays
  <2>3. /\ records'[l.record] # None /\ records'[l.record].player = row.player
        /\ records'[l.record].loc = row.loc /\ records'[l.record].school = row.school
    BY <1>8, <2>1 DEF Writes, RecordsKeep
  <2>4. ScopeOf(e)' = ScopeOf(e) /\ ScopeOf(e) = delivery[e].batch.scope /\ ActionOf(l)' = ActionOf(l)
    BY <2>2 DEF ScopeOf, ActionOf
  <2>5. MayStillWrite(ScopeOf(e), row.player)
    BY <2>1, <2>2, <2>4, ScopeKept DEF Writes
  <2>6. RowInScope(l)' <=> RowInScope(l)
    BY <2>3, <2>4 DEF RowInScope
  <2> QED
    BY <2>1, <2>3, <2>4, <2>5, <2>6
<1> QED
  BY <1>1, <1>2, <1>4, <1>5, <1>6, <1>7, <1>8 DEF EntrySound

-----------------------------------------------------------------------------
(* What a step writes to the audit log.                                    *)

LEMMA Audited ==
    ASSUME NEW d, NEW record, NEW action, Audit(d, record, action)
    PROVE  /\ sync_log \subseteq sync_log'
           /\ \A l \in sync_log' \ sync_log :
                 l.record = record /\ l.action = action /\ l.by = <<d, delivery[d].next>>
           /\ \A k : k # record \/ action # "insert" => Inserts(k)' = Inserts(k)
<1> DEFINE entry == [record |-> record, action |-> action, by |-> <<d, delivery[d].next>>]
<1>1. sync_log' = sync_log \cup {entry}
  BY DEF Audit
<1>2. entry.record = record /\ entry.action = action /\ entry.by = <<d, delivery[d].next>>
  OBVIOUS
<1> HIDE DEF entry
<1>3. ASSUME NEW k, k # record \/ action # "insert"
      PROVE  Inserts(k)' = Inserts(k)
  BY <1>1, <1>2, <1>3 DEF Inserts
<1> QED
  BY <1>1, <1>2, <1>3

LEMMA InScopeNow ==
    ASSUME Inv, NEW d \in Deliveries, Active(d), NEW status \in Statuses, Writes(d, status),
           \A l \in sync_log' \ sync_log : EntrySound(l)
    PROVE  EntriesInScope'
<1>1. \A l \in sync_log : EntrySound(l)
  BY WritesInv
<1>2. ASSUME NEW l \in sync_log', l.record \in NaturalKeys, l.action # "skip"
      PROVE  /\ records'[l.record] # None
             /\ CanWriteFor(ScopeOf(l.by[1]), records[l.record].player)'
             /\ l.action = "insert" /\ SchoolBound(ActionOf(l)') => RowInScope(l)'
  BY <1>1, <1>2 DEF EntrySound, CanWriteFor, PlayerExists, MayStillWrite
<1> QED
  BY <1>2 DEF EntriesInScope

\* A step that inserts no row of the natural-key tables and of the ledger.
LEMMA QuietInv ==
    ASSUME Inv, NEW d \in Deliveries, Active(d), NEW status \in Statuses, Writes(d, status),
           consents' = consents,
           \A k \in NaturalKeys : records[k] = None => records'[k] = None,
           \A k \in NaturalKeys \cup (Deliveries \X Nat) : Inserts(k)' = Inserts(k),
           \A l \in sync_log' \ sync_log : EntrySound(l)
    PROVE  Inv'
<1>1. EntriesInScope'
  BY InScopeNow
<1>2. InsertedOnce'
  <2>1. ASSUME NEW k \in NaturalKeys
        PROVE  IF records'[k] = None THEN Inserts(k)' = {}
               ELSE \E l \in sync_log' : Inserts(k)' = {l}
    <3>1. records'[k] = None <=> records[k] = None
      BY DEF Writes, RecordsKeep
    <3> QED
      BY <3>1 DEF Inv, InsertedOnce, Writes
  <2>2. ASSUME NEW c \in consents' PROVE \E l \in sync_log' : Inserts(c.id)' = {l}
    <3>1. c \in consents /\ c.id \in Deliveries \X Nat
      BY DEF Inv, Types, ConsentType
    <3> QED
      BY <3>1 DEF Inv, InsertedOnce, Writes
  <2> QED
    BY <2>1, <2>2 DEF InsertedOnce
<1> QED
  BY <1>1, <1>2, WritesInv DEF Inv

\* The same, of a step that leaves the natural-key tables alone.
LEMMA NoRowInv ==
    ASSUME Inv, NEW d \in Deliveries, Active(d), NEW status \in Statuses, Answer(d, status),
           UNCHANGED <<records, consents>>,
           players' \in [DedupKeys -> PlayerType \cup {None}], PlayersGrow,
           \/ sync_log' = sync_log
           \/ \E record, action :
                 /\ Audit(d, record, action)
                 /\ action \in {"skip", "insert"}
                 /\ action = "insert" => record \in DedupKeys
    PROVE  Inv'
<1>1. RecordsKeep /\ records' \in [NaturalKeys -> RecordType \cup {None}]
      /\ consents' \in SUBSET ConsentType
  BY DEF RecordsKeep, Inv, Types
<1>2. CASE sync_log' = sync_log
  <2>1. Writes(d, status)
    BY <1>1, <1>2, AnswerStep DEF Writes
  <2>2. \A k : Inserts(k)' = Inserts(k)
    BY <1>2 DEF Inserts
  <2> QED
    BY <1>2, <2>1, <2>2, QuietInv
<1>3. ASSUME NEW record, NEW action, Audit(d, record, action), action \in {"skip", "insert"},
             action = "insert" => record \in DedupKeys
      PROVE  Inv'
  <2>1. /\ sync_log \subseteq sync_log'
        /\ \A l \in sync_log' \ sync_log :
              l.record = record /\ l.action = action /\ l.by = <<d, delivery[d].next>>
        /\ \A k : k # record \/ action # "insert" => Inserts(k)' = Inserts(k)
    BY <1>3, Audited
  <2>2. Writes(d, status)
    BY <1>1, <1>3, <2>1, AnswerStep DEF Writes
  <2>3. \A k \in NaturalKeys \cup (Deliveries \X Nat) : Inserts(k)' = Inserts(k)
    BY <1>3, <2>1, BatchAssumption
  <2>4. \A l \in sync_log' \ sync_log : EntrySound(l)
    BY <1>3, <2>1, BatchAssumption DEF EntrySound
  <2> QED
    BY <2>2, <2>3, <2>4, QuietInv
<1> QED
  BY <1>2, <1>3

-----------------------------------------------------------------------------
(* One lemma for each action.                                              *)

LEMMA CommitIsActive ==
    ASSUME Inv, NEW d \in Deliveries, delivery[d].pc \in {"next", "commit"}
    PROVE  /\ Active(d) /\ Current(d) \in Actions
           /\ delivery[d].batch \in Batches /\ ScopeOf(d) = delivery[d].batch.scope
  BY ActiveFacts DEF Active, ScopeOf

LEMMA UnansweredInv ==
    ASSUME Inv, NEW d \in Deliveries, RejectAction(d) \/ CommitFails(d)
    PROVE  Inv'
<1>1. PICK status \in {"rejected", "failed"} :
          /\ delivery[d].pc \in {"next", "commit"} /\ Answer(d, status)
          /\ UNCHANGED <<players, records, consents, sync_log>>
  BY DEF RejectAction, CommitFails
<1>2. PlayersGrow /\ players' \in [DedupKeys -> PlayerType \cup {None}]
  BY <1>1 DEF PlayersGrow, Inv, Types
<1> QED
  BY <1>1, <1>2, CommitIsActive, NoRowInv DEF Statuses

LEMMA SkipInv ==
    ASSUME Inv, NEW d \in Deliveries, SkipConsent(d) \/ SkipNatural(d) \/ InsertConflict(d)
    PROVE  Inv'
<1>1. /\ delivery[d].pc = "commit" /\ Answer(d, "skipped") /\ UNCHANGED tables
      /\ \E record : Audit(d, record, "skip")
  BY DEF SkipConsent, SkipNatural, InsertConflict, Writing
<1>2. PlayersGrow /\ players' \in [DedupKeys -> PlayerType \cup {None}]
  BY <1>1 DEF PlayersGrow, Inv, Types, tables
<1>3. "skipped" \in Statuses
  BY DEF Statuses
<1> QED
  BY <1>1, <1>2, <1>3, CommitIsActive, NoRowInv DEF tables

\* The row that resolving a player leaves under the key.
Filled(d, row, new) ==
    LET a == Current(d)
    IN  /\ row # None =>
              /\ new.loc = row.loc
              /\ row.school # None => new.school = row.school
              /\ row.grade # None => new.grade = row.grade
        /\ StampedSchool(ScopeOf(d), a) # None => new.school # None
        /\ (delivery[d].seen # None \/ row = None) /\ a.grade # None => new.grade # None

LEMMA FilledRow ==
    ASSUME Inv, NEW d \in Deliveries, ResolveExistingPlayer(d) \/ InsertPlayer(d)
    PROVE  \E new \in PlayerType :
              /\ players' = [players EXCEPT ![Current(d).key] = new]
              /\ Filled(d, players[Current(d).key], new)
<1> DEFINE a == Current(d)
           scope == ScopeOf(d)
           location == StampedLocation(scope, a)
           school == StampedSchool(scope, a)
           row == players[a.key]
<1>1. delivery[d].pc = "commit" /\ a.entity = "player"
  BY DEF ResolveExistingPlayer, InsertPlayer, Writing
<1>2. a \in Actions /\ delivery[d].batch \in Batches /\ scope = delivery[d].batch.scope
  BY <1>1, CommitIsActive
<1>3. /\ a.key \in DedupKeys /\ location # None
      /\ delivery[d].seen # None => players[a.key] # None
  BY <1>1 DEF Inv, Checked
<1>4. location \in Locations /\ school \in Schools \cup {None} /\ a.grade \in Grades \cup {None}
  <2>1. /\ scope.loc \in Locations \cup {None} /\ scope.school \in Schools \cup {None}
        /\ a.loc \in Locations \cup {None} /\ a.school \in Schools \cup {None}
        /\ a.grade \in Grades \cup {None}
    BY <1>2, BatchAssumption
  <2> QED
    BY <1>3, <2>1 DEF StampedLocation, StampedSchool
<1>5. players \in [DedupKeys -> PlayerType \cup {None}] /\ None \notin PlayerType
  BY TableAssumption DEF Inv, Types
<1> HIDE DEF location, school
<1>6. CASE ResolveExistingPlayer(d)
  <2> DEFINE new == FillGaps(row, d)
  <2>1. row # None /\ players' = [players EXCEPT ![a.key] = new]
    BY <1>3, <1>6 DEF ResolveExistingPlayer
  <2>2. row \in PlayerType
    BY <1>3, <1>5, <2>1
  <2>3. new = [row EXCEPT !.grade = Coalesce(row.grade, a.grade),
                          !.school = Coalesce(row.school, school)]
    BY DEF FillGaps, school
  <2>4. /\ Coalesce(row.grade, a.grade) \in Grades \cup {None}
        /\ Coalesce(row.school, school) \in Schools \cup {None}
    BY <1>4, <2>2 DEF PlayerType, Coalesce
  <2> HIDE DEF new, row
  <2>5. /\ new \in PlayerType /\ new.loc = row.loc
        /\ new.school = Coalesce(row.school, school)
        /\ new.grade = Coalesce(row.grade, a.grade)
    BY <2>2, <2>3, <2>4 DEF PlayerType
  <2>6. Filled(d, row, new)
    BY <2>1, <2>5 DEF Filled, Coalesce, school
  <2> QED
    BY <2>1, <2>5, <2>6 DEF row
<1>7. CASE InsertPlayer(d)
  <2>1. /\ delivery[d].seen = None
        /\ players' = [players EXCEPT ![a.key] =
            IF row = None
            THEN [loc |-> location, school |-> school, grade |-> a.grade]
            ELSE FillSchool(row, school)]
    BY <1>7 DEF InsertPlayer, location, school
  <2>2. CASE row = None
    <3> DEFINE new == [loc |-> location, school |-> school, grade |-> a.grade]
    <3>1. new \in PlayerType
      BY <1>4 DEF PlayerType
    <3>2. players' = [players EXCEPT ![a.key] = new]
      BY <2>1, <2>2
    <3>3. Filled(d, row, new)
      BY <2>2 DEF Filled, school
    <3> HIDE DEF new
    <3> QED
      BY <3>1, <3>2, <3>3
  <2>3. CASE row # None
    <3> DEFINE new == [row EXCEPT !.school = Coalesce(row.school, school)]
    <3>1. row \in PlayerType
      BY <1>3, <1>5, <2>3
    <3>2. Coalesce(row.school, school) \in Schools \cup {None}
      BY <1>4, <3>1 DEF PlayerType, Coalesce
    <3>3. players' = [players EXCEPT ![a.key] = new]
      BY <2>1, <2>3 DEF FillSchool
    <3>4. /\ new \in PlayerType /\ new.loc = row.loc /\ new.grade = row.grade
          /\ new.school = Coalesce(row.school, school)
      <4> HIDE DEF row
      <4> QED
        BY <3>1, <3>2 DEF PlayerType
    <3> HIDE DEF new
    <3>5. Filled(d, row, new)
      BY <2>1, <2>3, <3>4 DEF Filled, Coalesce, school
    <3> QED
      BY <3>3, <3>4, <3>5
  <2> QED
    BY <2>2, <2>3
<1> QED
  BY <1>6, <1>7

\* A player's row is inserted or its gaps are filled.
LEMMA PlayerGrows ==
    ASSUME Inv, NEW d \in Deliveries, ResolveExistingPlayer(d) \/ InsertPlayer(d)
    PROVE  /\ Current(d).key \in DedupKeys
           /\ PlayersGrow /\ players' \in [DedupKeys -> PlayerType \cup {None}]
<1>1. PICK a : a = Current(d)
  OBVIOUS
<1>2. a.key \in DedupKeys
  BY <1>1 DEF ResolveExistingPlayer, InsertPlayer, Writing, Inv, Checked
<1>3. PICK new \in PlayerType :
        players' = [players EXCEPT ![a.key] = new] /\ Filled(d, players[a.key], new)
  BY <1>1, FilledRow
<1>4. players[a.key] # None =>
        /\ new.loc = players[a.key].loc
        /\ players[a.key].school # None => new.school = players[a.key].school
  BY <1>3 DEF Filled
<1> QED
  BY <1>1, <1>2, <1>3, <1>4, TableAssumption DEF PlayersGrow, Inv, Types

LEMMA PlayerInv ==
    ASSUME Inv, NEW d \in Deliveries, ResolveExistingPlayer(d) \/ InsertPlayer(d)
    PROVE  Inv'
<1> DEFINE a == Current(d)
<1>1. delivery[d].pc = "commit" /\ UNCHANGED <<records, consents>>
  BY DEF ResolveExistingPlayer, InsertPlayer, Writing
<1>2. Active(d)
  BY <1>1, CommitIsActive
<1>3. a.key \in DedupKeys /\ PlayersGrow /\ players' \in [DedupKeys -> PlayerType \cup {None}]
  BY PlayerGrows
<1>4. \E status \in Statuses, action \in {"skip", "insert"} :
          Answer(d, status) /\ Audit(d, a.key, action)
  BY DEF ResolveExistingPlayer, InsertPlayer, Statuses
<1> QED
  BY <1>1, <1>2, <1>3, <1>4, NoRowInv

LEMMA InsertEntry ==
    ASSUME NEW d, NEW record, Audit(d, record, "insert")
    PROVE  \E l \in sync_log' : Inserts(record)' = Inserts(record) \cup {l}
<1> DEFINE entry == [record |-> record, action |-> "insert", by |-> <<d, delivery[d].next>>]
<1>1. sync_log' = sync_log \cup {entry} /\ entry.record = record /\ entry.action = "insert"
  BY DEF Audit
<1> HIDE DEF entry
<1>2. Inserts(record)' = Inserts(record) \cup {entry}
  BY <1>1 DEF Inserts
<1> QED
  BY <1>1, <1>2

\* A consent is appended under an id that nothing has yet.
LEMMA AppendConsentInv ==
    ASSUME Inv, NEW d \in Deliveries, AppendConsent(d)
    PROVE  Inv'
<1> DEFINE a == Current(d)
<1>0. PICK id : id = <<d, delivery[d].next>>
  OBVIOUS
<1> DEFINE row == [id |-> id, client |-> a.client, player |-> a.player]
<1>1. /\ delivery[d].pc = "commit" /\ Audit(d, id, "insert") /\ Answer(d, "applied")
      /\ consents' = consents \cup {row} /\ UNCHANGED <<players, records>>
  BY <1>0 DEF AppendConsent, Writing
<1>2. Active(d) /\ a \in Actions /\ "applied" \in Statuses /\ delivery[d].next \in Nat
  BY <1>1, CommitIsActive, ActiveFacts DEF Statuses
<1>3. row \in ConsentType /\ row.id = id /\ id \in Deliveries \X Nat
  <2>1. /\ id \in Deliveries \X Nat /\ a.client \in Int
        /\ a.player \in {x.player : x \in Actions}
    BY <1>0, <1>2, BatchAssumption
  <2> HIDE DEF a
  <2> QED
    BY <2>1 DEF ConsentType
<1>4. Audit(d, id, "insert") /\ consents' = consents \cup {row}
  BY <1>1
<1>5. id[1] = d /\ id[2] = delivery[d].next
  BY <1>0
<1> HIDE DEF row
<1>6. /\ sync_log \subseteq sync_log'
      /\ \A l \in sync_log' \ sync_log : l.record = id /\ l.action = "insert" /\ l.by = id
      /\ \A k : k # id => Inserts(k)' = Inserts(k)
  BY <1>0, <1>4, Audited
<1>7. \E l \in sync_log' : Inserts(id)' = Inserts(id) \cup {l}
  BY <1>4, InsertEntry
<1>8. Writes(d, "applied")
  <2>1. /\ PlayersGrow /\ RecordsKeep
        /\ players' \in [DedupKeys -> PlayerType \cup {None}]
        /\ records' \in [NaturalKeys -> RecordType \cup {None}]
        /\ consents' \in SUBSET ConsentType
    BY <1>1, <1>3, <1>4 DEF PlayersGrow, RecordsKeep, Inv, Types
  <2>2. Answered(d, "applied")
    BY <1>1, <1>2, AnswerStep
  <2> QED
    BY <1>0, <1>1, <1>3, <1>4, <1>6, <2>1, <2>2 DEF Writes
<1>9. Inserts(id) = {}
  <2> SUFFICES ASSUME NEW l \in sync_log, l.record = id, l.action = "insert"
               PROVE  FALSE
    BY DEF Inserts
  <2>1. WrittenBefore(l)
    BY DEF Inv
  <2>2. l.by = id
    BY <1>3, <2>1, BatchAssumption DEF WrittenBefore
  <2> QED
    BY <1>2, <1>5, <2>1, <2>2 DEF WrittenBefore
<1>10. \A c \in consents : c.id # id /\ c.id \in Deliveries \X Nat
  <2> SUFFICES ASSUME NEW c \in consents
               PROVE  c.id # id /\ c.id \in Deliveries \X Nat
    OBVIOUS
  <2>1. AppendedBefore(c) /\ c.id \in Deliveries \X Nat
    BY DEF Inv, Types, ConsentType
  <2> QED
    BY <1>2, <1>5, <2>1 DEF AppendedBefore
<1>11. InsertedOnce'
  <2>1. ASSUME NEW k \in NaturalKeys
        PROVE  IF records'[k] = None THEN Inserts(k)' = {}
               ELSE \E l \in sync_log' : Inserts(k)' = {l}
    <3>1. k # id
      BY <1>3, BatchAssumption
    <3> QED
      BY <1>1, <1>6, <3>1 DEF Inv, InsertedOnce
  <2>2. ASSUME NEW c \in consents' PROVE \E l \in sync_log' : Inserts(c.id)' = {l}
    <3>1. CASE c \in consents
      BY <1>6, <1>10, <3>1 DEF Inv, InsertedOnce
    <3>2. CASE c = row
      BY <1>3, <1>7, <1>9, <3>2
    <3> QED
      BY <1>4, <3>1, <3>2
  <2> QED
    BY <2>1, <2>2 DEF InsertedOnce
<1>12. \A l \in sync_log' \ sync_log : EntrySound(l)
  BY <1>3, <1>6, BatchAssumption DEF EntrySound
<1> QED
  BY <1>2, <1>8, <1>11, <1>12, InScopeNow, WritesInv DEF Inv

\* What the entry of a written row says is in scope.
LEMMA WrittenRowInScope ==
    ASSUME Inv, NEW d \in Deliveries, Active(d), Answered(d, "applied"), PlayersGrow,
           CanWriteFor(ScopeOf(d), Current(d).player),
           NEW l, l.by = <<d, delivery[d].next>>, l.record = Current(d).key,
           records'[Current(d).key] # None,
           records'[Current(d).key].player = Current(d).player,
           l.action = "insert" /\ SchoolBound(Current(d)) =>
               CanWrite(ScopeOf(d), records'[Current(d).key].loc,
                        records'[Current(d).key].school)
    PROVE  EntrySound(l)
<1>1. l.by[1] = d /\ l.by[2] = delivery[d].next
  OBVIOUS
<1>2. ScopeOf(l.by[1])' = ScopeOf(d) /\ ActionOf(l)' = Current(d)
  BY <1>1 DEF ScopeOf, ActionOf, Current, Answered
<1>3. MayStillWrite(ScopeOf(d), Current(d).player)
  <2>1. delivery[d].batch \in Batches /\ ScopeOf(d) = delivery[d].batch.scope
    BY ActiveFacts DEF ScopeOf
  <2> QED
    BY <2>1, ScopeKept
<1> QED
  BY <1>2, <1>3 DEF EntrySound, RowInScope

\* The row that an insert puts under a key.
LEMMA InsertedRow ==
    ASSUME Inv, NEW d \in Deliveries, InsertNatural(d)
    PROVE  \E row \in RecordType :
              /\ records' = [records EXCEPT ![Current(d).key] = row]
              /\ row.player = Current(d).player /\ row.loc = players[Current(d).player].loc
              /\ row.school = delivery[d].school
              /\ row.ts = Current(d).ts /\ row.client = Current(d).client
              /\ row.value = Current(d).value
<1> DEFINE a == Current(d)
           row == [player |-> a.player, loc |-> players[a.player].loc,
                   school |-> delivery[d].school, ts |-> a.ts, client |-> a.client,
                   value |-> a.value, reference |-> Stored(a.reference)]
<1>1. /\ delivery[d].pc = "commit" /\ a.entity \in NaturalEntities
      /\ records' = [records EXCEPT ![a.key] = row]
  BY DEF InsertNatural, Writing
<1>2. a \in Actions
  BY <1>1, CommitIsActive
<1>3. a.player \in DedupKeys /\ players[a.player].loc \in Locations
  <2>1. CanWriteFor(ScopeOf(d), a.player)
    BY <1>1 DEF Inv, Checked
  <2> QED
    BY <2>1 DEF CanWriteFor, PlayerExists, Inv, Types, PlayerType
<1>4. delivery[d].school \in Schools \cup {None}
  BY DEF Inv, Types, DeliveryType
<1>5. /\ a.ts \in Int /\ a.client \in Int /\ a.value \in {x.value : x \in Actions}
      /\ Stored(a.reference) \in {x.reference : x \in Actions} \cup {None}
  BY <1>2, BatchAssumption DEF Stored
<1>6. /\ row \in RecordType
      /\ row.player = a.player /\ row.loc = players[a.player].loc
      /\ row.school = delivery[d].school
      /\ row.ts = a.ts /\ row.client = a.client /\ row.value = a.value
  BY <1>3, <1>4, <1>5 DEF RecordType
<1> HIDE DEF row
<1> QED
  BY <1>1, <1>6

\* The first row of a key: one insert entry, in the scope of its writer.
LEMMA InsertNaturalInv ==
    ASSUME Inv, NEW d \in Deliveries, InsertNatural(d)
    PROVE  Inv'
<1>0. PICK a, scope : a = Current(d) /\ scope = ScopeOf(d)
  OBVIOUS
<1>1. /\ delivery[d].pc = "commit" /\ a.entity \in NaturalEntities
      /\ records[a.key] = None
      /\ Audit(d, a.key, "insert") /\ Answer(d, "applied") /\ UNCHANGED <<players, consents>>
  BY <1>0 DEF InsertNatural, Writing
<1>2. Active(d) /\ a \in Actions /\ "applied" \in Statuses
  BY <1>0, <1>1, CommitIsActive DEF Statuses
<1>3. /\ CanWriteFor(scope, a.player)
      /\ SchoolBound(a) => CanWrite(scope, players[a.player].loc, delivery[d].school)
  BY <1>0, <1>1 DEF Inv, Checked
<1>4. a.key \in NaturalKeys
  BY <1>1, <1>2, BatchAssumption
<1>5. PICK row \in RecordType :
        /\ records' = [records EXCEPT ![a.key] = row]
        /\ row.player = a.player /\ row.loc = players[a.player].loc
        /\ row.school = delivery[d].school
        /\ row.ts = a.ts /\ row.client = a.client /\ row.value = a.value
  BY <1>0, InsertedRow
<1>6. row # None
  BY TableAssumption
<1>7. records'[a.key] = row /\ \A k \in NaturalKeys \ {a.key} : records'[k] = records[k]
  BY <1>4, <1>5 DEF Inv, Types
<1>8. /\ sync_log \subseteq sync_log'
      /\ \A l \in sync_log' \ sync_log :
            l.record = a.key /\ l.action = "insert" /\ l.by = <<d, delivery[d].next>>
      /\ \A k : k # a.key => Inserts(k)' = Inserts(k)
  BY <1>1, Audited
<1>9. \E l \in sync_log' : Inserts(a.key)' = Inserts(a.key) \cup {l}
  BY <1>1, InsertEntry
<1>10. Answered(d, "applied") /\ PlayersGrow
  BY <1>1, <1>2, AnswerStep DEF PlayersGrow
<1>11. Writes(d, "applied")
  <2>1. /\ RecordsKeep
        /\ players' \in [DedupKeys -> PlayerType \cup {None}]
        /\ records' \in [NaturalKeys -> RecordType \cup {None}]
        /\ consents' \in SUBSET ConsentType
    BY <1>1, <1>5, <1>7 DEF RecordsKeep, Inv, Types
  <2>2. \A k \in NaturalKeys : records'[k] # records[k] => RowWritten(k, Current(d))
    BY <1>0, <1>1, <1>5, <1>7 DEF RowWritten
  <2> QED
    BY <1>1, <1>4, <1>8, <1>10, <2>1, <2>2 DEF Writes
<1>12. InsertedOnce'
  <2>1. ASSUME NEW k \in NaturalKeys
        PROVE  IF records'[k] = None THEN Inserts(k)' = {}
               ELSE \E l \in sync_log' : Inserts(k)' = {l}
    <3>1. CASE k = a.key
      <4>1. Inserts(a.key) = {}
        BY <1>1, <1>4 DEF Inv, InsertedOnce
      <4> QED
        BY <1>6, <1>7, <1>9, <3>1, <4>1
    <3>2. CASE k # a.key
      BY <1>7, <1>8, <3>2 DEF Inv, InsertedOnce
    <3> QED
      BY <3>1, <3>2
  <2>2. ASSUME NEW c \in consents' PROVE \E l \in sync_log' : Inserts(c.id)' = {l}
    <3>1. c \in consents /\ c.id \in Deliveries \X Nat
      BY <1>1 DEF Inv, Types, ConsentType
    <3>2. c.id # a.key
      BY <1>4, <3>1, BatchAssumption
    <3> QED
      BY <1>8, <3>1, <3>2 DEF Inv, InsertedOnce
  <2> QED
    BY <2>1, <2>2 DEF InsertedOnce
<1>13. ASSUME NEW l \in sync_log' \ sync_log PROVE EntrySound(l)
  <2>1. l.by = <<d, delivery[d].next>> /\ l.record = a.key
    BY <1>8
  <2> QED
    BY <1>0, <1>2, <1>3, <1>5, <1>6, <1>7, <1>10, <2>1, WrittenRowInScope
<1> QED
  BY <1>2, <1>11, <1>12, <1>13, InScopeNow, WritesInv DEF Inv

\* The row that an update leaves under a key.
LEMMA UpdatedRow ==
    ASSUME Inv, NEW d \in Deliveries, UpdateNatural(d)
    PROVE  \E row \in RecordType :
              /\ records' = [records EXCEPT ![Current(d).key] = row]
              /\ row.player = Current(d).player
              /\ row.loc = records[Current(d).key].loc
              /\ row.school = records[Current(d).key].school
              /\ row.ts = Current(d).ts /\ row.client = Current(d).client
              /\ row.value = Current(d).value
<1> DEFINE a == Current(d)
           old == records[a.key]
           reference == IF a.reference = Omitted THEN old.reference ELSE a.reference
           row == [old EXCEPT !.ts = a.ts, !.client = a.client, !.value = a.value,
                              !.reference = reference]
<1>1. /\ delivery[d].pc = "commit" /\ a.entity \in NaturalEntities /\ delivery[d].seen # None
  BY DEF UpdateNatural, Writing
<1>2. a \in Actions
  BY <1>1, CommitIsActive
<1>3. old # None
  BY <1>1 DEF Inv, Checked
<1>4. a.key \in NaturalKeys /\ a \in NaturalActions
  BY <1>1, <1>2, BatchAssumption DEF NaturalActions
<1>5. old \in RecordType /\ old.player = a.player
  <2> HIDE DEF a
  <2> QED
    BY <1>3, <1>4 DEF Inv, Types, KeyNamesPlayer
<1>6. records' = [records EXCEPT ![a.key] = row]
  BY <1>4, <1>5 DEF UpdateNatural, Inv, Types, RecordType
<1>7. /\ row \in RecordType
      /\ row.player = old.player /\ row.loc = old.loc /\ row.school = old.school
      /\ row.ts = a.ts /\ row.client = a.client /\ row.value = a.value
  <2> DEFINE values == {x.value : x \in Actions}
             references == {x.reference : x \in Actions} \cup {None}
             schools == Schools \cup {None}
  <2>1. a.ts \in Int /\ a.client \in Int /\ a.value \in values /\ a.reference \in references
    BY <1>2, BatchAssumption
  <2>2. old \in [player : DedupKeys, loc : Locations, school : schools, ts : Int,
                 client : Int, value : values, reference : references]
    BY <1>5 DEF RecordType
  <2> HIDE DEF a, old, values, references, schools
  <2>3. reference \in references
    BY <2>1, <2>2
  <2> HIDE DEF reference
  <2>4. /\ row \in [player : DedupKeys, loc : Locations, school : schools, ts : Int,
                    client : Int, value : values, reference : references]
        /\ row.player = old.player /\ row.loc = old.loc /\ row.school = old.school
        /\ row.ts = a.ts /\ row.client = a.client /\ row.value = a.value
    BY <2>1, <2>2, <2>3
  <2> QED
    BY <2>4 DEF RecordType, values, references, schools
<1> HIDE DEF row
<1> QED
  BY <1>5, <1>6, <1>7

\* An update, also of a row that another delivery has written since.
LEMMA UpdateNaturalInv ==
    ASSUME Inv, NEW d \in Deliveries, UpdateNatural(d)
    PROVE  Inv'
<1>0. PICK a, scope : a = Current(d) /\ scope = ScopeOf(d)
  OBVIOUS
<1> DEFINE old == records[a.key]
<1>1. /\ delivery[d].pc = "commit" /\ a.entity \in NaturalEntities
      /\ delivery[d].seen # None
      /\ Audit(d, a.key, "update") /\ Answer(d, "applied") /\ UNCHANGED <<players, consents>>
  BY <1>0 DEF UpdateNatural, Writing
<1>2. Active(d) /\ a \in Actions /\ "applied" \in Statuses
  BY <1>0, <1>1, CommitIsActive DEF Statuses
<1>3. CanWriteFor(scope, a.player) /\ old # None
  BY <1>0, <1>1 DEF Inv, Checked
<1>4. a.key \in NaturalKeys /\ a \in NaturalActions
  BY <1>1, <1>2, BatchAssumption DEF NaturalActions
<1>5. old.player = a.player
  BY <1>3, <1>4 DEF Inv, KeyNamesPlayer
<1>6. PICK row \in RecordType :
        /\ records' = [records EXCEPT ![a.key] = row]
        /\ row.player = a.player /\ row.loc = old.loc /\ row.school = old.school
        /\ row.ts = a.ts /\ row.client = a.client /\ row.value = a.value
  BY <1>0, UpdatedRow
<1>7. row.player = old.player
  BY <1>5, <1>6
<1>8. row # None
  BY TableAssumption
<1>9. records'[a.key] = row /\ \A k \in NaturalKeys \ {a.key} : records'[k] = records[k]
  BY <1>4, <1>6 DEF Inv, Types
<1>10. /\ sync_log \subseteq sync_log'
       /\ \A l \in sync_log' \ sync_log :
             l.record = a.key /\ l.action = "update" /\ l.by = <<d, delivery[d].next>>
       /\ \A k : Inserts(k)' = Inserts(k)
  BY <1>1, Audited
<1>11. Answered(d, "applied") /\ PlayersGrow
  BY <1>1, <1>2, AnswerStep DEF PlayersGrow
<1>12. Writes(d, "applied")
  <2>1. /\ RecordsKeep
        /\ players' \in [DedupKeys -> PlayerType \cup {None}]
        /\ records' \in [NaturalKeys -> RecordType \cup {None}]
        /\ consents' \in SUBSET ConsentType
    BY <1>1, <1>6, <1>7, <1>8, <1>9 DEF RecordsKeep, Inv, Types
  <2>2. \A k \in NaturalKeys : records'[k] # records[k] => RowWritten(k, Current(d))
    BY <1>0, <1>1, <1>6, <1>9 DEF RowWritten
  <2> QED
    BY <1>1, <1>10, <1>11, <2>1, <2>2 DEF Writes
<1>13. ASSUME NEW l \in sync_log' \ sync_log PROVE EntrySound(l)
  <2>1. l.by = <<d, delivery[d].next>> /\ l.record = a.key /\ l.action # "insert"
    BY <1>10
  <2> QED
    BY <1>0, <1>2, <1>3, <1>6, <1>8, <1>9, <1>11, <2>1, WrittenRowInScope
<1>14. \A k \in NaturalKeys : records[k] = None => records'[k] = None
  BY <1>3, <1>9
<1> QED
  BY <1>1, <1>2, <1>10, <1>12, <1>13, <1>14, QuietInv

\* A step of a delivery that writes nothing and answers nothing.
LEMMA ReadingInv ==
    ASSUME Inv, UNCHANGED <<players, records, consents, sync_log>>,
           delivery' \in [Deliveries -> DeliveryType],
           \A e \in Deliveries :
              /\ delivery'[e].results = delivery[e].results
              /\ delivery[e].pc # "idle" =>
                    /\ delivery'[e].pc # "idle" /\ delivery'[e].batch = delivery[e].batch
                    /\ delivery'[e].next = delivery[e].next
              /\ Progress(delivery'[e]) /\ Checked(e)'
    PROVE  Inv'
<1>1. Types' /\ KeyNamesPlayer'
  BY DEF Inv, Types, KeyNamesPlayer
<1>2. ASSUME NEW l \in sync_log' PROVE WrittenBefore(l)'
  <2>1. WrittenBefore(l)
    BY DEF Inv
  <2> QED
    BY <2>1 DEF WrittenBefore
<1>3. ASSUME NEW c \in consents' PROVE AppendedBefore(c)'
  <2>1. AppendedBefore(c) /\ c.id \in Deliveries \X Nat
    BY DEF Inv, Types, ConsentType
  <2> QED
    BY <2>1 DEF AppendedBefore
<1>4. InsertedOnce'
  BY DEF Inv, InsertedOnce, Inserts
<1>5. EntriesInScope'
  <2> SUFFICES ASSUME NEW l \in sync_log, l.record \in NaturalKeys, l.action # "skip"
               PROVE  (/\ records[l.record] # None
                       /\ CanWriteFor(ScopeOf(l.by[1]), records[l.record].player)
                       /\ l.action = "insert" /\ SchoolBound(ActionOf(l)) => RowInScope(l))'
    BY DEF EntriesInScope
  <2>1. WrittenBefore(l)
    BY DEF Inv
  <2>2. ScopeOf(l.by[1])' = ScopeOf(l.by[1]) /\ ActionOf(l)' = ActionOf(l)
    BY <2>1 DEF WrittenBefore, ScopeOf, ActionOf
  <2> QED
    BY <2>2 DEF Inv, EntriesInScope, CanWriteFor, PlayerExists, RowInScope
<1>6. \A x : x \in Landed => x \in Landed'
  <2> SUFFICES ASSUME NEW x \in Landed
               PROVE  x \in Landed'
    OBVIOUS
  <2>1. PICK e \in Deliveries : \E i \in DOMAIN delivery[e].results :
                  /\ delivery[e].results[i] \in {"applied", "skipped"}
                  /\ x = delivery[e].batch.actions[i]
    BY LandedBy
  <2>2. delivery[e].pc # "idle"
    <3>1. delivery[e].pc = "idle" => DOMAIN delivery[e].results = {}
      BY DEF Inv, Progress
    <3> QED
      BY <2>1, <3>1
  <2>3. \E i \in DOMAIN delivery'[e].results :
                  /\ delivery'[e].results[i] \in {"applied", "skipped"}
                  /\ x = delivery'[e].batch.actions[i]
    BY <2>1, <2>2
  <2> QED
    BY <2>3, LandedByNext
<1>7. NoTornRow'
  <2> SUFFICES ASSUME NEW k \in NaturalKeys, records[k] # None
               PROVE  \E a \in LandedOn(k)' :
                          /\ records[k].ts = a.ts
                          /\ records[k].client = a.client
                          /\ records[k].value = a.value
    BY DEF NoTornRow
  <2>1. PICK a \in LandedOn(k) : /\ records[k].ts = a.ts
                                 /\ records[k].client = a.client
                                 /\ records[k].value = a.value
    BY DEF Inv, NoTornRow
  <2>2. a \in LandedOn(k)'
    BY <1>6, <2>1 DEF LandedOn
  <2> QED
    BY <2>1, <2>2
<1> QED
  BY <1>1, <1>2, <1>3, <1>4, <1>5, <1>7 DEF Inv

LEMMA ReceiveInv ==
    ASSUME Inv, NEW d \in Deliveries, NEW b \in Batches, Receive(d, b)
    PROVE  Inv'
<1> DEFINE me == delivery[d]
           new == [me EXCEPT !.pc = "next", !.batch = b, !.next = 1]
<1>1. /\ me.pc = "idle" /\ delivery' = [delivery EXCEPT ![d] = new]
      /\ UNCHANGED <<players, records, consents, sync_log>>
  BY DEF Receive, Inv, Types, DeliveryType
<1>2. me \in DeliveryType /\ delivery \in [Deliveries -> DeliveryType]
  BY DEF Inv, Types
<1>3. me.results = <<>>
  BY <1>1 DEF Inv, Progress
<1> HIDE DEF me
<1>4. /\ new \in DeliveryType
      /\ new.pc = "next" /\ new.batch = b /\ new.next = 1 /\ new.results = me.results
  <2> DEFINE rows == PlayerType \cup RecordType \cup ConsentType \cup {None}
             schools == Schools \cup {None}
             owners == Batches \cup {None}
  <2>1. me \in [pc : {"idle", "next", "commit", "done"}, batch : owners, next : Nat,
                seen : rows, school : schools, results : Seq(Statuses)] /\ b \in owners
    BY <1>2 DEF DeliveryType
  <2> HIDE DEF rows, schools, owners
  <2>2. /\ new \in [pc : {"idle", "next", "commit", "done"}, batch : owners, next : Nat,
                    seen : rows, school : schools, results : Seq(Statuses)]
        /\ new.pc = "next" /\ new.batch = b /\ new.next = 1 /\ new.results = me.results
    BY <2>1
  <2> QED
    BY <2>2 DEF DeliveryType, rows, schools, owners
<1> HIDE DEF new
<1>5. Progress(new)
  <2>1. Len(b.actions) \in Nat \ {0}
    BY BatchFacts
  <2>2. Len(new.results) = 0
    BY <1>3, <1>4
  <2>3. 1 \in 1 .. Len(b.actions)
    BY <2>1
  <2> QED
    BY <1>4, <2>2, <2>3 DEF Progress
<1>6. /\ delivery' \in [Deliveries -> DeliveryType] /\ delivery'[d] = new
      /\ \A e \in Deliveries \ {d} : delivery'[e] = delivery[e]
  BY <1>1, <1>2, <1>4
<1>7. ASSUME NEW e \in Deliveries
      PROVE  /\ delivery'[e].results = delivery[e].results
             /\ delivery[e].pc # "idle" =>
                   /\ delivery'[e].pc # "idle" /\ delivery'[e].batch = delivery[e].batch
                   /\ delivery'[e].next = delivery[e].next
             /\ Progress(delivery'[e]) /\ Checked(e)'
  <2>1. CASE e = d
    BY <1>1, <1>4, <1>5, <1>6, <2>1 DEF Checked, me
  <2>2. CASE e # d
    <3>1. delivery'[e] = delivery[e]
      BY <1>6, <2>2
    <3>2. PlayersGrow /\ RecordsKeep
      BY <1>1 DEF PlayersGrow, RecordsKeep
    <3> QED
      BY <3>1, <3>2, ChecksKept DEF Inv
  <2> QED
    BY <2>1, <2>2
<1> QED
  BY <1>1, <1>6, <1>7, ReadingInv

\* The row that a look-up reads is a row of the action's table.
LEMMA LookupType ==
    ASSUME Inv, NEW a \in Actions, NEW b \in Batches, Accepts(b.scope, a)
    PROVE  /\ Lookup(a) \in PlayerType \cup RecordType \cup ConsentType \cup {None}
           /\ a.entity = "player" =>
                 a.key \in DedupKeys /\ StampedLocation(b.scope, a) # None
                 /\ (Lookup(a) # None => players[a.key] # None)
           /\ a.entity = "consent" => Lookup(a) \in ConsentType \cup {None}
           /\ a.entity \in NaturalEntities => Lookup(a) = records[a.key]
<1>1. a.entity \in ValidEntities
  BY DEF Accepts
<1>2. CASE a.entity = "player"
  <2>1. a.key \in DedupKeys /\ StampedLocation(b.scope, a) # None
    BY <1>2, BatchAssumption DEF Accepts, AcceptsPlayer
  <2>2. Lookup(a) = players[a.key] /\ a.entity \notin NaturalEntities
    BY <1>2 DEF Lookup, NaturalEntities
  <2>3. players[a.key] \in PlayerType \cup {None}
    BY <2>1 DEF Inv, Types
  <2> QED
    BY <1>2, <2>1, <2>2, <2>3
<1>3. CASE a.entity = "consent"
  <2>1. Lookup(a) = (IF ConsentOf(a) = {} THEN None ELSE CHOOSE c \in ConsentOf(a) : TRUE)
        /\ a.entity \notin NaturalEntities
    BY <1>3 DEF Lookup, NaturalEntities
  <2>2. ConsentOf(a) # {} => (CHOOSE c \in ConsentOf(a) : TRUE) \in ConsentOf(a)
    OBVIOUS
  <2>3. ConsentOf(a) \subseteq ConsentType
    BY DEF ConsentOf, Inv, Types
  <2> QED
    BY <1>3, <2>1, <2>2, <2>3
<1>4. CASE a.entity \in NaturalEntities
  <2>1. a.entity # "player" /\ a.entity # "consent"
    BY <1>4 DEF NaturalEntities
  <2>2. Lookup(a) = records[a.key]
    BY <2>1 DEF Lookup
  <2>3. records[a.key] \in RecordType \cup {None}
    BY <1>4, BatchAssumption DEF Inv, Types
  <2> QED
    BY <2>1, <2>2, <2>3
<1> QED
  BY <1>1, <1>2, <1>3, <1>4 DEF ValidEntities

\* What LookUp does, without the updates of a record.
LookedUp(d) ==
    /\ delivery' \in [Deliveries -> DeliveryType]
    /\ \A e \in Deliveries \ {d} : delivery'[e] = delivery[e]
    /\ delivery[d].pc = "next" /\ delivery'[d].pc = "commit"
    /\ delivery'[d].batch = delivery[d].batch
    /\ delivery'[d].next = delivery[d].next
    /\ delivery'[d].results = delivery[d].results
    /\ delivery'[d].seen = Lookup(Current(d))
    /\ delivery'[d].school = IF Current(d).entity \in NaturalEntities
                             THEN EffectiveSchool(Current(d)) ELSE None
    /\ UNCHANGED <<players, records, consents, sync_log>>

LEMMA LookUpStep ==
    ASSUME Inv, NEW d \in Deliveries, LookUp(d)
    PROVE  LookedUp(d)
<1> DEFINE me == delivery[d]
           a == Current(d)
           seen == Lookup(a)
           school == IF a.entity \in NaturalEntities THEN EffectiveSchool(a) ELSE None
           new == [me EXCEPT !.pc = "commit", !.seen = seen, !.school = school]
<1>1. /\ me.pc = "next" /\ Accepts(ScopeOf(d), a)
      /\ UNCHANGED <<players, records, consents, sync_log>>
  BY DEF LookUp
<1>2. a \in Actions /\ me.batch \in Batches /\ ScopeOf(d) = me.batch.scope
  BY <1>1, CommitIsActive
<1>3. seen \in PlayerType \cup RecordType \cup ConsentType \cup {None}
  BY <1>1, <1>2, LookupType
<1>4. school \in Schools \cup {None}
  <2>1. a.school \in Schools \cup {None}
    BY <1>2, BatchAssumption
  <2>2. a.entity \in NaturalEntities => players[a.player].school \in Schools \cup {None}
    BY <1>1 DEF Accepts, AcceptsNatural, CanWriteFor, PlayerExists, Inv, Types, PlayerType
  <2> QED
    BY <2>1, <2>2 DEF EffectiveSchool
<1>5. me \in DeliveryType /\ delivery \in [Deliveries -> DeliveryType]
  BY DEF Inv, Types
<1>6. delivery' = [delivery EXCEPT ![d] = new]
  BY <1>5 DEF LookUp, DeliveryType
<1>7. /\ new \in DeliveryType
      /\ new.pc = "commit" /\ new.batch = me.batch /\ new.next = me.next
      /\ new.results = me.results /\ new.seen = seen /\ new.school = school
  <2> DEFINE rows == PlayerType \cup RecordType \cup ConsentType \cup {None}
             schools == Schools \cup {None}
             owners == Batches \cup {None}
  <2>1. me \in [pc : {"idle", "next", "commit", "done"}, batch : owners, next : Nat,
                seen : rows, school : schools, results : Seq(Statuses)]
        /\ seen \in rows /\ school \in schools
    BY <1>3, <1>4, <1>5 DEF DeliveryType
  <2> HIDE DEF rows, schools, owners, me, seen, school
  <2>2. /\ new \in [pc : {"idle", "next", "commit", "done"}, batch : owners, next : Nat,
                    seen : rows, school : schools, results : Seq(Statuses)]
        /\ new.pc = "commit" /\ new.batch = me.batch /\ new.next = me.next
        /\ new.results = me.results /\ new.seen = seen /\ new.school = school
    BY <2>1
  <2> QED
    BY <2>2 DEF DeliveryType, rows, schools, owners
<1> HIDE DEF new
<1>8. /\ delivery' \in [Deliveries -> DeliveryType] /\ delivery'[d] = new
      /\ \A e \in Deliveries \ {d} : delivery'[e] = delivery[e]
  BY <1>5, <1>6, <1>7
<1> QED
  BY <1>1, <1>7, <1>8 DEF LookedUp

LEMMA LookUpInv ==
    ASSUME Inv, NEW d \in Deliveries, LookUp(d)
    PROVE  Inv'
<1>1. LookedUp(d)
  BY LookUpStep
<1> DEFINE a == Current(d)
           scope == ScopeOf(d)
<1>2. delivery[d].pc = "next" /\ Accepts(scope, a)
  BY DEF LookUp
<1>3. a \in Actions /\ delivery[d].batch \in Batches /\ scope = delivery[d].batch.scope
  BY <1>2, CommitIsActive
<1>4. /\ a.entity = "player" =>
            a.key \in DedupKeys /\ StampedLocation(scope, a) # None
            /\ (Lookup(a) # None => players[a.key] # None)
      /\ a.entity = "consent" => Lookup(a) \in ConsentType \cup {None}
      /\ a.entity \in NaturalEntities => Lookup(a) = records[a.key]
  BY <1>2, <1>3, LookupType
<1>5. a.entity \in NaturalEntities =>
          /\ CanWriteFor(scope, a.player)
          /\ SchoolBound(a) => CanWrite(scope, players[a.player].loc, EffectiveSchool(a))
  BY <1>2 DEF Accepts, AcceptsNatural, SchoolBound
<1>6. Current(d)' = a /\ ScopeOf(d)' = scope
  BY <1>1 DEF LookedUp, Current, ScopeOf
<1> HIDE DEF a, scope
<1>7. /\ delivery'[d].seen = Lookup(a)
      /\ a.entity \in NaturalEntities => delivery'[d].school = EffectiveSchool(a)
      /\ players' = players /\ records' = records
  BY <1>1 DEF LookedUp, a
<1>8. Checked(d)'
  BY <1>4, <1>5, <1>6, <1>7
     DEF Checked, CanWriteFor, PlayerExists, SchoolBound, StampedLocation
<1>9. Progress(delivery'[d])
  <2>1. Progress(delivery[d])
    BY DEF Inv
  <2> QED
    BY <1>1, <2>1 DEF LookedUp, Progress
<1>10. PlayersGrow /\ RecordsKeep
  BY <1>1 DEF LookedUp, PlayersGrow, RecordsKeep
<1>11. ASSUME NEW e \in Deliveries
       PROVE  /\ delivery'[e].results = delivery[e].results
              /\ delivery[e].pc # "idle" =>
                    /\ delivery'[e].pc # "idle" /\ delivery'[e].batch = delivery[e].batch
                    /\ delivery'[e].next = delivery[e].next
              /\ Progress(delivery'[e]) /\ Checked(e)'
  <2>1. CASE e = d
    BY <1>1, <1>8, <1>9, <2>1 DEF LookedUp
  <2>2. CASE e # d
    <3>1. delivery'[e] = delivery[e]
      BY <1>1, <2>2 DEF LookedUp
    <3> QED
      BY <1>10, <3>1, ChecksKept DEF Inv
  <2> QED
    BY <2>1, <2>2
<1> QED
  BY <1>1, <1>11, ReadingInv DEF LookedUp

LEMMA StutterInv ==
    ASSUME Inv, UNCHANGED vars
    PROVE  Inv'
<1>1. UNCHANGED <<players, records, consents, sync_log, delivery>>
  BY DEF vars
<1>2. PlayersGrow /\ RecordsKeep
  BY <1>1 DEF PlayersGrow, RecordsKeep
<1>3. ASSUME NEW e \in Deliveries PROVE Progress(delivery'[e]) /\ Checked(e)'
  BY <1>1, <1>2, ChecksKept DEF Inv
<1>4. delivery' \in [Deliveries -> DeliveryType]
  BY <1>1 DEF Inv, Types
<1> QED
  BY <1>1, <1>3, <1>4, ReadingInv

LEMMA InitInv == Init => Inv
<1> SUFFICES ASSUME Init
             PROVE  Inv
  OBVIOUS
<1>1. \A d \in Deliveries : delivery[d] = NewDelivery
  BY DEF Init
<1>2. NewDelivery \in DeliveryType
  <2> DEFINE rows == PlayerType \cup RecordType \cup ConsentType \cup {None}
             schools == Schools \cup {None}
             owners == Batches \cup {None}
  <2>1. None \in rows /\ None \in schools /\ None \in owners /\ <<>> \in Seq(Statuses)
    OBVIOUS
  <2> HIDE DEF rows, schools, owners
  <2>2. NewDelivery \in [pc : {"idle", "next", "commit", "done"}, batch : owners, next : Nat,
                         seen : rows, school : schools, results : Seq(Statuses)]
    BY <2>1 DEF NewDelivery
  <2> QED
    BY <2>2 DEF DeliveryType, rows, schools, owners
<1>3. Types
  BY <1>2, TableAssumption DEF Init, Types
<1>4. \A d \in Deliveries : Progress(delivery[d]) /\ Checked(d)
  BY <1>1 DEF NewDelivery, Progress, Checked
<1>5. \A k \in NaturalKeys : records[k] = None
  BY DEF Init
<1>6. KeyNamesPlayer
  BY <1>5, BatchAssumption DEF KeyNamesPlayer, NaturalActions
<1>7. InsertedOnce
  BY <1>5 DEF Init, InsertedOnce, Inserts
<1>8. EntriesInScope /\ NoTornRow
  BY <1>5 DEF Init, EntriesInScope, NoTornRow
<1> QED
  BY <1>3, <1>4, <1>6, <1>7, <1>8 DEF Inv, Init

LEMMA NextInv ==
    ASSUME Inv, [Next]_vars
    PROVE  Inv'
<1>1. CASE UNCHANGED vars
  BY <1>1, StutterInv
<1>2. ASSUME NEW d \in Deliveries, NEW b \in Batches, Receive(d, b) PROVE Inv'
  BY <1>2, ReceiveInv
<1>3. ASSUME NEW d \in Deliveries, RejectAction(d) \/ LookUp(d) \/ Commit(d) PROVE Inv'
  <2>1. CASE RejectAction(d) \/ CommitFails(d)
    BY <2>1, UnansweredInv
  <2>2. CASE LookUp(d)
    BY <2>2, LookUpInv
  <2>3. CASE ResolveExistingPlayer(d) \/ InsertPlayer(d)
    BY <2>3, PlayerInv
  <2>4. CASE SkipConsent(d) \/ SkipNatural(d) \/ InsertConflict(d)
    BY <2>4, SkipInv
  <2>5. CASE AppendConsent(d)
    BY <2>5, AppendConsentInv
  <2>6. CASE InsertNatural(d)
    BY <2>6, InsertNaturalInv
  <2>7. CASE UpdateNatural(d)
    BY <2>7, UpdateNaturalInv
  <2> QED
    BY <1>3, <2>1, <2>2, <2>3, <2>4, <2>5, <2>6, <2>7 DEF Commit
<1> QED
  BY <1>1, <1>2, <1>3 DEF Next, Terminating

-----------------------------------------------------------------------------
(* The theorems.                                                           *)

\* Every row and request has its type, a request has one result for each action
\* handled, and the checks of the named parts above hold.
THEOREM Inductive == Spec => []Inv
<1>1. Init => Inv
  BY InitInv
<1>2. Inv /\ [Next]_vars => Inv'
  BY NextInv
<1> QED
  BY <1>1, <1>2, PTL DEF Spec

\* However many deliveries write a key at once, a row is written by one action.
THEOREM RowsAreWhole == Spec => []NoTornRow
<1>1. Inv => NoTornRow
  BY DEF Inv
<1> QED
  BY <1>1, Inductive, PTL

\* Who wrote a row may write for its player, for every caller and every order.
THEOREM WritersStayInScope == Spec => []WrittenInScope
<1>1. Inv => WrittenInScope
  BY DEF Inv, EntriesInScope, WrittenInScope
<1> QED
  BY <1>1, Inductive, PTL

\* A row of a natural-key table or of the ledger has one entry that inserts it.
THEOREM OneInsertPerRow == Spec => []InsertAuditedOnce
<1>1. Inv => InsertAuditedOnce
  <2> SUFFICES ASSUME Inv, NEW k \in NaturalKeys \cup {c.id : c \in consents}
               PROVE  Cardinality(Inserts(k)) =
                          IF k \in NaturalKeys /\ records[k] = None THEN 0 ELSE 1
    BY DEF InsertAuditedOnce, Inserts
  <2>1. CASE k \in NaturalKeys /\ records[k] = None
    <3>1. Inserts(k) = {}
      BY <2>1 DEF Inv, InsertedOnce
    <3> QED
      BY <2>1, <3>1, FS_EmptySet
  <2>2. CASE ~(k \in NaturalKeys /\ records[k] = None)
    <3>1. PICK l \in sync_log : Inserts(k) = {l}
      BY <2>2 DEF Inv, InsertedOnce
    <3> QED
      BY <2>2, <3>1, FS_Singleton
  <2> QED
    BY <2>1, <2>2
<1> QED
  BY <1>1, Inductive, PTL

-----------------------------------------------------------------------------
(* The audited ledger of the load layer.                                   *)

\* The rows of the natural-key tables and of the ledger of consents, and what
\* sync_log says of them.  A row of players is left out: two deliveries may both
\* audit it as inserted, and rows are there before the first delivery.
LedgerRecords == NaturalKeys \cup (Deliveries \X Nat)

Entered == {k \in NaturalKeys : records[k] # None} \cup {c.id : c \in consents}

Entries(e) == {l \in sync_log : <<l.record, l.action>> = e}

Journalled == {<<l.record, l.action>> : l \in {m \in sync_log : m.record \in LedgerRecords}}

Journal == [e \in Journalled |-> Cardinality(Entries(e))]

\* These keys have one writer at a time: no row is contested.
Ledger == INSTANCE AuditedLedger
            WITH Shared <- {}, entered <- Entered, journal <- Journal, contested <- {}

\* What is audited is there, and a consent that was looked up stays.
Booked ==
    /\ IsFiniteSet(sync_log)
    /\ \A l \in sync_log : l.record \in LedgerRecords => l.record \in Entered
    /\ \A d \in Deliveries :
          delivery[d].pc = "commit" /\ Current(d).entity = "consent" =>
              delivery[d].seen \in consents \cup {None}

\* What a step does to the books: rows stay, and an entry is added at most.
Keeps ==
    /\ consents \subseteq consents'
    /\ \A k \in NaturalKeys : records[k] # None => records'[k] # None
    /\ \/ sync_log' = sync_log
       \/ \E l : /\ sync_log' = sync_log \cup {l}
                 /\ l.record \in LedgerRecords => l.record \in Entered'

\* What Audit adds.
LEMMA OneEntry ==
    ASSUME NEW d, NEW record, NEW action, Audit(d, record, action),
           record \in LedgerRecords => record \in Entered'
    PROVE  \E l : /\ sync_log' = sync_log \cup {l}
                  /\ l.record \in LedgerRecords => l.record \in Entered'
<1> DEFINE entry == [record |-> record, action |-> action, by |-> <<d, delivery[d].next>>]
<1>1. sync_log' = sync_log \cup {entry} /\ entry.record = record
  BY DEF Audit
<1> HIDE DEF entry
<1> QED
  BY <1>1

\* A commit keeps the books in order.
LEMMA CommitKeeps ==
    ASSUME Inv, Booked, NEW d \in Deliveries, Commit(d)
    PROVE  Keeps
<1>1. PICK a : a = Current(d)
  OBVIOUS
<1>2. CASE CommitFails(d)
  BY <1>2 DEF CommitFails, Keeps
<1>3. CASE ResolveExistingPlayer(d) \/ InsertPlayer(d)
  <2>1. UNCHANGED <<records, consents>> /\ \E action : Audit(d, a.key, action)
    BY <1>1, <1>3 DEF ResolveExistingPlayer, InsertPlayer
  <2>2. a.key \in DedupKeys
    BY <1>1, <1>3, PlayerGrows
  <2>3. a.key \notin LedgerRecords
    BY <2>2, BatchAssumption DEF LedgerRecords
  <2> QED
    BY <2>1, <2>3, OneEntry DEF Keeps
<1>4. CASE SkipConsent(d)
  <2>1. PICK c : c = delivery[d].seen
    OBVIOUS
  <2>2. UNCHANGED <<players, records, consents>> /\ Audit(d, c.id, "skip")
    BY <1>4, <2>1 DEF SkipConsent, tables
  <2>3. c \in consents
    BY <1>4, <2>1 DEF SkipConsent, Writing, Booked
  <2>4. c.id \in Entered'
    BY <2>2, <2>3 DEF Entered
  <2> QED
    BY <2>2, <2>4, OneEntry DEF Keeps
<1>5. CASE AppendConsent(d)
  <2>1. PICK id : id = <<d, delivery[d].next>>
    OBVIOUS
  <2>2. PICK row : row = [id |-> id, client |-> a.client, player |-> a.player]
    OBVIOUS
  <2>3. /\ records' = records /\ consents' = consents \cup {row} /\ Audit(d, id, "insert")
    BY <1>1, <1>5, <2>1, <2>2 DEF AppendConsent
  <2>4. row \in consents' /\ row.id = id
    BY <2>2, <2>3
  <2>5. id \in Entered'
    BY <2>4 DEF Entered
  <2> QED
    BY <2>3, <2>5, OneEntry DEF Keeps
<1>6. CASE InsertNatural(d) \/ UpdateNatural(d)
  <2>1. PICK row \in RecordType : records' = [records EXCEPT ![a.key] = row]
    BY <1>1, <1>6, InsertedRow, UpdatedRow
  <2>2. /\ consents' = consents /\ delivery[d].pc = "commit" /\ a.entity \in NaturalEntities
        /\ \E action : Audit(d, a.key, action)
    BY <1>1, <1>6 DEF InsertNatural, UpdateNatural, Writing
  <2>3. a.key \in NaturalKeys
    BY <1>1, <2>2, CommitIsActive, BatchAssumption
  <2>4. records'[a.key] = row /\ \A k \in NaturalKeys \ {a.key} : records'[k] = records[k]
    BY <2>1, <2>3 DEF Inv, Types
  <2>5. row # None
    BY TableAssumption
  <2>6. a.key \in Entered'
    BY <2>3, <2>4, <2>5 DEF Entered
  <2> QED
    BY <2>2, <2>4, <2>5, <2>6, OneEntry DEF Keeps
<1>7. CASE InsertConflict(d) \/ SkipNatural(d)
  <2>1. /\ UNCHANGED <<records, consents>> /\ Audit(d, a.key, "skip")
        /\ delivery[d].pc = "commit" /\ a.entity \in NaturalEntities
        /\ records[a.key] # None \/ delivery[d].seen # None
    BY <1>1, <1>7 DEF InsertConflict, SkipNatural, Writing, tables
  <2>2. a.key \in NaturalKeys
    BY <1>1, <2>1, CommitIsActive, BatchAssumption
  <2>3. records[a.key] # None
    BY <1>1, <2>1 DEF Inv, Checked
  <2>4. a.key \in Entered'
    BY <2>1, <2>2, <2>3 DEF Entered
  <2> QED
    BY <2>1, <2>4, OneEntry DEF Keeps
<1> QED
  BY <1>2, <1>3, <1>4, <1>5, <1>6, <1>7 DEF Commit

\* So does every other step, which writes nothing.
LEMMA NextKeeps ==
    ASSUME Inv, Booked, [Next]_vars
    PROVE  Keeps
<1>1. CASE UNCHANGED vars
  BY <1>1 DEF vars, Keeps
<1>2. ASSUME NEW d \in Deliveries, NEW b \in Batches, Receive(d, b) PROVE Keeps
  BY <1>2 DEF Receive, Keeps
<1>3. ASSUME NEW d \in Deliveries, RejectAction(d) \/ LookUp(d) PROVE Keeps
  BY <1>3 DEF RejectAction, LookUp, Keeps
<1>4. ASSUME NEW d \in Deliveries, Commit(d) PROVE Keeps
  BY <1>4, CommitKeeps
<1> QED
  BY <1>1, <1>2, <1>3, <1>4 DEF Next, Terminating

\* What a look-up found is still looked up until the action is committed.
LEMMA NextSees ==
    ASSUME Inv, Booked, [Next]_vars, NEW d \in Deliveries,
           delivery'[d].pc = "commit", Current(d)'.entity = "consent"
    PROVE  delivery'[d].seen \in consents' \cup {None}
<1>1. consents \subseteq consents'
  BY NextKeeps DEF Keeps
<1>2. CASE delivery'[d] = delivery[d]
  <2>1. Current(d)' = Current(d)
    BY <1>2 DEF Current
  <2> QED
    BY <1>1, <1>2, <2>1 DEF Booked
<1>3. CASE LookUp(d)
  <2>1. LookedUp(d)
    BY <1>3, LookUpStep
  <2>2. PICK a : a = Current(d)
    OBVIOUS
  <2>3. Current(d)' = a
    BY <2>1, <2>2 DEF LookedUp, Current
  <2>4. delivery'[d].seen = IF ConsentOf(a) = {} THEN None ELSE CHOOSE c \in ConsentOf(a) : TRUE
    BY <2>1, <2>2, <2>3 DEF LookedUp, Lookup
  <2>5. delivery'[d].seen \in ConsentOf(a) \cup {None}
    BY <2>4
  <2> QED
    BY <1>1, <2>5 DEF ConsentOf
<1>4. ASSUME NEW b \in Batches, Receive(d, b) PROVE FALSE
  <2>1. /\ delivery[d] \in DeliveryType /\ delivery \in [Deliveries -> DeliveryType]
        /\ delivery' = [delivery EXCEPT ![d].pc = "next", ![d].batch = b, ![d].next = 1]
    BY <1>4 DEF Receive, Inv, Types
  <2>2. delivery'[d].pc = "next"
    BY <2>1 DEF DeliveryType
  <2> QED
    BY <2>2
<1>5. ASSUME RejectAction(d) \/ Commit(d) PROVE FALSE
  <2>1. PICK status \in Statuses : Answer(d, status) /\ delivery[d].pc \in {"next", "commit"}
    BY <1>5 DEF RejectAction, Commit, CommitFails, ResolveExistingPlayer, InsertPlayer,
       SkipConsent, AppendConsent, InsertNatural, InsertConflict, UpdateNatural, SkipNatural,
       Writing, Statuses
  <2>2. Answered(d, status)
    BY <2>1, CommitIsActive, AnswerStep
  <2> QED
    BY <2>2 DEF Answered
<1>6. ASSUME NEW e \in Deliveries \ {d},
             RejectAction(e) \/ LookUp(e) \/ Commit(e) \/ \E b \in Batches : Receive(e, b)
      PROVE  delivery'[d] = delivery[d]
  <2>1. CASE LookUp(e)
    BY <2>1, LookUpStep DEF LookedUp
  <2>2. CASE \E b \in Batches : Receive(e, b)
    BY <2>2 DEF Receive, Inv, Types
  <2>3. CASE RejectAction(e) \/ Commit(e)
    <3>1. PICK status \in Statuses : Answer(e, status) /\ delivery[e].pc \in {"next", "commit"}
      BY <2>3 DEF RejectAction, Commit, CommitFails, ResolveExistingPlayer, InsertPlayer,
         SkipConsent, AppendConsent, InsertNatural, InsertConflict, UpdateNatural, SkipNatural,
         Writing, Statuses
    <3>2. Answered(e, status)
      BY <3>1, CommitIsActive, AnswerStep
    <3> QED
      BY <3>2 DEF Answered
  <2> QED
    BY <1>6, <2>1, <2>2, <2>3
<1>7. CASE UNCHANGED vars
  BY <1>2, <1>7 DEF vars
<1> QED
  BY <1>2, <1>3, <1>4, <1>5, <1>6, <1>7 DEF Next, Terminating

\* What is audited stays there.
LEMMA NextBooked ==
    ASSUME Inv, Booked, [Next]_vars
    PROVE  Booked'
<1>1. Keeps
  BY NextKeeps
<1>2. \A k \in Entered : k \in Entered'
  BY <1>1 DEF Keeps, Entered
<1>3. IsFiniteSet(sync_log') /\ \A l \in sync_log' : l.record \in LedgerRecords => l.record \in Entered'
  <2>1. CASE sync_log' = sync_log
    BY <1>2, <2>1 DEF Booked
  <2>2. ASSUME NEW l, sync_log' = sync_log \cup {l}, l.record \in LedgerRecords => l.record \in Entered'
        PROVE  /\ IsFiniteSet(sync_log')
               /\ \A m \in sync_log' : m.record \in LedgerRecords => m.record \in Entered'
    <3>1. IsFiniteSet(sync_log')
      BY <2>2, FS_AddElement DEF Booked
    <3> QED
      BY <1>2, <2>2, <3>1 DEF Booked
  <2> QED
    BY <1>1, <2>1, <2>2 DEF Keeps
<1> QED
  BY <1>3, NextSees DEF Booked

\* The books agree with the ledger: the entries of a pair are as many as the bag has.
LEMMA TimesAre ==
    ASSUME Booked, NEW k \in LedgerRecords, NEW action
    PROVE  Ledger!Times(<<k, action>>) = Cardinality(Entries(<<k, action>>))
<1>1. PICK e : e = <<k, action>>
  OBVIOUS
<1>2. CASE e \in Journalled
  BY <1>1, <1>2 DEF Ledger!Times, Journal
<1>3. CASE e \notin Journalled
  <2>1. Entries(e) = {}
    BY <1>1, <1>3 DEF Entries, Journalled
  <2>2. DOMAIN Journal = Journalled
    BY DEF Journal
  <2> QED
    BY <1>1, <1>3, <2>1, <2>2, FS_EmptySet DEF Ledger!Times
<1> QED
  BY <1>2, <1>3

\* Every row of the books has one insert entry, and no row has none.
LEMMA InsertsAre ==
    ASSUME Inv, Booked, NEW k \in LedgerRecords
    PROVE  Ledger!Inserts(k) = IF k \in Entered THEN 1 ELSE 0
<1>1. Entries(<<k, "insert">>) = Inserts(k)
  BY DEF Entries, Inserts
<1>2. Ledger!Inserts(k) = Cardinality(Inserts(k))
  BY <1>1, TimesAre DEF Ledger!Inserts
<1>3. CASE k \in Entered
  <2>1. \E l \in sync_log : Inserts(k) = {l}
    BY <1>3 DEF Entered, Inv, InsertedOnce
  <2> QED
    BY <1>2, <1>3, <2>1, FS_Singleton
<1>4. CASE k \notin Entered
  <2>1. Inserts(k) = {}
    BY <1>4 DEF Inserts, Booked
  <2> QED
    BY <1>2, <1>4, <2>1, FS_EmptySet
<1> QED
  BY <1>3, <1>4

\* What the books hold, in a form that can be said of the next state as well.
BooksBalance ==
    /\ \A k \in LedgerRecords : Ledger!Inserts(k) = IF k \in Entered THEN 1 ELSE 0
    /\ \A k \in LedgerRecords : \A l \in sync_log :
          Ledger!Times(<<k, l.action>>) = Cardinality(Entries(<<k, l.action>>))

\* The books balance in every state.
LEMMA Balanced == Inv /\ Booked => BooksBalance
  BY TimesAre, InsertsAre DEF BooksBalance

\* A step of the service is a transaction of the ledger, or changes no book.
LEMMA StepCommits ==
    ASSUME Inv, Booked, Inv', Booked', Keeps
    PROVE  Ledger!Commit
<1>1. sync_log \subseteq sync_log' /\ Entered \subseteq Entered'
  BY DEF Keeps, Entered
<1>2. Entered' \subseteq LedgerRecords
  BY DEF Inv, Types, ConsentType, Entered, LedgerRecords
<1>6. BooksBalance'
  <2>1. Inv' /\ Booked' => BooksBalance'
    BY Balanced, PTL
  <2> QED
    BY <2>1
<1>3. ASSUME NEW k \in Entered'
      PROVE  /\ k \in Entered => Ledger!Inserts(k)' = Ledger!Inserts(k)
             /\ k \notin Entered => Ledger!Inserts(k)' = Ledger!Inserts(k) + 1
  <2>1. k \in LedgerRecords
    BY <1>2
  <2>2. Ledger!Inserts(k) = IF k \in Entered THEN 1 ELSE 0
    BY <2>1, InsertsAre
  <2>3. Ledger!Inserts(k)' = 1
    BY <1>6, <2>1 DEF BooksBalance
  <2> QED
    BY <2>2, <2>3
<1>4. ASSUME NEW e \in DOMAIN Journal PROVE Ledger!Times(e) =< Ledger!Times(e)'
  <2>1. PICK k \in LedgerRecords, l \in sync_log : e = <<k, l.action>>
    BY DEF Journal, Journalled
  <2>2. Ledger!Times(e) = Cardinality(Entries(e)) /\ Ledger!Times(e)' = Cardinality(Entries(e)')
    BY <1>1, <1>6, <2>1, Balanced DEF BooksBalance
  <2>3. Entries(e) \subseteq Entries(e)' /\ IsFiniteSet(Entries(e)')
    <3>1. Entries(e)' \subseteq sync_log' /\ IsFiniteSet(sync_log')
      BY DEF Entries, Booked
    <3>2. Entries(e) \subseteq Entries(e)'
      BY <1>1 DEF Entries
    <3> QED
      BY <3>1, <3>2, FS_Subset
  <2> QED
    BY <2>2, <2>3, FS_Subset
<1>5. ASSUME NEW e \in DOMAIN Journal' PROVE e[1] \in Entered'
  <2>1. PICK l \in sync_log' : l.record \in LedgerRecords /\ e = <<l.record, l.action>>
    BY DEF Journal, Journalled
  <2> QED
    BY <2>1 DEF Booked
<1> QED
  BY <1>1, <1>3, <1>4, <1>5 DEF Ledger!Commit

\* POST /sync implements the audited ledger of the load layer for natural-key rows
\* and consents, however many deliveries are served at a time: each transaction
\* enters new rows, audits each of them as inserted once, and takes no entry back
\* (_apply_natural_key, append_consent, append_sync_log).
THEOREM ServiceImplementsLedger == Spec => Ledger!Spec
<1>1. Init => Ledger!Init
  <2> SUFFICES ASSUME Init PROVE Ledger!Init
    OBVIOUS
  <2>1. Entered = {} /\ Journalled = {}
    BY DEF Init, Entered, Journalled
  <2> QED
    BY <2>1 DEF Ledger!Init, Journal
<1>2. Init => Booked
  <2> SUFFICES ASSUME Init PROVE Booked
    OBVIOUS
  <2>1. IsFiniteSet(sync_log) /\ sync_log = {}
    BY FS_EmptySet DEF Init
  <2>2. \A d \in Deliveries : delivery[d].pc = "idle"
    BY DEF Init, NewDelivery
  <2> QED
    BY <2>1, <2>2 DEF Booked
<1>3. Inv /\ Booked /\ [Next]_vars => Inv' /\ Booked' /\ [Ledger!Commit]_<<Entered, Journal, {}>>
  BY NextInv, NextBooked, NextKeeps, StepCommits
<1> QED
  BY <1>1, <1>2, <1>3, InitInv, PTL DEF Spec, Ledger!Spec

-----------------------------------------------------------------------------
(* One delivery at a time: last write wins.                                *)

LEMMA LandedActions ==
    ASSUME Inv
    PROVE  Landed \subseteq Actions
<1> SUFFICES ASSUME NEW x \in Landed
             PROVE  x \in Actions
  OBVIOUS
<1>1. PICK e \in Deliveries : \E i \in DOMAIN delivery[e].results :
                                 x = delivery[e].batch.actions[i]
  BY LandedBy
<1>2. PICK i \in DOMAIN delivery[e].results : x = delivery[e].batch.actions[i]
  BY <1>1
<1>3. Progress(delivery[e]) /\ delivery[e].results \in Seq(Statuses)
      /\ delivery[e].pc \in {"idle", "next", "commit", "done"}
  BY DEF Inv, Types, DeliveryType
<1>4. i \in 1 .. Len(delivery[e].results) /\ Len(delivery[e].results) \in Nat
  BY <1>2, <1>3
<1>5. delivery[e].pc # "idle"
  BY <1>3, <1>4 DEF Progress
<1>6. delivery[e].batch \in Batches
  BY <1>3, <1>5 DEF Progress
<1>7. i \in 1 .. Len(delivery[e].batch.actions)
  <2>1. Len(delivery[e].batch.actions) \in Nat
    BY <1>6, BatchFacts
  <2> QED
    BY <1>3, <1>4, <1>5, <2>1 DEF Progress
<1> QED
  BY <1>2, <1>6, <1>7, BatchFacts

\* A request that arrives or looks a row up lands nothing.
LEMMA NothingLands ==
    ASSUME \A e \in Deliveries :
              /\ delivery'[e].results = delivery[e].results
              /\ delivery[e].results # <<>> => delivery'[e].batch = delivery[e].batch
    PROVE  \A k : LandedOn(k)' = LandedOn(k)
<1>1. ASSUME NEW x PROVE x \in Landed' <=> x \in Landed
  <2>1. \A e \in Deliveries : \A i \in DOMAIN delivery[e].results :
            delivery'[e].batch = delivery[e].batch
    <3> SUFFICES ASSUME NEW e \in Deliveries, NEW i \in DOMAIN delivery[e].results
                 PROVE  delivery[e].results # <<>>
      OBVIOUS
    <3>1. DOMAIN <<>> = {}
      OBVIOUS
    <3> QED
      BY <3>1
  <2> QED
    BY <2>1, LandedBy, LandedByNext
<1> QED
  BY <1>1 DEF LandedOn

\* A step that answers the current action lands it or nothing.
LEMMA LandsOn ==
    ASSUME Inv, NEW d \in Deliveries, Active(d), NEW status \in Statuses, Answered(d, status)
    PROVE  \A k : LandedOn(k)' =
              IF /\ status \in {"applied", "skipped"}
                 /\ Current(d).entity \in NaturalEntities /\ Current(d).key = k
              THEN LandedOn(k) \cup {Current(d)} ELSE LandedOn(k)
<1>1. \A x : x \in Landed' <=>
               x \in Landed \/ (status \in {"applied", "skipped"} /\ x = Current(d))
  BY LandedStep
<1> QED
  BY <1>1 DEF LandedOn

LEMMA SerialStep ==
    ASSUME Inv, Serial, NEW d \in Deliveries, Active(d), NEW status \in Statuses,
           Answered(d, status),
           \A k \in NaturalKeys :
              IF records'[k] = None THEN LandedOn(k)' = {}
              ELSE HoldsLatest(records'[k], LandedOn(k)')
    PROVE  Serial'
<1>1. ASSUME NEW e \in Deliveries, Active(e)' PROVE e = d
  BY <1>1 DEF Serial, Active, Answered
<1>2. delivery'[d].pc # "commit"
  BY DEF Answered
<1>3. \A e \in Deliveries : delivery'[e].pc = "commit" => FALSE
  BY <1>1, <1>2 DEF Active
<1>4. ASSUME NEW e \in Deliveries, NEW f \in Deliveries, Active(e)', Active(f)' PROVE e = f
  BY <1>1, <1>4
<1> QED
  BY <1>3, <1>4 DEF Serial, HoldsLatest, Later

\* An answer that lands nothing on the natural-key tables and writes none.
LEMMA SerialQuiet ==
    ASSUME Inv, Serial, NEW d \in Deliveries, Active(d), NEW status \in Statuses,
           Answer(d, status), UNCHANGED records,
           status \in {"applied", "skipped"} => Current(d).entity \notin NaturalEntities
    PROVE  Serial'
<1>1. Answered(d, status)
  BY AnswerStep
<1>2. \A k : LandedOn(k)' = LandedOn(k)
  BY <1>1, LandsOn
<1> QED
  BY <1>1, <1>2, SerialStep DEF Serial

LEMMA SerialInsert ==
    ASSUME Inv, Serial, NEW d \in Deliveries, InsertNatural(d)
    PROVE  Serial'
<1>1. PICK a : a = Current(d)
  OBVIOUS
<1>2. /\ delivery[d].pc = "commit" /\ a.entity \in NaturalEntities
      /\ records[a.key] = None /\ Answer(d, "applied")
  BY <1>1 DEF InsertNatural, Writing
<1>3. Active(d) /\ a \in Actions /\ "applied" \in Statuses /\ a.key \in NaturalKeys
  BY <1>1, <1>2, CommitIsActive, BatchAssumption DEF Statuses
<1>4. Answered(d, "applied")
  BY <1>2, <1>3, AnswerStep
<1>5. \A k : LandedOn(k)' = IF a.key = k THEN LandedOn(k) \cup {a} ELSE LandedOn(k)
  BY <1>1, <1>2, <1>3, <1>4, LandsOn
<1>6. PICK row \in RecordType :
        /\ records' = [records EXCEPT ![a.key] = row]
        /\ row.ts = a.ts /\ row.client = a.client /\ row.value = a.value
  BY <1>1, InsertedRow
<1>7. records'[a.key] = row /\ \A k \in NaturalKeys \ {a.key} : records'[k] = records[k]
  BY <1>3, <1>6 DEF Inv, Types
<1>8. ASSUME NEW k \in NaturalKeys
      PROVE  IF records'[k] = None THEN LandedOn(k)' = {}
             ELSE HoldsLatest(records'[k], LandedOn(k)')
  <2>1. CASE k = a.key
    <3>1. LandedOn(k)' = {a}
      BY <1>2, <1>3, <1>5, <2>1 DEF Serial
    <3> QED
      BY <1>6, <1>7, <2>1, <3>1, TableAssumption DEF HoldsLatest
  <2>2. CASE k # a.key
    <3>1. records'[k] = records[k] /\ LandedOn(k)' = LandedOn(k)
      BY <1>5, <1>7, <2>2
    <3> QED
      BY <3>1 DEF Serial
  <2> QED
    BY <2>1, <2>2
<1> QED
  BY <1>3, <1>4, <1>8, SerialStep

\* The row of a key against an action that comes next.
LEMMA LaterWins ==
    ASSUME NEW landed, landed \subseteq NaturalActions, NEW a \in NaturalActions, NEW row,
           NEW k, \A b \in landed \cup {a} : b.key = k,
           HoldsLatest(row, landed)
    PROVE  /\ ~PrefersIncoming(a, row) => HoldsLatest(row, landed \cup {a})
           /\ PrefersIncoming(a, row) =>
                 \A new : new.ts = a.ts /\ new.client = a.client /\ new.value = a.value =>
                     HoldsLatest(new, landed \cup {a})
<1>1. PICK top \in landed :
        /\ row.ts = top.ts /\ row.client = top.client /\ row.value = top.value
        /\ \A b \in landed \ {top} : Later(top, b)
  BY DEF HoldsLatest
<1>2. \A b \in landed \cup {a} : b.ts \in Int /\ b.client \in Int
  BY BatchAssumption DEF NaturalActions
<1>3. \A b \in landed \cup {a} : b.ts = a.ts /\ b.client = a.client => b = a
  BY BatchAssumption
<1>4. ASSUME ~PrefersIncoming(a, row)
      PROVE  HoldsLatest(row, landed \cup {a})
  <2>1. top = a \/ Later(top, a)
    BY <1>1, <1>2, <1>3, <1>4 DEF PrefersIncoming, Later
  <2> QED
    BY <1>1, <2>1 DEF HoldsLatest
<1>5. ASSUME PrefersIncoming(a, row)
      PROVE  \A b \in landed \ {a} : Later(a, b)
  <2>1. Later(a, top)
    BY <1>1, <1>5 DEF PrefersIncoming, Later
  <2>2. ASSUME NEW b \in landed \ {a} PROVE Later(a, b)
    <3>1. CASE b = top
      BY <2>1, <3>1
    <3>2. CASE b # top
      <4>1. Later(top, b)
        BY <1>1, <3>2
      <4> QED
        BY <1>2, <2>1, <4>1 DEF Later
    <3> QED
      BY <3>1, <3>2
  <2> QED
    BY <2>2
<1>6. ASSUME PrefersIncoming(a, row), NEW new, new.ts = a.ts, new.client = a.client,
             new.value = a.value
      PROVE  HoldsLatest(new, landed \cup {a})
  BY <1>5, <1>6 DEF HoldsLatest
<1> QED
  BY <1>4, <1>6

\* The key was seen with a row: the action updates it or is skipped.
LEMMA SerialMeets ==
    ASSUME Inv, Serial, NEW d \in Deliveries, UpdateNatural(d) \/ SkipNatural(d)
    PROVE  Serial'
<1>1. PICK a : a = Current(d)
  OBVIOUS
<1> DEFINE row == records[a.key]
           L(k) == LandedOn(k)
<1>2. /\ delivery[d].pc = "commit" /\ a.entity \in NaturalEntities
      /\ delivery[d].seen # None
  BY <1>1 DEF UpdateNatural, SkipNatural, Writing
<1>3. Active(d) /\ a \in Actions /\ a.key \in NaturalKeys /\ a \in NaturalActions
  BY <1>1, <1>2, CommitIsActive, BatchAssumption DEF NaturalActions
<1>4. PICK status \in {"applied", "skipped"} : Answer(d, status)
  BY DEF UpdateNatural, SkipNatural
<1>5. status \in Statuses /\ Answered(d, status)
  BY <1>3, <1>4, AnswerStep DEF Statuses
<1>6. \A k : LandedOn(k)' = IF a.key = k THEN LandedOn(k) \cup {a} ELSE LandedOn(k)
  BY <1>1, <1>2, <1>3, <1>4, <1>5, LandsOn
<1>7. delivery[d].seen = row /\ row # None
  <2>1. a.entity # "player" /\ a.entity # "consent"
    BY <1>2 DEF NaturalEntities
  <2> QED
    BY <1>1, <1>2, <2>1 DEF Serial, Lookup
<1>8. HoldsLatest(row, LandedOn(a.key))
  BY <1>3, <1>7 DEF Serial
<1>9. LandedOn(a.key) \subseteq NaturalActions
      /\ \A b \in LandedOn(a.key) \cup {a} : b.key = a.key
  BY LandedActions DEF LandedOn, NaturalActions
<1>10. /\ ~PrefersIncoming(a, row) => HoldsLatest(row, LandedOn(a.key) \cup {a})
       /\ PrefersIncoming(a, row) =>
             \A new : new.ts = a.ts /\ new.client = a.client /\ new.value = a.value =>
                 HoldsLatest(new, LandedOn(a.key) \cup {a})
  BY <1>3, <1>8, <1>9, LaterWins
<1>11. /\ HoldsLatest(records'[a.key], LandedOn(a.key) \cup {a}) /\ records'[a.key] # None
       /\ \A k \in NaturalKeys \ {a.key} : records'[k] = records[k]
  <2>1. CASE UpdateNatural(d)
    <3>1. PrefersIncoming(a, row)
      BY <1>1, <1>7, <2>1 DEF UpdateNatural
    <3>2. PICK new \in RecordType :
            /\ records' = [records EXCEPT ![a.key] = new]
            /\ new.ts = a.ts /\ new.client = a.client /\ new.value = a.value
      BY <1>1, <2>1, UpdatedRow
    <3>3. records'[a.key] = new /\ \A k \in NaturalKeys \ {a.key} : records'[k] = records[k]
      BY <1>3, <3>2 DEF Inv, Types
    <3> QED
      BY <1>10, <3>1, <3>2, <3>3, TableAssumption
  <2>2. CASE SkipNatural(d)
    BY <1>1, <1>7, <1>10, <2>2 DEF SkipNatural, tables
  <2> QED
    BY <2>1, <2>2
<1>12. ASSUME NEW k \in NaturalKeys
       PROVE  IF records'[k] = None THEN LandedOn(k)' = {}
              ELSE HoldsLatest(records'[k], LandedOn(k)')
  <2>1. CASE k = a.key
    BY <1>6, <1>11, <2>1
  <2>2. CASE k # a.key
    BY <1>6, <1>11, <2>2 DEF Serial
  <2> QED
    BY <2>1, <2>2
<1> QED
  BY <1>3, <1>5, <1>12, SerialStep

\* Nothing was inserted since the look-up.
LEMMA NoConflict ==
    ASSUME Serial, NEW d \in Deliveries
    PROVE  ~InsertConflict(d)
<1> SUFFICES ASSUME InsertConflict(d)
             PROVE  FALSE
  OBVIOUS
<1>1. /\ delivery[d].pc = "commit" /\ Current(d).entity \in NaturalEntities
      /\ delivery[d].seen = None /\ records[Current(d).key] # None
  BY DEF InsertConflict, Writing
<1>2. Current(d).entity # "player" /\ Current(d).entity # "consent"
  BY <1>1 DEF NaturalEntities
<1> QED
  BY <1>1, <1>2 DEF Serial, Lookup

LEMMA SerialCommit ==
    ASSUME Inv, Serial, NEW d \in Deliveries, RejectAction(d) \/ Commit(d)
    PROVE  Serial'
<1>1. CASE RejectAction(d) \/ CommitFails(d)
  <2>1. PICK status \in {"rejected", "failed"} :
            delivery[d].pc \in {"next", "commit"} /\ Answer(d, status) /\ UNCHANGED records
    BY <1>1 DEF RejectAction, CommitFails
  <2> QED
    BY <2>1, CommitIsActive, SerialQuiet DEF Statuses
<1>2. CASE \/ ResolveExistingPlayer(d) \/ InsertPlayer(d)
           \/ SkipConsent(d) \/ AppendConsent(d)
  <2>1. PICK status \in {"applied", "skipped"} :
            /\ delivery[d].pc = "commit" /\ Answer(d, status) /\ UNCHANGED records
            /\ Current(d).entity \in {"player", "consent"}
    BY <1>2 DEF ResolveExistingPlayer, InsertPlayer, SkipConsent, AppendConsent, Writing, tables
  <2>2. Current(d).entity \notin NaturalEntities
    BY <2>1 DEF NaturalEntities
  <2> QED
    BY <2>1, <2>2, CommitIsActive, SerialQuiet DEF Statuses
<1>3. CASE InsertNatural(d)
  BY <1>3, SerialInsert
<1>4. CASE UpdateNatural(d) \/ SkipNatural(d)
  BY <1>4, SerialMeets
<1> QED
  BY <1>1, <1>2, <1>3, <1>4, NoConflict DEF Commit

LEMMA SerialLookUp ==
    ASSUME Inv, Serial, NEW d \in Deliveries, LookUp(d)
    PROVE  Serial'
<1>1. LookedUp(d)
  BY LookUpStep
<1>2. \A e \in Deliveries :
        /\ Active(e)' => Active(e)
        /\ delivery'[e].results = delivery[e].results
        /\ delivery'[e].batch = delivery[e].batch
  BY <1>1 DEF LookedUp, Active
<1>3. \A k : LandedOn(k)' = LandedOn(k)
  BY <1>2, NothingLands
<1>4. PICK a : a = Current(d)
  OBVIOUS
<1>5. Current(d)' = a /\ Lookup(a)' = Lookup(a)
  BY <1>1, <1>4 DEF LookedUp, Current, Lookup, ConsentOf
<1>6. ASSUME NEW e \in Deliveries, delivery'[e].pc = "commit"
      PROVE  delivery'[e].seen = Lookup(Current(e))'
  <2>1. e = d
    BY <1>1, <1>2, <1>6 DEF LookedUp, Active, Serial
  <2> QED
    BY <1>1, <1>4, <1>5, <2>1 DEF LookedUp
<1>7. \A e, f \in Deliveries : Active(e)' /\ Active(f)' => e = f
  BY <1>2 DEF Serial
<1>8. ASSUME NEW k \in NaturalKeys
      PROVE  IF records'[k] = None THEN LandedOn(k)' = {}
             ELSE HoldsLatest(records'[k], LandedOn(k)')
  BY <1>1, <1>3 DEF LookedUp, Serial
<1> QED
  BY <1>6, <1>7, <1>8 DEF Serial, HoldsLatest, Later

LEMMA SerialReceive ==
    ASSUME Inv, Serial, MaxActive = 1, NEW d \in Deliveries, NEW b \in Batches, Receive(d, b)
    PROVE  Serial'
<1>1. \A e \in Deliveries : ~Active(e)
  <2> DEFINE busy == {e \in Deliveries : Active(e)}
  <2>1. Cardinality(busy) < 1
    BY DEF Receive
  <2>2. IsFiniteSet(busy)
    BY BatchAssumption, FS_Subset
  <2>3. busy = {}
    BY <2>1, <2>2, FS_CardinalityType, FS_EmptySet
  <2> QED
    BY <2>3
<1>2. /\ delivery[d].pc = "idle"
      /\ delivery' = [delivery EXCEPT ![d].pc = "next", ![d].batch = b, ![d].next = 1]
      /\ UNCHANGED <<players, records, consents, sync_log>>
  BY DEF Receive
<1>3. delivery[d].results = <<>> /\ delivery \in [Deliveries -> DeliveryType]
  BY <1>2 DEF Inv, Progress, Types
<1>4. /\ \A e \in Deliveries \ {d} : delivery'[e] = delivery[e]
      /\ delivery'[d].pc = "next" /\ delivery'[d].results = delivery[d].results
  BY <1>2, <1>3 DEF DeliveryType
<1>5. \A k : LandedOn(k)' = LandedOn(k)
  BY <1>3, <1>4, NothingLands
<1>6. \A e \in Deliveries : Active(e)' => e = d
  BY <1>1, <1>4 DEF Active
<1>7. \A e \in Deliveries : delivery'[e].pc # "commit"
  BY <1>4, <1>6 DEF Active
<1>8. ASSUME NEW k \in NaturalKeys
      PROVE  IF records'[k] = None THEN LandedOn(k)' = {}
             ELSE HoldsLatest(records'[k], LandedOn(k)')
  BY <1>2, <1>5 DEF Serial
<1> QED
  BY <1>6, <1>7, <1>8 DEF Serial, HoldsLatest, Later

LEMMA SerialNext ==
    ASSUME Inv, Serial, MaxActive = 1, [Next]_vars
    PROVE  Serial'
<1>1. CASE UNCHANGED vars
  <2>1. UNCHANGED <<players, records, consents, sync_log, delivery>>
    BY <1>1 DEF vars
  <2>2. \A k : LandedOn(k)' = LandedOn(k)
    BY <2>1, NothingLands
  <2>3. \A e \in Deliveries : /\ Active(e)' <=> Active(e)
                              /\ Lookup(Current(e))' = Lookup(Current(e))
    BY <2>1 DEF Active, Current, Lookup, ConsentOf
  <2>4. ASSUME NEW k \in NaturalKeys
        PROVE  IF records'[k] = None THEN LandedOn(k)' = {}
               ELSE HoldsLatest(records'[k], LandedOn(k)')
    BY <2>1, <2>2 DEF Serial
  <2>5. \A e, f \in Deliveries : Active(e)' /\ Active(f)' => e = f
    BY <2>3 DEF Serial
  <2>6. \A e \in Deliveries : delivery'[e].pc = "commit" =>
            delivery'[e].seen = Lookup(Current(e))'
    BY <2>1, <2>3 DEF Serial
  <2> QED
    BY <2>4, <2>5, <2>6 DEF Serial, HoldsLatest, Later
<1>2. ASSUME NEW d \in Deliveries, NEW b \in Batches, Receive(d, b) PROVE Serial'
  BY <1>2, SerialReceive
<1>3. ASSUME NEW d \in Deliveries, RejectAction(d) \/ LookUp(d) \/ Commit(d) PROVE Serial'
  BY <1>3, SerialCommit, SerialLookUp
<1> QED
  BY <1>1, <1>2, <1>3 DEF Next, Terminating

LEMMA SerialInit == Init => Serial
<1> SUFFICES ASSUME Init
             PROVE  Serial
  OBVIOUS
<1>1. \A d \in Deliveries : delivery[d].pc = "idle" /\ delivery[d].results = <<>>
  BY DEF Init, NewDelivery
<1>2. \A k \in NaturalKeys : LandedOn(k) = {}
  BY <1>1, LandedBy DEF LandedOn
<1> QED
  BY <1>1, <1>2 DEF Init, Serial, Active

\* When the API serves one delivery at a time the row of every key is the latest
\* action that was answered applied or skipped, in whatever order they came and
\* however often.
THEOREM LastWriteWins ==
    ASSUME MaxActive = 1
    PROVE  Spec => []LatestWins
<1>1. Init => Inv /\ Serial
  BY InitInv, SerialInit
<1>2. Inv /\ Serial /\ [Next]_vars => (Inv /\ Serial)'
  BY NextInv, SerialNext
<1>3. Inv /\ Serial => LatestWins
  <2> SUFFICES ASSUME Inv, Serial, NEW k \in NaturalKeys, LandedOn(k) # {}
               PROVE  /\ records[k] # None
                      /\ records[k].ts = LatestOn(k).ts
                      /\ records[k].client = LatestOn(k).client
                      /\ records[k].value = LatestOn(k).value
    BY DEF LatestWins
  <2>1. records[k] # None /\ HoldsLatest(records[k], LandedOn(k))
    BY DEF Serial
  <2>2. PICK a \in LandedOn(k) :
          /\ records[k].ts = a.ts /\ records[k].client = a.client /\ records[k].value = a.value
          /\ \A b \in LandedOn(k) \ {a} : Later(a, b)
    BY <2>1 DEF HoldsLatest
  <2>3. \A b \in LandedOn(k) : b.ts \in Int /\ b.client \in Int
    BY LandedActions, BatchAssumption DEF LandedOn
  <2>4. ASSUME NEW c \in LandedOn(k), \A b \in LandedOn(k) \ {c} : Later(c, b) PROVE c = a
    BY <2>2, <2>3, <2>4 DEF Later
  <2>5. LatestOn(k) = a
    BY <2>2, <2>4 DEF LatestOn
  <2> QED
    BY <2>1, <2>2, <2>5
<1> QED
  BY <1>1, <1>2, <1>3, PTL DEF Spec

-----------------------------------------------------------------------------
(* One delivery at a time: a replay is skipped.                            *)

\* A queue is always delivered by the account that captured it.
OneAuthor ==
    \A b, c \in Batches : \A i \in DOMAIN b.actions, j \in DOMAIN c.actions :
        b.actions[i] = c.actions[j] => b.scope = c.scope

\* An action that landed is still acceptable, and its row is there.
Absorbed(scope, a) ==
    /\ Accepts(scope, a)
    /\ a.entity = "player" =>
          /\ players[a.key] # None
          /\ a.grade # None => players[a.key].grade # None
          /\ StampedSchool(scope, a) # None => players[a.key].school # None
    /\ a.entity = "consent" => ConsentOf(a) # {}

Replayable ==
    \A d \in Deliveries, b \in Batches, a \in Actions : delivery[d].batch = b =>
        /\ delivery[d].pc = "commit" /\ Current(d) = a => Accepts(b.scope, a)
        /\ \A i \in DOMAIN delivery[d].results :
              delivery[d].results[i] \in {"applied", "skipped"} /\ b.actions[i] = a =>
                  Absorbed(b.scope, a)

\* What every step keeps of the tables: a player that appears was not ambiguous.
Grows ==
    /\ PlayersGrow /\ RecordsKeep /\ consents \subseteq consents'
    /\ \A p \in DedupKeys : players[p] # None /\ players[p].grade # None =>
          players'[p].grade # None
    /\ \A p \in DedupKeys : players[p] = None /\ players'[p] # None =>
          \A q \in DedupKeys \ {p} : NameOf[q] = NameOf[p] => players[q] = None

LEMMA StepGrows ==
    ASSUME Inv, Replayable, NEW d \in Deliveries, RejectAction(d) \/ LookUp(d) \/ Commit(d)
    PROVE  Grows
<1>1. CASE ResolveExistingPlayer(d) \/ InsertPlayer(d)
  <2>1. PICK a, scope : a = Current(d) /\ scope = ScopeOf(d)
    OBVIOUS
  <2>2. PlayersGrow /\ a.key \in DedupKeys
    BY <1>1, <2>1, PlayerGrows
  <2>3. PICK new \in PlayerType :
          players' = [players EXCEPT ![a.key] = new] /\ Filled(d, players[a.key], new)
    BY <1>1, <2>1, FilledRow
  <2>4. Accepts(scope, a) /\ a.entity = "player" /\ UNCHANGED <<records, consents>>
    <3>1. delivery[d].pc = "commit" /\ a.entity = "player" /\ UNCHANGED <<records, consents>>
      BY <1>1, <2>1 DEF ResolveExistingPlayer, InsertPlayer, Writing
    <3>2. PICK b \in Batches : b = delivery[d].batch /\ scope = b.scope
      BY <2>1, <3>1, CommitIsActive
    <3> QED
      BY <2>1, <3>1, <3>2, CommitIsActive DEF Replayable
  <2>5. ~Ambiguous(a)
    BY <2>4 DEF Accepts, AcceptsPlayer
  <2>6. players[a.key] # None /\ players[a.key].grade # None => new.grade # None
    BY <2>3 DEF Filled
  <2>7. players'[a.key] = new /\ \A p \in DedupKeys \ {a.key} : players'[p] = players[p]
    BY <2>2, <2>3 DEF Inv, Types
  <2>8. \A q \in DedupKeys \ {a.key} : NameOf[q] = NameOf[a.key] => players[q] = None
    BY <2>5 DEF Ambiguous
  <2> QED
    BY <2>2, <2>4, <2>6, <2>7, <2>8 DEF Grows, RecordsKeep
<1>2. CASE InsertNatural(d) \/ UpdateNatural(d)
  <2>1. PICK a : a = Current(d)
    OBVIOUS
  <2>2. PICK row \in RecordType :
          /\ records' = [records EXCEPT ![a.key] = row]
          /\ records[a.key] # None =>
                /\ row.player = a.player
                /\ row.loc = records[a.key].loc /\ row.school = records[a.key].school
    <3>1. CASE InsertNatural(d)
      <4>1. records[a.key] = None
        BY <2>1, <3>1 DEF InsertNatural
      <4> QED
        BY <2>1, <3>1, <4>1, InsertedRow
    <3>2. CASE UpdateNatural(d)
      BY <2>1, <3>2, UpdatedRow
    <3> QED
      BY <1>2, <3>1, <3>2
  <2>3. UNCHANGED <<players, consents>> /\ delivery[d].pc = "commit" /\ a.entity \in NaturalEntities
    BY <1>2, <2>1 DEF InsertNatural, UpdateNatural, Writing
  <2>4. a \in NaturalActions /\ a.key \in NaturalKeys
    BY <2>1, <2>3, CommitIsActive, BatchAssumption DEF NaturalActions
  <2>5. records'[a.key] = row /\ \A k \in NaturalKeys \ {a.key} : records'[k] = records[k]
    BY <2>2, <2>4 DEF Inv, Types
  <2>6. records[a.key] # None => records[a.key].player = a.player
    BY <2>4 DEF Inv, KeyNamesPlayer
  <2>7. RecordsKeep
    BY <2>2, <2>5, <2>6, TableAssumption DEF RecordsKeep
  <2> QED
    BY <2>3, <2>7 DEF Grows, PlayersGrow
<1>3. CASE \/ RejectAction(d) \/ LookUp(d) \/ SkipConsent(d) \/ AppendConsent(d)
           \/ InsertConflict(d) \/ SkipNatural(d) \/ CommitFails(d)
  <2>1. players' = players /\ records' = records /\ consents \subseteq consents'
    BY <1>3 DEF RejectAction, LookUp, SkipConsent, AppendConsent, InsertConflict, SkipNatural,
                CommitFails, tables
  <2> QED
    BY <2>1 DEF Grows, PlayersGrow, RecordsKeep
<1> QED
  BY <1>1, <1>2, <1>3 DEF Commit

\* An acceptable action whose row is there stays so.
LEMMA AbsorbedStays ==
    ASSUME Inv, Grows, NEW b \in Batches, NEW a \in Actions, Absorbed(b.scope, a)
    PROVE  Absorbed(b.scope, a)'
<1>1. PICK scope : scope = b.scope
  OBVIOUS
<1>2. /\ scope.loc # None \/ scope.role = "founder"
      /\ scope.role = "facilitator" => scope.school # None
  BY <1>1, BatchAssumption
<1>3. Accepts(scope, a) /\ Absorbed(scope, a)
  BY <1>1 DEF Absorbed
<1>4. CASE a.entity = "player"
  <2>1. a.key \in DedupKeys /\ players[a.key] # None /\ players'[a.key] # None
    BY <1>3, <1>4, BatchAssumption DEF Accepts, AcceptsPlayer, Absorbed, Grows, PlayersGrow
  <2>2. ~Ambiguous(a)
    BY <1>3, <1>4 DEF Accepts, AcceptsPlayer
  <2>3. ASSUME NEW k \in DedupKeys \ {a.key}, NameOf[k] = NameOf[a.key] PROVE players'[k] = None
    <3>1. players[k] = None
      BY <2>2, <2>3 DEF Ambiguous
    <3> QED
      BY <2>1, <2>3, <3>1 DEF Grows
  <2>4. ~Ambiguous(a)'
    BY <2>3 DEF Ambiguous
  <2>5. a.entity \notin NaturalEntities /\ a.entity # "consent"
    BY <1>4 DEF NaturalEntities
  <2>6. Accepts(scope, a)'
    BY <1>3, <1>4, <2>4, <2>5 DEF Accepts, AcceptsPlayer, CanWrite, StampedLocation
  <2>7. /\ a.grade # None => players'[a.key].grade # None
        /\ StampedSchool(scope, a) # None => players'[a.key].school # None
    BY <1>3, <1>4, <2>1 DEF Absorbed, Grows, PlayersGrow
  <2> QED
    BY <1>1, <1>4, <2>1, <2>5, <2>6, <2>7 DEF Absorbed, StampedSchool
<1>5. CASE a.entity # "player"
  <2>1. CanWriteFor(scope, a.player) =>
            MayStillWrite(scope, a.player) /\ players'[a.player].loc = players[a.player].loc
    BY <1>1, ScopeKept DEF Grows
  <2>2. a.entity = "consent" => ConsentOf(a)' # {}
    BY <1>3 DEF Absorbed, ConsentOf, Grows
  <2>3. AcceptsConsent(scope, a) => AcceptsConsent(scope, a)'
    BY <2>1 DEF AcceptsConsent, CanWriteFor, PlayerExists, MayStillWrite
  <2>4. ASSUME AcceptsNatural(scope, a), a.entity \in NaturalEntities
        PROVE  AcceptsNatural(scope, a)'
    <3>1. MayStillWrite(scope, a.player) /\ players'[a.player].loc = players[a.player].loc
          /\ CanWriteFor(scope, a.player)
      BY <2>1, <2>4 DEF AcceptsNatural
    <3>2. CanWriteFor(scope, a.player)'
      BY <3>1 DEF CanWriteFor, PlayerExists, MayStillWrite
    <3>3. AcceptsSession(scope, a) => AcceptsSession(scope, a)'
      <4>1. a.session \in NaturalKeys \cup {None}
        BY <2>4, BatchAssumption
      <4>2. a.session # None /\ records[a.session] # None =>
                /\ records'[a.session] # None
                /\ records'[a.session].player = records[a.session].player
                /\ records'[a.session].loc = records[a.session].loc
                /\ records'[a.session].school = records[a.session].school
        BY <4>1 DEF Grows, RecordsKeep
      <4> QED
        BY <4>2 DEF AcceptsSession, CanWrite
    <3>4. CanWrite(scope, players[a.player].loc, EffectiveSchool(a)) =>
              CanWrite(scope, players'[a.player].loc, EffectiveSchool(a)')
      <4>1. \/ EffectiveSchool(a)' = EffectiveSchool(a)
            \/ EffectiveSchool(a) = None
        BY <3>1 DEF EffectiveSchool, CanWriteFor, PlayerExists, Grows, PlayersGrow
      <4> QED
        BY <1>2, <3>1, <4>1 DEF CanWrite
    <3>5. CanWrite(scope, players'[a.player].loc, EffectiveSchool(a)') <=>
              CanWrite(scope, players[a.player].loc, EffectiveSchool(a))'
      BY DEF CanWrite
    <3> QED
      BY <2>4, <3>2, <3>3, <3>4, <3>5 DEF AcceptsNatural
  <2>5. Accepts(scope, a)'
    BY <1>3, <1>5, <2>3, <2>4 DEF Accepts
  <2> QED
    BY <1>1, <1>5, <2>2, <2>5 DEF Absorbed
<1> QED
  BY <1>4, <1>5

\* What is accepted depends on the rows of players and records only.
LEMMA AcceptsSame ==
    ASSUME UNCHANGED <<players, records>>, NEW scope, NEW a, Accepts(scope, a)
    PROVE  Accepts(scope, a)'
<1>1. /\ AcceptsPlayer(scope, a) => AcceptsPlayer(scope, a)'
      /\ AcceptsConsent(scope, a) => AcceptsConsent(scope, a)'
  BY DEF AcceptsPlayer, AcceptsConsent, Ambiguous, CanWriteFor, PlayerExists, CanWrite,
         StampedLocation
<1>2. AcceptsNatural(scope, a) => AcceptsNatural(scope, a)'
  BY DEF AcceptsNatural, AcceptsSession, EffectiveSchool, CanWriteFor, PlayerExists, CanWrite
<1> QED
  BY <1>1, <1>2 DEF Accepts

\* The results that were there stay, of the same batch.
LEMMA ReplayableStays ==
    ASSUME Inv, Replayable, Grows, NEW e \in Deliveries, NEW b \in Batches, NEW a \in Actions,
           delivery[e].batch = b, NEW i \in DOMAIN delivery[e].results,
           delivery[e].results[i] \in {"applied", "skipped"}, b.actions[i] = a
    PROVE  Absorbed(b.scope, a)'
<1>1. Absorbed(b.scope, a)
  BY DEF Replayable
<1> QED
  BY <1>1, AbsorbedStays

\* What an action that is answered applied or skipped leaves.
LEMMA Absorbs ==
    ASSUME Inv, Serial, Replayable, NEW d \in Deliveries, Commit(d),
           NEW status \in {"applied", "skipped"}, Answer(d, status),
           NEW b \in Batches, b = delivery[d].batch, NEW a \in Actions, a = Current(d)
    PROVE  Absorbed(b.scope, a)'
<1>1. delivery[d].pc = "commit"
  BY DEF Commit, ResolveExistingPlayer, InsertPlayer, SkipConsent, AppendConsent, InsertNatural,
         InsertConflict, UpdateNatural, SkipNatural, CommitFails, Writing
<1>2. Accepts(b.scope, a) /\ delivery[d].seen = Lookup(a) /\ ScopeOf(d) = b.scope
  BY <1>1 DEF Replayable, Serial, ScopeOf
<1>3. ~CommitFails(d)
  <2>1. Answered(d, status)
    BY <1>1, CommitIsActive, AnswerStep DEF Statuses
  <2>2. ASSUME CommitFails(d) PROVE Answered(d, "failed")
    BY <1>1, <2>2, CommitIsActive, AnswerStep DEF CommitFails, Statuses
  <2>3. delivery[d].results \in Seq(Statuses)
    BY DEF Inv, Types, DeliveryType
  <2>4. Append(delivery[d].results, status) # Append(delivery[d].results, "failed")
    BY <2>3, OneMoreResult DEF Statuses
  <2> QED
    BY <2>1, <2>2, <2>4 DEF Answered
<1>4. Grows
  BY StepGrows
<1>5. CASE a.entity = "player"
  <2>1. ResolveExistingPlayer(d) \/ InsertPlayer(d)
    BY <1>3, <1>5 DEF Commit, SkipConsent, AppendConsent, InsertNatural, InsertConflict,
                      UpdateNatural, SkipNatural, Writing, NaturalEntities
  <2>2. Lookup(a) = players[a.key] /\ a.key \in DedupKeys
    BY <1>5, <2>1, PlayerGrows DEF Lookup
  <2>3. PICK new \in PlayerType :
          players' = [players EXCEPT ![a.key] = new] /\ Filled(d, players[a.key], new)
    BY <2>1, FilledRow
  <2>4. players'[a.key] = new /\ new # None
    BY <2>2, <2>3, TableAssumption DEF Inv, Types
  <2>5. /\ a.grade # None => new.grade # None
        /\ StampedSchool(b.scope, a) # None => new.school # None
    BY <1>2, <2>2, <2>3 DEF Filled
  <2>6. ~Ambiguous(a)
    BY <1>2, <1>5 DEF Accepts, AcceptsPlayer
  <2>7. ~Ambiguous(a)'
    BY <2>2, <2>3, <2>6 DEF Ambiguous, Inv, Types
  <2>8. a.entity \notin NaturalEntities /\ a.entity # "consent"
    BY <1>5 DEF NaturalEntities
  <2>9. Accepts(b.scope, a)'
    BY <1>2, <1>5, <2>7, <2>8 DEF Accepts, AcceptsPlayer, CanWrite, StampedLocation
  <2> QED
    BY <1>5, <2>4, <2>5, <2>8, <2>9 DEF Absorbed, StampedSchool
<1>6. CASE a.entity = "consent"
  <2>1. CASE delivery[d].seen # None
    <3>1. ConsentOf(a) # {}
      BY <1>2, <1>6, <2>1 DEF Lookup
    <3>2. Absorbed(b.scope, a)
      BY <1>2, <1>6, <3>1 DEF Absorbed
    <3> QED
      BY <1>4, <3>2, AbsorbedStays
  <2>2. CASE delivery[d].seen = None
    <3>1. AppendConsent(d)
      BY <1>3, <1>6, <2>2 DEF Commit, ResolveExistingPlayer, InsertPlayer, SkipConsent,
                InsertNatural, InsertConflict, UpdateNatural, SkipNatural, Writing, NaturalEntities
    <3>2. \E c \in consents' : c.client = a.client
      <4> DEFINE row == [id |-> <<d, delivery[d].next>>, client |-> Current(d).client,
                         player |-> Current(d).player]
      <4>1. row \in consents' /\ row.client = a.client
        BY <3>1 DEF AppendConsent
      <4> QED
        BY <4>1
    <3>3. ConsentOf(a)' # {}
      BY <3>2 DEF ConsentOf
    <3>4. UNCHANGED <<players, records>>
      BY <3>1 DEF AppendConsent
    <3>5. Accepts(b.scope, a)'
      BY <1>2, <1>6, <3>4 DEF Accepts, AcceptsConsent, CanWriteFor, PlayerExists, CanWrite,
                               NaturalEntities
    <3> QED
      BY <1>6, <3>3, <3>5 DEF Absorbed
  <2> QED
    BY <2>1, <2>2
<1>7. CASE a.entity \notin {"player", "consent"}
  <2>1. Absorbed(b.scope, a)
    BY <1>2, <1>7 DEF Absorbed
  <2> QED
    BY <1>4, <2>1, AbsorbedStays
<1> QED
  BY <1>5, <1>6, <1>7

LEMMA ReplayableCommit ==
    ASSUME Inv, Serial, Replayable, NEW d \in Deliveries, RejectAction(d) \/ Commit(d)
    PROVE  Replayable'
<1>1. delivery[d].pc \in {"next", "commit"}
  BY DEF RejectAction, Commit, ResolveExistingPlayer, InsertPlayer, SkipConsent, AppendConsent,
         InsertNatural, InsertConflict, UpdateNatural, SkipNatural, CommitFails, Writing
<1>2. PICK status \in Statuses :
        Answer(d, status) /\ (status \in {"applied", "skipped"} => Commit(d))
  BY DEF RejectAction, Commit, ResolveExistingPlayer, InsertPlayer, SkipConsent, AppendConsent,
         InsertNatural, InsertConflict, UpdateNatural, SkipNatural, CommitFails, Statuses
<1>3. Active(d) /\ Answered(d, status) /\ Current(d) \in Actions /\ delivery[d].batch \in Batches
  BY <1>1, <1>2, CommitIsActive, AnswerStep
<1>4. Grows
  BY StepGrows
<1>5. ASSUME NEW e \in Deliveries, delivery'[e].pc = "commit" PROVE FALSE
  <2>1. e # d /\ delivery[e].pc = "commit"
    BY <1>3, <1>5 DEF Answered
  <2> QED
    BY <1>3, <2>1 DEF Serial, Active
<1>6. ASSUME NEW e \in Deliveries, NEW b \in Batches, NEW a \in Actions,
             delivery'[e].batch = b, NEW i \in DOMAIN delivery'[e].results,
             delivery'[e].results[i] \in {"applied", "skipped"}, b.actions[i] = a
      PROVE  Absorbed(b.scope, a)'
  <2>1. delivery[e].batch = b
    BY <1>3, <1>6 DEF Answered
  <2>2. CASE i \in DOMAIN delivery[e].results /\ delivery'[e].results[i] = delivery[e].results[i]
    BY <1>4, <1>6, <2>1, <2>2, ReplayableStays
  <2>3. CASE ~(i \in DOMAIN delivery[e].results /\ delivery'[e].results[i] = delivery[e].results[i])
    <3>1. e = d
      BY <1>3, <1>6, <2>3 DEF Answered
    <3>2. delivery[d].results \in Seq(Statuses) /\ Len(delivery[d].results) + 1 = delivery[d].next
      <4>1. delivery[d].results \in Seq(Statuses)
        BY DEF Inv, Types, DeliveryType
      <4>2. Len(delivery[d].results) = delivery[d].next - 1 /\ delivery[d].next \in Nat
        BY <1>3, ActiveFacts
      <4> QED
        BY <4>1, <4>2
    <3>3. delivery'[d].results = Append(delivery[d].results, status)
      BY <1>3 DEF Answered
    <3>4. i = delivery[d].next /\ status \in {"applied", "skipped"}
      BY <1>2, <1>6, <2>3, <3>1, <3>2, <3>3, OneMoreResult
    <3>5. a = Current(d)
      BY <1>6, <2>1, <3>1, <3>4 DEF Current
    <3> QED
      BY <1>2, <2>1, <3>1, <3>4, <3>5, Absorbs
  <2> QED
    BY <2>2, <2>3
<1> QED
  BY <1>5, <1>6 DEF Replayable

\* A step that answers nothing and writes no table.
LEMMA ReplayableReading ==
    ASSUME Inv, Replayable, UNCHANGED <<players, records, consents>>,
           \A e \in Deliveries :
              /\ delivery'[e].results = delivery[e].results
              /\ delivery[e].results # <<>> => delivery'[e].batch = delivery[e].batch
              /\ delivery'[e].pc = "commit" =>
                    \A b \in Batches, a \in Actions :
                        delivery'[e].batch = b /\ b.actions[delivery'[e].next] = a =>
                            Accepts(b.scope, a)
    PROVE  Replayable'
<1>1. Grows
  BY DEF Grows, PlayersGrow, RecordsKeep
<1>2. ASSUME NEW e \in Deliveries, NEW b \in Batches, NEW a \in Actions,
             delivery'[e].batch = b, NEW i \in DOMAIN delivery'[e].results,
             delivery'[e].results[i] \in {"applied", "skipped"}, b.actions[i] = a
      PROVE  Absorbed(b.scope, a)'
  <2>1. i \in DOMAIN delivery[e].results /\ delivery[e].results[i] \in {"applied", "skipped"}
    BY <1>2
  <2>2. delivery'[e].batch = delivery[e].batch
    <3>1. DOMAIN <<>> = {}
      OBVIOUS
    <3> QED
      BY <2>1, <3>1
  <2> QED
    BY <1>1, <1>2, <2>1, <2>2, ReplayableStays
<1>3. ASSUME NEW e \in Deliveries, NEW b \in Batches, NEW a \in Actions,
             delivery'[e].batch = b, delivery'[e].pc = "commit", Current(e)' = a
      PROVE  Accepts(b.scope, a)'
  <2>1. b.actions[delivery'[e].next] = a
    BY <1>3 DEF Current
  <2>2. Accepts(b.scope, a)
    BY <1>3, <2>1
  <2> QED
    BY <2>2, AcceptsSame
<1> QED
  BY <1>2, <1>3 DEF Replayable

LEMMA ReplayableNext ==
    ASSUME Inv, Serial, Replayable, [Next]_vars
    PROVE  Replayable'
<1>1. CASE UNCHANGED vars
  <2>1. UNCHANGED <<players, records, consents, delivery>>
    BY <1>1 DEF vars
  <2> QED
    BY <2>1, ReplayableReading DEF Replayable, Current
<1>2. ASSUME NEW d \in Deliveries, NEW b \in Batches, Receive(d, b) PROVE Replayable'
  <2>1. /\ delivery[d].pc = "idle"
        /\ delivery' = [delivery EXCEPT ![d].pc = "next", ![d].batch = b, ![d].next = 1]
        /\ UNCHANGED <<players, records, consents>>
    BY <1>2 DEF Receive
  <2>2. delivery[d].results = <<>> /\ delivery \in [Deliveries -> DeliveryType]
    BY <2>1 DEF Inv, Progress, Types
  <2>3. /\ \A e \in Deliveries \ {d} : delivery'[e] = delivery[e]
        /\ delivery'[d].pc = "next" /\ delivery'[d].results = delivery[d].results
    BY <2>1, <2>2 DEF DeliveryType
  <2>4. ASSUME NEW e \in Deliveries, delivery'[e].pc = "commit", NEW c \in Batches,
               NEW a \in Actions, delivery'[e].batch = c, c.actions[delivery'[e].next] = a
        PROVE  Accepts(c.scope, a)
    <3>1. delivery'[e] = delivery[e]
      BY <2>3, <2>4
    <3> QED
      BY <2>4, <3>1 DEF Replayable, Current
  <2>5. \A e \in Deliveries :
          /\ delivery'[e].results = delivery[e].results
          /\ delivery[e].results # <<>> => delivery'[e].batch = delivery[e].batch
    BY <2>2, <2>3
  <2> QED
    BY <2>1, <2>4, <2>5, ReplayableReading
<1>3. ASSUME NEW d \in Deliveries, LookUp(d) PROVE Replayable'
  <2>1. LookedUp(d) /\ Accepts(ScopeOf(d), Current(d))
    BY <1>3, LookUpStep DEF LookUp
  <2>2. ASSUME NEW e \in Deliveries, delivery'[e].pc = "commit", NEW b \in Batches,
               NEW a \in Actions, delivery'[e].batch = b, b.actions[delivery'[e].next] = a
        PROVE  Accepts(b.scope, a)
    <3>1. CASE e = d
      BY <2>1, <2>2, <3>1 DEF LookedUp, ScopeOf, Current
    <3>2. CASE e # d
      BY <2>1, <2>2, <3>2 DEF LookedUp, Replayable, Current
    <3> QED
      BY <3>1, <3>2
  <2> QED
    BY <2>1, <2>2, ReplayableReading DEF LookedUp
<1>4. ASSUME NEW d \in Deliveries, RejectAction(d) \/ Commit(d) PROVE Replayable'
  BY <1>4, ReplayableCommit
<1> QED
  BY <1>1, <1>2, <1>3, <1>4 DEF Next, Terminating

\* What is filled already is left as it is.
LEMMA NoGapLeft ==
    ASSUME Inv, NEW d \in Deliveries, ResolveExistingPlayer(d), Absorbed(ScopeOf(d), Current(d))
    PROVE  players' = players
<1> DEFINE a == Current(d)
           row == players[a.key]
<1>1. /\ a.entity = "player" /\ delivery[d].pc = "commit"
      /\ players' = [players EXCEPT ![a.key] = FillGaps(@, d)]
  BY DEF ResolveExistingPlayer, Writing
<1>2. /\ row # None
      /\ a.grade # None => row.grade # None
      /\ StampedSchool(ScopeOf(d), a) # None => row.school # None
  BY <1>1 DEF Absorbed
<1>3. a.key \in DedupKeys /\ row \in PlayerType
  <2>1. a.key \in DedupKeys
    BY <1>1 DEF Inv, Checked
  <2> QED
    BY <1>2, <2>1 DEF Inv, Types
<1>4. FillGaps(row, d) = [row EXCEPT !.grade = row.grade, !.school = row.school]
  BY <1>2 DEF FillGaps, Coalesce
<1>5. FillGaps(row, d) = row
  <2> HIDE DEF row
  <2> QED
    BY <1>3, <1>4 DEF PlayerType
<1> QED
  BY <1>1, <1>3, <1>5 DEF Inv, Types

LEMMA ReplayWritesNothing ==
    ASSUME Inv, Serial, Replayable, NEW d \in Deliveries, RejectAction(d) \/ Commit(d),
           Current(d) \in Landed, Absorbed(ScopeOf(d), Current(d))
    PROVE  UNCHANGED tables /\ \E status \in {"skipped", "failed"} : Answer(d, status)
<1> DEFINE a == Current(d)
<1>1. ~RejectAction(d)
  BY DEF RejectAction, Absorbed
<1>2. CASE SkipConsent(d) \/ SkipNatural(d) \/ CommitFails(d)
  BY <1>2 DEF SkipConsent, SkipNatural, CommitFails, tables
<1>3. CASE ResolveExistingPlayer(d)
  BY <1>3, NoGapLeft DEF ResolveExistingPlayer, tables
<1>4. CASE InsertPlayer(d)
  <2>1. delivery[d].pc = "commit" /\ delivery[d].seen = None /\ a.entity = "player"
    BY <1>4 DEF InsertPlayer, Writing
  <2>2. players[a.key] = None
    BY <2>1 DEF Serial, Lookup
  <2> QED
    BY <2>1, <2>2 DEF Absorbed
<1>5. CASE AppendConsent(d)
  <2>1. delivery[d].pc = "commit" /\ delivery[d].seen = None /\ a.entity = "consent"
    BY <1>5 DEF AppendConsent, Writing
  <2>2. ConsentOf(a) # {}
    BY <2>1 DEF Absorbed
  <2>3. Lookup(a) = CHOOSE c \in ConsentOf(a) : TRUE
    BY <2>1, <2>2 DEF Lookup
  <2>4. (CHOOSE c \in ConsentOf(a) : TRUE) \in ConsentOf(a)
    BY <2>2
  <2>5. Lookup(a) \in ConsentType
    BY <2>3, <2>4 DEF ConsentOf, Inv, Types
  <2> QED
    BY <2>1, <2>5, TableAssumption DEF Serial
<1>6. ASSUME Writing(d, NaturalEntities)
      PROVE  /\ records[a.key] # None /\ ~PrefersIncoming(a, records[a.key])
             /\ delivery[d].seen = records[a.key]
  <2>1. delivery[d].pc = "commit" /\ a.entity \in NaturalEntities
    BY <1>6 DEF Writing
  <2>2. a \in Actions /\ a.key \in NaturalKeys /\ a \in LandedOn(a.key)
    BY <2>1, CommitIsActive, BatchAssumption DEF LandedOn
  <2>3. records[a.key] # None /\ HoldsLatest(records[a.key], LandedOn(a.key))
    BY <2>2 DEF Serial
  <2>4. PICK top \in LandedOn(a.key) :
          /\ records[a.key].ts = top.ts /\ records[a.key].client = top.client
          /\ \A b \in LandedOn(a.key) \ {top} : Later(top, b)
    BY <2>3 DEF HoldsLatest
  <2>5. top.ts \in Int /\ top.client \in Int /\ a.ts \in Int /\ a.client \in Int
    BY <2>2, LandedActions, BatchAssumption DEF LandedOn
  <2>6. top = a \/ Later(top, a)
    BY <2>2, <2>4
  <2>7. ~PrefersIncoming(a, records[a.key])
    <3> HIDE DEF a
    <3> QED
      BY <2>4, <2>5, <2>6 DEF PrefersIncoming, Later
  <2>8. a.entity # "player" /\ a.entity # "consent"
    BY <2>1 DEF NaturalEntities
  <2>9. delivery[d].seen = records[a.key]
    BY <2>1, <2>8 DEF Serial, Lookup
  <2> QED
    BY <2>3, <2>7, <2>9
<1>7. ~InsertNatural(d) /\ ~UpdateNatural(d) /\ ~InsertConflict(d)
  BY <1>6, NoConflict DEF InsertNatural, UpdateNatural
<1> QED
  BY <1>1, <1>2, <1>3, <1>4, <1>5, <1>7 DEF Commit

LEMMA ReplayStep ==
    ASSUME Inv, Serial, Replayable, OneAuthor, [Next]_vars, NEW d \in Deliveries, Active(d),
           Len(delivery'[d].results) > Len(delivery[d].results), Current(d) \in Landed
    PROVE  /\ UNCHANGED tables
           /\ delivery'[d].results[delivery[d].next] \in {"skipped", "failed"}
<1>1. delivery'[d].results # delivery[d].results
  <2>1. Len(delivery[d].results) \in Nat
    <3>1. delivery[d].results \in Seq(Statuses)
      BY DEF Inv, Types, DeliveryType
    <3> QED
      BY <3>1
  <2> QED
    BY <2>1
<1>2. delivery \in [Deliveries -> DeliveryType]
  BY DEF Inv, Types
<1>3. RejectAction(d) \/ Commit(d)
  <2>1. CASE UNCHANGED vars
    BY <1>1, <2>1 DEF vars
  <2>2. ASSUME NEW e \in Deliveries, NEW b \in Batches, Receive(e, b) PROVE FALSE
    BY <1>1, <1>2, <2>2 DEF Receive, Active, DeliveryType
  <2>3. ASSUME NEW e \in Deliveries, LookUp(e) PROVE FALSE
    <3>1. LookedUp(e)
      BY <2>3, LookUpStep
    <3> QED
      BY <1>1, <3>1 DEF LookedUp
  <2>4. ASSUME NEW e \in Deliveries, RejectAction(e) \/ Commit(e) PROVE e = d
    <3>1. delivery[e].pc \in {"next", "commit"}
      BY <2>4 DEF RejectAction, Commit, ResolveExistingPlayer, InsertPlayer, SkipConsent,
            AppendConsent, InsertNatural, InsertConflict, UpdateNatural, SkipNatural, CommitFails,
            Writing
    <3> QED
      BY <3>1 DEF Serial, Active
  <2> QED
    BY <2>1, <2>2, <2>3, <2>4 DEF Next, Terminating
<1>4. /\ delivery[d].batch \in Batches /\ delivery[d].next \in DOMAIN delivery[d].batch.actions
      /\ Current(d) \in Actions /\ ScopeOf(d) = delivery[d].batch.scope
  BY ActiveFacts, BatchFacts DEF ScopeOf
<1>5. Absorbed(ScopeOf(d), Current(d))
  <2>1. PICK e \in Deliveries : \E i \in DOMAIN delivery[e].results :
                  /\ delivery[e].results[i] \in {"applied", "skipped"}
                  /\ Current(d) = delivery[e].batch.actions[i]
    BY LandedBy
  <2>2. PICK i \in DOMAIN delivery[e].results :
                  /\ delivery[e].results[i] \in {"applied", "skipped"}
                  /\ Current(d) = delivery[e].batch.actions[i]
    BY <2>1
  <2>3. delivery[e].batch \in Batches /\ i \in DOMAIN delivery[e].batch.actions
    <3>1. Progress(delivery[e]) /\ delivery[e].results \in Seq(Statuses)
          /\ delivery[e].pc \in {"idle", "next", "commit", "done"}
      BY DEF Inv, Types, DeliveryType
    <3>2. i \in 1 .. Len(delivery[e].results) /\ Len(delivery[e].results) \in Nat
      BY <2>2, <3>1
    <3>3. delivery[e].pc # "idle"
      BY <3>1, <3>2 DEF Progress
    <3>4. delivery[e].batch \in Batches
      BY <3>1, <3>3 DEF Progress
    <3>5. /\ Len(delivery[e].batch.actions) \in Nat
          /\ DOMAIN delivery[e].batch.actions = 1 .. Len(delivery[e].batch.actions)
      BY <3>4, BatchFacts
    <3> QED
      BY <3>1, <3>2, <3>3, <3>4, <3>5 DEF Progress
  <2>4. delivery[e].batch.scope = ScopeOf(d)
    BY <1>4, <2>2, <2>3 DEF OneAuthor, Current
  <2> QED
    BY <1>4, <2>2, <2>3, <2>4 DEF Replayable
<1>6. UNCHANGED tables /\ \E status \in {"skipped", "failed"} : Answer(d, status)
  BY <1>3, <1>5, ReplayWritesNothing
<1>7. PICK status \in {"skipped", "failed"} : Answer(d, status)
  BY <1>6
<1>8. Answered(d, status)
  BY <1>7, AnswerStep DEF Statuses
<1>9. delivery'[d].results[delivery[d].next] = status
  <2>1. delivery[d].results \in Seq(Statuses) /\ status \in Statuses
    BY DEF Inv, Types, DeliveryType, Statuses
  <2>2. Len(delivery[d].results) = delivery[d].next - 1 /\ delivery[d].next \in Nat
    BY ActiveFacts
  <2>3. Append(delivery[d].results, status)[Len(delivery[d].results) + 1] = status
    BY <2>1, OneMoreResult
  <2> QED
    BY <1>8, <2>2, <2>3 DEF Answered
<1> QED
  BY <1>6, <1>9

\* When the API serves one delivery at a time and a queue is delivered by the
\* account that captured it, an action that landed before changes no table.
THEOREM ReplaysAreSkipped ==
    ASSUME MaxActive = 1, OneAuthor
    PROVE  Spec => ReplayIsSkipped
<1> DEFINE Kept == Inv /\ Serial /\ Replayable
<1>1. Init => Kept
  <2>1. ASSUME Init PROVE Replayable
    BY <2>1 DEF Init, NewDelivery, Replayable
  <2> QED
    BY <2>1, InitInv, SerialInit
<1>2. Kept /\ [Next]_vars => Kept'
  BY NextInv, SerialNext, ReplayableNext
<1>3. Kept /\ [Next]_vars =>
        [\A d \in Deliveries :
            (/\ Active(d)
             /\ Len(delivery'[d].results) > Len(delivery[d].results)
             /\ Current(d) \in Landed) =>
                /\ UNCHANGED tables
                /\ delivery'[d].results[delivery[d].next] \in {"skipped", "failed"}]_vars
  BY ReplayStep
<1> QED
  BY <1>1, <1>2, <1>3, PTL DEF Spec, ReplayIsSkipped

\* Rows are whole, every audit entry says what was done, and a request that is
\* answered has exactly one result for each action of its batch.
THEOREM TypeCorrect == Spec => []TypeOK
<1> DEFINE Named == \A l \in sync_log : l.action \in {"insert", "update", "skip"}
<1>1. Init => Named
  BY DEF Init
<1>2. ASSUME Named, [Next]_vars PROVE Named'
  <2>1. ASSUME NEW d, NEW record, NEW action \in {"insert", "update", "skip"},
               Audit(d, record, action)
        PROVE  Named'
    BY <1>2, <2>1 DEF Audit
  <2>2. ASSUME UNCHANGED sync_log PROVE Named'
    BY <1>2, <2>2
  <2> HIDE DEF Named
  <2>3. ASSUME NEW d, Commit(d) PROVE Named'
    BY <2>1, <2>2, <2>3
       DEF Commit, ResolveExistingPlayer, InsertPlayer, SkipConsent, AppendConsent,
           InsertNatural, InsertConflict, UpdateNatural, SkipNatural, CommitFails
  <2> QED
    BY <1>2, <2>2, <2>3 DEF Next, Receive, RejectAction, LookUp, Terminating, vars
<1>3. Inv /\ Named => TypeOK
  <2> SUFFICES ASSUME Inv, Named PROVE TypeOK
    OBVIOUS
  <2>1. \A k \in DedupKeys :
            players[k] = None \/ DOMAIN players[k] = {"loc", "school", "grade"}
    BY DEF Inv, Types, PlayerType
  <2>2. \A k \in NaturalKeys : records[k] = None \/
            DOMAIN records[k] =
               {"player", "loc", "school", "ts", "client", "value", "reference"}
    BY DEF Inv, Types, RecordType
  <2>3. ASSUME NEW d \in Deliveries
        PROVE  /\ delivery[d].pc \in {"idle", "next", "commit", "done"}
               /\ Active(d) => Len(delivery[d].results) = delivery[d].next - 1
               /\ delivery[d].pc = "done" =>
                     Len(delivery[d].results) = Len(delivery[d].batch.actions)
    BY DEF Inv, Types, DeliveryType, Progress, Active
  <2> QED
    BY <2>1, <2>2, <2>3 DEF TypeOK
<1> QED
  BY <1>1, <1>2, <1>3, Inductive, PTL DEF Spec
=============================================================================
