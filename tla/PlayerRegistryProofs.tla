------------------------- MODULE PlayerRegistryProofs -------------------------
(***************************************************************************)
(* What holds of POST /players for every number of concurrent requests:    *)
(* an answered registration is complete, a child without any consent on    *)
(* the roster is accounted for, and what is doubled overlapped.            *)
(***************************************************************************)
EXTENDS PlayerRegistry, FiniteSetTheorems, SequenceTheorems, TLAPS

-----------------------------------------------------------------------------
(* The inductive invariant.                                                *)

Keys == {Key(r) : r \in Requests}

ConsentTypes == UNION {ToSet(Form[r].consents) : r \in Requests}

Refused(r) == Form[r].role \notin {"founder", "manager"} \/ Location(r) = None

Types ==
    /\ pc \in [Requests -> {"ready", "names", "lookup", "insert", "commit", "consents",
                            "answered", "refused", "dead"}]
    /\ created \in [Requests -> BOOLEAN]
    /\ todo \in [Requests -> Seq(STRING)]
    /\ pending \in [Requests -> {NoKey} \cup Keys]
    /\ \A r \in Requests : pending[r] \in {NoKey, Key(r)}
    /\ DOMAIN players \subseteq Keys
    /\ IsABag(consents) /\ IsABag(audit)
    /\ \A e \in DOMAIN audit :
          e \in (DOMAIN players) \X ({"insert"} \cup ConsentTypes)
    /\ crashes \in 0 .. MaxCrashes

HasConsent(k) == \E e \in DOMAIN consents : e[1] = k

\* What a request has found and done by the step that it is at.
RequestSound(r) ==
    /\ pc[r] \notin {"ready", "refused"} => ~Refused(r)
    /\ pc[r] \in {"names", "lookup"} => ~created[r]
    /\ pc[r] \in {"names", "lookup", "insert", "commit"} => todo[r] = Form[r].consents
    /\ pc[r] = "commit" /\ ~created[r] => Key(r) \in DOMAIN players
    /\ pc[r] \in {"consents", "answered"} => Key(r) \in DOMAIN players
    /\ pc[r] = "consents" =>
          /\ ToSet(todo[r]) \subseteq ToSet(Form[r].consents)
          /\ todo[r] = Form[r].consents \/ HasConsent(Key(r))
    /\ pc[r] = "answered" => todo[r] = <<>>

\* The requests that have appended this consent for this child.
Given(k, t) ==
    {q \in Requests : /\ Key(q) = k
                      /\ t \in ToSet(Form[q].consents)
                      /\ pc[q] \in {"consents", "answered"}
                      /\ t \notin ToSet(todo[q])}

ConsentsCounted ==
    \A k \in Keys, t \in ConsentTypes : Copies(<<k, t>>, consents) >= Cardinality(Given(k, t))

\* A row without any consent is one whose consents are being appended, unless a
\* request has died.
RosterAccounted ==
    \A k \in DOMAIN players :
        \/ HasConsent(k)
        \/ \E r \in Requests : Key(r) = k /\ pc[r] = "consents"
        \/ /\ crashes > 0
           /\ \/ \E r \in Requests : Key(r) = k /\ (Active(r) \/ pc[r] = "dead")
              \/ \E k2 \in DOMAIN players \ {k} : k2[1] = k[1]

\* Requests that are being handled have overlapped.
ActiveOverlap ==
    \A r, q \in Requests : r # q /\ Active(r) /\ Active(q) => {r, q} \in overlap

\* A namesake that a request did not see was committed while it was handled.
NamesakesOverlap ==
    \A r \in Requests : pc[r] \in {"lookup", "insert", "commit"} =>
        \A k \in DOMAIN players : k # Key(r) /\ k[1] = Form[r].name =>
            \E q \in Requests : Key(q) = k /\ {r, q} \in overlap

\* So was a row of the same key that it is about to insert once more.
InsertsOverlap ==
    \A r \in Requests :
        /\ pc[r] \in {"insert", "commit"} /\ (pc[r] = "commit" => created[r])
        /\ <<Key(r), "insert">> \in DOMAIN audit
        => \E q \in Requests \ {r} : Key(q) = Key(r) /\ {r, q} \in overlap

\* Every row has its insert entry.
InsertsLogged == \A k \in DOMAIN players : <<k, "insert">> \in DOMAIN audit

Inv ==
    /\ Types
    /\ \A r \in Requests : RequestSound(r)
    /\ ConsentsCounted
    /\ RosterAccounted
    /\ ActiveOverlap
    /\ NamesakesOverlap
    /\ InsertsOverlap
    /\ InsertsLogged
    /\ DuplicatesOverlapped

-----------------------------------------------------------------------------
(* Lemmas on ledgers, sequences and sets of keys.                          *)

\* Appending an entry to a ledger adds one copy of it and nothing else.
LEMMA Appended ==
    ASSUME NEW B, IsABag(B), NEW e
    PROVE  LET C == B (+) SetToBag({e})
           IN  /\ IsABag(C)
               /\ DOMAIN C = DOMAIN B \cup {e}
               /\ \A x : Copies(x, C) = Copies(x, B) + (IF x = e THEN 1 ELSE 0)
  BY DEF IsABag, (+), SetToBag, Copies

LEMMA NothingAppended ==
    ASSUME NEW B, IsABag(B)
    PROVE  B (+) SetToBag({}) = B
  BY DEF IsABag, (+), SetToBag

\* Every entry of a ledger has a copy.
LEMMA CopiesOf ==
    ASSUME NEW B, IsABag(B), NEW e
    PROVE  Copies(e, B) \in Nat /\ (e \in DOMAIN B <=> Copies(e, B) >= 1)
  BY DEF IsABag, Copies

LEMMA HeadAndTail ==
    ASSUME NEW s \in Seq(STRING), s # <<>>
    PROVE  /\ Tail(s) \in Seq(STRING)
           /\ ToSet(s) = {Head(s)} \cup ToSet(Tail(s))
           /\ Head(s) \in STRING
<1>1. Tail(s) \in Seq(STRING) /\ Head(s) \in STRING
  OBVIOUS
<1>2. ASSUME NEW x \in ToSet(s) PROVE x \in {Head(s)} \cup ToSet(Tail(s))
  <2>1. PICK i \in 1 .. Len(s) : x = s[i]
    BY <1>2 DEF ToSet
  <2>2. CASE i = 1
    BY <2>1, <2>2
  <2>3. CASE i # 1
    <3>1. i \in Nat /\ Len(s) \in Nat /\ i > 1 /\ i =< Len(s)
      BY <2>1, <2>3
    <3>2. /\ Len(Tail(s)) = Len(s) - 1
          /\ \A j \in 1 .. Len(Tail(s)) : Tail(s)[j] = s[j + 1]
      BY HeadTailProperties
    <3> DEFINE j == i - 1
    <3>3. j \in 1 .. Len(Tail(s)) /\ Tail(s)[j] = s[i]
      <4>1. j \in 1 .. Len(Tail(s)) /\ j + 1 = i
        BY <3>1, <3>2
      <4> HIDE DEF j
      <4> QED
        BY <3>2, <4>1
    <3> HIDE DEF j
    <3> QED
      <4>1. DOMAIN Tail(s) = 1 .. Len(Tail(s))
        BY <1>1
      <4>2. x \in ToSet(Tail(s))
        BY <2>1, <3>3, <4>1, Zenon DEF ToSet
      <4> QED
        BY <4>2
  <2> QED
    BY <2>2, <2>3
<1>3. Head(s) \in ToSet(s)
  BY DEF ToSet
<1>4. ASSUME NEW x \in ToSet(Tail(s)) PROVE x \in ToSet(s)
  <2>1. PICK i \in 1 .. Len(Tail(s)) : x = Tail(s)[i]
    BY <1>1, <1>4 DEF ToSet
  <2>2. i + 1 \in 1 .. Len(s) /\ s[i + 1] = x
    BY <2>1
  <2> QED
    BY <2>2 DEF ToSet
<1> QED
  BY <1>1, <1>2, <1>3, <1>4

LEMMA NothingInEmpty == ToSet(<<>>) = {}
  BY DEF ToSet

LEMMA FormTypes ==
    ASSUME NEW r \in Requests
    PROVE  /\ Form[r].consents \in Seq(STRING) /\ Form[r].consents # <<>>
           /\ ToSet(Form[r].consents) \subseteq ConsentTypes
           /\ ConsentTypes \subseteq STRING /\ "insert" \notin ConsentTypes
           /\ Key(r) \in Keys /\ Key(r)[1] = Form[r].name
           /\ NoKey \notin Keys
<1>1. \A q \in Requests : ToSet(Form[q].consents) \subseteq STRING
  BY RegistryAssumption DEF ToSet
<1>2. NoKey \notin Keys
  BY DEF NoKey, Keys, Key
<1> QED
  BY <1>1, <1>2, RegistryAssumption DEF ConsentTypes, Keys, Key

LEMMA FiniteKeys == IsFiniteSet(Keys)
<1> DEFINE f == [r \in Requests |-> Key(r)]
<1>1. f \in Surjection(Requests, Keys)
  BY DEF Surjection, Keys
<1> QED
  BY <1>1, FS_Surjection, RegistryAssumption

\* A second key of a name is what makes it ambiguous.
LEMMA Ambiguous ==
    ASSUME NEW S, IsFiniteSet(S), NEW k
    PROVE  Cardinality({k} \cup S) > 1 <=> \E x \in S : x # k
<1>1. IsFiniteSet({k} \cup S) /\ Cardinality({k} \cup S) \in Nat
  <2>1. IsFiniteSet({k} \cup S)
    BY FS_AddElement
  <2> QED
    BY <2>1, FS_CardinalityType
<1>2. ASSUME \A x \in S : x = k PROVE Cardinality({k} \cup S) = 1
  <2>1. {k} \cup S = {k}
    BY <1>2
  <2> QED
    BY <2>1, FS_Singleton
<1>3. ASSUME NEW x \in S, x # k PROVE Cardinality({k} \cup S) > 1
  <2>1. Cardinality({k} \cup S) # 0
    BY <1>1, FS_EmptySet
  <2>2. Cardinality({k} \cup S) # 1
    BY <1>1, <1>3, FS_Singleton
  <2> QED
    BY <1>1, <2>1, <2>2
<1> QED
  BY <1>2, <1>3

\* A set of requests is counted.
LEMMA GivenFinite ==
    ASSUME NEW k, NEW t
    PROVE  IsFiniteSet(Given(k, t)) /\ Cardinality(Given(k, t)) \in Nat
<1>1. Given(k, t) \in SUBSET Requests
  BY DEF Given
<1> QED
  BY <1>1, FS_Subset, FS_CardinalityType, RegistryAssumption

-----------------------------------------------------------------------------
LEMMA InitInv == Init => Inv
<1> SUFFICES ASSUME Init
             PROVE  Inv
  OBVIOUS
<1>1. IsABag(consents) /\ IsABag(audit) /\ DOMAIN consents = {} /\ DOMAIN audit = {}
  BY DEF Init, EmptyBag, SetToBag, IsABag
<1>2. DOMAIN players = {}
  BY DEF Init
<1>3. Types
  BY <1>1, <1>2, RegistryAssumption DEF Init, Types
<1>4. \A r \in Requests : RequestSound(r)
  BY DEF Init, RequestSound
<1>5. ConsentsCounted
  <2> SUFFICES ASSUME NEW k \in Keys, NEW t \in ConsentTypes
               PROVE  Copies(<<k, t>>, consents) >= Cardinality(Given(k, t))
    BY DEF ConsentsCounted
  <2>1. Given(k, t) = {}
    BY DEF Init, Given
  <2> QED
    BY <1>1, <2>1, FS_EmptySet, CopiesOf
<1>6. ActiveOverlap /\ NamesakesOverlap /\ InsertsOverlap
  BY DEF Init, Active, ActiveOverlap, NamesakesOverlap, InsertsOverlap
<1> QED
  BY <1>2, <1>3, <1>4, <1>5, <1>6
     DEF Inv, RosterAccounted, InsertsLogged, DuplicatesOverlapped

-----------------------------------------------------------------------------
(* One lemma for each action.                                              *)

\* Overlaps are never forgotten.
LEMMA DuplicatesStay ==
    ASSUME DuplicatesOverlapped, overlap \subseteq overlap', UNCHANGED <<players, audit>>
    PROVE  DuplicatesOverlapped'
<1>1. ASSUME NEW k1 \in DOMAIN players, NEW k2 \in DOMAIN players, k1 # k2, k1[1] = k2[1]
      PROVE  \E r, q \in Requests : Key(r) = k1 /\ Key(q) = k2 /\ {r, q} \in overlap'
  <2>1. PICK r \in Requests, q \in Requests : Key(r) = k1 /\ Key(q) = k2 /\ {r, q} \in overlap
    BY <1>1 DEF DuplicatesOverlapped
  <2>2. {r, q} \in overlap'
    BY <2>1
  <2> QED
    BY <2>1, <2>2
<1>2. ASSUME NEW k \in DOMAIN players, Copies(<<k, "insert">>, audit) > 1
      PROVE  \E r, q \in Requests :
                r # q /\ Key(r) = k /\ Key(q) = k /\ {r, q} \in overlap'
  BY <1>2 DEF DuplicatesOverlapped
<1>3. players' = players /\ audit' = audit
  OBVIOUS
<1>4. (\A k1, k2 \in DOMAIN players : k1 # k2 /\ k1[1] = k2[1] =>
          \E r, q \in Requests : Key(r) = k1 /\ Key(q) = k2 /\ {r, q} \in overlap)'
  BY <1>1, <1>3
<1>5. (\A k \in DOMAIN players : Copies(<<k, "insert">>, audit) > 1 =>
          \E r, q \in Requests :
              r # q /\ Key(r) = k /\ Key(q) = k /\ {r, q} \in overlap)'
  BY <1>2, <1>3
<1> QED
  BY <1>4, <1>5 DEF DuplicatesOverlapped

LEMMA StartInv ==
    ASSUME Inv, NEW r \in Requests, Start(r)
    PROVE  Inv'
<1> DEFINE step == IF Refused(r) THEN "refused" ELSE "names"
<1>1. /\ pc[r] \in {"ready", "dead"}
      /\ pc' = [pc EXCEPT ![r] = step]
      /\ overlap' = overlap \cup {{r, q} : q \in {p \in Requests : Active(p)}}
      /\ todo' = [todo EXCEPT ![r] = Form[r].consents]
      /\ created' = [created EXCEPT ![r] = FALSE]
      /\ UNCHANGED <<pending, players, consents, audit, crashes>>
  BY DEF Start, Refused
<1>2. step \in {"names", "refused"} /\ (step = "names" => ~Refused(r))
  OBVIOUS
<1>3. pc[r] = "dead" => step = "names"
  BY DEF Inv, RequestSound
<1> HIDE DEF step
<1>4. Types'
  BY <1>1, <1>2, FormTypes DEF Inv, Types
<1>5. \A q \in Requests \ {r} : /\ pc'[q] = pc[q] /\ todo'[q] = todo[q] /\ created'[q] = created[q]
                                /\ Active(q)' = Active(q)
  BY <1>1 DEF Inv, Types, Active
<1>6. pc'[r] = step /\ todo'[r] = Form[r].consents /\ created'[r] = FALSE
  BY <1>1 DEF Inv, Types
<1>7. \A q \in Requests : RequestSound(q)'
  <2>1. RequestSound(r)'
    BY <1>2, <1>6 DEF RequestSound, Refused, Location
  <2>2. ASSUME NEW q \in Requests \ {r} PROVE RequestSound(q)'
    BY <1>1, <1>5 DEF Inv, RequestSound, Refused, Location, HasConsent
  <2> QED
    BY <2>1, <2>2
<1>8. ConsentsCounted'
  <2> SUFFICES ASSUME NEW k \in Keys, NEW t \in ConsentTypes
               PROVE  (Copies(<<k, t>>, consents) >= Cardinality(Given(k, t)))'
    BY DEF ConsentsCounted, Keys, ConsentTypes, Key
  <2>1. Given(k, t)' = Given(k, t)
    BY <1>1, <1>2, <1>5, <1>6 DEF Given, Key
  <2> QED
    BY <1>1, <2>1 DEF Inv, ConsentsCounted, Copies
<1>9. RosterAccounted'
  <2>1. \A q \in Requests : pc[q] = "consents" => pc'[q] = "consents"
    BY <1>1, <1>5
  <2>2. \A q \in Requests : Active(q) \/ pc[q] = "dead" => Active(q)' \/ pc'[q] = "dead"
    BY <1>1, <1>3, <1>5, <1>6 DEF Active
  <2> QED
    BY <1>1, <2>1, <2>2 DEF Inv, RosterAccounted, HasConsent, Key
<1>10. ActiveOverlap'
  <2>1. \A q \in Requests : Active(q) => {r, q} \in overlap' /\ {q, r} \in overlap'
    BY <1>1
  <2> QED
    BY <1>1, <1>5, <2>1 DEF Inv, ActiveOverlap
<1>11. NamesakesOverlap'
  BY <1>1, <1>2, <1>5, <1>6 DEF Inv, NamesakesOverlap, Key
<1>12. InsertsOverlap'
  BY <1>1, <1>2, <1>5, <1>6 DEF Inv, InsertsOverlap, Key
<1>13. InsertsLogged' /\ DuplicatesOverlapped'
  <2>1. overlap \subseteq overlap'
    BY <1>1
  <2> QED
    BY <1>1, <2>1, DuplicatesStay DEF Inv, InsertsLogged
<1> QED
  BY <1>4, <1>7, <1>8, <1>9, <1>10, <1>11, <1>12, <1>13 DEF Inv

\* A request that goes on without a commit leaves the roster and the ledgers as
\* they are; what it needs to know at its next step it has found.
LEMMA GoesOn ==
    ASSUME Inv, NEW r \in Requests, Active(r),
           NEW step \in {"names", "lookup", "insert", "commit", "consents",
                         "answered", "refused", "dead"},
           NEW mark \in BOOLEAN,
           pc' = [pc EXCEPT ![r] = step],
           created' = [created EXCEPT ![r] = mark],
           UNCHANGED <<todo, players, consents, audit, overlap>>,
           pending' \in [Requests -> {NoKey} \cup Keys],
           \A q \in Requests : pending'[q] \in {NoKey, Key(q)},
           crashes' \in crashes .. MaxCrashes,
           RequestSound(r)',
           step \in {"consents", "answered"} => pc[r] = "consents",
           \/ step \in {"names", "lookup", "insert", "commit", "consents"}
              /\ (pc[r] = "consents" => step = "consents")
           \/ HasConsent(Key(r))
           \/ step = "dead" /\ crashes' > 0
           \/ pc[r] # "consents" /\ \E k \in DOMAIN players \ {Key(r)} : k[1] = Key(r)[1],
           step \in {"lookup", "insert", "commit"} =>
              \/ pc[r] \in {"lookup", "insert", "commit"}
              \/ \A k \in DOMAIN players : k # Key(r) => k[1] # Form[r].name,
           step = "insert" \/ (step = "commit" /\ mark) =>
              \/ pc[r] = "insert"
              \/ <<Key(r), "insert">> \notin DOMAIN audit
    PROVE  Inv'
<1>1. \A q \in Requests \ {r} : /\ pc'[q] = pc[q] /\ created'[q] = created[q]
                                /\ Active(q)' = Active(q)
  BY DEF Inv, Types, Active
<1>2. pc'[r] = step /\ created'[r] = mark /\ (Active(r)' => Active(r))
  BY DEF Inv, Types
<1>3. Types'
  <2>1. /\ pc' \in [Requests -> {"ready", "names", "lookup", "insert", "commit",
                                 "consents", "answered", "refused", "dead"}]
        /\ created' \in [Requests -> BOOLEAN] /\ todo' \in [Requests -> Seq(STRING)]
        /\ crashes' \in 0 .. MaxCrashes
    BY DEF Inv, Types
  <2>2. (/\ DOMAIN players \subseteq Keys
         /\ IsABag(consents) /\ IsABag(audit)
         /\ \A e \in DOMAIN audit :
               e \in (DOMAIN players) \X ({"insert"} \cup ConsentTypes))'
    <3>1. players' = players /\ consents' = consents /\ audit' = audit
      OBVIOUS
    <3> QED
      BY <3>1 DEF Inv, Types, Keys, Key, ConsentTypes
  <2> QED
    BY <2>1, <2>2 DEF Types, Keys, Key
<1>4. ASSUME NEW q \in Requests PROVE RequestSound(q)'
  <2>1. CASE q = r
    BY <2>1
  <2>2. CASE q # r
    BY <1>1, <2>2 DEF Inv, RequestSound, Refused, Location, HasConsent, Key
  <2> QED
    BY <2>1, <2>2
<1>5. ConsentsCounted'
  <2> SUFFICES ASSUME NEW k \in Keys, NEW t \in ConsentTypes
               PROVE  (Copies(<<k, t>>, consents) >= Cardinality(Given(k, t)))'
    BY DEF ConsentsCounted, Keys, ConsentTypes, Key
  <2>1. Given(k, t)' \in SUBSET Given(k, t)
    BY <1>1, <1>2 DEF Given, Key
  <2>2. Cardinality(Given(k, t)') =< Cardinality(Given(k, t))
    BY <2>1, GivenFinite, FS_Subset
  <2>3. Cardinality(Given(k, t)') \in Nat /\ Cardinality(Given(k, t)) \in Nat
    BY <2>1, GivenFinite, FS_Subset, FS_CardinalityType
  <2>4. Copies(<<k, t>>, consents) \in Nat
    BY CopiesOf DEF Inv, Types
  <2>5. Copies(<<k, t>>, consents) >= Cardinality(Given(k, t))
    BY DEF Inv, ConsentsCounted
  <2>6. Copies(<<k, t>>, consents)' = Copies(<<k, t>>, consents)
    BY DEF Copies
  <2> QED
    BY <2>2, <2>3, <2>4, <2>5, <2>6
<1>6. RosterAccounted'
  <2> SUFFICES ASSUME NEW k \in DOMAIN players
               PROVE  (\/ HasConsent(k)
                       \/ \E q \in Requests : Key(q) = k /\ pc[q] = "consents"
                       \/ /\ crashes > 0
                          /\ \/ \E q \in Requests : Key(q) = k /\ (Active(q) \/ pc[q] = "dead")
                             \/ \E k2 \in DOMAIN players \ {k} : k2[1] = k[1])'
    BY DEF RosterAccounted
  <2>1. HasConsent(k)' <=> HasConsent(k)
    BY DEF HasConsent
  <2>2. crashes > 0 => crashes' > 0
    BY DEF Inv, Types
  <2>3. CASE HasConsent(k)
    BY <2>1, <2>3
  <2>4. ASSUME NEW q \in Requests, Key(q) = k, pc[q] = "consents", ~HasConsent(k)
        PROVE  \/ \E p \in Requests : Key(p)' = k /\ pc'[p] = "consents"
               \/ crashes' > 0 /\ \E p \in Requests : Key(p)' = k /\ pc'[p] = "dead"
    BY <1>1, <1>2, <2>4 DEF Key
  <2>5. ASSUME NEW q \in Requests, Key(q) = k, Active(q) \/ pc[q] = "dead", ~HasConsent(k)
        PROVE  \/ \E p \in Requests : Key(p)' = k /\ (Active(p)' \/ pc'[p] = "dead")
               \/ \E k2 \in DOMAIN players \ {k} : k2[1] = k[1]
    <3>1. CASE q # r
      BY <1>1, <2>5, <3>1 DEF Key
    <3>2. CASE q = r
      <4>1. step \in {"names", "lookup", "insert", "commit", "consents"} => Active(r)'
        BY <1>2 DEF Active
      <4> QED
        BY <1>2, <2>5, <3>2, <4>1 DEF Key
    <3> QED
      BY <3>1, <3>2
  <2>6. \/ HasConsent(k)
        \/ \E q \in Requests : Key(q) = k /\ pc[q] = "consents"
        \/ /\ crashes > 0
           /\ \/ \E q \in Requests : Key(q) = k /\ (Active(q) \/ pc[q] = "dead")
              \/ \E k2 \in DOMAIN players \ {k} : k2[1] = k[1]
    BY DEF Inv, RosterAccounted
  <2> QED
    BY <2>1, <2>2, <2>3, <2>4, <2>5, <2>6
<1>7. ActiveOverlap'
  BY <1>1, <1>2 DEF Inv, ActiveOverlap
<1>8. NamesakesOverlap'
  BY <1>1, <1>2 DEF Inv, NamesakesOverlap, Key
<1>9. InsertsOverlap'
  BY <1>1, <1>2 DEF Inv, InsertsOverlap, Key
<1>10. InsertsLogged' /\ DuplicatesOverlapped'
  BY DuplicatesStay DEF Inv, InsertsLogged
<1> QED
  BY <1>3, <1>4, <1>5, <1>6, <1>7, <1>8, <1>9, <1>10 DEF Inv

LEMMA ReadNamesInv ==
    ASSUME Inv, NEW r \in Requests, ReadNames(r)
    PROVE  Inv'
<1> DEFINE same == {k \in DOMAIN players : k[1] = Form[r].name}
           step == IF Cardinality({Key(r)} \cup same) > 1 THEN "refused" ELSE "lookup"
<1>1. /\ pc[r] = "names" /\ pc' = [pc EXCEPT ![r] = step]
      /\ UNCHANGED <<created, todo, pending, players, consents, audit, overlap, crashes>>
  BY DEF ReadNames
<1>2. IsFiniteSet(same)
  <2>1. same \in SUBSET Keys
    BY DEF Inv, Types
  <2> QED
    BY <2>1, FiniteKeys, FS_Subset
<1>3. step = "refused" => \E k \in DOMAIN players \ {Key(r)} : k[1] = Key(r)[1]
  <2> SUFFICES ASSUME step = "refused"
               PROVE  \E k \in DOMAIN players \ {Key(r)} : k[1] = Key(r)[1]
    OBVIOUS
  <2>1. Cardinality({Key(r)} \cup same) > 1
    OBVIOUS
  <2> HIDE DEF same
  <2>2. PICK k \in same : k # Key(r)
    BY <1>2, <2>1, Ambiguous
  <2>3. k \in DOMAIN players \ {Key(r)} /\ k[1] = Key(r)[1]
    BY <2>2, FormTypes DEF same
  <2> QED
    BY <2>3
<1>4. step = "lookup" => \A k \in DOMAIN players : k # Key(r) => k[1] # Form[r].name
  <2>1. step = "lookup" => \A k \in same : k = Key(r)
    BY <1>2, Ambiguous
  <2> QED
    BY <2>1
<1>5. step \in {"refused", "lookup"}
  OBVIOUS
<1> HIDE DEF step, same
<1>6. created' = [created EXCEPT ![r] = FALSE] /\ Active(r)
  BY <1>1 DEF Inv, Types, RequestSound, Active
<1>7. RequestSound(r)'
  BY <1>1, <1>5 DEF Inv, Types, RequestSound, Refused, Location, Key
<1>8. /\ pending' \in [Requests -> {NoKey} \cup Keys]
      /\ \A q \in Requests : pending'[q] \in {NoKey, Key(q)}
      /\ crashes' \in crashes .. MaxCrashes
  BY <1>1 DEF Inv, Types
<1> QED
  BY <1>1, <1>3, <1>4, <1>5, <1>6, <1>7, <1>8, GoesOn

LEMMA LookupInv ==
    ASSUME Inv, NEW r \in Requests, Lookup(r)
    PROVE  Inv'
<1> DEFINE step == IF Key(r) \in DOMAIN players THEN "commit" ELSE "insert"
<1>1. /\ pc[r] = "lookup" /\ pc' = [pc EXCEPT ![r] = step]
      /\ UNCHANGED <<created, todo, pending, players, consents, audit, overlap, crashes>>
  BY DEF Lookup
<1>2. /\ step \in {"commit", "insert"}
      /\ step = "commit" => Key(r) \in DOMAIN players
      /\ step = "insert" => <<Key(r), "insert">> \notin DOMAIN audit
  BY DEF Inv, Types
<1> HIDE DEF step
<1>3. created' = [created EXCEPT ![r] = FALSE] /\ Active(r)
  BY <1>1 DEF Inv, Types, RequestSound, Active
<1>4. RequestSound(r)'
  BY <1>1, <1>2 DEF Inv, Types, RequestSound, Refused, Location, Key
<1>5. /\ pending' \in [Requests -> {NoKey} \cup Keys]
      /\ \A q \in Requests : pending'[q] \in {NoKey, Key(q)}
      /\ crashes' \in crashes .. MaxCrashes
  BY <1>1 DEF Inv, Types
<1> QED
  BY <1>1, <1>2, <1>3, <1>4, <1>5, GoesOn

LEMMA InsertInv ==
    ASSUME Inv, NEW r \in Requests, Insert(r)
    PROVE  Inv'
<1>1. /\ pc[r] = "insert" /\ pc' = [pc EXCEPT ![r] = "commit"]
      /\ created' = [created EXCEPT ![r] = TRUE]
      /\ UNCHANGED <<todo, players, consents, audit, overlap, crashes>>
  BY DEF Insert
<1>2. Active(r)
  BY <1>1 DEF Active
<1>3. RequestSound(r)'
  BY <1>1 DEF Inv, Types, RequestSound, Refused, Location, Key
<1>4. /\ pending' \in [Requests -> {NoKey} \cup Keys]
      /\ \A q \in Requests : pending'[q] \in {NoKey, Key(q)}
      /\ crashes' \in crashes .. MaxCrashes
  BY <1>1, FormTypes DEF Inv, Types, Insert
<1> QED
  BY <1>1, <1>2, <1>3, <1>4, GoesOn

LEMMA AnswerInv ==
    ASSUME Inv, NEW r \in Requests, Answer(r)
    PROVE  Inv'
<1>1. /\ pc[r] = "consents" /\ todo[r] = <<>> /\ pc' = [pc EXCEPT ![r] = "answered"]
      /\ UNCHANGED <<created, todo, pending, players, consents, audit, overlap, crashes>>
  BY DEF Answer
<1>2. Active(r) /\ created' = [created EXCEPT ![r] = created[r]] /\ created[r] \in BOOLEAN
  BY <1>1 DEF Active, Inv, Types
<1>3. HasConsent(Key(r))
  BY <1>1, FormTypes DEF Inv, RequestSound
<1>4. RequestSound(r)'
  BY <1>1 DEF Inv, Types, RequestSound, Refused, Location, Key
<1>5. /\ pending' \in [Requests -> {NoKey} \cup Keys]
      /\ \A q \in Requests : pending'[q] \in {NoKey, Key(q)}
      /\ crashes' \in crashes .. MaxCrashes
  BY <1>1 DEF Inv, Types
<1> QED
  BY <1>1, <1>2, <1>3, <1>4, <1>5, GoesOn

LEMMA CrashInv ==
    ASSUME Inv, NEW r \in Requests, Crash(r)
    PROVE  Inv'
<1>1. /\ Active(r) /\ pc' = [pc EXCEPT ![r] = "dead"]
      /\ crashes' = crashes + 1 /\ crashes < MaxCrashes
      /\ UNCHANGED <<created, todo, players, consents, audit, overlap>>
  BY DEF Crash
<1>2. created' = [created EXCEPT ![r] = created[r]] /\ created[r] \in BOOLEAN
  BY <1>1 DEF Inv, Types
<1>3. RequestSound(r)'
  BY <1>1 DEF Inv, Types, RequestSound, Refused, Location, Key, Active
<1>4. /\ pending' \in [Requests -> {NoKey} \cup Keys]
      /\ \A q \in Requests : pending'[q] \in {NoKey, Key(q)}
  BY FormTypes DEF Inv, Types, Crash
<1>5. crashes' \in crashes .. MaxCrashes /\ crashes' > 0
  BY <1>1, RegistryAssumption DEF Inv, Types
<1> QED
  BY <1>1, <1>2, <1>3, <1>4, <1>5, GoesOn

\* The commit adds the row, if it is new, and the insert entry of a created one.
LEMMA CommitInv ==
    ASSUME Inv, NEW r \in Requests, Commit(r)
    PROVE  Inv'
<1> DEFINE k0 == Key(r)
           entry == <<k0, "insert">>
<1>1. /\ pc[r] = "commit" /\ pc' = [pc EXCEPT ![r] = "consents"]
      /\ pending' = [pending EXCEPT ![r] = NoKey]
      /\ UNCHANGED <<created, todo, consents, overlap, crashes>>
  BY DEF Commit
<1>2. DOMAIN players' = DOMAIN players \cup {k0}
  BY DEF Commit, Registered
<1>3. IF created[r] THEN audit' = audit (+) SetToBag({entry}) ELSE audit' = audit
  <2>1. created[r] \in BOOLEAN /\ IsABag(audit)
    BY DEF Inv, Types
  <2> QED
    BY <2>1, NothingAppended DEF Commit
<1>4. /\ IsABag(audit')
      /\ DOMAIN audit' = DOMAIN audit \cup (IF created[r] THEN {entry} ELSE {})
      /\ \A x : Copies(x, audit') = Copies(x, audit) + (IF created[r] /\ x = entry THEN 1 ELSE 0)
  <2>1. IsABag(audit) /\ created[r] \in BOOLEAN
    BY DEF Inv, Types
  <2>2. CASE created[r]
    <3> HIDE DEF entry
    <3> DEFINE C == audit (+) SetToBag({entry})
    <3>1. /\ IsABag(C)
          /\ DOMAIN C = DOMAIN audit \cup {entry}
          /\ \A x : Copies(x, C) = Copies(x, audit) + (IF x = entry THEN 1 ELSE 0)
      BY <2>1, Appended
    <3>2. audit' = C
      BY <1>3, <2>2
    <3> HIDE DEF C
    <3> QED
      BY <2>2, <3>1, <3>2
  <2>3. CASE ~created[r]
    BY <1>3, <2>1, <2>3, CopiesOf
  <2> QED
    BY <2>2, <2>3
<1>5. entry \in DOMAIN audit'
  <2>1. ~created[r] => k0 \in DOMAIN players
    BY <1>1 DEF Inv, RequestSound
  <2> QED
    BY <1>4, <2>1 DEF Inv, InsertsLogged
<1>6. \A q \in Requests \ {r} : pc'[q] = pc[q] /\ Active(q)' = Active(q)
  BY <1>1 DEF Inv, Types, Active
<1>7. pc'[r] = "consents" /\ Active(r)
  BY <1>1 DEF Inv, Types, Active
<1>8. k0 \in Keys /\ k0[1] = Form[r].name /\ NoKey \notin Keys
  BY FormTypes
<1>9. \A q : Key(q)' = Key(q)
  BY DEF Key
<1> HIDE DEF k0
<1>10. \A q \in Requests : q # r /\ Active(q) => {r, q} \in overlap /\ {q, r} \in overlap
  BY <1>7 DEF Inv, ActiveOverlap
<1>11. Types'
  <2>1. /\ pc' \in [Requests -> {"ready", "names", "lookup", "insert", "commit",
                                 "consents", "answered", "refused", "dead"}]
        /\ created' \in [Requests -> BOOLEAN] /\ todo' \in [Requests -> Seq(STRING)]
        /\ crashes' \in 0 .. MaxCrashes /\ IsABag(consents')
    BY <1>1 DEF Inv, Types
  <2>2. (/\ pending \in [Requests -> {NoKey} \cup Keys]
         /\ \A q \in Requests : pending[q] \in {NoKey, Key(q)})'
    BY <1>1, <1>9 DEF Inv, Types, Keys
  <2>3. DOMAIN players' \subseteq Keys'
    BY <1>2, <1>8, <1>9 DEF Inv, Types, Keys
  <2>4. \A e \in DOMAIN audit' :
            e \in (DOMAIN players') \X ({"insert"} \cup ConsentTypes)
    BY <1>2, <1>4 DEF Inv, Types
  <2> QED
    BY <1>4, <2>1, <2>2, <2>3, <2>4 DEF Types, ConsentTypes
<1>12. ASSUME NEW q \in Requests PROVE RequestSound(q)'
  <2>1. \A x : HasConsent(x)' = HasConsent(x)
    BY <1>1 DEF HasConsent
  <2>2. CASE q = r
    <3>1. todo'[r] = Form[r].consents /\ ~Refused(r)
      BY <1>1 DEF Inv, RequestSound
    <3> QED
      BY <1>2, <1>7, <2>2, <3>1 DEF RequestSound, Refused, Location, k0
  <2>3. CASE q # r
    BY <1>1, <1>2, <1>6, <1>9, <2>1, <2>3 DEF Inv, RequestSound, Refused, Location
  <2> QED
    BY <2>2, <2>3
<1>13. ConsentsCounted'
  <2> SUFFICES ASSUME NEW k \in Keys, NEW t \in ConsentTypes
               PROVE  (Copies(<<k, t>>, consents) >= Cardinality(Given(k, t)))'
    BY DEF ConsentsCounted, Keys, ConsentTypes, Key
  <2>1. todo[r] = Form[r].consents
    BY <1>1 DEF Inv, RequestSound
  <2>2. Given(k, t)' = Given(k, t)
    BY <1>1, <1>6, <1>7, <1>9, <2>1 DEF Given
  <2> QED
    BY <1>1, <2>2 DEF Inv, ConsentsCounted, Copies
<1>14. RosterAccounted'
  <2> SUFFICES ASSUME NEW k \in DOMAIN players'
               PROVE  (\/ HasConsent(k)
                       \/ \E q \in Requests : Key(q) = k /\ pc[q] = "consents"
                       \/ /\ crashes > 0
                          /\ \/ \E q \in Requests : Key(q) = k /\ (Active(q) \/ pc[q] = "dead")
                             \/ \E k2 \in DOMAIN players \ {k} : k2[1] = k[1])'
    BY DEF RosterAccounted
  <2>1. CASE k = k0
    BY <1>7, <1>9, <2>1 DEF k0
  <2>2. CASE k # k0
    <3>1. \/ HasConsent(k)
          \/ \E q \in Requests : Key(q) = k /\ pc[q] = "consents"
          \/ /\ crashes > 0
             /\ \/ \E q \in Requests : Key(q) = k /\ (Active(q) \/ pc[q] = "dead")
                \/ \E k2 \in DOMAIN players \ {k} : k2[1] = k[1]
      BY <1>2, <2>2 DEF Inv, RosterAccounted
    <3>2. HasConsent(k)' = HasConsent(k)
      BY <1>1 DEF HasConsent
    <3>3. \A q \in Requests : Key(q) = k => pc'[q] = pc[q] /\ Active(q)' = Active(q)
      BY <1>6, <2>2 DEF k0
    <3> QED
      BY <1>1, <1>2, <1>9, <3>1, <3>2, <3>3
  <2> QED
    BY <2>1, <2>2
<1>15. ActiveOverlap'
  BY <1>1, <1>6, <1>7 DEF Inv, ActiveOverlap
<1>16. NamesakesOverlap'
  <2> SUFFICES ASSUME NEW q \in Requests, pc'[q] \in {"lookup", "insert", "commit"},
                      NEW k \in DOMAIN players', k # Key(q), k[1] = Form[q].name
               PROVE  \E p \in Requests : Key(p) = k /\ {q, p} \in overlap
    BY <1>1, <1>9 DEF NamesakesOverlap
  <2>1. q # r /\ pc[q] \in {"lookup", "insert", "commit"} /\ Active(q)
    BY <1>6, <1>7 DEF Active
  <2>2. CASE k = k0
    BY <1>10, <2>1, <2>2 DEF k0
  <2>3. CASE k # k0
    BY <1>2, <2>1, <2>3 DEF Inv, NamesakesOverlap
  <2> QED
    BY <2>2, <2>3
<1>17. InsertsOverlap'
  <2> SUFFICES ASSUME NEW q \in Requests, pc'[q] \in {"insert", "commit"},
                      pc'[q] = "commit" => created[q], <<Key(q), "insert">> \in DOMAIN audit'
               PROVE  \E p \in Requests \ {q} : Key(p) = Key(q) /\ {q, p} \in overlap
    BY <1>1, <1>9 DEF InsertsOverlap
  <2>1. q # r /\ pc[q] = pc'[q] /\ Active(q)
    BY <1>6, <1>7 DEF Active
  <2>2. CASE Key(q) = k0
    BY <1>10, <2>1, <2>2 DEF k0
  <2>3. CASE Key(q) # k0
    <3>1. <<Key(q), "insert">> \in DOMAIN audit
      BY <1>4, <2>3
    <3> QED
      BY <2>1, <3>1 DEF Inv, InsertsOverlap
  <2> QED
    BY <2>2, <2>3
<1>18. InsertsLogged'
  BY <1>2, <1>4, <1>5 DEF Inv, InsertsLogged
<1>19. DuplicatesOverlapped'
  <2>1. ASSUME NEW k1 \in DOMAIN players', NEW k2 \in DOMAIN players', k1 # k2, k1[1] = k2[1]
        PROVE  \E p, q \in Requests : Key(p) = k1 /\ Key(q) = k2 /\ {p, q} \in overlap
    <3>1. ASSUME NEW k \in DOMAIN players, k # k0, k[1] = k0[1]
          PROVE  \E q \in Requests : Key(q) = k /\ {r, q} \in overlap
      BY <1>1, <1>8, <3>1 DEF Inv, NamesakesOverlap, k0
    <3>2. CASE k1 = k0
      <4>1. PICK q \in Requests : Key(q) = k2 /\ {r, q} \in overlap
        BY <1>2, <2>1, <3>1, <3>2
      <4> QED
        BY <3>2, <4>1 DEF k0
    <3>3. CASE k2 = k0
      <4>1. PICK q \in Requests : Key(q) = k1 /\ {r, q} \in overlap
        BY <1>2, <2>1, <3>1, <3>3
      <4>2. {q, r} \in overlap
        <5>1. {q, r} = {r, q}
          OBVIOUS
        <5> QED
          BY <4>1, <5>1
      <4> QED
        BY <3>3, <4>1, <4>2 DEF k0
    <3>4. CASE k1 # k0 /\ k2 # k0
      <4>1. k1 \in DOMAIN players /\ k2 \in DOMAIN players
        BY <1>2, <3>4
      <4>2. PICK p \in Requests, q \in Requests :
                Key(p) = k1 /\ Key(q) = k2 /\ {p, q} \in overlap
        BY <2>1, <4>1 DEF Inv, DuplicatesOverlapped
      <4> QED
        BY <4>2
    <3> QED
      BY <3>2, <3>3, <3>4
  <2>2. ASSUME NEW k \in DOMAIN players', Copies(<<k, "insert">>, audit') > 1
        PROVE  \E p, q \in Requests : p # q /\ Key(p) = k /\ Key(q) = k /\ {p, q} \in overlap
    <3>1. Copies(<<k, "insert">>, audit) \in Nat
          /\ (<<k, "insert">> \in DOMAIN audit <=> Copies(<<k, "insert">>, audit) >= 1)
      BY CopiesOf DEF Inv, Types
    <3>2. CASE created[r] /\ k = k0
      <4>1. <<k0, "insert">> \in DOMAIN audit
        BY <1>4, <2>2, <3>1, <3>2
      <4>2. PICK q \in Requests \ {r} : Key(q) = Key(r) /\ {r, q} \in overlap
        BY <1>1, <3>2, <4>1 DEF Inv, InsertsOverlap, k0
      <4> QED
        BY <3>2, <4>2 DEF k0
    <3>3. CASE ~(created[r] /\ k = k0)
      <4>1. Copies(<<k, "insert">>, audit) > 1
        BY <1>4, <2>2, <3>1, <3>3
      <4>2. <<k, "insert">> \in DOMAIN audit
        BY <3>1, <4>1
      <4>3. k \in DOMAIN players
        BY <4>2 DEF Inv, Types
      <4> QED
        BY <4>1, <4>3 DEF Inv, DuplicatesOverlapped
    <3> QED
      BY <3>2, <3>3
  <2>3. (\A k1, k2 \in DOMAIN players : k1 # k2 /\ k1[1] = k2[1] =>
            \E p, q \in Requests : Key(p) = k1 /\ Key(q) = k2 /\ {p, q} \in overlap)'
    BY <1>1, <1>9, <2>1
  <2>4. (\A k \in DOMAIN players : Copies(<<k, "insert">>, audit) > 1 =>
            \E p, q \in Requests :
                p # q /\ Key(p) = k /\ Key(q) = k /\ {p, q} \in overlap)'
    BY <1>1, <1>9, <2>2
  <2> QED
    BY <2>3, <2>4 DEF DuplicatesOverlapped
<1> QED
  BY <1>11, <1>12, <1>13, <1>14, <1>15, <1>16, <1>17, <1>18, <1>19 DEF Inv

\* A consent is appended, and counted, for the child that exists already.
LEMMA AppendConsentInv ==
    ASSUME Inv, NEW r \in Requests, AppendConsent(r)
    PROVE  Inv'
<1> DEFINE k0 == Key(r)
           given == Head(todo[r])
           rest == Tail(todo[r])
           entry == <<k0, given>>
<1>1. /\ pc[r] = "consents" /\ todo[r] # <<>>
      /\ todo' = [todo EXCEPT ![r] = rest]
      /\ consents' = consents (+) SetToBag({entry})
      /\ audit' = audit (+) SetToBag({entry})
      /\ UNCHANGED <<pc, created, pending, players, overlap, crashes>>
  BY DEF AppendConsent
<1>2. /\ rest \in Seq(STRING)
      /\ ToSet(todo[r]) = {given} \cup ToSet(rest)
  BY <1>1, HeadAndTail DEF Inv, Types
<1>3. /\ ToSet(todo[r]) \subseteq ToSet(Form[r].consents)
      /\ k0 \in DOMAIN players /\ ~Refused(r)
  BY <1>1 DEF Inv, RequestSound
<1>4. given \in ConsentTypes /\ given # "insert" /\ given \in ToSet(Form[r].consents)
  BY <1>2, <1>3, FormTypes
<1>5. todo'[r] = rest /\ \A q \in Requests \ {r} : todo'[q] = todo[q]
  BY <1>1 DEF Inv, Types
<1>6. \A q : Key(q)' = Key(q) /\ Active(q)' = Active(q)
  BY <1>1 DEF Key, Active
<1> HIDE DEF given, rest
<1>7. /\ IsABag(consents') /\ IsABag(audit')
      /\ DOMAIN consents' = DOMAIN consents \cup {entry}
      /\ DOMAIN audit' = DOMAIN audit \cup {entry}
      /\ \A x : Copies(x, consents') = Copies(x, consents) + (IF x = entry THEN 1 ELSE 0)
      /\ \A x : Copies(x, audit') = Copies(x, audit) + (IF x = entry THEN 1 ELSE 0)
  <2> HIDE DEF entry
  <2>1. IsABag(consents) /\ IsABag(audit)
    BY DEF Inv, Types
  <2> DEFINE C == consents (+) SetToBag({entry})
             A == audit (+) SetToBag({entry})
  <2>2. /\ IsABag(C)
        /\ DOMAIN C = DOMAIN consents \cup {entry}
        /\ \A x : Copies(x, C) = Copies(x, consents) + (IF x = entry THEN 1 ELSE 0)
    BY <2>1, Appended
  <2>3. /\ IsABag(A)
        /\ DOMAIN A = DOMAIN audit \cup {entry}
        /\ \A x : Copies(x, A) = Copies(x, audit) + (IF x = entry THEN 1 ELSE 0)
    BY <2>1, Appended
  <2>4. consents' = C /\ audit' = A
    BY <1>1
  <2> HIDE DEF C, A
  <2> QED
    BY <2>2, <2>3, <2>4
<1>8. \A k : <<k, "insert">> # entry
  BY <1>4
<1>9. \A k : HasConsent(k) => HasConsent(k)'
  BY <1>7 DEF HasConsent
<1>10. HasConsent(k0)'
  <2>1. entry \in DOMAIN consents' /\ entry[1] = k0
    BY <1>7
  <2>2. k0' = k0
    BY <1>6
  <2> HIDE DEF entry, k0
  <2> QED
    BY <2>1, <2>2 DEF HasConsent
<1>11. Types'
  <2>1. (/\ pc \in [Requests -> {"ready", "names", "lookup", "insert", "commit",
                                 "consents", "answered", "refused", "dead"}]
         /\ created \in [Requests -> BOOLEAN] /\ todo \in [Requests -> Seq(STRING)]
         /\ crashes \in 0 .. MaxCrashes)'
    BY <1>1, <1>2 DEF Inv, Types
  <2>2. (/\ pending \in [Requests -> {NoKey} \cup Keys]
         /\ \A q \in Requests : pending[q] \in {NoKey, Key(q)}
         /\ DOMAIN players \subseteq Keys)'
    BY <1>1, <1>6 DEF Inv, Types, Keys
  <2>3. \A e \in DOMAIN audit' :
            e \in (DOMAIN players) \X ({"insert"} \cup ConsentTypes)
    BY <1>3, <1>4, <1>7 DEF Inv, Types
  <2> QED
    BY <1>1, <1>7, <2>1, <2>2, <2>3 DEF Types, ConsentTypes
<1>12. ASSUME NEW q \in Requests PROVE RequestSound(q)'
  <2>1. CASE q = r
    BY <1>1, <1>2, <1>3, <1>5, <1>10, <2>1 DEF RequestSound, Refused, Location, k0
  <2>2. CASE q # r
    <3>1. RequestSound(q)
      BY DEF Inv
    <3> QED
      BY <1>1, <1>5, <1>6, <1>9, <2>2, <3>1 DEF RequestSound, Refused, Location
  <2> QED
    BY <2>1, <2>2
<1>13. ConsentsCounted'
  <2> SUFFICES ASSUME NEW k \in Keys, NEW t \in ConsentTypes
               PROVE  (Copies(<<k, t>>, consents) >= Cardinality(Given(k, t)))'
    BY DEF ConsentsCounted, Keys, ConsentTypes, Key
  <2>1. Copies(<<k, t>>, consents) >= Cardinality(Given(k, t))
    BY DEF Inv, ConsentsCounted
  <2>2. /\ Cardinality(Given(k, t)) \in Nat /\ IsFiniteSet(Given(k, t))
        /\ Copies(<<k, t>>, consents) \in Nat
    BY GivenFinite, CopiesOf DEF Inv, Types
  <2>3. CASE <<k, t>> = entry
    <3>1. Given(k, t)' \in SUBSET (Given(k, t) \cup {r})
      BY <1>1, <1>5, <1>6 DEF Given
    <3>2. /\ IsFiniteSet(Given(k, t) \cup {r})
          /\ Cardinality(Given(k, t) \cup {r}) =< Cardinality(Given(k, t)) + 1
          /\ Cardinality(Given(k, t) \cup {r}) \in Nat
      <4> DEFINE G == Given(k, t)
      <4>1. IsFiniteSet(G) /\ Cardinality(G) \in Nat
        BY <2>2
      <4> HIDE DEF G
      <4>2. /\ IsFiniteSet(G \cup {r})
            /\ Cardinality(G \cup {r}) = IF r \in G THEN Cardinality(G) ELSE Cardinality(G) + 1
        BY <4>1, FS_AddElement
      <4>3. /\ IsFiniteSet(G \cup {r}) /\ Cardinality(G \cup {r}) =< Cardinality(G) + 1
            /\ Cardinality(G \cup {r}) \in Nat
        BY <4>1, <4>2
      <4> QED
        BY <4>3 DEF G
    <3>3. Cardinality(Given(k, t)') =< Cardinality(Given(k, t) \cup {r})
          /\ Cardinality(Given(k, t)') \in Nat
      BY <3>1, <3>2, FS_Subset, FS_CardinalityType
    <3>4. Copies(<<k, t>>, consents') = Copies(<<k, t>>, consents) + 1
      BY <1>7, <2>3
    <3> HIDE DEF entry
    <3> QED
      BY <2>1, <2>2, <3>2, <3>3, <3>4
  <2>4. CASE <<k, t>> # entry
    <3>1. Given(k, t)' \in SUBSET Given(k, t)
      <4> SUFFICES ASSUME NEW q \in Given(k, t)'
                   PROVE  q \in Given(k, t)
        OBVIOUS
      <4>1. /\ q \in Requests /\ Key(q) = k /\ t \in ToSet(Form[q].consents)
            /\ pc[q] \in {"consents", "answered"} /\ t \notin ToSet(todo'[q])
        BY <1>1, <1>6 DEF Given
      <4>2. t \notin ToSet(todo[q])
        <5>1. CASE q # r
          BY <1>5, <4>1, <5>1
        <5>2. CASE q = r
          <6>1. t # given
            BY <2>4, <4>1, <5>2
          <6> QED
            BY <1>2, <1>5, <4>1, <5>2, <6>1
        <5> QED
          BY <5>1, <5>2
      <4> QED
        BY <4>1, <4>2 DEF Given
    <3>2. Cardinality(Given(k, t)') =< Cardinality(Given(k, t))
          /\ Cardinality(Given(k, t)') \in Nat
      BY <2>2, <3>1, FS_Subset, FS_CardinalityType
    <3>3. Copies(<<k, t>>, consents') = Copies(<<k, t>>, consents)
      BY <1>7, <2>2, <2>4
    <3> HIDE DEF entry
    <3> QED
      BY <2>1, <2>2, <3>2, <3>3
  <2> QED
    BY <2>3, <2>4
<1>14. RosterAccounted'
  BY <1>1, <1>6, <1>9 DEF Inv, RosterAccounted
<1>15. ActiveOverlap'
  BY <1>1, <1>6 DEF Inv, ActiveOverlap
<1>16. NamesakesOverlap'
  BY <1>1, <1>6 DEF Inv, NamesakesOverlap
<1>17. InsertsOverlap'
  <2>1. \A k : <<k, "insert">> \in DOMAIN audit' <=> <<k, "insert">> \in DOMAIN audit
    BY <1>7, <1>8
  <2> HIDE DEF entry
  <2> QED
    BY <1>1, <1>6, <2>1 DEF Inv, InsertsOverlap
<1>18. InsertsLogged'
  BY <1>1, <1>7 DEF Inv, InsertsLogged
<1>19. DuplicatesOverlapped'
  <2>1. ASSUME NEW k PROVE Copies(<<k, "insert">>, audit') = Copies(<<k, "insert">>, audit)
    <3>1. Copies(<<k, "insert">>, audit) \in Nat
      BY CopiesOf DEF Inv, Types
    <3> HIDE DEF entry
    <3>2. Copies(<<k, "insert">>, audit') = Copies(<<k, "insert">>, audit) + 0
      BY <1>7, <1>8
    <3> QED
      BY <3>1, <3>2
  <2>2. ASSUME NEW k1 \in DOMAIN players', NEW k2 \in DOMAIN players', k1 # k2, k1[1] = k2[1]
        PROVE  \E p, q \in Requests : Key(p)' = k1 /\ Key(q)' = k2 /\ {p, q} \in overlap'
    <3>1. k1 \in DOMAIN players /\ k2 \in DOMAIN players
      BY <1>1
    <3>2. PICK p \in Requests, q \in Requests :
              Key(p) = k1 /\ Key(q) = k2 /\ {p, q} \in overlap
      BY <2>2, <3>1 DEF Inv, DuplicatesOverlapped
    <3> QED
      BY <1>1, <1>6, <3>2
  <2>3. ASSUME NEW k \in DOMAIN players', Copies(<<k, "insert">>, audit') > 1
        PROVE  \E p, q \in Requests :
                   p # q /\ Key(p)' = k /\ Key(q)' = k /\ {p, q} \in overlap'
    <3>1. PICK p \in Requests, q \in Requests :
              p # q /\ Key(p) = k /\ Key(q) = k /\ {p, q} \in overlap
      BY <1>1, <2>1, <2>3 DEF Inv, DuplicatesOverlapped
    <3> QED
      BY <1>1, <1>6, <3>1
  <2> QED
    BY <2>2, <2>3 DEF DuplicatesOverlapped
<1> QED
  BY <1>11, <1>12, <1>13, <1>14, <1>15, <1>16, <1>17, <1>18, <1>19 DEF Inv

LEMMA StutterInv ==
    ASSUME Inv, UNCHANGED rvars
    PROVE  Inv'
<1>1. UNCHANGED <<pc, created, todo, pending, players, consents, audit, overlap, crashes>>
  BY DEF rvars
<1>2. Types'
  BY <1>1 DEF Inv, Types, Keys, Key, ConsentTypes
<1>3. \A r \in Requests : RequestSound(r)'
  BY <1>1 DEF Inv, RequestSound, Refused, Location, HasConsent, Key
<1>4. ConsentsCounted'
  <2>1. ASSUME NEW k \in Keys, NEW t \in ConsentTypes
        PROVE  /\ Given(k, t)' = Given(k, t)
               /\ Copies(<<k, t>>, consents)' = Copies(<<k, t>>, consents)
    BY <1>1 DEF Given, Key, Copies
  <2> QED
    BY <2>1 DEF Inv, ConsentsCounted, Keys, Key, ConsentTypes
<1>5. RosterAccounted' /\ ActiveOverlap'
  BY <1>1 DEF Inv, RosterAccounted, ActiveOverlap, Active, HasConsent, Key
<1>6. NamesakesOverlap' /\ InsertsOverlap' /\ InsertsLogged'
  BY <1>1 DEF Inv, NamesakesOverlap, InsertsOverlap, InsertsLogged, Key
<1>7. DuplicatesOverlapped'
  BY <1>1, DuplicatesStay DEF Inv
<1> QED
  BY <1>2, <1>3, <1>4, <1>5, <1>6, <1>7 DEF Inv

-----------------------------------------------------------------------------
(* The theorems.                                                           *)

\* The invariant holds in every state of the service (register_player).
THEOREM Inductive == Spec => []Inv
<1>1. Inv /\ [Next]_rvars => Inv'
  <2> SUFFICES ASSUME Inv, [Next]_rvars
               PROVE  Inv'
    OBVIOUS
  <2>1. ASSUME NEW r \in Requests, Start(r) PROVE Inv'
    BY <2>1, StartInv
  <2>2. ASSUME NEW r \in Requests, Handle(r) PROVE Inv'
    BY <2>2, ReadNamesInv, LookupInv, InsertInv, CommitInv, AppendConsentInv, AnswerInv DEF Handle
  <2>3. ASSUME NEW r \in Requests, Crash(r) PROVE Inv'
    BY <2>3, CrashInv
  <2>4. CASE UNCHANGED rvars
    BY <2>4, StutterInv
  <2> QED
    BY <2>1, <2>2, <2>3, <2>4 DEF Next
<1> QED
  BY <1>1, InitInv, PTL DEF Spec

\* Requests, rows and ledgers are of their types (register_player).
THEOREM TypeCorrect == Spec => []TypeOK
<1>1. Inv => TypeOK
  <2> SUFFICES ASSUME Inv
               PROVE  TypeOK
    OBVIOUS
  <2>1. BagToSet(audit) \subseteq {<<k, a>> : k \in DOMAIN players,
                                             a \in {"insert"} \cup ConsentTypes}
    <3>1. ASSUME NEW e \in DOMAIN audit
          PROVE  \E k \in DOMAIN players, a \in {"insert"} \cup ConsentTypes : e = <<k, a>>
      <4>1. e \in (DOMAIN players) \X ({"insert"} \cup ConsentTypes)
        BY DEF Inv, Types
      <4>2. e = <<e[1], e[2]>> /\ e[1] \in DOMAIN players /\ e[2] \in {"insert"} \cup ConsentTypes
        BY <4>1
      <4> QED
        BY <4>2
    <3> QED
      BY <3>1 DEF BagToSet
  <2>2. \A k \in DOMAIN players : \E r \in Requests : k = Key(r)
    BY DEF Inv, Types, Keys
  <2> QED
    BY <2>1, <2>2 DEF Inv, Types, TypeOK, ConsentTypes
<1> QED
  BY <1>1, Inductive, PTL

\* However the requests for one child interleave and are sent again after a
\* death, a registration answered with 201 has its row, its insert entry and one
\* row of the ledger for every answered request that gave the consent.
THEOREM AnsweredStaysComplete == Spec => []AnsweredIsComplete
<1>1. ASSUME Inv, NEW r \in Requests, pc[r] = "answered"
      PROVE  Key(r) \in DOMAIN players /\ Copies(<<Key(r), "insert">>, audit) >= 1
  <2>1. Key(r) \in DOMAIN players
    BY <1>1 DEF Inv, RequestSound
  <2>2. <<Key(r), "insert">> \in DOMAIN audit /\ IsABag(audit)
    BY <1>1, <2>1 DEF Inv, Types, InsertsLogged
  <2> QED
    BY <2>1, <2>2, CopiesOf
<1>2. ASSUME Inv, NEW r \in Requests, NEW t \in ToSet(Form[r].consents)
      PROVE  Copies(<<Key(r), t>>, consents)
             >= Cardinality({q \in Requests : /\ pc[q] = "answered"
                                              /\ Key(q) = Key(r)
                                              /\ t \in ToSet(Form[q].consents)})
  <2> DEFINE answered == {q \in Requests : /\ pc[q] = "answered"
                                           /\ Key(q) = Key(r)
                                           /\ t \in ToSet(Form[q].consents)}
  <2>1. answered \in SUBSET Given(Key(r), t)
    BY <1>2, NothingInEmpty DEF Inv, RequestSound, Given
  <2>2. Copies(<<Key(r), t>>, consents) >= Cardinality(Given(Key(r), t))
    BY <1>2 DEF Inv, ConsentsCounted, Keys, ConsentTypes
  <2>3. Copies(<<Key(r), t>>, consents) \in Nat
    BY <1>2, CopiesOf DEF Inv, Types
  <2> HIDE DEF answered
  <2>4. Cardinality(answered) =< Cardinality(Given(Key(r), t)) /\ Cardinality(answered) \in Nat
    BY <2>1, GivenFinite, FS_Subset, FS_CardinalityType
  <2>5. Copies(<<Key(r), t>>, consents) >= Cardinality(answered)
    BY <2>2, <2>3, <2>4, GivenFinite
  <2> QED
    BY <2>5 DEF answered
<1>3. Inv => AnsweredIsComplete
  BY <1>1, <1>2 DEF AnsweredIsComplete
<1> QED
  BY <1>3, Inductive, PTL

\* A child is on the roster without any consent only while its registration is
\* being handled, or after a request for it has died.
THEOREM RosterIsAccountedFor == Spec => []RosterWithoutConsent
<1>1. Inv => RosterWithoutConsent
  BY DEF Inv, RosterAccounted, RosterWithoutConsent, HasConsent, BagToSet, Active
<1> QED
  BY <1>1, Inductive, PTL

\* Two identities of one name, and two insert entries of one row, come from
\* registrations that were being handled at the same time.
THEOREM DuplicatesComeFromOverlap == Spec => []DuplicatesOverlapped
<1>1. Inv => DuplicatesOverlapped
  BY DEF Inv
<1> QED
  BY <1>1, Inductive, PTL
=============================================================================
