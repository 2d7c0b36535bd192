------------------------- MODULE SessionServiceProofs -------------------------
(***************************************************************************)
(* What holds of POST /sessions, POST /payments and the alerts for every   *)
(* number of requests, players, entitlements, devices and days: a session  *)
(* is recorded whole, a subscription near its end is never without alert,  *)
(* an alert goes away only for its reason, and the revenue of the          *)
(* locations adds up to the founder's.                                     *)
(***************************************************************************)
EXTENDS SessionService, FiniteSetTheorems, TLAPS

-----------------------------------------------------------------------------
(* The inductive invariant.                                                *)

Steps == {"ready", "draw", "insert", "committed", "answered", "refused", "failed"}

\* An attempt that was made.
Made(id) == \E r \in Requests : \E n \in 1..attempt[r] : id = <<r, n>>

Types ==
    /\ day \in Nat
    /\ pc \in [Requests -> Steps]
    /\ attempt \in [Requests -> Nat]
    /\ began \in [Requests -> Nat \cup {None}]
    /\ \A r \in Requests : pc[r] \in {"draw", "insert"} => began[r] \in Nat
    /\ \A r \in Requests : pc[r] = "draw" => Call[r].draw # None
    /\ \A r \in Requests : pc[r] # "ready" => attempt[r] > 0
    /\ synced \in [Devices -> [Locations -> Int \cup {None}]]

\* Rows and signatures are those of an attempt that was made.
Traced ==
    /\ \A s \in sessions : Made(s.id) /\ SessionDay(s) \in Int
    /\ \A y \in payments : Made(y.id)
    /\ \A l \in sync_log : Made(l[1])
    /\ \A r \in Requests : \A n \in 1..attempt[r] : Signed(<<r, n>>) => Call[r].draw # None

\* A balance counts units exactly if the product gives an allowance.
Counted ==
    /\ DOMAIN balance = DOMAIN Grant
    /\ \A e \in DOMAIN Grant :
          /\ balance[e].units \in Nat \cup {None}
          /\ balance[e].units = None <=> Grant[e].units = None

\* Past the draw, the units of the attempt are signed for.
Drawn ==
    \A r \in Requests :
        pc[r] = "insert" /\ Call[r].draw # None =>
            /\ Call[r].draw.ent \in DOMAIN Grant
            /\ Grant[Call[r].draw.ent].units # None => Signed(Id(r))

\* No entry of a device is of a later day.
EntriesPast == \A d \in Devices, l \in Locations : synced[d][l] # None => synced[d][l] =< day

\* SessionIsWhole of one attempt.
Whole(r, n) ==
    LET id == <<r, n>>
        c == Call[r]
    IN  /\ HasSession(id) =>
             /\ c.payment # None => HasPayment(id)
             /\ c.draw # None /\ Grant[c.draw.ent].units # None => Signed(id)
             /\ <<id, "sessions", id>> \in sync_log
        /\ HasPayment(id) => /\ c.op = "session" => HasSession(id)
                             /\ <<id, "payments", id>> \in sync_log
        /\ Signed(id) => HasSession(id) \/ id \in failed \/ (n = attempt[r] /\ pc[r] = "insert")

Inv ==
    /\ Types /\ Traced /\ Counted /\ Drawn /\ EntriesPast
    /\ \A r \in Requests : \A n \in 1..attempt[r] : Whole(r, n)

-----------------------------------------------------------------------------
(* Lemmas.                                                                 *)

\* Every set of days that has an upper bound has a latest one, and Max finds it.
LEMMA LatestExists ==
    ASSUME NEW S, S \subseteq Int, S # {}, NEW bound \in Int, \A x \in S : x =< bound
    PROVE  Max(S) \in S /\ \A x \in S : x =< Max(S)
<1> DEFINE T == {bound - x : x \in S}
           R == OpToRel(<, Nat)
<1>1. T \subseteq Nat /\ T # {}
  <2>1. T \subseteq Nat
    OBVIOUS
  <2>2. PICK x \in S : TRUE
    OBVIOUS
  <2>3. bound - x \in T
    OBVIOUS
  <2> QED
    BY <2>1, <2>3
<1>2. \A x, y \in Nat : <<y, x>> \in R <=> y < x
  BY Zenon DEF OpToRel
<1>3. \E x \in T : \A y \in T : ~(<<y, x>> \in R)
  <2> HIDE DEF T
  <2> QED
    BY <1>1, NatLessThanWellFounded, WFMin, Zenon
<1> HIDE DEF R
<1>4. PICK x \in T : \A y \in T : ~(<<y, x>> \in R)
  BY <1>3
<1>5. PICK top \in S : x = bound - top
  BY <1>4
<1>6. ASSUME NEW y \in S PROVE top >= y
  <2>1. bound - y \in T /\ bound - y \in Nat /\ x \in Nat
    BY <1>1
  <2>2. ~(bound - y < bound - top)
    BY <1>2, <1>4, <1>5, <2>1
  <2>3. top \in Int /\ y \in Int
    OBVIOUS
  <2> QED
    BY <2>2, <2>3
<1>7. Max(S) \in S /\ \A y \in S : Max(S) >= y
  BY <1>6 DEF Max
<1> QED
  BY <1>7

\* A period of an entitlement keeps its units countable.
LEMMA PeriodCounts ==
    ASSUME Counted, NEW e \in DOMAIN Grant, NEW now
    PROVE  /\ Period(e, now).units \in Nat \cup {None}
           /\ Period(e, now).units = None <=> Grant[e].units = None
           /\ Period(e, now) = [units |-> Period(e, now).units, from |-> Period(e, now).from]
<1> DEFINE rules == Product[Grant[e].product].rules
<1>1. rules \in RulesType /\ (Grant[e].units = None <=> AllowanceUnits(rules) = None)
  BY GrantAssumption
<1> HIDE DEF rules
<1>2. AllowanceUnits(rules) \in Nat \cup {None}
  BY <1>1, ClockAssumption DEF AllowanceUnits, RulesType, MinutesPerHour
<1>3. balance[e].units \in Nat \cup {None} /\ (balance[e].units = None <=> Grant[e].units = None)
  BY DEF Counted
<1> QED
  BY <1>1, <1>2, <1>3 DEF Period, ResetIfNewPeriod, rules


LEMMA WholeIsWhole ==
    (\A r \in Requests : \A n \in 1..attempt[r] : Whole(r, n)) => SessionIsWhole
  BY DEF Whole, SessionIsWhole, Id

\* A step that writes no row and signs nothing.
LEMMA SameRows ==
    ASSUME Inv, UNCHANGED <<sessions, payments, sync_log>>, failed \subseteq failed',
           NEW r \in Requests, NEW n \in 1..attempt[r],
           n = attempt[r] /\ pc[r] = "insert" =>
               <<r, n>> \in failed' \/ (n = attempt'[r] /\ pc'[r] = "insert")
    PROVE  Whole(r, n)'
<1>1. Whole(r, n)
  BY DEF Inv
<1>2. \A id : /\ HasSession(id)' = HasSession(id) /\ HasPayment(id)' = HasPayment(id)
              /\ Signed(id)' = Signed(id)
  BY DEF HasSession, HasPayment, Signed
<1> QED
  BY <1>1, <1>2 DEF Whole

\* What a step that writes no row and keeps the count of attempts preserves.
LEMMA SameTraces ==
    ASSUME Inv, UNCHANGED <<sessions, payments, sync_log, attempt>>
    PROVE  Traced'
  BY DEF Inv, Traced, Made, Signed, SessionDay

LEMMA BeginKeeps ==
    ASSUME Inv, NEW r \in Requests, Begin(r)
    PROVE  Inv'
<1>1. /\ attempt' = [attempt EXCEPT ![r] = attempt[r] + 1]
      /\ pc[r] \in {"ready", "failed"} /\ pc'[r] \in {"refused", "draw", "insert"}
      /\ \A q \in Requests \ {r} : pc'[q] = pc[q] /\ began'[q] = began[q] /\ attempt'[q] = attempt[q]
      /\ attempt[r] \in Nat /\ attempt'[r] = attempt[r] + 1
      /\ pc'[r] = "insert" => Call[r].draw = None
      /\ pc'[r] = "draw" => Call[r].draw # None
      /\ pc'[r] \in {"draw", "insert"} => began'[r] = day
      /\ UNCHANGED <<day, failed, balance, sessions, payments, sync_log, synced>>
  BY DEF Begin, Inv, Types
<1>2. Types'
  BY <1>1 DEF Inv, Types, Begin, Steps
<1>3. ASSUME NEW id, Made(id) PROVE Made(id)'
  <2>1. PICK q \in Requests : \E n \in 1..attempt[q] : id = <<q, n>>
    BY <1>3 DEF Made
  <2>2. PICK n \in 1..attempt[q] : id = <<q, n>>
    BY <2>1
  <2>3. n \in 1..attempt'[q]
    BY <1>1, <2>2 DEF Inv, Types
  <2> QED
    BY <2>2, <2>3 DEF Made
<1>4. ASSUME NEW id, id = <<r, attempt[r] + 1>> PROVE ~Made(id)
  <2>1. ASSUME NEW q \in Requests, NEW n \in 1..attempt[q], id = <<q, n>> PROVE FALSE
    <3>1. q = r /\ n = attempt[r] + 1
      BY <1>4, <2>1
    <3> QED
      BY <1>1, <3>1
  <2> QED
    BY <2>1 DEF Made
<1>5. \A id : /\ HasSession(id)' = HasSession(id) /\ HasPayment(id)' = HasPayment(id)
              /\ Signed(id)' = Signed(id)
  BY <1>1 DEF HasSession, HasPayment, Signed
<1>6. \A id : HasSession(id) \/ HasPayment(id) \/ Signed(id) => Made(id)
  BY DEF Inv, Traced, HasSession, HasPayment, Signed
<1>7. ASSUME NEW q \in Requests, NEW n \in 1..attempt'[q], n \notin 1..attempt[q]
      PROVE  ~HasSession(<<q, n>>) /\ ~HasPayment(<<q, n>>) /\ ~Signed(<<q, n>>)
  <2>1. q = r /\ n = attempt[r] + 1
    BY <1>1, <1>7 DEF Inv, Types
  <2> QED
    BY <1>4, <1>6, <2>1
<1>8. Traced'
  <2>1. /\ \A s \in sessions : Made(s.id)' /\ SessionDay(s) \in Int
        /\ \A y \in payments : Made(y.id)'
        /\ \A l \in sync_log : Made(l[1])'
    BY <1>3 DEF Inv, Traced
  <2>2. ASSUME NEW q \in Requests, NEW n \in 1..attempt'[q], Signed(<<q, n>>)
        PROVE  Call[q].draw # None
    BY <1>7, <2>2 DEF Inv, Traced
  <2> QED
    BY <1>1, <1>5, <2>1, <2>2 DEF Traced, SessionDay
<1>9. Counted' /\ EntriesPast'
  BY <1>1 DEF Inv, Counted, EntriesPast
<1>10. Drawn'
  BY <1>1, <1>5 DEF Inv, Drawn, Id
<1>11. ASSUME NEW q \in Requests, NEW n \in 1..attempt'[q] PROVE Whole(q, n)'
  <2>1. CASE n \in 1..attempt[q]
    BY <1>1, <2>1, SameRows
  <2>2. CASE n \notin 1..attempt[q]
    BY <1>5, <1>7, <2>2 DEF Whole
  <2> QED
    BY <2>1, <2>2
<1> QED
  BY <1>2, <1>8, <1>9, <1>10, <1>11 DEF Inv

\* An attempt that ends, or a row that is answered.
LEMMA EndKeeps ==
    ASSUME Inv, NEW r \in Requests, InsertFails(r) \/ Answer(r) \/ Fail(r)
    PROVE  Inv'
<1>1. /\ UNCHANGED <<day, attempt, balance, sessions, payments, sync_log, synced>>
      /\ failed \subseteq failed'
      /\ pc'[r] \in {"refused", "answered", "failed"}
      /\ pc' \in [Requests -> Steps]
      /\ \A q \in Requests \ {r} : pc'[q] = pc[q] /\ began'[q] = began[q]
      /\ began' \in [Requests -> Nat \cup {None}]
      /\ pc[r] = "insert" => Id(r) \in failed'
      /\ pc[r] # "ready"
  <2>1. CASE InsertFails(r)
    BY <2>1 DEF Inv, Types, InsertFails, Ended, Steps
  <2>2. CASE Answer(r)
    BY <2>2 DEF Inv, Types, Answer, Steps
  <2>3. CASE Fail(r)
    BY <2>3 DEF Inv, Types, Fail, Ended, Active, Steps
  <2> QED
    BY <2>1, <2>2, <2>3
<1>2. Types'
  BY <1>1 DEF Inv, Types
<1>3. Counted' /\ EntriesPast'
  BY <1>1 DEF Inv, Counted, EntriesPast
<1>4. Drawn'
  BY <1>1 DEF Inv, Drawn, Id, Signed
<1>5. ASSUME NEW q \in Requests, NEW n \in 1..attempt'[q] PROVE Whole(q, n)'
  BY <1>1, <1>5, SameRows DEF Id
<1> QED
  BY <1>1, <1>2, <1>3, <1>4, <1>5, SameTraces DEF Inv

LEMMA DeviceSyncKeeps ==
    ASSUME Inv, NEW d \in Devices, NEW l \in Locations, DeviceSync(d, l)
    PROVE  Inv'
<1>1. /\ UNCHANGED <<day, pc, attempt, began, failed, balance, sessions, payments, sync_log>>
      /\ synced' = [synced EXCEPT ![d][l] = day]
  BY DEF DeviceSync
<1>2. /\ synced' \in [Devices -> [Locations -> Int \cup {None}]]
      /\ \A e \in Devices, k \in Locations : synced'[e][k] \in {synced[e][k], day}
  BY <1>1 DEF Inv, Types
<1>3. Types'
  BY <1>1, <1>2 DEF Inv, Types
<1>4. Counted' /\ Drawn'
  BY <1>1 DEF Inv, Counted, Drawn, Id, Signed
<1>5. EntriesPast'
  BY <1>1, <1>2 DEF Inv, Types, EntriesPast
<1>6. ASSUME NEW q \in Requests, NEW n \in 1..attempt'[q] PROVE Whole(q, n)'
  BY <1>1, <1>6, SameRows
<1> QED
  BY <1>1, <1>3, <1>4, <1>5, <1>6, SameTraces DEF Inv

LEMMA TickKeeps ==
    ASSUME Inv, Tick \/ UNCHANGED svars
    PROVE  Inv'
<1>1. /\ UNCHANGED <<pc, attempt, began, failed, balance, sessions, payments, sync_log, synced>>
      /\ day' \in {day, day + 1}
  BY DEF Tick, svars
<1>2. Types'
  BY <1>1 DEF Inv, Types
<1>3. Counted' /\ Drawn'
  BY <1>1 DEF Inv, Counted, Drawn, Id, Signed
<1>4. EntriesPast'
  BY <1>1 DEF Inv, Types, EntriesPast
<1>5. ASSUME NEW q \in Requests, NEW n \in 1..attempt'[q] PROVE Whole(q, n)'
  BY <1>1, <1>5, SameRows
<1> QED
  BY <1>1, <1>2, <1>3, <1>4, <1>5, SameTraces DEF Inv

LEMMA DrawKeeps ==
    ASSUME Inv, NEW r \in Requests, Draw(r)
    PROVE  Inv'
<1> DEFINE e == Call[r].draw.ent
           period == Period(e, began[r])
           active == Grant[e].status = "active"
           funded == active /\ period.units # None /\ period.units >= Call[r].draw.amount
           units == IF funded THEN period.units - Call[r].draw.amount ELSE period.units
<1>1. /\ UNCHANGED <<day, attempt, failed, sessions, payments, synced>>
      /\ pc[r] = "draw" /\ pc' \in [Requests -> Steps] /\ pc'[r] \in {"insert", "refused"}
      /\ \A q \in Requests \ {r} : pc'[q] = pc[q] /\ began'[q] = began[q]
      /\ began' \in [Requests -> Nat \cup {None}]
      /\ pc'[r] = "insert" => began'[r] = began[r]
  <2>1. pc' \in [Requests -> Steps] /\ pc'[r] \in {"insert", "refused"}
        /\ \A q \in Requests \ {r} : pc'[q] = pc[q]
    BY DEF Draw, Inv, Types, Steps
  <2> QED
    BY <2>1 DEF Draw, Ended, Inv, Types
<1>2. Types'
  BY <1>1 DEF Inv, Types
<1>3. EntriesPast'
  BY <1>1 DEF Inv, EntriesPast
<1>4. CASE e \notin DOMAIN Grant
  <2>1. UNCHANGED <<balance, sync_log>> /\ pc'[r] = "refused"
    BY <1>4 DEF Draw, Inv, Types
  <2>2. Counted'
    BY <2>1 DEF Inv, Counted
  <2>3. Drawn'
    BY <1>1, <2>1 DEF Inv, Drawn, Id, Signed
  <2>4. ASSUME NEW q \in Requests, NEW n \in 1..attempt'[q] PROVE Whole(q, n)'
    BY <1>1, <2>1, <2>4, SameRows
  <2> QED
    BY <1>1, <1>2, <1>3, <2>1, <2>2, <2>3, <2>4, SameTraces DEF Inv
<1>5. CASE e \in DOMAIN Grant
  <2>1. /\ pc'[r] = IF funded \/ (active /\ period.units = None) THEN "insert" ELSE "refused"
        /\ balance' = [balance EXCEPT ![e] = [period EXCEPT !.units = units]]
        /\ sync_log' = IF funded THEN sync_log \cup {<<Id(r), "entitlements", e>>} ELSE sync_log
    BY <1>5 DEF Draw, Inv, Types
  <2>2. /\ period.units \in Nat \cup {None}
        /\ period.units = None <=> Grant[e].units = None
        /\ period = [units |-> period.units, from |-> period.from]
    <3> HIDE DEF e
    <3> QED
      BY <1>5, PeriodCounts DEF Inv
  <2> HIDE DEF period
  <2>3. [period EXCEPT !.units = units].units = units
    BY <2>2
  <2>4. Call[r].draw # None /\ Call[r].draw.amount \in Nat
    BY <1>1, CallAssumption DEF Inv, Types
  <2>5. units \in Nat \cup {None} /\ (units = None <=> Grant[e].units = None)
    <3>1. CASE funded
      <4>1. period.units \in Nat /\ units = period.units - Call[r].draw.amount
            /\ period.units >= Call[r].draw.amount
        BY <2>2, <3>1
      <4>2. units \in Nat
        BY <2>4, <4>1
      <4> QED
        BY <2>2, <3>1, <4>2, ClockAssumption
    <3>2. CASE ~funded
      BY <2>2, <3>2
    <3> QED
      BY <3>1, <3>2
  <2> HIDE DEF units
  <2>6. Counted'
    <3> DEFINE row == [period EXCEPT !.units = units]
    <3> HIDE DEF row, e
    <3>1. balance' = [balance EXCEPT ![e] = row] /\ row.units = units
      BY <2>1, <2>3 DEF row
    <3> QED
      BY <1>5, <2>5, <3>1 DEF Inv, Counted
  <2>7. /\ sync_log \subseteq sync_log'
        /\ \A id : Signed(id) => Signed(id)'
        /\ \A id : Signed(id)' => Signed(id) \/ (id = Id(r) /\ funded)
        /\ funded => Signed(Id(r))'
        /\ Id(r)' = Id(r)
    <3>1. Id(r)' = Id(r)
      BY <1>1 DEF Id
    <3>2. PICK id : id = Id(r)
      OBVIOUS
    <3> HIDE DEF funded
    <3>3. CASE ~funded
      BY <2>1, <3>1, <3>3 DEF Signed
    <3>4. CASE funded
      <4>1. sync_log' = sync_log \cup {<<id, "entitlements", e>>}
        BY <2>1, <3>2, <3>4
      <4>2. <<id, "entitlements", e>> \in sync_log'
        BY <4>1
      <4>3. Signed(id)'
        BY <4>2 DEF Signed
      <4>4. \A b : (Signed(b) => Signed(b)') /\ (Signed(b)' => Signed(b) \/ b = id)
        BY <4>1 DEF Signed
      <4> QED
        BY <3>1, <3>2, <3>4, <4>1, <4>3, <4>4
    <3> QED
      BY <3>3, <3>4
  <2>8. Drawn'
    <3>1. ASSUME NEW q \in Requests, pc'[q] = "insert", Call[q].draw # None
          PROVE  /\ Call[q].draw.ent \in DOMAIN Grant
                 /\ Grant[Call[q].draw.ent].units # None => Signed(Id(q))'
      <4>1. CASE q = r
        BY <1>5, <2>1, <2>2, <2>7, <3>1, <4>1
      <4>2. CASE q # r
        <5>1. /\ Call[q].draw.ent \in DOMAIN Grant
              /\ Grant[Call[q].draw.ent].units # None => Signed(Id(q))
          BY <1>1, <3>1, <4>2 DEF Inv, Drawn
        <5>2. PICK id : id = Id(q)
          OBVIOUS
        <5>3. Signed(id) => Signed(id)'
          BY <2>7
        <5>4. Id(q)' = id
          BY <1>1, <5>2 DEF Id
        <5> QED
          BY <5>1, <5>2, <5>3, <5>4 DEF Signed
      <4> QED
        BY <4>1, <4>2
    <3> QED
      BY <3>1 DEF Drawn
  <2>9. \A id : HasSession(id)' = HasSession(id) /\ HasPayment(id)' = HasPayment(id)
    BY <1>1 DEF HasSession, HasPayment
  <2>10. Traced'
    <3>1. \A id : Made(id)' = Made(id)
      BY <1>1 DEF Made
    <3>2. Made(Id(r))
      <4>1. attempt[r] \in 1..attempt[r]
        BY <1>1 DEF Inv, Types
      <4> QED
        BY <4>1 DEF Made, Id
    <3>3. \A l \in sync_log' : Made(l[1])
      BY <2>1, <3>2 DEF Inv, Traced
    <3>4. ASSUME NEW q \in Requests, NEW n \in 1..attempt[q], Signed(<<q, n>>)'
          PROVE  Call[q].draw # None
      <4>1. PICK id : id = <<q, n>>
        OBVIOUS
      <4>2. Signed(id) \/ id = Id(r)
        BY <2>7, <3>4, <4>1
      <4> QED
        BY <2>4, <4>1, <4>2 DEF Inv, Traced, Id
    <3>5. \A s \in sessions : Made(s.id) /\ SessionDay(s) \in Int
      BY DEF Inv, Traced
    <3>6. \A y \in payments : Made(y.id)
      BY DEF Inv, Traced
    <3> QED
      BY <1>1, <3>1, <3>3, <3>4, <3>5, <3>6 DEF Traced, SessionDay
  <2>11. ASSUME NEW q \in Requests, NEW n \in 1..attempt'[q] PROVE Whole(q, n)'
    <3>1. PICK id : id = <<q, n>>
      OBVIOUS
    <3>2. Whole(q, n) /\ n \in 1..attempt[q]
      BY <1>1, <2>11 DEF Inv
    <3>3. Signed(id)' => Signed(id) \/ (q = r /\ n = attempt[r] /\ funded)
      <4> HIDE DEF funded
      <4>1. id = Id(r) => q = r /\ n = attempt[r]
        BY <3>1 DEF Id
      <4> QED
        BY <2>7, <4>1
    <3>4. funded => pc'[r] = "insert"
      BY <2>1
    <3>5. Signed(id) => HasSession(id) \/ id \in failed \/ (n = attempt[q] /\ pc[q] = "insert" /\ q # r)
      BY <1>1, <3>1, <3>2 DEF Whole
    <3>6. Signed(id)' => HasSession(id)' \/ id \in failed' \/ (n = attempt'[q] /\ pc'[q] = "insert")
      <4> HIDE DEF funded
      <4> QED
        BY <1>1, <2>9, <3>3, <3>4, <3>5
    <3>7. /\ HasSession(id)' =>
               /\ Call[q].payment # None => HasPayment(id)'
               /\ Call[q].draw # None /\ Grant[Call[q].draw.ent].units # None => Signed(id)'
               /\ <<id, "sessions", id>> \in sync_log'
          /\ HasPayment(id)' => /\ Call[q].op = "session" => HasSession(id)'
                                /\ <<id, "payments", id>> \in sync_log'
      BY <2>7, <2>9, <3>1, <3>2 DEF Whole
    <3> QED
      BY <3>1, <3>6, <3>7 DEF Whole
  <2> QED
    BY <1>2, <1>3, <2>6, <2>8, <2>10, <2>11 DEF Inv
<1> QED
  BY <1>4, <1>5

LEMMA InsertKeeps ==
    ASSUME Inv, NEW r \in Requests, Insert(r)
    PROVE  Inv'
<1> DEFINE logged == Call[r].op = "session"
           paid == Call[r].payment # None
<1>1. /\ UNCHANGED <<day, attempt, failed, balance, synced>>
      /\ pc[r] = "insert" /\ pc' \in [Requests -> Steps] /\ pc'[r] = "committed"
      /\ \A q \in Requests \ {r} : pc'[q] = pc[q] /\ began'[q] = began[q]
      /\ began' \in [Requests -> Nat \cup {None}]
      /\ attempt[r] \in Nat /\ attempt[r] > 0 /\ began[r] \in Nat
  BY DEF Insert, Ended, Inv, Types, Steps
<1>2. Types'
  BY <1>1 DEF Inv, Types
<1>3. Counted' /\ EntriesPast'
  BY <1>1 DEF Inv, Counted, EntriesPast
<1>4. PICK me : me = Id(r)
  OBVIOUS
<1>5. me = <<r, attempt[r]>>
  BY <1>4 DEF Id
<1>6. /\ \A s \in NewSessions(r) : logged /\ s.id = me /\ SessionDay(s) \in Int
      /\ logged => \E s \in NewSessions(r) : s.id = me
  <2>1. SessionRow(r).id = me /\ SessionRow(r).started \in Int \cup {None}
    BY <1>4, CallAssumption DEF SessionRow
  <2>2. SessionRow(r).created \in Int
    BY <1>1 DEF SessionRow, Inv, Types
  <2>3. SessionDay(SessionRow(r)) \in Int
    BY <2>1, <2>2 DEF SessionDay
  <2> QED
    BY <2>1, <2>3 DEF NewSessions
<1>7. /\ \A y \in NewPayments(r) : paid /\ y.id = me
      /\ paid => \E y \in NewPayments(r) : y.id = me
  <2>1. PaymentRow(r).id = me
    BY <1>4 DEF PaymentRow
  <2> QED
    BY <2>1 DEF NewPayments
<1>8. /\ sessions' = sessions \cup NewSessions(r)
      /\ payments' = payments \cup NewPayments(r)
      /\ sync_log' = sync_log \cup {<<me, "sessions", me>> : s \in NewSessions(r)}
                              \cup {<<me, "payments", me>> : y \in NewPayments(r)}
  BY <1>4 DEF Insert
<1> HIDE DEF logged, paid
<1>9. \A id : HasSession(id)' <=> HasSession(id) \/ (id = me /\ logged)
  BY <1>6, <1>8 DEF HasSession
<1>10. \A id : HasPayment(id)' <=> HasPayment(id) \/ (id = me /\ paid)
  BY <1>7, <1>8 DEF HasPayment
<1>11. /\ sync_log \subseteq sync_log'
       /\ \A l \in sync_log' \ sync_log : l[1] = me /\ l[2] # "entitlements"
       /\ logged => <<me, "sessions", me>> \in sync_log'
       /\ paid => <<me, "payments", me>> \in sync_log'
  BY <1>6, <1>7, <1>8
<1>12. \A id : Signed(id)' <=> Signed(id)
  BY <1>11 DEF Signed
<1>13. \A id : Made(id)' = Made(id)
  BY <1>1 DEF Made
<1>14. Made(me)
  <2>1. attempt[r] \in 1..attempt[r]
    BY <1>1
  <2> QED
    BY <1>5, <2>1 DEF Made
<1>15. Traced'
  <2>1. \A s \in sessions' : Made(s.id) /\ SessionDay(s) \in Int
    BY <1>6, <1>8, <1>14 DEF Inv, Traced
  <2>2. \A y \in payments' : Made(y.id)
    BY <1>7, <1>8, <1>14 DEF Inv, Traced
  <2>3. \A l \in sync_log' : Made(l[1])
    BY <1>11, <1>14 DEF Inv, Traced
  <2>4. \A q \in Requests : \A n \in 1..attempt[q] : Signed(<<q, n>>) => Call[q].draw # None
    BY DEF Inv, Traced
  <2> QED
    BY <1>1, <1>12, <1>13, <2>1, <2>2, <2>3, <2>4 DEF Traced, SessionDay
<1>16. Drawn'
  <2>1. ASSUME NEW q \in Requests, pc'[q] = "insert", Call[q].draw # None
        PROVE  /\ Call[q].draw.ent \in DOMAIN Grant
               /\ Grant[Call[q].draw.ent].units # None => Signed(Id(q))'
    <3>1. /\ Call[q].draw.ent \in DOMAIN Grant
          /\ Grant[Call[q].draw.ent].units # None => Signed(Id(q))
      BY <1>1, <2>1 DEF Inv, Drawn
    <3>2. PICK id : id = Id(q)
      OBVIOUS
    <3>3. Signed(id) => Signed(id)'
      BY <1>12
    <3>4. Id(q)' = id
      BY <1>1, <3>2 DEF Id
    <3> QED
      BY <3>1, <3>2, <3>3, <3>4 DEF Signed
  <2> QED
    BY <2>1 DEF Drawn
<1>17. ASSUME NEW q \in Requests, NEW n \in 1..attempt'[q] PROVE Whole(q, n)'
  <2>1. PICK id : id = <<q, n>>
    OBVIOUS
  <2>2. Whole(q, n) /\ n \in 1..attempt[q]
    BY <1>1, <1>17 DEF Inv
  <2>3. id = me => q = r /\ n = attempt[r]
    BY <1>5, <2>1
  <2>4. HasSession(id)' =>
            /\ Call[q].payment # None => HasPayment(id)'
            /\ Call[q].draw # None /\ Grant[Call[q].draw.ent].units # None => Signed(id)'
            /\ <<id, "sessions", id>> \in sync_log'
    <3>1. CASE HasSession(id)
      BY <1>10, <1>11, <1>12, <2>1, <2>2, <3>1 DEF Whole
    <3>2. CASE id = me /\ logged
      <4>1. Call[r].draw # None /\ Grant[Call[r].draw.ent].units # None => Signed(me)
        BY <1>1, <1>4 DEF Inv, Drawn
      <4> QED
        BY <1>10, <1>11, <1>12, <2>3, <3>2, <4>1 DEF paid
    <3> QED
      BY <1>9, <3>1, <3>2
  <2>5. HasPayment(id)' => /\ Call[q].op = "session" => HasSession(id)'
                           /\ <<id, "payments", id>> \in sync_log'
    <3>1. CASE HasPayment(id)
      BY <1>9, <1>11, <2>1, <2>2, <3>1 DEF Whole
    <3>2. CASE id = me /\ paid
      BY <1>9, <1>11, <2>3, <3>2 DEF logged
    <3> QED
      BY <1>10, <3>1, <3>2
  <2>6. Signed(id)' => HasSession(id)' \/ id \in failed' \/ (n = attempt'[q] /\ pc'[q] = "insert")
    <3>1. CASE id = me
      <4>1. Signed(id) => Call[q].draw # None
        BY <2>1, <2>2 DEF Inv, Traced
      <4>2. Call[q].draw # None => logged
        BY <2>3, <3>1, CallAssumption DEF logged
      <4> QED
        BY <1>9, <1>12, <3>1, <4>1, <4>2
    <3>2. CASE id # me
      <4>1. Signed(id) => HasSession(id) \/ id \in failed \/ (n = attempt[q] /\ pc[q] = "insert")
        BY <2>1, <2>2 DEF Whole
      <4>2. n = attempt[q] => q # r
        BY <1>5, <2>1, <3>2
      <4> QED
        BY <1>1, <1>9, <1>12, <4>1, <4>2
    <3> QED
      BY <3>1, <3>2
  <2> QED
    BY <2>1, <2>4, <2>5, <2>6 DEF Whole
<1> QED
  BY <1>2, <1>3, <1>15, <1>16, <1>17 DEF Inv

LEMMA InitKeeps == Init => Inv
<1> SUFFICES ASSUME Init PROVE Inv
  OBVIOUS
<1>1. Types
  BY SessionAssumption DEF Init, Types, Steps
<1>2. Traced /\ Drawn
  BY DEF Init, Traced, Signed, Drawn
<1>3. Counted
  BY GrantAssumption DEF Init, Counted
<1>4. EntriesPast
  <2>1. \A d \in Devices, l \in Locations : synced[d][l] \in 0..day \cup {None}
    BY SessionAssumption DEF Init
  <2> QED
    BY <2>1, SessionAssumption DEF Init, EntriesPast
<1>5. \A r \in Requests : \A n \in 1..attempt[r] : Whole(r, n)
  BY DEF Init
<1> QED
  BY <1>1, <1>2, <1>3, <1>4, <1>5 DEF Inv

LEMMA StepKeeps == Inv /\ [Next]_svars => Inv'
<1> SUFFICES ASSUME Inv, [Next]_svars PROVE Inv'
  OBVIOUS
<1>1. ASSUME NEW r \in Requests, Begin(r) PROVE Inv'
  BY <1>1, BeginKeeps
<1>2. ASSUME NEW r \in Requests, Draw(r) PROVE Inv'
  BY <1>2, DrawKeeps
<1>3. ASSUME NEW r \in Requests, Insert(r) PROVE Inv'
  BY <1>3, InsertKeeps
<1>4. ASSUME NEW r \in Requests, InsertFails(r) \/ Answer(r) \/ Fail(r) PROVE Inv'
  BY <1>4, EndKeeps
<1>5. ASSUME NEW d \in Devices, NEW l \in Locations, DeviceSync(d, l) PROVE Inv'
  BY <1>5, DeviceSyncKeeps
<1>6. CASE Tick \/ UNCHANGED svars
  BY <1>6, TickKeeps
<1> QED
  BY <1>1, <1>2, <1>3, <1>4, <1>5, <1>6 DEF Next, Handle

-----------------------------------------------------------------------------
(* The theorems.                                                           *)

\* The invariant that everything below rests on: whatever requests run, fail and
\* are sent again, rows and signatures are those of an attempt, balances count
\* what the products allow, and every attempt is whole.
THEOREM Inductive == Spec => []Inv
<1> QED
  BY InitKeeps, StepKeeps, PTL DEF Spec

\* SessionIsWhole for every number of requests, attempts and failures: a session
\* has its payment, its audit entries and its draw, and units are drawn without a
\* session only by an attempt under way or failed (log_session).
THEOREM SessionsAreWhole == Spec => []SessionIsWhole
<1>1. Inv => SessionIsWhole
  BY WholeIsWhole DEF Inv
<1> QED
  BY <1>1, Inductive, PTL

\* A subscription near or past its end is never without alert at its location, on
\* every day and for every horizon (expiring and due rules of alerts).
THEOREM SubscriptionsAlert == Spec => []SubscriptionNeverSilent
<1>1. ASSUME Inv PROVE SubscriptionNeverSilent
  <2> SUFFICES ASSUME NEW e \in DOMAIN Grant, Grant[e].status = "active",
                      Product[Grant[e].product].type = "subscription",
                      Grant[e].to # None, Grant[e].to =< day + Horizon
               PROVE  \E a \in Alerts(Manager(Grant[e].location)) : a[2] = e
    BY DEF SubscriptionNeverSilent
  <2>1. day \in Nat /\ Horizon \in Nat /\ Grant[e].to \in Int
    BY <1>1, GrantAssumption, SessionAssumption DEF Inv, Types
  <2> DEFINE m == Manager(Grant[e].location)
  <2>2. e \in ActiveGrants(m)
    BY DEF ActiveGrants, Reads, Manager
  <2> HIDE DEF m
  <2>3. e \in EntitlementExpiring(m) \/ e \in SubscriptionDue(m)
    BY <2>1, <2>2 DEF EntitlementExpiring, SubscriptionDue
  <2>4. <<"entitlement_expiring", e>> \in Alerts(m) \/ <<"subscription_due", e>> \in Alerts(m)
    BY <2>3 DEF Alerts
  <2>5. <<"entitlement_expiring", e>>[2] = e /\ <<"subscription_due", e>>[2] = e
    OBVIOUS
  <2> QED
    BY <2>4, <2>5 DEF m
<1> QED
  BY <1>1, Inductive, PTL

LEMMA ClockRuns == Inv /\ [Next]_svars => day \in Nat /\ day' \in {day, day + 1}
<1> SUFFICES ASSUME Inv, [Next]_svars PROVE day \in Nat /\ day' \in {day, day + 1}
  OBVIOUS
<1>1. day \in Nat
  BY DEF Inv, Types
<1>2. ASSUME NEW r \in Requests, Begin(r) \/ Handle(r) \/ Fail(r) PROVE day' = day
  BY <1>2 DEF Begin, Handle, Draw, Insert, InsertFails, Answer, Fail
<1>3. ASSUME NEW d \in Devices, NEW l \in Locations, DeviceSync(d, l) PROVE day' = day
  BY <1>3 DEF DeviceSync
<1>4. CASE Tick \/ UNCHANGED svars
  BY <1>1, <1>4 DEF Tick, svars
<1> QED
  BY <1>1, <1>2, <1>3, <1>4 DEF Next

\* The founder reads every row.
LEMMA FounderReads == \A l, k : Reads(Founder, l, k)
  BY DEF Reads, Founder

\* A player without a recent session has none later unless one is logged.
LEMMA QuietPlayer ==
    ASSUME Inv, [Next]_svars,
           NEW p \in NoRecentSession(Founder), p \notin NoRecentSession(Founder)'
    PROVE  \E s \in sessions' \ sessions : s.player = p
<1>1. day \in Nat /\ day' \in {day, day + 1}
  BY ClockRuns
<1>2. /\ p \in DOMAIN Player /\ Player[p].active
      /\ Reads(Founder, Player[p].location, Player[p].school)
      /\ ~\E s \in sessions : s.player = p /\ SessionDay(s) >= day - NO_RECENT_SESSION_DAYS
  BY DEF NoRecentSession
<1>3. PICK s \in sessions' : s.player = p /\ SessionDay(s) >= day' - NO_RECENT_SESSION_DAYS
  BY <1>2, FounderReads DEF NoRecentSession, SessionDay
<1>4. CASE s \in sessions
  <2>1. SessionDay(s) \in Int
    BY <1>4 DEF Inv, Traced
  <2> QED
    BY <1>1, <1>2, <1>3, <1>4, <2>1 DEF NO_RECENT_SESSION_DAYS
<1> QED
  BY <1>3, <1>4

\* An expiring entitlement stays so until its last day is over, and then a
\* subscription is due.
LEMMA Expiring ==
    ASSUME Inv, [Next]_svars,
           NEW e \in EntitlementExpiring(Founder), e \notin EntitlementExpiring(Founder)'
    PROVE  /\ day' > Grant[e].to
           /\ Product[Grant[e].product].type = "subscription" => e \in SubscriptionDue(Founder)'
<1>1. day \in Nat /\ day' \in {day, day + 1} /\ Horizon \in Nat
  BY ClockRuns, SessionAssumption
<1>2. e \in ActiveGrants(Founder) /\ Grant[e].to =< day + Horizon
  BY DEF EntitlementExpiring
<1>3. Grant[e].to \in Int
  BY <1>2, GrantAssumption DEF ActiveGrants
<1>4. ~(day' =< Grant[e].to /\ Grant[e].to =< day' + Horizon)
  BY <1>2 DEF EntitlementExpiring
<1>5. day' > Grant[e].to
  BY <1>1, <1>2, <1>3, <1>4
<1> QED
  BY <1>1, <1>2, <1>3, <1>5 DEF SubscriptionDue

\* A subscription that is due stays due.
LEMMA Due ==
    ASSUME Inv, [Next]_svars, NEW e \in SubscriptionDue(Founder)
    PROVE  e \in SubscriptionDue(Founder)'
<1>1. day \in Nat /\ day' \in {day, day + 1}
  BY ClockRuns
<1>2. e \in ActiveGrants(Founder) /\ Grant[e].to =< day
      /\ Product[Grant[e].product].type = "subscription"
  BY DEF SubscriptionDue
<1>3. Grant[e].to \in Int
  BY <1>2, GrantAssumption DEF ActiveGrants
<1>4. Grant[e].to =< day'
  BY <1>1, <1>2, <1>3
<1> QED
  BY <1>2, <1>4 DEF SubscriptionDue

\* A silent device stays silent until one of its entries arrives.
LEMMA SilentDevice ==
    ASSUME Inv, [Next]_svars,
           NEW d \in UnsyncedDevice(Founder), d \notin UnsyncedDevice(Founder)'
    PROVE  synced'[d] # synced[d]
<1> SUFFICES ASSUME synced'[d] = synced[d] PROVE FALSE
  OBVIOUS
<1>1. day \in Nat /\ day' \in {day, day + 1}
  BY ClockRuns
<1>2. PICK entries : entries = {synced[d][l] : l \in Locations} \ {None}
  OBVIOUS
<1>3. {k \in Locations : Reads(Founder, k, Founder.school)} = Locations
  BY FounderReads
<1>4. d \in Devices /\ entries # {} /\ Max(entries) < day - UNSYNCED_DEVICE_DAYS
  BY <1>2, <1>3 DEF UnsyncedDevice
<1>5. ~(Max(entries) < day' - UNSYNCED_DEVICE_DAYS)
  BY <1>2, <1>3, <1>4 DEF UnsyncedDevice
<1>6. entries \subseteq Int /\ \A x \in entries : x =< day
  BY <1>2, <1>4 DEF Inv, Types, EntriesPast
<1>7. Max(entries) \in Int
  <2>1. entries \subseteq Int /\ entries # {} /\ day \in Int /\ \A x \in entries : x =< day
    BY <1>1, <1>4, <1>6
  <2>2. PICK now : now = day
    OBVIOUS
  <2>3. Max(entries) \in entries
    BY <2>1, <2>2, LatestExists
  <2> QED
    BY <2>1, <2>3
<1> QED
  BY <1>1, <1>4, <1>5, <1>7 DEF UNSYNCED_DEVICE_DAYS

\* AlertsStay for every clock, player, entitlement and device: no step takes an
\* alert away from the founder except the event that it was waiting for (alerts).
THEOREM AlertsGoForAReason == Spec => AlertsStay
<1> DEFINE Reason(a) ==
          \/ a[1] = "no_recent_session" /\ \E s \in sessions' \ sessions : s.player = a[2]
          \/ a[1] = "unsynced_device" /\ synced'[a[2]] # synced[a[2]]
          \/ /\ a[1] = "entitlement_expiring"
             /\ day' > Grant[a[2]].to
             /\ Product[Grant[a[2]].product].type = "subscription" =>
                   <<"subscription_due", a[2]>> \in Alerts(Founder)'
           Stay == \A a \in Alerts(Founder) \ Alerts(Founder)' : Reason(a)
<1>1. ASSUME Inv, [Next]_svars PROVE [Stay]_svars
  <2> SUFFICES ASSUME NEW a \in Alerts(Founder), a \notin Alerts(Founder)' PROVE Reason(a)
    OBVIOUS
  <2>1. CASE a \in {"no_recent_session"} \X NoRecentSession(Founder)
    <3>1. PICK p \in NoRecentSession(Founder) : a = <<"no_recent_session", p>>
      BY <2>1
    <3>2. p \notin NoRecentSession(Founder)'
      BY <3>1 DEF Alerts
    <3>3. \E s \in sessions' \ sessions : s.player = p
      BY <1>1, <3>2, QuietPlayer
    <3> QED
      BY <3>1, <3>3
  <2>2. CASE a \in {"entitlement_expiring"} \X EntitlementExpiring(Founder)
    <3>1. PICK e \in EntitlementExpiring(Founder) : a = <<"entitlement_expiring", e>>
      BY <2>2
    <3>2. e \notin EntitlementExpiring(Founder)'
      BY <3>1 DEF Alerts
    <3>3. /\ day' > Grant[e].to
          /\ Product[Grant[e].product].type = "subscription" => e \in SubscriptionDue(Founder)'
      BY <1>1, <3>2, Expiring
    <3>4. e \in SubscriptionDue(Founder)' => <<"subscription_due", e>> \in Alerts(Founder)'
      BY DEF Alerts
    <3> QED
      BY <3>1, <3>3, <3>4
  <2>3. CASE a \in {"subscription_due"} \X SubscriptionDue(Founder)
    <3>1. PICK e \in SubscriptionDue(Founder) : a = <<"subscription_due", e>>
      BY <2>3
    <3>2. e \in SubscriptionDue(Founder)'
      BY <1>1, Due
    <3> QED
      BY <3>1, <3>2 DEF Alerts
  <2>4. CASE a \in {"unsynced_device"} \X UnsyncedDevice(Founder)
    <3>1. PICK d \in UnsyncedDevice(Founder) : a = <<"unsynced_device", d>>
      BY <2>4
    <3>2. d \notin UnsyncedDevice(Founder)'
      BY <3>1 DEF Alerts
    <3>3. synced'[d] # synced[d]
      BY <1>1, <3>2, SilentDevice
    <3> QED
      BY <3>1, <3>3
  <2> QED
    BY <2>1, <2>2, <2>3, <2>4 DEF Alerts
<1> QED
  BY <1>1, Inductive, PTL DEF Spec, AlertsStay

-----------------------------------------------------------------------------
(* What a user wrote he may read.                                          *)

\* An attempt that goes on was not refused, and every row is one that its user
\* may write, at the location of its player.
Allowed ==
    /\ \A r \in Requests : pc[r] \in {"draw", "insert"} => Refusal(Call[r]) = None
    /\ \A s \in sessions :
          /\ s.player \in DOMAIN Player /\ s.location = Player[s.player].location
          /\ CanWrite(s.by, s.location, Player[s.player].school)
          /\ CanWrite(s.by, s.location, s.school)
    /\ \A y \in payments :
          /\ y.player \in DOMAIN Player /\ y.location = Player[y.player].location
          /\ CanWrite(y.by, y.location, Player[y.player].school)

\* What a request that is not refused may write.
LEMMA NotRefused ==
    ASSUME NEW r \in Requests, Refusal(Call[r]) = None
    PROVE  /\ Call[r].player \in DOMAIN Player
           /\ CanWrite(Call[r].by, Home(Call[r]), Player[Call[r].player].school)
           /\ Call[r].op = "session" =>
                 CanWrite(Call[r].by, Home(Call[r]), EffectiveSchool(Call[r]))
<1>1. 403 # None /\ 404 # None /\ 422 # None
  BY ClockAssumption
<1>2. CASE Call[r].op = "session"
  BY <1>1, <1>2 DEF Refusal, SessionRefusal
<1>3. CASE Call[r].op # "session"
  BY <1>1, <1>3 DEF Refusal, PaymentRefusal
<1> QED
  BY <1>2, <1>3

LEMMA AllowedStays == Inv /\ Allowed /\ [Next]_svars => Allowed'
<1> SUFFICES ASSUME Inv, Allowed, [Next]_svars PROVE Allowed'
  OBVIOUS
<1> USE DEF Allowed
<1>1. ASSUME NEW r \in Requests, Begin(r) PROVE Allowed'
  <2>1. UNCHANGED <<sessions, payments>>
    BY <1>1 DEF Begin
  <2>2. /\ \A q \in Requests \ {r} : pc'[q] = pc[q]
        /\ pc'[r] \in {"draw", "insert"} => Refusal(Call[r]) = None
    BY <1>1 DEF Begin, Inv, Types
  <2> QED
    BY <2>1, <2>2
<1>2. ASSUME NEW r \in Requests, Draw(r) PROVE Allowed'
  <2>1. UNCHANGED <<sessions, payments>>
    BY <1>2 DEF Draw
  <2>2. pc[r] = "draw" /\ \A q \in Requests \ {r} : pc'[q] = pc[q]
    BY <1>2 DEF Draw, Inv, Types
  <2> QED
    BY <2>1, <2>2
<1>3. ASSUME NEW r \in Requests, InsertFails(r) \/ Answer(r) \/ Fail(r) PROVE Allowed'
  <2>1. UNCHANGED <<sessions, payments>>
    BY <1>3 DEF InsertFails, Answer, Fail
  <2>2. /\ \A q \in Requests \ {r} : pc'[q] = pc[q]
        /\ pc'[r] \notin {"draw", "insert"}
    BY <1>3 DEF InsertFails, Answer, Fail, Inv, Types
  <2> QED
    BY <2>1, <2>2
<1>4. ASSUME NEW r \in Requests, Insert(r) PROVE Allowed'
  <2>1. /\ sessions' = sessions \cup NewSessions(r)
        /\ payments' = payments \cup NewPayments(r)
        /\ \A q \in Requests \ {r} : pc'[q] = pc[q]
        /\ pc[r] = "insert" /\ pc'[r] = "committed"
    BY <1>4 DEF Insert, Inv, Types
  <2>2. /\ Call[r].player \in DOMAIN Player
        /\ CanWrite(Call[r].by, Home(Call[r]), Player[Call[r].player].school)
        /\ Call[r].op = "session" =>
              CanWrite(Call[r].by, Home(Call[r]), EffectiveSchool(Call[r]))
    BY <2>1, NotRefused
  <2>3. \A s \in NewSessions(r) :
            /\ s.player \in DOMAIN Player /\ s.location = Player[s.player].location
            /\ CanWrite(s.by, s.location, Player[s.player].school)
            /\ CanWrite(s.by, s.location, s.school)
    BY <2>2 DEF NewSessions, SessionRow, Home
  <2>4. \A y \in NewPayments(r) :
            /\ y.player \in DOMAIN Player /\ y.location = Player[y.player].location
            /\ CanWrite(y.by, y.location, Player[y.player].school)
    BY <2>2 DEF NewPayments, PaymentRow, Home
  <2> QED
    BY <2>1, <2>3, <2>4
<1>5. ASSUME NEW d \in Devices, NEW l \in Locations, DeviceSync(d, l) PROVE Allowed'
  BY <1>5 DEF DeviceSync
<1>6. CASE Tick \/ UNCHANGED svars
  BY <1>6 DEF Tick, svars
<1> QED
  BY <1>1, <1>2, <1>3, <1>4, <1>5, <1>6 DEF Next, Handle

\* RowsAreVisible for every set of users, players and requests: whoever logged a
\* session or a payment finds it in the history, and the manager of the location
\* sees of a player what the founder sees (assert_can_write, _scope_conditions).
THEOREM WhoWritesReads == Spec => []RowsAreVisible
<1>1. Init => Allowed
  BY DEF Init, Allowed
<1>2. ASSUME Allowed PROVE RowsAreVisible
  <2>1. \A u, l, k : Reads(u, l, k) = CanWrite(u, l, k)
    BY DEF Reads, CanWrite
  <2>2. ASSUME NEW s \in sessions
        PROVE  s.player \in Roster(s.by) /\ s \in History(s.by, s.player).sessions
    BY <1>2, <2>1 DEF Allowed, Roster, History
  <2>3. ASSUME NEW y \in payments PROVE y \in History(y.by, y.player).payments
    BY <1>2, <2>1 DEF Allowed, History
  <2>4. ASSUME NEW p \in DOMAIN Player
        PROVE  LET m == Manager(Player[p].location)
               IN  /\ History(m, p)["sessions"] = History(Founder, p)["sessions"]
                   /\ History(m, p)["payments"] = History(Founder, p)["payments"]
    <3> DEFINE m == Manager(Player[p].location)
    <3>1. \A s \in sessions : s.player = p => Reads(m, s.location, s.school)
      BY <1>2 DEF Allowed, Reads, Manager
    <3>2. \A y \in payments : y.player = p => Reads(m, y.location, Player[p].school)
      BY <1>2 DEF Allowed, Reads, Manager
    <3> HIDE DEF m
    <3>3. History(m, p)["sessions"] = History(Founder, p)["sessions"]
      BY <3>1, FounderReads DEF History
    <3>4. History(m, p)["payments"] = History(Founder, p)["payments"]
      BY <3>2, FounderReads DEF History
    <3> QED
      BY <3>3, <3>4 DEF m
  <2> QED
    BY <2>2, <2>3, <2>4 DEF RowsAreVisible
<1> QED
  BY <1>1, <1>2, AllowedStays, Inductive, PTL DEF Spec

-----------------------------------------------------------------------------
(* Sums, as MapThenSumSet computes them.  Up to TotalOfOneMore this is the *)
(* theory of EntitlementEngineProofs, whose variables are not those here.  *)

Pick(S) == CHOOSE x \in S : TRUE

\* g sums f over every subset of its domain.
Sums(g, f) ==
    g = [S \in SUBSET DOMAIN f |->
            IF S = {} THEN 0 ELSE f[Pick(S)] + g[S \ {Pick(S)}]]

Total(f) == (CHOOSE g : Sums(g, f))[DOMAIN f]

\* A family of finite sets has a member no proper subset of which is one.
LEMMA SmallestSet ==
    ASSUME NEW S, IsFiniteSet(S), NEW family \in SUBSET SUBSET S, family # {}
    PROVE  \E T \in family : \A R \in family : R \subseteq T => R = T
<1>1. family \subseteq FiniteSubsetsOf(S)
  BY FS_Subset DEF FiniteSubsetsOf
<1>2. PICK T \in family : \A R \in family : ~(<<R, T>> \in StrictSubsetOrdering(S))
  BY <1>1, FS_StrictSubsetOrderingWellFounded, WFMin
<1> QED
  BY <1>2 DEF StrictSubsetOrdering

\* Sums of functions that agree on a set agree on it.
LEMMA SumsAgree ==
    ASSUME NEW f, NEW h, NEW g, NEW k, Sums(g, f), Sums(k, h),
           IsFiniteSet(DOMAIN f), DOMAIN f \subseteq DOMAIN h,
           \A x \in DOMAIN f : h[x] = f[x]
    PROVE  \A T \in SUBSET DOMAIN f : g[T] = k[T]
<1> DEFINE Wrong == {T \in SUBSET DOMAIN f : g[T] # k[T]}
<1> SUFFICES ASSUME Wrong # {} PROVE FALSE
  OBVIOUS
<1>1. PICK T \in Wrong : \A R \in Wrong : R \subseteq T => R = T
  <2>1. Wrong \in SUBSET SUBSET DOMAIN f
    OBVIOUS
  <2> HIDE DEF Wrong
  <2> QED
    BY <2>1, SmallestSet
<1>2. /\ g[T] = IF T = {} THEN 0 ELSE f[Pick(T)] + g[T \ {Pick(T)}]
      /\ k[T] = IF T = {} THEN 0 ELSE h[Pick(T)] + k[T \ {Pick(T)}]
  BY DEF Sums
<1>3. T # {} => Pick(T) \in T
  BY DEF Pick
<1>4. T # {} => g[T \ {Pick(T)}] = k[T \ {Pick(T)}]
  BY <1>1, <1>3
<1> QED
  BY <1>2, <1>3, <1>4

\* Every function with a finite domain has its sums.
LEMMA SumsExist ==
    ASSUME NEW f, IsFiniteSet(DOMAIN f)
    PROVE  \E g : Sums(g, f)
<1> DEFINE Part(T) == [x \in T |-> f[x]]
           Wrong == {T \in SUBSET DOMAIN f : ~\E g : Sums(g, Part(T))}
<1>1. ASSUME Wrong # {} PROVE FALSE
  <2>1. PICK T \in Wrong : \A R \in Wrong : R \subseteq T => R = T
    <3>1. Wrong \in SUBSET SUBSET DOMAIN f
      OBVIOUS
    <3> HIDE DEF Wrong
    <3> QED
      BY <1>1, <3>1, SmallestSet
  <2> DEFINE G(R) == CHOOSE g : Sums(g, Part(R))
             sum(R) == IF R = {} THEN 0 ELSE f[Pick(R)] + G(R \ {Pick(R)})[R \ {Pick(R)}]
             all == [R \in SUBSET T |-> sum(R)]
  <2>2. \A R \in SUBSET T : R # {} => Pick(R) \in R
    BY DEF Pick
  <2>3. \A R \in SUBSET T : R # T => Sums(G(R), Part(R))
    BY <2>1
  <2>4. \A R \in SUBSET T : R # T => G(R)[R] = sum(R)
    <3> SUFFICES ASSUME NEW R \in SUBSET T, R # T PROVE G(R)[R] = sum(R)
      OBVIOUS
    <3>1. CASE R = {}
      <4>1. Sums(G(R), Part(R)) /\ DOMAIN Part(R) = R
        BY <2>3
      <4> HIDE DEF G, Part
      <4> QED
        BY <3>1, <4>1 DEF Sums
    <3>2. CASE R # {}
      <4> DEFINE Q == R \ {Pick(R)}
      <4>1. Sums(G(R), Part(R)) /\ Sums(G(Q), Part(Q))
        BY <2>2, <2>3, <3>2
      <4>2. Pick(R) \in R
        BY <2>2, <3>2
      <4>3. G(R)[R] = Part(R)[Pick(R)] + G(R)[Q]
        <5> HIDE DEF G
        <5> QED
          BY <3>2, <4>1 DEF Sums
      <4>4. /\ DOMAIN Part(Q) = Q /\ DOMAIN Part(R) = R
            /\ \A x \in DOMAIN Part(Q) : Part(R)[x] = Part(Q)[x]
            /\ IsFiniteSet(DOMAIN Part(Q))
        <5>1. Q \in SUBSET DOMAIN f
          OBVIOUS
        <5> QED
          BY <5>1, FS_Subset
      <4>5. G(Q)[Q] = G(R)[Q]
        <5>1. DOMAIN Part(Q) \subseteq DOMAIN Part(R)
          BY <4>4
        <5>2. PICK a, b, c, d : a = Part(Q) /\ b = Part(R) /\ c = G(Q) /\ d = G(R)
          OBVIOUS
        <5> HIDE DEF G, Part
        <5>3. \A V \in SUBSET DOMAIN a : c[V] = d[V]
          <6>1. /\ Sums(c, a) /\ Sums(d, b) /\ IsFiniteSet(DOMAIN a)
                /\ DOMAIN a \subseteq DOMAIN b
                /\ \A x \in DOMAIN a : b[x] = a[x]
            BY <4>1, <4>4, <5>1, <5>2
          <6> QED
            BY ONLY <6>1, SumsAgree
        <5> QED
          BY <4>4, <5>2, <5>3
      <4>6. Part(R)[Pick(R)] = f[Pick(R)]
        BY <4>2
      <4> HIDE DEF G, Part
      <4> QED
        BY <3>2, <4>3, <4>5, <4>6
    <3> QED
      BY <3>1, <3>2
  <2>5. Sums(all, Part(T))
    <3>1. \A R \in SUBSET T : R # {} =>
              /\ R \ {Pick(R)} \in SUBSET T
              /\ R \ {Pick(R)} # T
              /\ Part(T)[Pick(R)] = f[Pick(R)]
      BY <2>2
    <3>2. \A R \in SUBSET T : R # {} =>
              G(R \ {Pick(R)})[R \ {Pick(R)}] = all[R \ {Pick(R)}]
      <4> HIDE DEF G
      <4> QED
        BY <2>4, <3>1
    <3>3. \A R \in SUBSET T :
              sum(R) = IF R = {} THEN 0 ELSE Part(T)[Pick(R)] + all[R \ {Pick(R)}]
      <4> HIDE DEF G, all, Part
      <4> QED
        BY <3>1, <3>2
    <3>4. DOMAIN Part(T) = T
      OBVIOUS
    <3> HIDE DEF sum, Part
    <3> QED
      BY <3>3, <3>4 DEF Sums
  <2> HIDE DEF all
  <2> QED
    BY <2>1, <2>5
<1>2. DOMAIN f \in SUBSET DOMAIN f /\ DOMAIN f \notin Wrong
  BY <1>1
<1>3. PICK g : Sums(g, Part(DOMAIN f))
  BY <1>2
<1>4. Sums(g, f)
  <2>1. \A S \in SUBSET DOMAIN f : S # {} => Part(DOMAIN f)[Pick(S)] = f[Pick(S)]
    BY DEF Pick
  <2>2. DOMAIN Part(DOMAIN f) = DOMAIN f
    OBVIOUS
  <2> HIDE DEF Part
  <2> QED
    BY <1>3, <2>1, <2>2 DEF Sums
<1> QED
  BY <1>4

\* A sum of integers is one, and any element of a set may be added last.
LEMMA SumsTakeOut ==
    ASSUME NEW f, NEW g, Sums(g, f), IsFiniteSet(DOMAIN f),
           \A x \in DOMAIN f : f[x] \in Int,
           NEW y \in DOMAIN f
    PROVE  /\ g[DOMAIN f \ {y}] \in Int
           /\ g[DOMAIN f] = f[y] + g[DOMAIN f \ {y}]
<1> DEFINE Right(T) == g[T] \in Int /\ \A x \in T : g[T] = f[x] + g[T \ {x}]
           Wrong == {T \in SUBSET DOMAIN f : ~Right(T)}
<1> SUFFICES ASSUME Wrong # {} PROVE FALSE
  <2>1. \A T \in SUBSET DOMAIN f : Wrong = {} => Right(T)
    OBVIOUS
  <2>2. DOMAIN f \ {y} \in SUBSET DOMAIN f /\ DOMAIN f \in SUBSET DOMAIN f
    OBVIOUS
  <2> HIDE DEF Wrong
  <2> QED
    BY <2>1, <2>2
<1>1. PICK T \in Wrong : \A R \in Wrong : R \subseteq T => R = T
  <2>1. Wrong \in SUBSET SUBSET DOMAIN f
    OBVIOUS
  <2> HIDE DEF Wrong
  <2> QED
    BY <2>1, SmallestSet
<1> DEFINE p == Pick(T)
<1>2. \A R \in SUBSET DOMAIN f :
          g[R] = IF R = {} THEN 0 ELSE f[Pick(R)] + g[R \ {Pick(R)}]
  BY DEF Sums
<1>3. \A R \in SUBSET T : R # T => Right(R)
  BY <1>1
<1>4. g[T] = IF T = {} THEN 0 ELSE f[p] + g[T \ {p}]
  BY <1>2
<1>5. T # {}
  BY <1>4
<1>6. p \in T
  BY <1>5 DEF Pick
<1> HIDE DEF p
<1>7. g[T \ {p}] \in Int /\ f[p] \in Int
  BY <1>3, <1>6
<1>8. ASSUME NEW x \in T, x # p
      PROVE  g[T] = f[x] + g[T \ {x}]
  <2>1. g[T \ {p}] = f[x] + g[(T \ {p}) \ {x}]
    BY <1>3, <1>6, <1>8
  <2>2. g[T \ {x}] = f[p] + g[(T \ {x}) \ {p}]
    BY <1>3, <1>6, <1>8
  <2>3. (T \ {x}) \ {p} = (T \ {p}) \ {x}
    OBVIOUS
  <2>4. f[x] \in Int /\ g[(T \ {p}) \ {x}] \in Int
    BY <1>3, <1>6
  <2> QED
    BY <1>4, <1>5, <1>7, <2>1, <2>2, <2>3, <2>4
<1>9. \A x \in T : g[T] = f[x] + g[T \ {x}]
  BY <1>4, <1>5, <1>8
<1>10. g[T] \in Int
  BY <1>4, <1>5, <1>7
<1> QED
  BY <1>9, <1>10

\* The sum over nothing.
LEMMA TotalOfNone ==
    ASSUME NEW f, DOMAIN f = {}
    PROVE  Total(f) = 0
<1> DEFINE g == CHOOSE k : Sums(k, f)
<1>1. Sums(g, f)
  BY FS_EmptySet, SumsExist
<1> HIDE DEF g
<1>2. g[DOMAIN f] = 0
  BY <1>1 DEF Sums
<1> QED
  BY <1>2 DEF Total, g

\* One more element adds its number to the sum.
LEMMA TotalOfOneMore ==
    ASSUME NEW f, NEW h, NEW x, IsFiniteSet(DOMAIN f),
           x \notin DOMAIN f, DOMAIN h = DOMAIN f \cup {x},
           \A y \in DOMAIN f : h[y] = f[y],
           \A y \in DOMAIN h : h[y] \in Int
    PROVE  Total(f) \in Int /\ Total(h) = h[x] + Total(f)
<1>a. PICK g : g = CHOOSE m : Sums(m, f)
  OBVIOUS
<1>b. PICK k : k = CHOOSE m : Sums(m, h)
  OBVIOUS
<1>1. IsFiniteSet(DOMAIN h)
  BY FS_AddElement
<1>2. Sums(g, f)
  BY <1>a, SumsExist
<1>3. Sums(k, h)
  BY <1>1, <1>b, SumsExist
<1>4. \A T \in SUBSET DOMAIN f : g[T] = k[T]
  BY <1>2, <1>3, SumsAgree
<1>5. x \in DOMAIN h
  OBVIOUS
<1>6. DOMAIN h \ {x} = DOMAIN f
  OBVIOUS
<1>7. k[DOMAIN h \ {x}] \in Int /\ k[DOMAIN h] = h[x] + k[DOMAIN h \ {x}]
  BY <1>1, <1>3, <1>5, SumsTakeOut
<1> QED
  BY <1>a, <1>b, <1>4, <1>6, <1>7 DEF Total

\* The sum of f over a set.
Over(f, S) == Total([x \in S |-> f[x]])

\* The sum over nothing is 0.
LEMMA OverNone == \A f : Over(f, {}) = 0
<1> SUFFICES ASSUME NEW f PROVE Over(f, {}) = 0
  OBVIOUS
<1>1. PICK g : g = [x \in {} |-> f[x]]
  OBVIOUS
<1>2. DOMAIN g = {}
  BY <1>1
<1> QED
  BY <1>1, <1>2, TotalOfNone DEF Over

\* One more element adds its number.
LEMMA OverOneMore ==
    ASSUME NEW f, NEW S, NEW x, IsFiniteSet(S), x \notin S,
           \A y \in S \cup {x} : f[y] \in Int
    PROVE  Over(f, S) \in Int /\ Over(f, S \cup {x}) = f[x] + Over(f, S)
<1>1. PICK g, h : g = [y \in S |-> f[y]] /\ h = [y \in S \cup {x} |-> f[y]]
  OBVIOUS
<1>2. /\ IsFiniteSet(DOMAIN g) /\ x \notin DOMAIN g /\ DOMAIN h = DOMAIN g \cup {x}
      /\ \A y \in DOMAIN g : h[y] = g[y]
      /\ \A y \in DOMAIN h : h[y] \in Int
      /\ h[x] = f[x]
  BY <1>1
<1>3. Total(g) \in Int /\ Total(h) = h[x] + Total(g)
  BY <1>2, TotalOfOneMore
<1> QED
  BY <1>1, <1>2, <1>3 DEF Over

\* A sum of integers is one.
LEMMA OverInt ==
    ASSUME NEW f, NEW S, IsFiniteSet(S), \A x \in S : f[x] \in Int
    PROVE  Over(f, S) \in Int
<1>1. CASE S = {}
  <2>1. Over(f, S) = 0
    BY <1>1, OverNone, Zenon
  <2> QED
    BY <2>1
<1>2. CASE S # {}
  <2>1. PICK x \in S : TRUE
    BY <1>2
  <2>2. PICK D : D = S \ {x}
    OBVIOUS
  <2>3. /\ IsFiniteSet(D) /\ x \notin D /\ D \cup {x} = S
        /\ \A y \in D \cup {x} : f[y] \in Int
    BY <2>1, <2>2, FS_RemoveElement
  <2>4. Over(f, D) \in Int /\ Over(f, D \cup {x}) = f[x] + Over(f, D)
    BY <2>3, OverOneMore
  <2>5. Over(f, S) = f[x] + Over(f, D)
    BY <2>3, <2>4, Zenon
  <2> QED
    BY <2>4, <2>5
<1> QED
  BY <1>1, <1>2

\* The sum over two sets without a common element.
LEMMA TotalOfUnion ==
    ASSUME NEW f, NEW A, NEW B, IsFiniteSet(A), IsFiniteSet(B), A \cap B = {},
           \A x \in A \cup B : f[x] \in Int
    PROVE  /\ Over(f, A) \in Int
           /\ Over(f, B) \in Int
           /\ Over(f, A \cup B) = Over(f, A) + Over(f, B)
<1> DEFINE Right(C) == /\ Over(f, C) \in Int
                       /\ Over(f, A \cup C) \in Int
                       /\ Over(f, A \cup C) = Over(f, A) + Over(f, C)
           Wrong == {C \in SUBSET B : ~Right(C)}
<1>1. Over(f, A) \in Int
  BY OverInt
<1>2. ASSUME Wrong # {} PROVE FALSE
  <2>1. PICK C \in Wrong : \A D \in Wrong : D \subseteq C => D = C
    <3>1. Wrong \in SUBSET SUBSET B
      OBVIOUS
    <3> HIDE DEF Wrong
    <3> QED
      BY <1>2, <3>1, SmallestSet
  <2>2. CASE C = {}
    <3>1. A \cup C = A
      BY <2>2
    <3>2. Over(f, C) = 0 /\ Over(f, A \cup C) = Over(f, A)
      BY <2>2, <3>1, OverNone, Zenon
    <3>3. Right(C)
      BY <1>1, <3>2
    <3> QED
      BY <2>1, <3>3
  <2>3. CASE C # {}
    <3>1. PICK x \in C : TRUE
      BY <2>3
    <3>2. PICK D, E : D = C \ {x} /\ E = A \cup D
      OBVIOUS
    <3>3. /\ D \in SUBSET B /\ D # C /\ IsFiniteSet(D) /\ IsFiniteSet(E)
          /\ C = D \cup {x} /\ A \cup C = E \cup {x}
          /\ x \notin D /\ x \notin E
      BY <3>1, <3>2, FS_Subset, FS_Union
    <3>4. Right(D)
      BY <2>1, <3>3
    <3>5. f[x] \in Int /\ (\A y \in D \cup {x} : f[y] \in Int) /\ (\A y \in E \cup {x} : f[y] \in Int)
      BY <3>1, <3>2, <3>3
    <3>6. Over(f, D \cup {x}) = f[x] + Over(f, D)
      BY <3>3, <3>5, OverOneMore
    <3>7. Over(f, E \cup {x}) = f[x] + Over(f, E)
      BY <3>3, <3>5, OverOneMore
    <3>8. Over(f, C) = f[x] + Over(f, D) /\ Over(f, A \cup C) = f[x] + Over(f, E)
      BY <3>3, <3>6, <3>7, Zenon
    <3>9. Over(f, D) \in Int /\ Over(f, E) \in Int /\ Over(f, E) = Over(f, A) + Over(f, D)
      BY <3>2, <3>4, Zenon
    <3>10. Right(C)
      BY <1>1, <3>5, <3>8, <3>9
    <3> QED
      BY <2>1, <3>10
  <2> QED
    BY <2>2, <2>3
<1>3. B \in SUBSET B /\ B \notin Wrong
  BY <1>2
<1>4. Right(B)
  BY <1>3
<1> QED
  BY <1>1, <1>4

\* The sum of the sums over the parts of a set is the sum over the set.
LEMMA TotalOfParts ==
    ASSUME NEW f, NEW parts, IsFiniteSet(DOMAIN parts), NEW sums,
           \A l \in DOMAIN parts : IsFiniteSet(parts[l]) /\ sums[l] = Over(f, parts[l]),
           \A l, m \in DOMAIN parts : l # m => parts[l] \cap parts[m] = {},
           \A l \in DOMAIN parts : \A x \in parts[l] : f[x] \in Int
    PROVE  Over(sums, DOMAIN parts) = Over(f, UNION {parts[l] : l \in DOMAIN parts})
<1> DEFINE All(L) == UNION {parts[l] : l \in L}
           Right(L) == /\ IsFiniteSet(All(L))
                       /\ Over(sums, L) \in Int
                       /\ Over(sums, L) = Over(f, All(L))
           Wrong == {L \in SUBSET DOMAIN parts : ~Right(L)}
<1>1. ASSUME Wrong # {} PROVE FALSE
  <2>1. PICK L \in Wrong : \A K \in Wrong : K \subseteq L => K = L
    <3>1. Wrong \in SUBSET SUBSET DOMAIN parts
      OBVIOUS
    <3> HIDE DEF Wrong
    <3> QED
      BY <1>1, <3>1, SmallestSet
  <2>2. CASE L = {}
    <3>1. All(L) = {}
      BY <2>2
    <3>2. Over(sums, L) = 0 /\ Over(f, All(L)) = 0 /\ IsFiniteSet(All(L))
      <4> HIDE DEF All
      <4> QED
        BY <2>2, <3>1, OverNone, FS_EmptySet
    <3>3. Right(L)
      BY <3>2
    <3> QED
      BY <2>1, <3>3
  <2>3. CASE L # {}
    <3>1. PICK l \in L : TRUE
      BY <2>3
    <3>2. PICK K : K = L \ {l}
      OBVIOUS
    <3>3. /\ K \in SUBSET DOMAIN parts /\ K # L /\ IsFiniteSet(K)
          /\ L = K \cup {l} /\ l \notin K /\ l \in DOMAIN parts
      BY <3>1, <3>2, FS_Subset
    <3>4. Right(K)
      BY <2>1, <3>3
    <3>5. PICK P, Q : P = All(K) /\ Q = parts[l]
      OBVIOUS
    <3>6. All(L) = P \cup Q /\ P \cap Q = {}
      BY <3>3, <3>5
    <3>7. IsFiniteSet(P) /\ IsFiniteSet(Q)
      BY <3>3, <3>4, <3>5
    <3>8. \A x \in P \cup Q : f[x] \in Int
      BY <3>3, <3>5
    <3>9. /\ Over(f, P) \in Int /\ Over(f, Q) \in Int
          /\ Over(f, P \cup Q) = Over(f, P) + Over(f, Q)
      BY <3>6, <3>7, <3>8, TotalOfUnion
    <3>10. \A k \in K \cup {l} : sums[k] \in Int
      BY <3>3, OverInt
    <3>11. Over(sums, K \cup {l}) = sums[l] + Over(sums, K)
      BY <3>3, <3>10, OverOneMore
    <3>12. sums[l] = Over(f, Q) /\ Over(sums, K) = Over(f, P) /\ Over(sums, K) \in Int
      BY <3>3, <3>4, <3>5
    <3>13. IsFiniteSet(P \cup Q)
      BY <3>7, FS_Union
    <3>14. Right(L)
      <4> HIDE DEF All
      <4> QED
        BY <3>3, <3>6, <3>9, <3>11, <3>12, <3>13
    <3> QED
      BY <2>1, <3>14
  <2> QED
    BY <2>2, <2>3
<1>2. DOMAIN parts \in SUBSET DOMAIN parts /\ DOMAIN parts \notin Wrong
  BY <1>1
<1> QED
  BY <1>2

-----------------------------------------------------------------------------
(* The revenue of the locations and of the founder.                        *)

\* The rows of payments are finitely many, each of a whole number of cents and at
\* a location of the table.
PaidIn ==
    /\ IsFiniteSet(payments)
    /\ \A y \in payments : y.cents \in Int /\ y.location \in Locations

\* The payments of one stream.
Paid(stream) == {y \in payments : y.product # None /\ Product[y.product].type = stream}

PaidAt(stream, l) == {y \in Paid(stream) : y.location = l}

\* Cents is the sum of the cents.
LEMMA CentsAreTotal ==
    ASSUME NEW S, NEW f, IsFiniteSet(S), \A y \in S : f[y] = y.cents
    PROVE  Cents(S) = Over(f, S)
<1> DEFINE iter[T \in SUBSET S] ==
              IF T = {} THEN 0
              ELSE LET x == CHOOSE y \in T : TRUE IN x.cents + iter[T \ {x}]
           body(h) == [T \in SUBSET S |->
              IF T = {} THEN 0
              ELSE LET x == CHOOSE y \in T : TRUE IN x.cents + h[T \ {x}]]
<1>1. Cents(S) = iter[S]
  BY DEF Cents, MapThenSumSet, MapThenFoldSet
<1>2. iter = CHOOSE h : h = body(h)
  OBVIOUS
<1> HIDE DEF iter
<1>3. PICK g : g = [x \in S |-> f[x]]
  OBVIOUS
<1>4. \A h : h = body(h) <=> Sums(h, g)
  <2>1. DOMAIN g = S /\ \A T \in SUBSET S : T # {} => g[Pick(T)] = Pick(T).cents
    BY <1>3 DEF Pick
  <2> QED
    BY <2>1 DEF Sums, Pick
<1>5. IsFiniteSet(DOMAIN g) /\ DOMAIN g = S
  BY <1>3
<1>6. iter = CHOOSE h : Sums(h, g)
  <2> HIDE DEF body
  <2> QED
    BY <1>2, <1>4
<1> QED
  BY <1>1, <1>3, <1>5, <1>6 DEF Over, Total

\* What the managers see adds up.
LEMMA ManagersAreTotal ==
    ASSUME NEW stream, NEW f, \A l \in Locations : f[l] = Revenue(Manager(l), stream)
    PROVE  MapThenSumSet(LAMBDA l : Revenue(Manager(l), stream), Locations) = Over(f, Locations)
<1> DEFINE S == Locations
           iter[T \in SUBSET S] ==
              IF T = {} THEN 0
              ELSE LET x == CHOOSE y \in T : TRUE
                   IN  Revenue(Manager(x), stream) + iter[T \ {x}]
           body(h) == [T \in SUBSET S |->
              IF T = {} THEN 0
              ELSE LET x == CHOOSE y \in T : TRUE
                   IN  Revenue(Manager(x), stream) + h[T \ {x}]]
<1>1. MapThenSumSet(LAMBDA l : Revenue(Manager(l), stream), Locations) = iter[S]
  BY DEF MapThenSumSet, MapThenFoldSet
<1>2. iter = CHOOSE h : h = body(h)
  OBVIOUS
<1> HIDE DEF iter
<1>3. PICK g : g = [x \in S |-> f[x]]
  OBVIOUS
<1>4. \A h : h = body(h) <=> Sums(h, g)
  <2>1. /\ DOMAIN g = S
        /\ \A T \in SUBSET S : T # {} => g[Pick(T)] = Revenue(Manager(Pick(T)), stream)
    BY <1>3 DEF Pick
  <2> HIDE DEF S
  <2> QED
    BY <2>1 DEF Sums, Pick
<1>5. IsFiniteSet(DOMAIN g) /\ DOMAIN g = S
  BY <1>3, SessionAssumption
<1>6. iter = CHOOSE h : Sums(h, g)
  <2> HIDE DEF body
  <2> QED
    BY <1>2, <1>4
<1> QED
  BY <1>1, <1>3, <1>5, <1>6 DEF Over, Total

\* A manager's stream is what was paid at the location, the founder's is
\* what was paid.
LEMMA RevenueIs ==
    ASSUME NEW stream
    PROVE  /\ Revenue(Founder, stream) = Cents(Paid(stream))
           /\ \A l : Revenue(Manager(l), stream) = Cents(PaidAt(stream, l))
<1>1. {y \in payments : /\ y.product # None
                        /\ Product[y.product].type = stream
                        /\ Reads(Founder, y.location, Player[y.player].school)} = Paid(stream)
  BY FounderReads DEF Paid
<1>2. ASSUME NEW l
      PROVE  {y \in payments : /\ y.product # None
                               /\ Product[y.product].type = stream
                               /\ Reads(Manager(l), y.location, Player[y.player].school)}
             = PaidAt(stream, l)
  BY DEF Paid, PaidAt, Reads, Manager
<1> QED
  BY <1>1, <1>2, Zenon DEF Revenue

\* The founder sees what the managers see together, and all of it.
AddsUp(stream) ==
    /\ Revenue(Founder, stream) = MapThenSumSet(LAMBDA l : Revenue(Manager(l), stream), Locations)
    /\ Revenue(Founder, stream)
       = Cents({y \in payments : y.product # None /\ Product[y.product].type = stream})

\* Payments at the locations of the table add up.
LEMMA RevenueAddsUp ==
    ASSUME PaidIn, NEW stream
    PROVE  AddsUp(stream)
<1> DEFINE parts == [l \in Locations |-> PaidAt(stream, l)]
           sums == [l \in Locations |-> Revenue(Manager(l), stream)]
           f == [y \in payments |-> y.cents]
<1>1. /\ IsFiniteSet(Locations) /\ DOMAIN parts = Locations
      /\ \A l \in Locations : parts[l] = PaidAt(stream, l)
  BY SessionAssumption
<1>2. IsFiniteSet(Paid(stream)) /\ \A l : IsFiniteSet(PaidAt(stream, l))
  <2>1. Paid(stream) \in SUBSET payments /\ \A l : PaidAt(stream, l) \in SUBSET payments
    BY DEF Paid, PaidAt
  <2> QED
    BY <2>1, FS_Subset DEF PaidIn
<1>3. /\ \A y \in Paid(stream) : f[y] = y.cents /\ f[y] \in Int
      /\ \A l : \A y \in PaidAt(stream, l) : f[y] = y.cents /\ f[y] \in Int
  BY DEF PaidIn, Paid, PaidAt
<1>4. \A l \in Locations : sums[l] = Revenue(Manager(l), stream)
  OBVIOUS
<1>5. UNION {parts[l] : l \in Locations} = Paid(stream)
  BY DEF PaidIn, Paid, PaidAt
<1>6. \A l, m \in Locations : l # m => parts[l] \cap parts[m] = {}
  BY DEF PaidAt
<1> HIDE DEF parts, sums, f
<1>7. \A l \in Locations : sums[l] = Over(f, parts[l])
  <2> SUFFICES ASSUME NEW l \in Locations PROVE sums[l] = Over(f, parts[l])
    OBVIOUS
  <2>1. Revenue(Manager(l), stream) = Cents(PaidAt(stream, l))
    BY RevenueIs
  <2>2. PICK S : S = PaidAt(stream, l)
    OBVIOUS
  <2>3. Cents(S) = Over(f, S)
    BY <1>2, <1>3, <2>2, CentsAreTotal
  <2> QED
    BY <1>1, <1>4, <2>1, <2>2, <2>3, Zenon
<1>8. Over(sums, Locations) = Over(f, UNION {parts[l] : l \in Locations})
  <2>1. /\ IsFiniteSet(DOMAIN parts)
        /\ \A l \in DOMAIN parts : IsFiniteSet(parts[l]) /\ sums[l] = Over(f, parts[l])
        /\ \A l, m \in DOMAIN parts : l # m => parts[l] \cap parts[m] = {}
        /\ \A l \in DOMAIN parts : \A x \in parts[l] : f[x] \in Int
    BY <1>1, <1>2, <1>3, <1>6, <1>7
  <2>2. Over(sums, DOMAIN parts) = Over(f, UNION {parts[l] : l \in DOMAIN parts})
    BY <2>1, TotalOfParts
  <2> QED
    BY <1>1, <2>2, Zenon
<1>9. Over(f, UNION {parts[l] : l \in Locations}) = Over(f, Paid(stream))
  BY <1>5, Zenon
<1>10. Cents(Paid(stream)) = Over(f, Paid(stream))
  <2>1. PICK S : S = Paid(stream)
    OBVIOUS
  <2>2. Cents(S) = Over(f, S)
    BY <1>2, <1>3, <2>1, CentsAreTotal
  <2> QED
    BY <2>1, <2>2, Zenon
<1>11. MapThenSumSet(LAMBDA l : Revenue(Manager(l), stream), Locations) = Over(sums, Locations)
  BY <1>4, ManagersAreTotal
<1> QED
  BY <1>8, <1>9, <1>10, <1>11, RevenueIs, Zenon DEF AddsUp, Paid

\* Every payment that is inserted is one of the request.
LEMMA PaidInStays == Allowed /\ PaidIn /\ [Next]_svars => PaidIn'
<1> SUFFICES ASSUME Allowed, PaidIn, [Next]_svars PROVE PaidIn'
  OBVIOUS
<1>1. ASSUME payments' = payments PROVE PaidIn'
  BY <1>1 DEF PaidIn
<1>2. ASSUME NEW r \in Requests, Insert(r) PROVE PaidIn'
  <2>1. payments' = payments \cup NewPayments(r) /\ Refusal(Call[r]) = None
    BY <1>2 DEF Insert, Allowed
  <2>2. CASE Call[r].payment = None
    BY <1>1, <2>1, <2>2 DEF NewPayments
  <2>3. CASE Call[r].payment # None
    <3>1. PICK y : y = PaymentRow(r)
      OBVIOUS
    <3>2. payments' = payments \cup {y}
      BY <2>1, <2>3, <3>1 DEF NewPayments
    <3>3. y.cents \in Int
      BY <2>3, <3>1, CallAssumption DEF PaymentRow
    <3>4. y.location \in Locations
      BY <2>1, <3>1, NotRefused, SessionAssumption DEF PaymentRow, Home
    <3>5. IsFiniteSet(payments')
      BY <3>2, FS_AddElement DEF PaidIn
    <3> QED
      BY <3>2, <3>3, <3>4, <3>5 DEF PaidIn
  <2> QED
    BY <2>2, <2>3
<1> QED
  BY <1>1, <1>2 DEF Next, Handle, Begin, Draw, InsertFails, Answer, Fail, DeviceSync, Tick, svars

\* Whoever logged a session or a payment finds it in the history, the manager of
\* a location sees of its players what the founder sees, and the revenue that the
\* managers see adds up to the founder's, which is all (assert_can_write, summary).
THEOREM RevenueIsWhole == Spec => []LoggedIsVisible
<1>1. Init => PaidIn /\ Allowed
  BY FS_EmptySet DEF Init, PaidIn, Allowed
<1>2. PaidIn => \A stream : AddsUp(stream)
  BY RevenueAddsUp
<1>3. RowsAreVisible /\ PaidIn => LoggedIsVisible
  BY <1>2 DEF LoggedIsVisible, AddsUp
<1> QED
  BY <1>1, <1>3, AllowedStays, PaidInStays, Inductive, WhoWritesReads, PTL DEF Spec

-----------------------------------------------------------------------------
(* Types, and the attempts that a bound on failures leaves.                *)

\* A request is sent again only after it failed, so its earlier attempts are
\* among those that failed, and there are no more of these than may fail.
Bounded ==
    /\ day \in FirstDay..LastDay
    /\ IsFiniteSet(failed)
    /\ \A id \in failed : Made(id)
    /\ \A r \in Requests :
          /\ attempt[r] =< MaxFailures + 1
          /\ pc[r] = "ready" => attempt[r] = 0
          /\ pc[r] = "failed" => attempt[r] =< MaxFailures /\ Id(r) \in failed
          /\ \A n \in 1..attempt[r] : n < attempt[r] => <<r, n>> \in failed

\* The attempts of one request are as many as the request was sent.
LEMMA AttemptsCount ==
    ASSUME NEW F, IsFiniteSet(F), NEW r, NEW k \in Nat, \A n \in 1..k : <<r, n>> \in F
    PROVE  k =< Cardinality(F)
<1> DEFINE f == [n \in 1..k |-> <<r, n>>]
<1>1. f \in Injection(1..k, F)
  BY DEF Injection, IsInjective
<1>2. IsFiniteSet(1..k) /\ Cardinality(1..k) = k
  BY FS_Interval
<1> HIDE DEF f
<1>3. Cardinality(1..k) =< Cardinality(F)
  BY <1>1, FS_Injection
<1> QED
  BY <1>2, <1>3

\* The attempts that were made are not forgotten.
LEMMA MadeLasts ==
    ASSUME Inv, \A r \in Requests : attempt'[r] \in Nat /\ attempt[r] =< attempt'[r],
           NEW id, Made(id)
    PROVE  Made(id)'
<1>1. PICK q \in Requests : \E n \in 1..attempt[q] : id = <<q, n>>
  BY DEF Made
<1>2. PICK n \in 1..attempt[q] : id = <<q, n>>
  BY <1>1
<1>3. n \in 1..attempt'[q]
  BY DEF Inv, Types
<1> QED
  BY <1>2, <1>3 DEF Made

LEMMA BeginBounded ==
    ASSUME Inv, Bounded, NEW r \in Requests, Begin(r)
    PROVE  Bounded'
<1>1. /\ attempt[r] \in Nat /\ attempt'[r] = attempt[r] + 1
      /\ pc[r] \in {"ready", "failed"} /\ pc'[r] \in {"refused", "draw", "insert"}
      /\ \A q \in Requests \ {r} : pc'[q] = pc[q] /\ attempt'[q] = attempt[q]
      /\ UNCHANGED <<day, failed>>
  BY DEF Begin, Inv, Types
<1>2. \A q \in Requests : attempt'[q] \in Nat /\ attempt[q] =< attempt'[q]
  BY <1>1 DEF Inv, Types
<1>3. \A id \in failed' : Made(id)'
  BY <1>1, <1>2, MadeLasts DEF Bounded
<1>4. attempt'[r] =< MaxFailures + 1
  BY <1>1, SessionAssumption DEF Bounded
<1>5. ASSUME NEW n \in 1..attempt'[r], n < attempt'[r] PROVE <<r, n>> \in failed
  <2>1. pc[r] = "failed" /\ n \in 1..attempt[r]
    BY <1>1, <1>5 DEF Bounded
  <2>2. n < attempt[r] \/ <<r, n>> = Id(r)
    BY <1>1, <2>1 DEF Id
  <2> QED
    BY <2>1, <2>2 DEF Bounded
<1>6. ASSUME NEW q \in Requests \ {r}
      PROVE  /\ attempt'[q] =< MaxFailures + 1
             /\ pc'[q] = "ready" => attempt'[q] = 0
             /\ pc'[q] = "failed" => attempt'[q] =< MaxFailures /\ Id(q)' \in failed'
             /\ \A n \in 1..attempt'[q] : n < attempt'[q] => <<q, n>> \in failed'
  BY <1>1 DEF Bounded, Id
<1> QED
  BY <1>1, <1>3, <1>4, <1>5, <1>6 DEF Bounded

\* An attempt goes on, or ends.
LEMMA EndBounded ==
    ASSUME Inv, Bounded, NEW r \in Requests, Handle(r) \/ Fail(r)
    PROVE  Bounded'
<1>1. /\ UNCHANGED <<day, attempt>>
      /\ \A q \in Requests \ {r} : pc'[q] = pc[q]
      /\ \/ failed' = failed /\ pc'[r] \in {"insert", "refused", "committed", "answered"}
         \/ failed' = failed \cup {Id(r)} /\ pc'[r] = "refused"
         \/ failed' = failed \cup {Id(r)} /\ pc'[r] = "failed" /\ Cardinality(failed) < MaxFailures
      /\ pc[r] # "ready"
  <2>1. CASE Draw(r)
    BY <2>1 DEF Draw, Inv, Types
  <2>2. CASE Insert(r) \/ InsertFails(r) \/ Answer(r)
    BY <2>2 DEF Insert, InsertFails, Answer, Inv, Types
  <2>3. CASE Fail(r)
    BY <2>3 DEF Fail, Active, Inv, Types
  <2> QED
    BY <2>1, <2>2, <2>3 DEF Handle
<1>2. attempt[r] \in Nat /\ attempt[r] > 0 /\ \A q \in Requests : attempt[q] \in Nat
  BY <1>1 DEF Inv, Types
<1>3. failed \subseteq failed' /\ IsFiniteSet(failed')
  BY <1>1, FS_AddElement DEF Bounded
<1>4. Made(Id(r))
  BY <1>2 DEF Made, Id
<1>5. \A id \in failed' : Made(id)'
  BY <1>1, <1>2, <1>4, MadeLasts DEF Bounded
<1>6. ASSUME pc'[r] = "failed" PROVE attempt[r] =< MaxFailures /\ Id(r) \in failed'
  <2>1. failed' = failed \cup {Id(r)} /\ Cardinality(failed) < MaxFailures
    BY <1>1, <1>6
  <2>2. ASSUME NEW n \in 1..attempt[r] PROVE <<r, n>> \in failed'
    <3>1. n < attempt[r] \/ <<r, n>> = Id(r)
      BY <1>2 DEF Id
    <3> QED
      BY <2>1, <3>1 DEF Bounded
  <2>3. attempt[r] =< Cardinality(failed')
    BY <1>2, <1>3, <2>2, AttemptsCount
  <2>4. Cardinality(failed) \in Nat /\ Cardinality(failed') \in Nat
    BY <1>3, FS_CardinalityType DEF Bounded
  <2>5. Cardinality(failed') =< Cardinality(failed) + 1
    <3>1. IsFiniteSet(failed)
      BY DEF Bounded
    <3>2. \/ failed' = failed
          \/ Cardinality(failed') = Cardinality(failed) + 1
      BY <2>1, <3>1, FS_AddElement
    <3> QED
      BY <2>4, <3>2
  <2> QED
    BY <1>2, <2>1, <2>3, <2>4, <2>5, SessionAssumption
<1>7. ASSUME NEW q \in Requests
      PROVE  /\ attempt'[q] =< MaxFailures + 1
             /\ pc'[q] = "ready" => attempt'[q] = 0
             /\ pc'[q] = "failed" => attempt'[q] =< MaxFailures /\ Id(q)' \in failed'
             /\ \A n \in 1..attempt'[q] : n < attempt'[q] => <<q, n>> \in failed'
  <2>1. CASE q = r
    BY <1>1, <1>3, <1>6, <2>1 DEF Bounded, Id
  <2>2. CASE q # r
    BY <1>1, <1>3, <2>2 DEF Bounded, Id
  <2> QED
    BY <2>1, <2>2
<1> QED
  BY <1>1, <1>3, <1>5, <1>7 DEF Bounded

LEMMA BoundedKeeps == Inv /\ Bounded /\ [Next]_svars => Bounded'
<1> SUFFICES ASSUME Inv, Bounded, [Next]_svars PROVE Bounded'
  OBVIOUS
<1>1. ASSUME UNCHANGED <<pc, attempt, failed>>, day' \in FirstDay..LastDay PROVE Bounded'
  <2>1. \A id : Made(id)' = Made(id)
    BY <1>1 DEF Made
  <2> QED
    BY <1>1, <2>1 DEF Bounded, Id
<1>2. CASE \E d \in Devices, l \in Locations : DeviceSync(d, l)
  BY <1>1, <1>2 DEF DeviceSync, Bounded
<1>3. CASE Tick \/ UNCHANGED svars
  BY <1>1, <1>3, SessionAssumption DEF Tick, svars, Bounded
<1> QED
  BY <1>2, <1>3, BeginBounded, EndBounded DEF Next

\* Steps, balances and rows keep their types for any requests and entitlements:
\* no balance falls below zero, and a request is sent once more at most than the
\* attempts that may fail (log_session, engine.draw).
THEOREM TypeCorrect == Spec => []TypeOK
<1>1. ASSUME Init PROVE Bounded
  <2>1. failed = {} /\ day = FirstDay /\ \A r \in Requests : pc[r] = "ready" /\ attempt[r] = 0
    BY <1>1 DEF Init
  <2> QED
    BY <2>1, FS_EmptySet, SessionAssumption DEF Bounded
<1>2. ASSUME Inv, Bounded PROVE TypeOK
  <2>1. \A e \in DOMAIN Grant : balance[e].units \in Nat \cup {None}
    BY <1>2 DEF Inv, Counted
  <2>2. ASSUME NEW id, Made(id) PROVE id \in {<<r, n>> : r \in Requests, n \in 1..(MaxFailures + 1)}
    <3>1. PICK r \in Requests : \E n \in 1..attempt[r] : id = <<r, n>>
      BY <2>2 DEF Made
    <3>2. PICK n \in 1..attempt[r] : id = <<r, n>>
      BY <3>1
    <3>3. n \in 1..(MaxFailures + 1)
      BY <1>2, SessionAssumption DEF Bounded, Inv, Types
    <3> QED
      BY <3>2, <3>3
  <2>3. {s.id : s \in sessions} \cup {y.id : y \in payments} \cup failed
          \subseteq {<<r, n>> : r \in Requests, n \in 1..(MaxFailures + 1)}
    BY <1>2, <2>2 DEF Inv, Traced, Bounded
  <2> QED
    BY <1>2, <2>1, <2>3 DEF TypeOK, Inv, Types, Bounded, Steps
<1> QED
  BY <1>1, <1>2, BoundedKeeps, Inductive, PTL DEF Spec
=============================================================================
