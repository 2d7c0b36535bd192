----------------------- MODULE EntitlementEngineProofs -----------------------
(***************************************************************************)
(* What holds of the Entitlement Engine for every table, every set of      *)
(* calls and every number of concurrent requests.  The inductive invariant *)
(* Inv says what a request may rely on between its two steps.              *)
(***************************************************************************)
EXTENDS EntitlementEngine, FiniteSetTheorems, TLAPS

-----------------------------------------------------------------------------
(* The inductive invariant.                                                *)

\* What a request has asked for by the time it is at each step; a draw that
\* holds the lock has read the row as it still is.
RequestsOK ==
    \A r \in Requests :
        /\ req[r].pc = "idle" => req[r].call = None
        /\ req[r].pc # "idle" => req[r].call \in Calls
        /\ req[r].outcome # None => req[r].pc = "done"
        /\ req[r].pc = "locked" =>
              /\ req[r].call.op = "draw"
              /\ req[r].call.amount > 0
              /\ req[r].seen # None
              /\ req[r].seen = entitlements[req[r].call.ent]
        /\ req[r].pc = "creating" => req[r].call.op = "create"

\* No two requests hold the lock of one row.
OneLock ==
    \A q, r \in Requests :
        (req[q].pc = "locked" /\ req[r].pc = "locked"
            /\ req[q].call.ent = req[r].call.ent) => q = r

\* Whoever found no receipt under the lock would still find none.
NoReceiptYet ==
    \A r \in Requests :
        (req[r].pc = "locked" /\ req[r].receipt = "none" /\ req[r].call.client # None) =>
            ~ClientLogged(req[r].call.client) /\ ~LegacyReceipt(req[r].call)

\* Whatever was applied for a client id left that client id in the log.
AppliedIsLogged ==
    \A r \in Requests :
        (req[r].outcome = "applied" /\ req[r].call.client # None) =>
            ClientLogged(req[r].call.client)

RowIsLogged ==
    \A e \in EntIds : (entitlements[e] # None /\ entitlements[e].client # None) =>
        ClientLogged(entitlements[e].client)

\* A client id in the log came with a call that was carried out.
LoggedIsDone ==
    \A l \in sync_log : l.client # None =>
        \E r \in Requests :
            /\ req[r].call \in Calls
            /\ req[r].call.client = l.client
            /\ req[r].call.op = "draw" =>
                  req[r].call.amount > 0 /\ entitlements[req[r].call.ent] # None

Inv ==
    /\ TypeOK
    /\ RequestsOK
    /\ OneLock
    /\ BalanceWithinAllowance
    /\ NoReceiptYet
    /\ AppliedIsLogged
    /\ RowIsLogged
    /\ LoggedIsDone
    /\ DrawAppliedOnce
    /\ CreatedOnce

-----------------------------------------------------------------------------
(* The rules of a product.                                                 *)

\* allowance_units is a count of minutes or sessions, or None for an
\* unlimited product.
LEMMA AllowanceType ==
    ASSUME NEW rules \in RulesType
    PROVE  AllowanceUnits(rules) \in Nat \cup {None}
  BY DEF AllowanceUnits, RulesType, MinutesPerHour

\* period_start is a date.
LEMMA PeriodStartType ==
    ASSUME NEW rules \in RulesType, NEW now \in Int
    PROVE  PeriodStart(rules, now) \in Int
<1>1. ResetWeekday(rules) \in Int
  BY DEF ResetWeekday, Weekdays
<1>2. LocalDate(now) \in Int
  BY ClockAssumption DEF LocalDate
<1> QED
  BY <1>1, <1>2 DEF PeriodStart

\* period_start is the anchor weekday of the week that ends with the local
\* date: not after it, less than seven days before it, and on the weekday that
\* the rules name.
THEOREM PeriodStartIsLatestAnchor ==
    ASSUME NEW rules \in RulesType, NEW now \in Int
    PROVE  /\ PeriodStart(rules, now) =< LocalDate(now)
           /\ LocalDate(now) < PeriodStart(rules, now) + 7
           /\ PeriodStart(rules, now) % 7 = ResetWeekday(rules)
<1>1. ResetWeekday(rules) \in 0 .. 6
  BY DEF ResetWeekday, Weekdays
<1>2. LocalDate(now) \in Int
  BY ClockAssumption DEF LocalDate
<1>3. ASSUME NEW today \in Int, NEW anchor \in 0 .. 6
      PROVE  LET start == today - (((today % 7) - anchor) % 7)
             IN  start =< today /\ today < start + 7 /\ start % 7 = anchor
  OBVIOUS
<1> QED
  BY <1>1, <1>2, <1>3 DEF PeriodStart

\* derive_window gives a new entitlement the whole allowance and a date.
LEMMA WindowType ==
    ASSUME NEW rules \in RulesType, NEW now \in Int
    PROVE  /\ DeriveWindow(rules, now).units = AllowanceUnits(rules)
           /\ DeriveWindow(rules, now).from \in Int
<1>1. LocalDate(now) \in Int
  BY ClockAssumption DEF LocalDate
<1> QED
  BY <1>1, PeriodStartType DEF DeriveWindow

\* reset_if_new_period keeps the balance and the date, or restores the
\* allowance and moves to a later date.
LEMMA ResetMovesForward ==
    ASSUME NEW rules \in RulesType, NEW now \in Int, NEW from \in Int,
           NEW units \in Nat \cup {None}
    PROVE  LET p == ResetIfNewPeriod(units, from, rules, now)
           IN  /\ p.from \in Int
               /\ p.from >= from
               /\ p.units = units \/ p.units = AllowanceUnits(rules)
  BY PeriodStartType DEF ResetIfNewPeriod

-----------------------------------------------------------------------------
(* What a request knows of its own call.                                   *)

\* The call of a request that holds a lock is a draw on an existing row, and
\* what it read is the row.
LEMMA LockedCall ==
    ASSUME TypeOK, RequestsOK, NEW r \in Requests, req[r].pc = "locked"
    PROVE  /\ req[r].call \in Calls
           /\ req[r].call \in DrawCalls
           /\ req[r].seen \in RowType
           /\ entitlements[req[r].call.ent] = req[r].seen
<1>1. req[r].call \in Calls /\ req[r].call.op = "draw"
  BY DEF RequestsOK
<1>2. req[r].call \in DrawCalls
  BY <1>1, EngineAssumption DEF DrawCalls, CreateCalls
<1>3. req[r].seen \in RowType
  BY DEF TypeOK, RequestType, RequestsOK
<1> QED
  BY <1>1, <1>2, <1>3 DEF RequestsOK

\* The balance that a draw is evaluated against is within the allowance, and
\* its period is not earlier than the one that is stored.
LEMMA PeriodOK ==
    ASSUME TypeOK, RequestsOK, BalanceWithinAllowance,
           NEW r \in Requests, req[r].pc = "locked"
    PROVE  /\ Period(r).units \in Nat \cup {None}
           /\ Period(r).from \in Int
           /\ Period(r).from >= req[r].seen.from
           /\ WithinAllowance(Period(r).units, req[r].seen.product)
<1> DEFINE seen == req[r].seen
           rules == RulesOf[seen.product]
<1>1. /\ seen \in RowType
      /\ req[r].call \in DrawCalls
      /\ entitlements[req[r].call.ent] = seen
  BY LockedCall
<1>2. rules \in RulesType
  BY <1>1, EngineAssumption DEF RowType
<1>3. req[r].call.now \in Int /\ req[r].call.ent \in EntIds
  BY <1>1 DEF DrawCalls
<1>4. seen.from \in Int /\ seen.units \in Nat \cup {None}
  BY <1>1 DEF RowType
<1>5. WithinAllowance(seen.units, seen.product)
  BY <1>1, <1>3, NoneAssumption DEF BalanceWithinAllowance
<1>6. /\ Period(r).from \in Int
      /\ Period(r).from >= seen.from
      /\ Period(r).units = seen.units \/ Period(r).units = AllowanceUnits(rules)
  BY <1>2, <1>3, <1>4, ResetMovesForward DEF Period
<1>7. AllowanceUnits(rules) \in Nat \cup {None}
  BY <1>2, AllowanceType
<1>8. WithinAllowance(AllowanceUnits(rules), seen.product)
  BY <1>7, ClockAssumption DEF WithinAllowance, Allowance
<1> QED
  BY <1>4, <1>5, <1>6, <1>7, <1>8

\* What the UPDATE of a draw leaves in the table.
LEMMA WriteOK ==
    ASSUME TypeOK, RequestsOK, BalanceWithinAllowance,
           NEW r \in Requests, req[r].pc = "locked",
           NEW units \in Nat \cup {None}, Write(r, units)
    PROVE  LET e == req[r].call.ent
           IN  /\ e \in EntIds
               /\ entitlements' \in [EntIds -> RowType \cup {None}]
               /\ \A d \in EntIds : d # e => entitlements'[d] = entitlements[d]
               /\ entitlements'[e] \in RowType
               /\ entitlements'[e].units = units
               /\ entitlements'[e].from = Period(r).from
               /\ entitlements'[e].product = req[r].seen.product
               /\ entitlements'[e].client = req[r].seen.client
               /\ entitlements'[e].status = req[r].seen.status
<1> DEFINE e == req[r].call.ent
           row == [req[r].seen EXCEPT !.units = units, !.from = Period(r).from]
<1>1. /\ req[r].seen \in RowType
      /\ e \in EntIds
      /\ entitlements[e] = req[r].seen
  BY LockedCall DEF DrawCalls
<1>2. Period(r).from \in Int
  BY PeriodOK
<1>3. row \in RowType
  BY <1>1, <1>2 DEF RowType
<1>4. entitlements' = [entitlements EXCEPT ![e] = row]
  BY <1>1 DEF Write, TypeOK
<1>5. /\ row.units = units
      /\ row.from = Period(r).from
      /\ row.product = req[r].seen.product
      /\ row.client = req[r].seen.client
      /\ row.status = req[r].seen.status
  BY <1>1 DEF RowType
<1>6. entitlements'[e] = row /\ \A d \in EntIds : d # e => entitlements'[d] = entitlements[d]
  BY <1>1, <1>4 DEF TypeOK
<1>7. entitlements' \in [EntIds -> RowType \cup {None}]
  BY <1>1, <1>3, <1>4 DEF TypeOK
<1> HIDE DEF row, e
<1> QED
  BY <1>1, <1>3, <1>5, <1>6, <1>7 DEF e

-----------------------------------------------------------------------------
(* The steps, seen coarsely: what the invariant has to know of them.       *)

Others(r) == \A q \in Requests : q # r => req'[q] = req[q]

LogGains(client) ==
    \/ sync_log' = sync_log
    \/ \E l \in LogType : ~l.legacy /\ l.client = client
                          /\ sync_log' = sync_log \cup {l}

LoggedAfter(client) == \E l \in sync_log' : l.client = client

\* A request is answered in the step in which it arrives.
RefuseArrival(r, c) ==
    /\ req[r].pc = "idle"
    /\ Others(r)
    /\ req' \in [Requests -> RequestType]
    /\ req'[r].pc = "done" /\ req'[r].call = c /\ req'[r].outcome # "applied"
    /\ entitlements' = entitlements
    /\ LogGains(None)

\* A request goes on to its second step.
GoOn(r, c) ==
    /\ req[r].pc = "idle"
    /\ Others(r)
    /\ req' \in [Requests -> RequestType]
    /\ req'[r].call = c /\ req'[r].outcome = None
    /\ \/ /\ c.op = "draw" /\ c.amount > 0
          /\ entitlements[c.ent] # None
          /\ ~Locked(c.ent)
          /\ req'[r].pc = "locked"
          /\ req'[r].seen = entitlements[c.ent]
          /\ req'[r].receipt = ReceiptOf(c)
       \/ c.op = "create" /\ req'[r].pc = "creating"
    /\ UNCHANGED <<entitlements, sync_log>>

\* A draw is answered: the table keeps its row or gets one within the
\* allowance, and an applied draw logs a client id that was not logged.
EndDraw(r) ==
    LET client == req[r].call.client
    IN  /\ req[r].pc = "locked"
        /\ Others(r)
        /\ req' \in [Requests -> RequestType]
        /\ req'[r].pc = "done" /\ req'[r].call = req[r].call
        /\ \/ entitlements' = entitlements
           \/ \E units \in Nat \cup {None} :
                 Write(r, units) /\ WithinAllowance(units, req[r].seen.product)
        /\ LogGains(None) \/ LogGains(client)
        /\ req'[r].outcome = "applied" =>
              /\ req[r].receipt = "none"
              /\ client # None => ~ClientLogged(client) /\ LoggedAfter(client)

\* A create is answered without an entitlement.
RefuseCreate(r) ==
    /\ req[r].pc = "creating"
    /\ Others(r)
    /\ req' \in [Requests -> RequestType]
    /\ req'[r].pc = "done" /\ req'[r].call = req[r].call
    /\ req'[r].outcome # "applied"
    /\ UNCHANGED <<entitlements, sync_log>>

\* A create inserts a row with the allowance of its product.
InsertRow(r) ==
    LET c == req[r].call
    IN  /\ req[r].pc = "creating"
        /\ c.client # None => ~ClientLogged(c.client) /\ LoggedAfter(c.client)
        /\ \E e \in EntIds, row \in RowType :
              /\ entitlements[e] = None
              /\ entitlements' = [entitlements EXCEPT ![e] = row]
              /\ row.client = c.client
              /\ WithinAllowance(row.units, row.product)
        /\ Others(r)
        /\ req' \in [Requests -> RequestType]
        /\ req'[r].pc = "done" /\ req'[r].call = c
        /\ LogGains(c.client)

\* answering keeps the call and the type of a request.
LEMMA AnswerOK ==
    ASSUME TypeOK, RequestsOK, NEW r \in Requests, req[r].pc # "idle",
           NEW outcome \in {"applied", "skipped"} \cup Refusals, Answer(r, outcome)
    PROVE  /\ Others(r)
           /\ req' \in [Requests -> RequestType]
           /\ req'[r].pc = "done"
           /\ req'[r].call = req[r].call
           /\ req'[r].outcome = outcome
<1> DEFINE answered == [req[r] EXCEPT !.pc = "done", !.outcome = outcome]
<1>1. req' = [req EXCEPT ![r] = answered]
  BY DEF Answer, TypeOK
<1>2. answered \in RequestType /\ answered.pc = "done"
      /\ answered.call = req[r].call /\ answered.outcome = outcome
  <2>1. req[r] \in RequestType
    BY DEF TypeOK
  <2> QED
    BY <2>1 DEF RequestType
<1> HIDE DEF answered
<1> QED
  BY <1>1, <1>2 DEF TypeOK, Others

\* answering at once records the call and keeps the type of a request.
LEMMA AnswerAtOnceOK ==
    ASSUME TypeOK, RequestsOK, NEW r \in Requests, NEW c \in Calls,
           NEW outcome \in {"applied", "skipped"} \cup Refusals,
           AnswerAtOnce(r, c, outcome)
    PROVE  /\ Others(r)
           /\ req' \in [Requests -> RequestType]
           /\ req'[r].pc = "done"
           /\ req'[r].call = c
           /\ req'[r].outcome = outcome
<1> DEFINE new == [req[r] EXCEPT !.pc = "done", !.call = c, !.outcome = outcome]
<1>1. new \in RequestType /\ new.pc = "done" /\ new.call = c /\ new.outcome = outcome
  BY DEF TypeOK, RequestType
<1>2. req' = [req EXCEPT ![r] = new]
  BY DEF AnswerAtOnce
<1> HIDE DEF new
<1> QED
  BY <1>1, <1>2 DEF TypeOK, Others

\* Every arrival is one of the two coarse ones.
LEMMA ArriveShape ==
    ASSUME Inv, NEW r \in Requests, NEW c \in Calls, Arrive(r, c)
    PROVE  RefuseArrival(r, c) \/ GoOn(r, c)
<1> USE DEF Inv
<1>0. c \in DrawCalls \cup CreateCalls
  BY EngineAssumption
<1>1. CASE RefuseDraw(r, c)
  <2>1. CASE AnswerAtOnce(r, c, "invalid_amount")
    BY <1>1, <2>1, AnswerAtOnceOK DEF RefuseDraw, RefuseArrival, LogGains, Refusals
  <2>2. CASE AnswerAtOnce(r, c, "not_found")
    BY <1>1, <2>2, AnswerAtOnceOK DEF RefuseDraw, RefuseArrival, LogGains, Refusals
  <2> QED
    BY <1>1, <2>1, <2>2 DEF RefuseDraw
<1>2. CASE BeginDraw(r, c)
  <2>1. c.ent \in EntIds
    BY <1>0, <1>2 DEF BeginDraw, DrawCalls, CreateCalls
  <2>2. entitlements[c.ent] \in RowType
    BY <1>2, <2>1 DEF BeginDraw, TypeOK
  <2>3. ReceiptOf(c) \in {"none", "client", "legacy"}
    BY DEF ReceiptOf
  <2> DEFINE new == [req[r] EXCEPT !.pc = "locked", !.call = c,
                                   !.seen = entitlements[c.ent], !.receipt = ReceiptOf(c)]
  <2>4. /\ new \in RequestType
        /\ new.pc = "locked"
        /\ new.call = c
        /\ new.seen = entitlements[c.ent]
        /\ new.receipt = ReceiptOf(c)
        /\ new.outcome = req[r].outcome
    BY <2>2, <2>3 DEF TypeOK, RequestType
  <2>5. req' = [req EXCEPT ![r] = new]
    BY <1>2 DEF BeginDraw
  <2>6. req[r].outcome = None
    BY <1>2 DEF BeginDraw, RequestsOK
  <2> HIDE DEF new
  <2>7. Others(r) /\ req' \in [Requests -> RequestType] /\ req'[r] = new
    BY <2>4, <2>5 DEF TypeOK, Others
  <2> QED
    BY <1>2, <2>4, <2>6, <2>7 DEF BeginDraw, GoOn
<1>3. CASE SkipCreate(r, c)
  <2>1. PICK e \in EntIds : sync_log' = sync_log \cup {Entry(r, c, e, "skip", None)}
    BY <1>3 DEF SkipCreate
  <2>2. Entry(r, c, e, "skip", None) \in LogType
    BY <1>0 DEF Entry, LogType, DrawCalls, CreateCalls
  <2>3. LogGains(None)
    BY <2>1, <2>2 DEF LogGains, Entry
  <2> QED
    BY <1>3, <2>3, AnswerAtOnceOK DEF SkipCreate, RefuseArrival
<1>4. CASE BeginCreate(r, c)
  <2>1. /\ Others(r)
        /\ req' \in [Requests -> RequestType]
        /\ req'[r].pc = "creating"
        /\ req'[r].call = c
        /\ req'[r].outcome = req[r].outcome
    <3> DEFINE opened == [req[r] EXCEPT !.pc = "creating", !.call = c]
    <3>1. req' = [req EXCEPT ![r] = opened]
      BY <1>4 DEF BeginCreate, TypeOK
    <3>2. opened \in RequestType /\ opened.pc = "creating"
          /\ opened.call = c /\ opened.outcome = req[r].outcome
      <4>1. req[r] \in RequestType
        BY DEF TypeOK
      <4> QED
        BY <4>1 DEF RequestType
    <3> HIDE DEF opened
    <3> QED
      BY <3>1, <3>2 DEF TypeOK, Others
  <2>2. req[r].outcome = None
    BY <1>4 DEF BeginCreate, RequestsOK
  <2> QED
    BY <1>4, <2>1, <2>2 DEF BeginCreate, GoOn
<1> QED
  BY <1>1, <1>2, <1>3, <1>4 DEF Arrive

\* The audit row that a request at its second step appends.
LEMMA EntryOK ==
    ASSUME TypeOK, RequestsOK, NEW r \in Requests, req[r].pc \in {"locked", "creating"},
           NEW e \in EntIds, NEW action \in {"insert", "update", "skip"},
           NEW client \in {None, req[r].call.client},
           sync_log' = sync_log \cup {Entry(r, req[r].call, e, action, client)}
    PROVE  /\ LogGains(client)
           /\ LoggedAfter(client)
<1> DEFINE l == Entry(r, req[r].call, e, action, client)
<1>1. req[r].call \in DrawCalls \cup CreateCalls
  BY EngineAssumption DEF RequestsOK
<1>2. req[r].call.now \in Int /\ req[r].call.client \in ClientIds \cup {None}
  BY <1>1 DEF DrawCalls, CreateCalls
<1>3. l \in LogType /\ ~l.legacy /\ l.client = client
  BY <1>2 DEF Entry, LogType
<1>4. l \in sync_log'
  OBVIOUS
<1>5. LoggedAfter(client)
  BY <1>3, <1>4 DEF LoggedAfter
<1> QED
  BY <1>3, <1>5 DEF LogGains

\* Every answer to a draw is the coarse one.
LEMMA FinishDrawShape ==
    ASSUME Inv, NEW r \in Requests, req[r].pc = "locked", Finish(r)
    PROVE  EndDraw(r)
<1> USE DEF Inv
<1> DEFINE c == req[r].call
           seen == req[r].seen
<1>1. /\ c \in DrawCalls /\ c.ent \in EntIds /\ c.client \in ClientIds \cup {None}
      /\ c.amount \in Int /\ c.amount > 0
  BY LockedCall DEF DrawCalls, RequestsOK
<1>2. /\ Period(r).units \in Nat \cup {None}
      /\ WithinAllowance(Period(r).units, seen.product)
      /\ Period(r).from \in Int
  BY PeriodOK
<1>3. CASE SkipReplay(r)
  <2>1. PICK client \in {None, c.client} :
            sync_log' = sync_log \cup {Entry(r, c, c.ent, "skip", client)}
    BY <1>3 DEF SkipReplay
  <2>2. LogGains(client)
    BY <1>1, <2>1, EntryOK
  <2> QED
    BY <1>3, <2>2, AnswerOK DEF SkipReplay, EndDraw
<1>4. ASSUME NEW outcome \in Refusals, Answer(r, outcome), UNCHANGED sync_log,
             Write(r, Period(r).units) \/ UNCHANGED entitlements
      PROVE  EndDraw(r)
  <2>1. /\ Others(r)
        /\ req' \in [Requests -> RequestType]
        /\ req'[r].pc = "done"
        /\ req'[r].call = c
        /\ req'[r].outcome = outcome
    BY <1>4, AnswerOK
  <2>2. outcome # "applied"
    BY DEF Refusals
  <2> QED
    BY <1>2, <1>4, <2>1, <2>2 DEF EndDraw, LogGains
<1>5. CASE RejectInactive(r)
  BY <1>4, <1>5 DEF RejectInactive, Refusals
<1>6. CASE RejectInsufficient(r) \/ SignatureFails(r)
  BY <1>4, <1>6 DEF RejectInsufficient, SignatureFails, Refusals
<1>7. CASE DatabaseFails(r)
  BY <1>4, <1>7 DEF DatabaseFails, Refusals
<1>8. CASE ApplyUnlimited(r)
  <2>1. Write(r, None) /\ WithinAllowance(None, seen.product)
    BY <1>2, <1>8 DEF ApplyUnlimited
  <2>2. /\ LogGains(c.client)
        /\ c.client # None => LoggedAfter(c.client)
    <3>1. CASE c.client = None
      BY <1>8, <3>1 DEF ApplyUnlimited, LogGains
    <3>2. CASE c.client # None
      BY <1>1, <1>8, <3>2, EntryOK DEF ApplyUnlimited
    <3> QED
      BY <3>1, <3>2
  <2>3. c.client = None \/ ~ClientLogged(c.client)
    BY <1>8 DEF ApplyUnlimited
  <2>4. Answer(r, "applied") /\ req[r].receipt = "none"
    BY <1>8 DEF ApplyUnlimited, Evaluating
  <2> QED
    BY <2>1, <2>2, <2>3, <2>4, AnswerOK DEF EndDraw
<1>9. CASE ApplyDraw(r)
  <2> DEFINE left == Period(r).units - c.amount
  <2>1. Funded(r) /\ Period(r).units \in Nat /\ Period(r).units >= c.amount
    BY <1>2, <1>9 DEF ApplyDraw, Funded
  <2>2. left \in Nat /\ left =< Period(r).units
    BY <1>1, <2>1
  <2>3. WithinAllowance(left, seen.product)
    <3>1. Allowance(seen.product) \in Nat \cup {None}
      BY LockedCall, AllowanceType, EngineAssumption DEF Allowance, RowType
    <3> QED
      BY <1>2, <2>1, <2>2, <3>1, ClockAssumption DEF WithinAllowance
  <2>4. Write(r, left)
    BY <1>9 DEF ApplyDraw
  <2>5. LogGains(c.client) /\ LoggedAfter(c.client)
    BY <1>1, <1>9, EntryOK DEF ApplyDraw
  <2>6. c.client = None \/ ~ClientLogged(c.client)
    BY <1>9 DEF ApplyDraw
  <2> DEFINE new == [req[r] EXCEPT !.pc = "done", !.outcome = "applied",
                                   !.charged = Period(r).from]
  <2>7. /\ Others(r)
        /\ req' \in [Requests -> RequestType]
        /\ req'[r].pc = "done"
        /\ req'[r].call = c
    <3>1. new \in RequestType /\ new.pc = "done" /\ new.call = c
      BY <1>2 DEF TypeOK, RequestType
    <3>2. req' = [req EXCEPT ![r] = new]
      BY <1>9 DEF ApplyDraw
    <3> HIDE DEF new
    <3> QED
      BY <3>1, <3>2 DEF TypeOK, Others
  <2>8. req[r].receipt = "none"
    BY <2>1 DEF Funded, Evaluating
  <2> HIDE DEF left
  <2> QED
    BY <2>2, <2>3, <2>4, <2>5, <2>6, <2>7, <2>8 DEF EndDraw
<1>10. ~CommitCreate(r) /\ ~UniqueViolation(r)
  BY DEF CommitCreate, UniqueViolation
<1> QED
  BY <1>3, <1>4, <1>5, <1>6, <1>7, <1>8, <1>9, <1>10 DEF Finish

\* Every answer to a create is one of the two coarse ones.
LEMMA FinishCreateShape ==
    ASSUME Inv, NEW r \in Requests, req[r].pc = "creating", Finish(r)
    PROVE  RefuseCreate(r) \/ InsertRow(r)
<1> USE DEF Inv
<1> DEFINE c == req[r].call
<1>1. c \in CreateCalls
  BY EngineAssumption DEF RequestsOK, DrawCalls, CreateCalls
<1>2. CASE UniqueViolation(r) \/ DatabaseFails(r)
  BY <1>2, AnswerOK DEF UniqueViolation, DatabaseFails, RefuseCreate, Refusals
<1>3. CASE CommitCreate(r)
  <2> DEFINE window == DeriveWindow(RulesOf[c.product], c.now)
             row == [status |-> "active", product |-> c.product,
                     units |-> window.units, from |-> window.from,
                     client |-> c.client]
  <2>1. PICK e \in EntIds :
            /\ entitlements[e] = None
            /\ entitlements' = [entitlements EXCEPT ![e] = row]
            /\ sync_log' = sync_log \cup {Entry(r, c, e, "insert", c.client)}
    BY <1>3 DEF CommitCreate
  <2>2. c.product \in Products /\ c.now \in Int /\ c.client \in ClientIds \cup {None}
    BY <1>1 DEF CreateCalls
  <2>3. RulesOf[c.product] \in RulesType
    BY <2>2, EngineAssumption
  <2>4. /\ window.units = Allowance(c.product)
        /\ window.from \in Int
        /\ Allowance(c.product) \in Nat \cup {None}
    BY <2>2, <2>3, WindowType, AllowanceType DEF Allowance
  <2> HIDE DEF window
  <2>5. row \in RowType
    BY <2>2, <2>4 DEF RowType, Statuses
  <2>6. WithinAllowance(row.units, row.product) /\ row.client = c.client
    BY <2>4, ClockAssumption DEF WithinAllowance
  <2>7. LogGains(c.client) /\ LoggedAfter(c.client)
    BY <2>1, <2>2, EntryOK
  <2>8. Answer(r, "applied") /\ (c.client = None \/ ~ClientLogged(c.client))
    BY <1>3 DEF CommitCreate
  <2> HIDE DEF row
  <2> QED
    BY <2>1, <2>5, <2>6, <2>7, <2>8, AnswerOK DEF InsertRow
<1> QED
  BY <1>2, <1>3 DEF Finish, SkipReplay, RejectInactive, ApplyUnlimited, RejectInsufficient,
                    ApplyDraw, SignatureFails, Funded, Evaluating

CoarseNext ==
    \/ \E r \in Requests, c \in Calls : RefuseArrival(r, c) \/ GoOn(r, c)
    \/ \E r \in Requests : EndDraw(r) \/ RefuseCreate(r) \/ InsertRow(r)
    \/ \E e \in EntIds : OperatorSetsStatus(e)
    \/ UNCHANGED vars

\* Every step of the specification is a coarse one.
LEMMA NextShape ==
    ASSUME Inv, [Next]_vars
    PROVE  CoarseNext
<1>1. ASSUME NEW r \in Requests, Finish(r)
      PROVE  EndDraw(r) \/ RefuseCreate(r) \/ InsertRow(r)
  <2>1. req[r].pc \in {"locked", "creating"}
    BY <1>1 DEF Finish, SkipReplay, RejectInactive, ApplyUnlimited, RejectInsufficient,
                ApplyDraw, SignatureFails, Funded, Evaluating, CommitCreate,
                UniqueViolation, DatabaseFails
  <2> QED
    BY <1>1, <2>1, FinishDrawShape, FinishCreateShape
<1> QED
  BY <1>1, ArriveShape DEF Next, CoarseNext, Terminating

-----------------------------------------------------------------------------
(* What all steps have in common.                                          *)

\* The audit log is append-only, and nothing that is appended is legacy.
LEMMA LogGrows ==
    ASSUME Inv, CoarseNext
    PROVE  /\ sync_log \subseteq sync_log'
           /\ \A l \in sync_log' : l.legacy => l \in sync_log
           /\ sync_log' \subseteq LogType
  BY DEF Inv, TypeOK, CoarseNext, RefuseArrival, GoOn, EndDraw, RefuseCreate, InsertRow,
         OperatorSetsStatus, LogGains, vars

\* Rows are not deleted, a row keeps its client id, a new row has the client
\* id of the create that inserts it, and the row of a held lock is written by
\* its holder alone.
LEMMA TableGrows ==
    ASSUME Inv, CoarseNext
    PROVE  /\ entitlements' \in [EntIds -> RowType \cup {None}]
           /\ BalanceWithinAllowance'
           /\ \A e \in EntIds : entitlements[e] # None =>
                 /\ entitlements'[e] # None
                 /\ entitlements'[e].client = entitlements[e].client
                 /\ entitlements'[e].from >= entitlements[e].from
           /\ \A r \in Requests : (req[r].pc = "locked" /\ req'[r].pc = "locked") =>
                 entitlements'[req[r].call.ent] = entitlements[req[r].call.ent]
<1> USE DEF Inv
<1>1. \A r \in Requests : req[r].pc = "locked" =>
          req[r].call.ent \in EntIds /\ entitlements[req[r].call.ent] # None
  BY LockedCall DEF DrawCalls, RequestsOK
<1>2. \A e \in EntIds : entitlements[e] # None =>
          entitlements[e] \in RowType /\ entitlements[e].from \in Int
  BY DEF TypeOK, RowType
<1>3. CASE entitlements' = entitlements
  BY <1>2, <1>3 DEF TypeOK, BalanceWithinAllowance
<1>4. ASSUME NEW r \in Requests, EndDraw(r), entitlements' # entitlements
      PROVE  /\ entitlements' \in [EntIds -> RowType \cup {None}]
             /\ BalanceWithinAllowance'
             /\ \A e \in EntIds : entitlements[e] # None =>
                   /\ entitlements'[e] # None
                   /\ entitlements'[e].client = entitlements[e].client
                   /\ entitlements'[e].from >= entitlements[e].from
             /\ \A q \in Requests : (req[q].pc = "locked" /\ req'[q].pc = "locked") =>
                   entitlements'[req[q].call.ent] = entitlements[req[q].call.ent]
  <2> DEFINE e == req[r].call.ent
  <2>1. PICK units \in Nat \cup {None} :
            Write(r, units) /\ WithinAllowance(units, req[r].seen.product)
    BY <1>4 DEF EndDraw
  <2>2. req[r].pc = "locked" /\ req'[r].pc = "done"
    BY <1>4 DEF EndDraw
  <2>3. /\ e \in EntIds
        /\ entitlements' \in [EntIds -> RowType \cup {None}]
        /\ \A d \in EntIds : d # e => entitlements'[d] = entitlements[d]
        /\ entitlements'[e] \in RowType
        /\ entitlements'[e].units = units
        /\ entitlements'[e].from = Period(r).from
        /\ entitlements'[e].product = req[r].seen.product
        /\ entitlements'[e].client = req[r].seen.client
    BY <2>1, <2>2, WriteOK
  <2>4. entitlements[e] = req[r].seen /\ Period(r).from >= req[r].seen.from
    BY <2>2, LockedCall, PeriodOK
  <2>5. BalanceWithinAllowance'
    BY <2>1, <2>3 DEF BalanceWithinAllowance
  <2>6. \A q \in Requests : (req[q].pc = "locked" /\ req'[q].pc = "locked") =>
            req[q].call.ent # e
    BY <2>2 DEF OneLock
  <2> HIDE DEF e
  <2> QED
    BY <1>1, <1>2, <2>3, <2>4, <2>5, <2>6, NoneAssumption
<1>5. ASSUME NEW r \in Requests, InsertRow(r)
      PROVE  /\ entitlements' \in [EntIds -> RowType \cup {None}]
             /\ BalanceWithinAllowance'
             /\ \A e \in EntIds : entitlements[e] # None => entitlements'[e] = entitlements[e]
  <2>1. PICK e \in EntIds, row \in RowType :
            /\ entitlements[e] = None
            /\ entitlements' = [entitlements EXCEPT ![e] = row]
            /\ WithinAllowance(row.units, row.product)
    BY <1>5 DEF InsertRow
  <2> QED
    BY <2>1 DEF TypeOK, BalanceWithinAllowance
<1>6. ASSUME NEW e \in EntIds, OperatorSetsStatus(e)
      PROVE  /\ entitlements' \in [EntIds -> RowType \cup {None}]
             /\ BalanceWithinAllowance'
             /\ \A d \in EntIds : entitlements[d] # None =>
                   /\ entitlements'[d] # None
                   /\ entitlements'[d].client = entitlements[d].client
                   /\ entitlements'[d].from = entitlements[d].from
             /\ \A d \in EntIds : d # e => entitlements'[d] = entitlements[d]
             /\ ~Locked(e)
  <2>1. PICK st \in Statuses :
            entitlements' = [entitlements EXCEPT ![e].status = st]
    BY <1>6 DEF OperatorSetsStatus
  <2>2. entitlements[e] \in RowType
    BY <1>6 DEF OperatorSetsStatus, TypeOK
  <2> DEFINE row == [entitlements[e] EXCEPT !.status = st]
  <2>3. /\ row \in RowType
        /\ row.client = entitlements[e].client
        /\ row.from = entitlements[e].from
        /\ row.units = entitlements[e].units
        /\ row.product = entitlements[e].product
    BY <2>2 DEF RowType
  <2>4. entitlements' = [entitlements EXCEPT ![e] = row]
    BY <2>1
  <2> HIDE DEF row
  <2>5. entitlements'[e] = row /\ \A d \in EntIds : d # e => entitlements'[d] = entitlements[d]
    BY <2>4 DEF TypeOK
  <2>6. entitlements' \in [EntIds -> RowType \cup {None}]
    BY <2>3, <2>4 DEF TypeOK
  <2>7. BalanceWithinAllowance'
    BY <1>6, <2>3, <2>5 DEF BalanceWithinAllowance, OperatorSetsStatus
  <2> QED
    BY <1>6, <2>3, <2>5, <2>6, <2>7, NoneAssumption DEF OperatorSetsStatus
<1>7. CASE \E r \in Requests : InsertRow(r)
  BY <1>1, <1>2, <1>5, <1>7
<1>8. CASE \E e \in EntIds : OperatorSetsStatus(e)
  BY <1>1, <1>2, <1>6, <1>8 DEF Locked
<1> QED
  BY <1>3, <1>4, <1>7, <1>8 DEF CoarseNext, RefuseArrival, GoOn, RefuseCreate, vars

-----------------------------------------------------------------------------
(* Each part of the invariant is kept.                                     *)

\* Requests keep to their protocol, and a lock has one holder.
LEMMA RequestsKept ==
    ASSUME Inv, CoarseNext
    PROVE  req' \in [Requests -> RequestType] /\ RequestsOK' /\ OneLock'
<1> USE DEF Inv
<1>1. \A r \in Requests : (req[r].pc = "locked" /\ req'[r].pc = "locked") =>
          entitlements'[req[r].call.ent] = entitlements[req[r].call.ent]
  BY TableGrows
<1>2. req' \in [Requests -> RequestType]
  BY DEF CoarseNext, RefuseArrival, GoOn, EndDraw, RefuseCreate, InsertRow,
         OperatorSetsStatus, TypeOK, vars
<1>3. ASSUME UNCHANGED req
      PROVE  RequestsOK' /\ OneLock'
  BY <1>1, <1>3 DEF RequestsOK, OneLock
<1>4. ASSUME NEW r \in Requests, Others(r), req'[r].pc = "done", req'[r].call \in Calls
      PROVE  RequestsOK' /\ OneLock'
  BY <1>1, <1>4 DEF Others, RequestsOK, OneLock
<1>5. ASSUME NEW r \in Requests, NEW c \in Calls, GoOn(r, c)
      PROVE  RequestsOK' /\ OneLock'
  <2>1. RequestsOK'
    BY <1>1, <1>5 DEF GoOn, Others, RequestsOK
  <2>2. OneLock'
    BY <1>5 DEF GoOn, Others, OneLock, Locked
  <2> QED
    BY <2>1, <2>2
<1>6. ASSUME NEW r \in Requests, EndDraw(r) \/ RefuseCreate(r) \/ InsertRow(r)
      PROVE  RequestsOK' /\ OneLock'
  BY <1>4, <1>6 DEF EndDraw, RefuseCreate, InsertRow, RequestsOK
<1>7. ASSUME NEW r \in Requests, NEW c \in Calls, RefuseArrival(r, c)
      PROVE  RequestsOK' /\ OneLock'
  BY <1>4, <1>7 DEF RefuseArrival
<1> QED
  BY <1>2, <1>3, <1>5, <1>6, <1>7 DEF CoarseNext, OperatorSetsStatus, vars

\* Under the lock no receipt appears: a client id names one call, and the
\* holder of the lock is the only one who can carry it out.
LEMMA NoReceiptKept ==
    ASSUME Inv, CoarseNext
    PROVE  NoReceiptYet'
<1> USE DEF Inv
<1> SUFFICES ASSUME NEW r \in Requests,
                    req'[r].pc = "locked", req'[r].receipt = "none",
                    req'[r].call.client # None
             PROVE  /\ ~ClientLogged(req[r].call.client)'
                    /\ ~LegacyReceipt(req[r].call)'
  BY DEF NoReceiptYet
<1> DEFINE c == req'[r].call
<1>1. \A l \in sync_log' : l.legacy => l \in sync_log
  BY LogGrows
<1>2. CASE req[r].pc = "locked"
  <2>1. req'[r] = req[r] /\ c \in Calls /\ c.op = "draw"
    BY <1>2 DEF CoarseNext, RefuseArrival, GoOn, EndDraw, RefuseCreate, InsertRow, Others,
                OperatorSetsStatus, vars, RequestsOK
  <2>2. ~ClientLogged(c.client) /\ ~LegacyReceipt(c)
    BY <1>2, <2>1 DEF NoReceiptYet
  <2>3. \A l \in sync_log' : l.client # c.client
    <3>1. CASE \E q \in Requests : EndDraw(q)
      <4>1. PICK q \in Requests : EndDraw(q)
        BY <3>1
      <4>2. q # r /\ req[q].pc = "locked" /\ req[q].call \in Calls
        BY <4>1 DEF EndDraw, RequestsOK
      <4>3. req[q].call.client # c.client
        BY <1>2, <2>1, <4>2, ClientIdAssumption DEF OneLock
      <4> QED
        BY <2>2, <4>1, <4>3 DEF EndDraw, LogGains, ClientLogged
    <3>2. CASE \E q \in Requests : InsertRow(q)
      <4>1. PICK q \in Requests : InsertRow(q)
        BY <3>2
      <4>2. req[q].call \in Calls /\ req[q].call.op = "create"
        BY <4>1 DEF InsertRow, RequestsOK
      <4>3. req[q].call.client # c.client
        BY <2>1, <4>2, ClientIdAssumption
      <4> QED
        BY <2>2, <4>1, <4>3 DEF InsertRow, LogGains, ClientLogged
    <3> QED
      BY <2>2, <3>1, <3>2 DEF CoarseNext, RefuseArrival, GoOn, RefuseCreate, LogGains,
                              OperatorSetsStatus, vars, ClientLogged
  <2> QED
    BY <1>1, <2>1, <2>2, <2>3 DEF ClientLogged, LegacyReceipt
<1>3. CASE req[r].pc # "locked"
  <2>1. GoOn(r, c)
    BY <1>3 DEF CoarseNext, RefuseArrival, GoOn, EndDraw, RefuseCreate, InsertRow, Others,
                OperatorSetsStatus, vars
  <2>2. ReceiptOf(c) = "none" /\ sync_log' = sync_log
    BY <2>1 DEF GoOn
  <2> QED
    BY <2>2 DEF ReceiptOf, ClientLogged, LegacyReceipt
<1> QED
  BY <1>2, <1>3

\* Only a create adds a row.
LEMMA NoOtherInsert ==
    ASSUME Inv, CoarseNext, ~\E r \in Requests : InsertRow(r),
           NEW e \in EntIds, entitlements[e] = None
    PROVE  entitlements'[e] = None
<1> USE DEF Inv
<1>1. CASE entitlements' = entitlements
  BY <1>1
<1>2. ASSUME NEW r \in Requests, EndDraw(r), entitlements' # entitlements
      PROVE  entitlements'[e] = None
  <2>1. PICK units \in Nat \cup {None} : Write(r, units)
    BY <1>2 DEF EndDraw
  <2>2. req[r].pc = "locked"
    BY <1>2 DEF EndDraw
  <2>3. e # req[r].call.ent
    BY <2>2 DEF RequestsOK
  <2> QED
    BY <2>1, <2>2, <2>3, WriteOK
<1>3. CASE \E d \in EntIds : OperatorSetsStatus(d)
  BY <1>3 DEF OperatorSetsStatus, TypeOK
<1> QED
  BY <1>1, <1>2, <1>3 DEF CoarseNext, RefuseArrival, GoOn, RefuseCreate, vars

\* Applied actions and rows keep their client ids in the log, and the log
\* names calls that were carried out.
LEMMA LoggedKept ==
    ASSUME Inv, CoarseNext
    PROVE  AppliedIsLogged' /\ RowIsLogged' /\ LoggedIsDone'
<1> USE DEF Inv
<1>1. sync_log \subseteq sync_log'
  BY LogGrows
<1>2. \A e \in EntIds : entitlements[e] # None =>
          entitlements'[e] # None /\ entitlements'[e].client = entitlements[e].client
  BY TableGrows
<1>3. AppliedIsLogged'
  <2> SUFFICES ASSUME NEW r \in Requests, req'[r].outcome = "applied",
                      req'[r].call.client # None
               PROVE  LoggedAfter(req'[r].call.client)
    BY DEF AppliedIsLogged, ClientLogged, LoggedAfter
  <2>1. CASE req'[r] = req[r]
    BY <1>1, <2>1 DEF AppliedIsLogged, ClientLogged, LoggedAfter
  <2>2. CASE req'[r] # req[r]
    <3>1. "applied" # None
      BY NoneAssumption
    <3>2. EndDraw(r) \/ InsertRow(r)
      BY <2>2, <3>1 DEF CoarseNext, RefuseArrival, GoOn, EndDraw, RefuseCreate, InsertRow,
                        Others, OperatorSetsStatus, vars
    <3> QED
      BY <3>2 DEF EndDraw, InsertRow
  <2> QED
    BY <2>1, <2>2
<1>4. RowIsLogged'
  <2> SUFFICES ASSUME NEW e \in EntIds, entitlements'[e] # None,
                      entitlements'[e].client # None
               PROVE  LoggedAfter(entitlements'[e].client)
    BY DEF RowIsLogged, ClientLogged, LoggedAfter
  <2>1. CASE entitlements[e] # None
    BY <1>1, <1>2, <2>1 DEF RowIsLogged, ClientLogged, LoggedAfter
  <2>2. CASE entitlements[e] = None
    <3>1. PICK r \in Requests : InsertRow(r)
      BY <2>2, NoOtherInsert
    <3>2. entitlements'[e].client = req[r].call.client
      BY <2>2, <3>1 DEF InsertRow, TypeOK
    <3> QED
      BY <3>1, <3>2 DEF InsertRow
  <2> QED
    BY <2>1, <2>2
<1>5. LoggedIsDone'
  <2> SUFFICES ASSUME NEW l \in sync_log', l.client # None
               PROVE  \E r \in Requests :
                        /\ req'[r].call \in Calls
                        /\ req'[r].call.client = l.client
                        /\ req'[r].call.op = "draw" =>
                              /\ req'[r].call.amount > 0
                              /\ entitlements'[req'[r].call.ent] # None
    BY DEF LoggedIsDone
  <2>1. CASE l \in sync_log
    <3>1. PICK r \in Requests :
            /\ req[r].call \in Calls
            /\ req[r].call.client = l.client
            /\ req[r].call.op = "draw" =>
                  req[r].call.amount > 0 /\ entitlements[req[r].call.ent] # None
      BY <2>1 DEF LoggedIsDone
    <3>2. req[r].pc # "idle"
      BY <3>1, NoneAssumption DEF RequestsOK
    <3>3. req'[r].call = req[r].call
      BY <3>2 DEF CoarseNext, RefuseArrival, GoOn, EndDraw, RefuseCreate, InsertRow,
                  Others, OperatorSetsStatus, vars
    <3>4. req[r].call.op = "draw" => req[r].call.ent \in EntIds
      BY <3>1, EngineAssumption DEF DrawCalls, CreateCalls
    <3> QED
      BY <1>2, <3>1, <3>3, <3>4
  <2>2. CASE l \notin sync_log
    <3>1. PICK r \in Requests : EndDraw(r) \/ InsertRow(r)
      BY <2>2 DEF CoarseNext, RefuseArrival, GoOn, RefuseCreate, LogGains,
                  OperatorSetsStatus, vars
    <3>2. CASE EndDraw(r)
      <4>1. req[r].pc = "locked" /\ req'[r].call = req[r].call
        BY <3>2 DEF EndDraw
      <4>2. /\ req[r].call \in Calls
            /\ req[r].call.amount > 0
            /\ req[r].call.ent \in EntIds
            /\ entitlements[req[r].call.ent] # None
        BY <4>1, LockedCall DEF RequestsOK, DrawCalls
      <4>3. l.client = req[r].call.client
        BY <2>2, <3>2 DEF EndDraw, LogGains
      <4> QED
        BY <1>2, <4>1, <4>2, <4>3
    <3>3. CASE InsertRow(r)
      <4>1. /\ req'[r].call = req[r].call
            /\ req[r].call \in Calls
            /\ req[r].call.op = "create"
        BY <3>3 DEF InsertRow, RequestsOK
      <4>2. l.client = req[r].call.client
        BY <2>2, <3>3 DEF InsertRow, LogGains
      <4> QED
        BY <4>1, <4>2
    <3> QED
      BY <3>1, <3>2, <3>3
  <2> QED
    BY <2>1, <2>2
<1> QED
  BY <1>3, <1>4, <1>5

\* An action whose client id was applied is not applied again.
LEMMA AppliedOnceKept ==
    ASSUME Inv, CoarseNext
    PROVE  DrawAppliedOnce'
<1> USE DEF Inv
<1> SUFFICES ASSUME NEW q \in Requests, req'[q].outcome = "applied",
                    req'[q].call.op = "draw", req'[q].call.client # None
             PROVE  /\ ~LegacyReceipt(req[q].call)'
                    /\ \A r \in Requests \ {q} : req'[r].outcome = "applied" =>
                          req'[r].call.client # req'[q].call.client
  BY DEF DrawAppliedOnce
<1>1. \A l \in sync_log' : l.legacy => l \in sync_log
  BY LogGrows
<1>2. "applied" # None
  BY NoneAssumption
<1>3. \A r \in Requests : req'[r].outcome = "applied" /\ req'[r] # req[r] =>
          EndDraw(r) \/ InsertRow(r)
  BY <1>2 DEF CoarseNext, RefuseArrival, GoOn, EndDraw, RefuseCreate, InsertRow, Others,
              OperatorSetsStatus, vars
<1>4. CASE req'[q] = req[q]
  <2>1. /\ ~LegacyReceipt(req[q].call)
        /\ \A r \in Requests \ {q} :
              req[r].outcome = "applied" => req[r].call.client # req[q].call.client
        /\ ClientLogged(req[q].call.client)
    BY <1>4 DEF DrawAppliedOnce, AppliedIsLogged
  <2>2. ~LegacyReceipt(req[q].call)'
    BY <1>1, <1>4, <2>1 DEF LegacyReceipt
  <2>3. \A r \in Requests \ {q} :
            req'[r].outcome = "applied" /\ req'[r] # req[r] =>
               req'[r].call.client # req'[q].call.client
    BY <1>3, <1>4, <2>1 DEF EndDraw, InsertRow
  <2> QED
    BY <1>4, <2>1, <2>2, <2>3
<1>5. CASE req'[q] # req[q]
  <2>1. EndDraw(q)
    BY <1>3, <1>5 DEF InsertRow, RequestsOK
  <2>2. /\ req[q].pc = "locked" /\ req[q].receipt = "none"
        /\ req'[q].call = req[q].call
        /\ ~ClientLogged(req[q].call.client)
    BY <2>1 DEF EndDraw
  <2>3. ~LegacyReceipt(req[q].call)
    BY <2>2 DEF NoReceiptYet
  <2>4. ~LegacyReceipt(req[q].call)'
    BY <1>1, <2>2, <2>3 DEF LegacyReceipt
  <2>5. \A r \in Requests \ {q} : req'[r] = req[r]
    BY <2>1 DEF EndDraw, Others
  <2> QED
    BY <2>2, <2>4, <2>5 DEF AppliedIsLogged
<1> QED
  BY <1>4, <1>5

\* No create inserts a client id that a row has.
LEMMA CreatedOnceKept ==
    ASSUME Inv, CoarseNext
    PROVE  CreatedOnce'
<1> USE DEF Inv
<1>1. \A e \in EntIds : entitlements[e] # None =>
          entitlements'[e].client = entitlements[e].client
  BY TableGrows
<1>2. CASE \E r \in Requests : InsertRow(r)
  <2>1. PICK r \in Requests : InsertRow(r)
    BY <1>2
  <2>2. PICK e \in EntIds, row \in RowType :
            /\ entitlements[e] = None
            /\ entitlements' = [entitlements EXCEPT ![e] = row]
            /\ row.client = req[r].call.client
            /\ row.client # None => ~ClientLogged(row.client)
    BY <2>1 DEF InsertRow
  <2>3. /\ entitlements'[e] = row
        /\ \A d \in EntIds : d # e => entitlements'[d] = entitlements[d]
    BY <2>2 DEF TypeOK
  <2> QED
    BY <2>2, <2>3 DEF CreatedOnce, RowIsLogged
<1>3. CASE ~\E r \in Requests : InsertRow(r)
  <2>1. \A e \in EntIds : entitlements[e] = None => entitlements'[e] = None
    BY <1>3, NoOtherInsert
  <2> QED
    BY <1>1, <2>1 DEF CreatedOnce
<1> QED
  BY <1>2, <1>3

-----------------------------------------------------------------------------
(* The theorems.                                                           *)

\* The tables as they are before the first request satisfy the invariant.
LEMMA InitInv == Init => Inv
<1> SUFFICES ASSUME Init PROVE Inv
  OBVIOUS
<1>1. NewRequest \in RequestType
  BY DEF NewRequest, RequestType
<1>2. TypeOK
  BY <1>1, EngineAssumption DEF Init, TypeOK
<1>3. \A r \in Requests : req[r] = NewRequest
  BY DEF Init
<1>4. RequestsOK /\ OneLock /\ NoReceiptYet
  BY <1>3 DEF NewRequest, RequestsOK, OneLock, NoReceiptYet
<1>5. AppliedIsLogged /\ DrawAppliedOnce
  BY <1>3, NoneAssumption DEF NewRequest, AppliedIsLogged, DrawAppliedOnce
<1>6. RowIsLogged /\ CreatedOnce
  BY ClientIdAssumption DEF Init, RowIsLogged, CreatedOnce
<1>7. BalanceWithinAllowance
  BY EngineAssumption DEF Init, BalanceWithinAllowance
<1>8. LoggedIsDone
  BY EngineAssumption DEF Init, LoggedIsDone
<1> QED
  BY <1>2, <1>4, <1>5, <1>6, <1>7, <1>8 DEF Inv

\* Every step keeps the invariant.
LEMMA StepInv == Inv /\ [Next]_vars => Inv'
<1> SUFFICES ASSUME Inv, [Next]_vars PROVE Inv'
  OBVIOUS
<1>1. CoarseNext
  BY NextShape
<1>2. TypeOK'
  BY <1>1, LogGrows, TableGrows, RequestsKept DEF TypeOK
<1> QED
  BY <1>1, <1>2, TableGrows, RequestsKept, NoReceiptKept, LoggedKept, AppliedOnceKept,
     CreatedOnceKept DEF Inv

\* The invariant holds throughout, whatever requests are served and in
\* whatever order.
THEOREM InvHolds == Spec => []Inv
  BY InitInv, StepInv, PTL DEF Spec

\* The tables, the audit log and the requests always hold values that the
\* schema and the engine's locals can hold; no balance is negative.
THEOREM TypeCorrect == Spec => []TypeOK
<1>1. Inv => TypeOK
  BY DEF Inv
<1> QED
  BY <1>1, InvHolds, PTL

\* Draws, resets, creates and failures that interleave in any way leave every
\* balance between zero and one period's allowance (draw and
\* reset_if_new_period of engine.py).
THEOREM BalanceBounded == Spec => []BalanceWithinAllowance
<1>1. Inv => BalanceWithinAllowance
  BY DEF Inv
<1> QED
  BY <1>1, InvHolds, PTL

\* A draw that a device delivers again, in any number of concurrent requests
\* or after migration 010, is applied at most once (the receipt look-up of
\* draw).
THEOREM DrawOnce == Spec => []DrawAppliedOnce
<1>1. Inv => DrawAppliedOnce
  BY DEF Inv
<1> QED
  BY <1>1, InvHolds, PTL

\* A create that a device delivers again leaves one entitlement
\* (_apply_entitlement and the unique index on sync_log.client_id).
THEOREM CreateOnce == Spec => []CreatedOnce
<1>1. Inv => CreatedOnce
  BY DEF Inv
<1> QED
  BY <1>1, InvHolds, PTL

\* No step of any request takes an entitlement back into an earlier period or
\* deletes it (reset_if_new_period).
THEOREM PeriodsMoveForward == Spec => PeriodNeverMovesBack
<1>1. Inv /\ [Next]_vars =>
        [\A e \in EntIds : entitlements[e] # None =>
            /\ entitlements'[e] # None
            /\ entitlements'[e].from >= entitlements[e].from]_vars
  BY NextShape, TableGrows
<1> QED
  BY <1>1, InvHolds, PTL DEF Spec, PeriodNeverMovesBack

ReplayedAnswer(r) ==
    /\ req[r].pc # "done"
    /\ req'[r].pc = "done"
    /\ req'[r].call.op = "draw"
    /\ req'[r].call.client # None
    /\ ClientLogged(req'[r].call.client)

\* Once the client id of a draw is in the audit log, an answer to the draw
\* changes no entitlement and is skipped or a database error (the replay
\* branch of draw, under the row lock).
THEOREM ReplayChangesNothing == Spec => ReplayIsNoOp
<1>1. ASSUME Inv, Next, NEW r \in Requests, ReplayedAnswer(r)
      PROVE  entitlements' = entitlements /\ req'[r].outcome \in {"skipped", "database_error"}
  <2> USE DEF Inv
  <2>1. req'[r] # req[r]
    BY <1>1 DEF ReplayedAnswer
  <2>2. ASSUME NEW q \in Requests, NEW c \in Calls, Arrive(q, c) PROVE FALSE
    <3>1. RefuseArrival(q, c) \/ GoOn(q, c)
      BY <1>1, <2>2, ArriveShape
    <3>2. q = r
      BY <2>1, <3>1 DEF RefuseArrival, GoOn, Others
    <3>3. req'[r].call = c
      BY <3>1, <3>2 DEF RefuseArrival, GoOn
    <3>4. c.op = "draw" /\ c.client # None /\ ClientLogged(c.client)
      BY <1>1, <3>3 DEF ReplayedAnswer
    <3>5. PICK l \in sync_log : l.client = c.client
      BY <3>4 DEF ClientLogged
    <3>6. PICK p \in Requests :
            /\ req[p].call \in Calls
            /\ req[p].call.client = c.client
            /\ req[p].call.op = "draw" =>
                  req[p].call.amount > 0 /\ entitlements[req[p].call.ent] # None
      BY <1>1, <3>4, <3>5 DEF LoggedIsDone
    <3>7. req[p].call = c
      BY <3>4, <3>6, ClientIdAssumption
    <3>8. c \in DrawCalls
      BY <3>4, EngineAssumption DEF DrawCalls, CreateCalls
    <3>9. ~RefuseDraw(r, c)
      BY <3>4, <3>6, <3>7, <3>8 DEF RefuseDraw, DrawCalls
    <3>10. ~BeginDraw(r, c)
      BY <1>1 DEF BeginDraw, TypeOK, RequestType, ReplayedAnswer
    <3>11. ~SkipCreate(r, c) /\ ~BeginCreate(r, c)
      BY <3>4 DEF SkipCreate, BeginCreate
    <3> QED
      BY <2>2, <3>2, <3>9, <3>10, <3>11 DEF Arrive
  <2>3. ASSUME NEW q \in Requests, Finish(q)
        PROVE  entitlements' = entitlements
               /\ req'[r].outcome \in {"skipped", "database_error"}
    <3>1. req[q].pc \in {"locked", "creating"}
      BY <2>3 DEF Finish, SkipReplay, RejectInactive, ApplyUnlimited, RejectInsufficient,
                  ApplyDraw, SignatureFails, Funded, Evaluating, CommitCreate,
                  UniqueViolation, DatabaseFails
    <3>2. /\ Others(q)
          /\ req'[q].call = req[q].call
      <4>1. EndDraw(q) \/ RefuseCreate(q) \/ InsertRow(q)
        BY <1>1, <2>3, <3>1, FinishDrawShape, FinishCreateShape
      <4> QED
        BY <4>1 DEF EndDraw, RefuseCreate, InsertRow
    <3>3. q = r /\ req[r].call = req'[r].call
      BY <2>1, <3>2 DEF Others
    <3>4. req[r].pc = "locked"
      BY <1>1, <3>1, <3>3 DEF RequestsOK, ReplayedAnswer
    <3>5. req[r].receipt # "none"
      BY <1>1, <3>3, <3>4 DEF NoReceiptYet, ReplayedAnswer
    <3>6. SkipReplay(r) \/ DatabaseFails(r)
      BY <2>3, <3>3, <3>4, <3>5 DEF Finish, RejectInactive, ApplyUnlimited, Funded,
                  RejectInsufficient, ApplyDraw, SignatureFails, Evaluating, CommitCreate,
                  UniqueViolation
    <3>7. CASE SkipReplay(r)
      <4>1. Answer(r, "skipped") /\ entitlements' = entitlements
        BY <3>7 DEF SkipReplay
      <4> QED
        BY <1>1, <3>4, <4>1, AnswerOK
    <3>8. CASE DatabaseFails(r)
      <4>1. Answer(r, "database_error") /\ entitlements' = entitlements
        BY <3>8 DEF DatabaseFails
      <4> QED
        BY <1>1, <3>4, <4>1, AnswerOK DEF Refusals
    <3> QED
      BY <3>6, <3>7, <3>8
  <2> QED
    BY <2>1, <2>2, <2>3, <1>1 DEF Next, OperatorSetsStatus, Terminating, vars
<1>2. Inv /\ [Next]_vars =>
        [\A r \in Requests :
            ReplayedAnswer(r) =>
               /\ entitlements' = entitlements
               /\ req'[r].outcome \in {"skipped", "database_error"}]_vars
  BY <1>1
<1> QED
  BY <1>2, InvHolds, PTL DEF Spec, ReplayIsNoOp, ReplayedAnswer

-----------------------------------------------------------------------------
(* Overlapping draws do what draws one after the other do.                 *)

\* What was read under the lock is what is there: no receipt of the same draw
\* appears or goes away before the lock is released.
ReceiptStands ==
    \A r \in Requests : req[r].pc = "locked" => req[r].receipt = ReceiptOf(req[r].call)

\* A client id names one call, so only the holder of the lock can log it.
LEMMA ReceiptKept ==
    ASSUME Inv, ReceiptStands, CoarseNext
    PROVE  ReceiptStands'
<1> USE DEF Inv
<1> SUFFICES ASSUME NEW r \in Requests, req'[r].pc = "locked"
             PROVE  req'[r].receipt = ReceiptOf(req[r].call)'
  BY DEF ReceiptStands
<1>1. PICK c : c = req'[r].call
  OBVIOUS
<1>2. /\ sync_log \subseteq sync_log'
      /\ \A l \in sync_log' : l.legacy => l \in sync_log
  BY LogGrows
<1>3. CASE req[r].pc = "locked"
  <2>1. req'[r] = req[r] /\ c \in Calls /\ c.op = "draw"
    BY <1>1, <1>3 DEF CoarseNext, RefuseArrival, GoOn, EndDraw, RefuseCreate, InsertRow, Others,
                OperatorSetsStatus, vars, RequestsOK
  <2>2. ASSUME c.client # None
        PROVE  \A l \in sync_log' \ sync_log : l.client # c.client
    <3>1. CASE \E q \in Requests : EndDraw(q)
      <4>1. PICK q \in Requests : EndDraw(q)
        BY <3>1
      <4>2. q # r /\ req[q].pc = "locked" /\ req[q].call \in Calls
        BY <1>3, <2>1, <4>1 DEF EndDraw, RequestsOK
      <4>3. req[q].call.client # c.client
        BY <1>1, <1>3, <2>1, <2>2, <4>2, ClientIdAssumption DEF OneLock
      <4> QED
        BY <2>2, <4>1, <4>3 DEF EndDraw, LogGains
    <3>2. CASE \E q \in Requests : InsertRow(q)
      <4>1. PICK q \in Requests : InsertRow(q)
        BY <3>2
      <4>2. req[q].call \in Calls /\ req[q].call.op = "create"
        BY <4>1 DEF InsertRow, RequestsOK
      <4>3. req[q].call.client # c.client
        BY <2>1, <2>2, <4>2, ClientIdAssumption
      <4> QED
        BY <2>2, <4>1, <4>3 DEF InsertRow, LogGains
    <3> QED
      BY <2>2, <3>1, <3>2 DEF CoarseNext, RefuseArrival, GoOn, RefuseCreate, LogGains,
                              OperatorSetsStatus, vars
  <2>3. c.client # None => (ClientLogged(c.client)' <=> ClientLogged(c.client))
    BY <1>2, <2>1, <2>2 DEF ClientLogged
  <2>4. LegacyReceipt(c)' <=> LegacyReceipt(c)
    BY <1>2, <2>1 DEF LegacyReceipt
  <2>5. ReceiptOf(c)' = ReceiptOf(c)
    BY <1>1, <2>1, <2>3, <2>4 DEF ReceiptOf
  <2> QED
    BY <1>1, <1>3, <2>1, <2>5 DEF ReceiptStands, ReceiptOf, ClientLogged, LegacyReceipt
<1>4. CASE req[r].pc # "locked"
  <2>1. GoOn(r, c)
    BY <1>1, <1>4 DEF CoarseNext, RefuseArrival, GoOn, EndDraw, RefuseCreate, InsertRow, Others,
                OperatorSetsStatus, vars
  <2>2. sync_log' = sync_log /\ req'[r].receipt = ReceiptOf(c)
    BY <1>4, <2>1 DEF GoOn
  <2> QED
    BY <1>1, <2>2 DEF ReceiptOf, ClientLogged, LegacyReceipt
<1> QED
  BY <1>3, <1>4

\* draw as a single step, on table and log as they are in that step: the receipt
\* decides, then the status, then the balance of the period; only the signature
\* or the database may fail.
DrawAtOnce(r, c, outcome) ==
    LET row == entitlements[c.ent]
        period == ResetIfNewPeriod(row.units, row.from, RulesOf[row.product], c.now)
        Leave(units) ==
            entitlements' = [entitlements EXCEPT ![c.ent].units = units,
                                                 ![c.ent].from = period.from]
        Log(action, client) == sync_log' = sync_log \cup {Entry(r, c, c.ent, action, client)}
        \* What the receipt and the status let through.
        Open == ReceiptOf(c) = "none" /\ row.status = "active"
    IN  \/ outcome = "database_error" /\ UNCHANGED <<entitlements, sync_log>>
        \/ /\ outcome = "skipped"
           /\ ReceiptOf(c) # "none"
           /\ Log("skip", IF ReceiptOf(c) = "legacy" THEN c.client ELSE None)
           /\ UNCHANGED entitlements
        \/ /\ outcome = "inactive"
           /\ ReceiptOf(c) = "none" /\ row.status # "active"
           /\ Leave(period.units)
           /\ UNCHANGED sync_log
        \/ /\ outcome = "insufficient_units"
           /\ Open /\ period.units # None /\ period.units < c.amount
           /\ Leave(period.units)
           /\ UNCHANGED sync_log
        \/ /\ outcome = "applied"
           /\ Open /\ period.units # None /\ period.units >= c.amount
           /\ Leave(period.units - c.amount)
           /\ Log("update", c.client)
        \/ /\ outcome = "applied"
           /\ Open /\ period.units = None
           /\ Leave(None)
           /\ IF c.client = None THEN UNCHANGED sync_log ELSE Log("skip", c.client)
        \/ /\ outcome = "signature_failed"
           /\ Open /\ period.units # None /\ period.units >= c.amount
           /\ Leave(period.units)
           /\ UNCHANGED sync_log

\* Overlapping requests change nothing about a draw: whatever else runs between
\* its look at the row and its commit, it leaves the table and the log and gives
\* the answer that the same draw would at the moment of the commit, all at once
\* (draw, SELECT ... FOR UPDATE).
THEOREM DrawsAreSerial ==
    Spec => [][\A r \in Requests :
                  req[r].pc = "locked" /\ req'[r].pc # "locked" =>
                      DrawAtOnce(r, req[r].call, req'[r].outcome)]_vars
<1> DEFINE Serial ==
        \A r \in Requests : req[r].pc = "locked" /\ req'[r].pc # "locked" =>
            DrawAtOnce(r, req[r].call, req'[r].outcome)
<1>1. ASSUME Inv, ReceiptStands, NEW r \in Requests, req[r].pc = "locked", Finish(r)
      PROVE  DrawAtOnce(r, req[r].call, req'[r].outcome)
  <2>1. PICK c : c = req[r].call
    OBVIOUS
  <2>2. PICK row : row = entitlements[c.ent]
    OBVIOUS
  <2>3. req[r].seen = row /\ req[r].receipt = ReceiptOf(c)
    BY <1>1, <2>1, <2>2 DEF Inv, RequestsOK, ReceiptStands
  <2>4. PICK period :
            period = ResetIfNewPeriod(row.units, row.from, RulesOf[row.product], c.now)
    OBVIOUS
  <2>5. Period(r) = period
    BY <2>1, <2>3, <2>4 DEF Period
  <2>6. ASSUME NEW outcome, Answer(r, outcome) PROVE req'[r].outcome = outcome
    BY <1>1, <2>6 DEF Inv, TypeOK, RequestType, Answer
  <2>7. CASE SkipReplay(r)
    BY <2>1, <2>3, <2>6, <2>7 DEF SkipReplay, DrawAtOnce
  <2>8. CASE DatabaseFails(r)
    BY <2>1, <2>6, <2>8 DEF DatabaseFails, DrawAtOnce
  <2>9. CASE RejectInactive(r)
    BY <2>1, <2>2, <2>3, <2>4, <2>5, <2>6, <2>9 DEF RejectInactive, Evaluating, Write, DrawAtOnce
  <2>10. CASE RejectInsufficient(r)
    BY <2>1, <2>2, <2>3, <2>4, <2>5, <2>6, <2>10
       DEF RejectInsufficient, Evaluating, Write, DrawAtOnce
  <2>11. CASE ApplyUnlimited(r)
    BY <2>1, <2>2, <2>3, <2>4, <2>5, <2>6, <2>11 DEF ApplyUnlimited, Evaluating, Write, DrawAtOnce
  <2>12. CASE ApplyDraw(r)
    <3>1. req'[r].outcome = "applied"
      BY <1>1, <2>12 DEF ApplyDraw, Inv, TypeOK, RequestType
    <3> QED
      BY <2>1, <2>2, <2>3, <2>4, <2>5, <2>12, <3>1
         DEF ApplyDraw, Funded, Evaluating, Write, DrawAtOnce
  <2>13. CASE SignatureFails(r)
    BY <2>1, <2>2, <2>3, <2>4, <2>5, <2>6, <2>13
       DEF SignatureFails, Funded, Evaluating, Write, DrawAtOnce
  <2>14. ~CommitCreate(r) /\ ~UniqueViolation(r)
    BY <1>1 DEF CommitCreate, UniqueViolation
  <2> QED
    BY <1>1, <2>7, <2>8, <2>9, <2>10, <2>11, <2>12, <2>13, <2>14 DEF Finish
<1>2. Inv /\ ReceiptStands /\ Next => Serial
  <2> SUFFICES ASSUME Inv, ReceiptStands, Next, NEW r \in Requests,
                      req[r].pc = "locked", req'[r].pc # "locked"
               PROVE  DrawAtOnce(r, req[r].call, req'[r].outcome)
    OBVIOUS
  <2>1. ASSUME NEW q \in Requests, NEW c \in Calls, Arrive(q, c) PROVE FALSE
    <3>1. RefuseArrival(q, c) \/ GoOn(q, c)
      BY <2>1, ArriveShape
    <3> QED
      BY <3>1 DEF RefuseArrival, GoOn, Others
  <2>2. ASSUME NEW q \in Requests, Finish(q) PROVE q = r
    <3>1. req[q].pc \in {"locked", "creating"}
      BY <2>2 DEF Finish, SkipReplay, RejectInactive, ApplyUnlimited, RejectInsufficient,
                  ApplyDraw, SignatureFails, Funded, Evaluating, CommitCreate,
                  UniqueViolation, DatabaseFails
    <3>2. EndDraw(q) \/ RefuseCreate(q) \/ InsertRow(q)
      BY <2>2, <3>1, FinishDrawShape, FinishCreateShape
    <3> QED
      BY <3>2 DEF EndDraw, RefuseCreate, InsertRow, Others
  <2> QED
    BY <1>1, <2>1, <2>2 DEF Next, OperatorSetsStatus, Terminating, vars
<1>3. Init => ReceiptStands
  BY DEF Init, NewRequest, ReceiptStands
<1>4. Inv /\ ReceiptStands /\ [Next]_vars => ReceiptStands' /\ [Serial]_vars
  BY <1>2, NextShape, ReceiptKept
<1> QED
  BY <1>3, <1>4, InvHolds, PTL DEF Spec

-----------------------------------------------------------------------------
(* The sum of a function of numbers over its finite domain, as             *)
(* MapThenSumSet computes it: element after element, in the order of       *)
(* CHOOSE.                                                                 *)

Pick(S) == CHOOSE x \in S : TRUE

\* g sums f over every subset of its domain.
Sums(g, f) ==
    g = [S \in SUBSET DOMAIN f |->
            IF S = {} THEN 0 ELSE f[Pick(S)] + g[S \ {Pick(S)}]]

Total(f) == (CHOOSE g : Sums(g, f))[DOMAIN f]

\* A family of finite sets has a member no proper subset of which is one.
LEMMA SmallestSet ==
    ASSUME NEW S, IsFiniteSet(S), NEW family \in SUBSET SUBSET S, family # {}
    PROVE  \E T \in family : \A R \in family : R \subseteq T => R = T
<1>1. family \subseteq FiniteSubsetsOf(S)
  BY FS_Subset DEF FiniteSubsetsOf
<1>2. PICK T \in family : \A R \in family : ~(<<R, T>> \in StrictSubsetOrdering(S))
  BY <1>1, FS_StrictSubsetOrderingWellFounded, WFMin
<1> QED
  BY <1>2 DEF StrictSubsetOrdering

\* Sums of functions that agree on a set agree on it.
LEMMA SumsAgree ==
    ASSUME NEW f, NEW h, NEW g, NEW k, Sums(g, f), Sums(k, h),
           IsFiniteSet(DOMAIN f), DOMAIN f \subseteq DOMAIN h,
           \A x \in DOMAIN f : h[x] = f[x]
    PROVE  \A T \in SUBSET DOMAIN f : g[T] = k[T]
<1> DEFINE Wrong == {T \in SUBSET DOMAIN f : g[T] # k[T]}
<1> SUFFICES ASSUME Wrong # {} PROVE FALSE
  OBVIOUS
<1>1. PICK T \in Wrong : \A R \in Wrong : R \subseteq T => R = T
  <2>1. Wrong \in SUBSET SUBSET DOMAIN f
    OBVIOUS
  <2> HIDE DEF Wrong
  <2> QED
    BY <2>1, SmallestSet
<1>2. /\ g[T] = IF T = {} THEN 0 ELSE f[Pick(T)] + g[T \ {Pick(T)}]
      /\ k[T] = IF T = {} THEN 0 ELSE h[Pick(T)] + k[T \ {Pick(T)}]
  BY DEF Sums
<1>3. T # {} => Pick(T) \in T
  BY DEF Pick
<1>4. T # {} => g[T \ {Pick(T)}] = k[T \ {Pick(T)}]
  BY <1>1, <1>3
<1> QED
  BY <1>2, <1>3, <1>4

\* Every function with a finite domain has its sums.
LEMMA SumsExist ==
    ASSUME NEW f, IsFiniteSet(DOMAIN f)
    PROVE  \E g : Sums(g, f)
<1> DEFINE Part(T) == [x \in T |-> f[x]]
           Wrong == {T \in SUBSET DOMAIN f : ~\E g : Sums(g, Part(T))}
<1>1. ASSUME Wrong # {} PROVE FALSE
  <2>1. PICK T \in Wrong : \A R \in Wrong : R \subseteq T => R = T
    <3>1. Wrong \in SUBSET SUBSET DOMAIN f
      OBVIOUS
    <3> HIDE DEF Wrong
    <3> QED
      BY <1>1, <3>1, SmallestSet
  <2> DEFINE G(R) == CHOOSE g : Sums(g, Part(R))
             sum(R) == IF R = {} THEN 0 ELSE f[Pick(R)] + G(R \ {Pick(R)})[R \ {Pick(R)}]
             all == [R \in SUBSET T |-> sum(R)]
  <2>2. \A R \in SUBSET T : R # {} => Pick(R) \in R
    BY DEF Pick
  <2>3. \A R \in SUBSET T : R # T => Sums(G(R), Part(R))
    BY <2>1
  <2>4. \A R \in SUBSET T : R # T => G(R)[R] = sum(R)
    <3> SUFFICES ASSUME NEW R \in SUBSET T, R # T PROVE G(R)[R] = sum(R)
      OBVIOUS
    <3>1. CASE R = {}
      <4>1. Sums(G(R), Part(R)) /\ DOMAIN Part(R) = R
        BY <2>3
      <4> HIDE DEF G, Part
      <4> QED
        BY <3>1, <4>1 DEF Sums
    <3>2. CASE R # {}
      <4> DEFINE Q == R \ {Pick(R)}
      <4>1. Sums(G(R), Part(R)) /\ Sums(G(Q), Part(Q))
        BY <2>2, <2>3, <3>2
      <4>2. Pick(R) \in R
        BY <2>2, <3>2
      <4>3. G(R)[R] = Part(R)[Pick(R)] + G(R)[Q]
        <5> HIDE DEF G
        <5> QED
          BY <3>2, <4>1 DEF Sums
      <4>4. /\ DOMAIN Part(Q) = Q /\ DOMAIN Part(R) = R
            /\ \A x \in DOMAIN Part(Q) : Part(R)[x] = Part(Q)[x]
            /\ IsFiniteSet(DOMAIN Part(Q))
        <5>1. Q \in SUBSET DOMAIN f
          OBVIOUS
        <5> QED
          BY <5>1, FS_Subset
      <4>5. G(Q)[Q] = G(R)[Q]
        <5>1. DOMAIN Part(Q) \subseteq DOMAIN Part(R)
          BY <4>4
        <5>2. PICK a, b, c, d : a = Part(Q) /\ b = Part(R) /\ c = G(Q) /\ d = G(R)
          OBVIOUS
        <5> HIDE DEF G, Part
        <5>3. \A V \in SUBSET DOMAIN a : c[V] = d[V]
          <6>1. /\ Sums(c, a) /\ Sums(d, b) /\ IsFiniteSet(DOMAIN a)
                /\ DOMAIN a \subseteq DOMAIN b
                /\ \A x \in DOMAIN a : b[x] = a[x]
            BY <4>1, <4>4, <5>1, <5>2
          <6> QED
            BY ONLY <6>1, SumsAgree
        <5> QED
          BY <4>4, <5>2, <5>3
      <4>6. Part(R)[Pick(R)] = f[Pick(R)]
        BY <4>2
      <4> HIDE DEF G, Part
      <4> QED
        BY <3>2, <4>3, <4>5, <4>6
    <3> QED
      BY <3>1, <3>2
  <2>5. Sums(all, Part(T))
    <3>1. \A R \in SUBSET T : R # {} =>
              /\ R \ {Pick(R)} \in SUBSET T
              /\ R \ {Pick(R)} # T
              /\ Part(T)[Pick(R)] = f[Pick(R)]
      BY <2>2
    <3>2. \A R \in SUBSET T : R # {} =>
              G(R \ {Pick(R)})[R \ {Pick(R)}] = all[R \ {Pick(R)}]
      <4> HIDE DEF G
      <4> QED
        BY <2>4, <3>1
    <3>3. \A R \in SUBSET T :
              sum(R) = IF R = {} THEN 0 ELSE Part(T)[Pick(R)] + all[R \ {Pick(R)}]
      <4> HIDE DEF G, all, Part
      <4> QED
        BY <3>1, <3>2
    <3>4. DOMAIN Part(T) = T
      OBVIOUS
    <3> HIDE DEF sum, Part
    <3> QED
      BY <3>3, <3>4 DEF Sums
  <2> HIDE DEF all
  <2> QED
    BY <2>1, <2>5
<1>2. DOMAIN f \in SUBSET DOMAIN f /\ DOMAIN f \notin Wrong
  BY <1>1
<1>3. PICK g : Sums(g, Part(DOMAIN f))
  BY <1>2
<1>4. Sums(g, f)
  <2>1. \A S \in SUBSET DOMAIN f : S # {} => Part(DOMAIN f)[Pick(S)] = f[Pick(S)]
    BY DEF Pick
  <2>2. DOMAIN Part(DOMAIN f) = DOMAIN f
    OBVIOUS
  <2> HIDE DEF Part
  <2> QED
    BY <1>3, <2>1, <2>2 DEF Sums
<1> QED
  BY <1>4

\* A sum of integers is one, and any element of a set may be added last.
LEMMA SumsTakeOut ==
    ASSUME NEW f, NEW g, Sums(g, f), IsFiniteSet(DOMAIN f),
           \A x \in DOMAIN f : f[x] \in Int,
           NEW y \in DOMAIN f
    PROVE  /\ g[DOMAIN f \ {y}] \in Int
           /\ g[DOMAIN f] = f[y] + g[DOMAIN f \ {y}]
<1> DEFINE Right(T) == g[T] \in Int /\ \A x \in T : g[T] = f[x] + g[T \ {x}]
           Wrong == {T \in SUBSET DOMAIN f : ~Right(T)}
<1> SUFFICES ASSUME Wrong # {} PROVE FALSE
  <2>1. \A T \in SUBSET DOMAIN f : Wrong = {} => Right(T)
    OBVIOUS
  <2>2. DOMAIN f \ {y} \in SUBSET DOMAIN f /\ DOMAIN f \in SUBSET DOMAIN f
    OBVIOUS
  <2> HIDE DEF Wrong
  <2> QED
    BY <2>1, <2>2
<1>1. PICK T \in Wrong : \A R \in Wrong : R \subseteq T => R = T
  <2>1. Wrong \in SUBSET SUBSET DOMAIN f
    OBVIOUS
  <2> HIDE DEF Wrong
  <2> QED
    BY <2>1, SmallestSet
<1> DEFINE p == Pick(T)
<1>2. \A R \in SUBSET DOMAIN f :
          g[R] = IF R = {} THEN 0 ELSE f[Pick(R)] + g[R \ {Pick(R)}]
  BY DEF Sums
<1>3. \A R \in SUBSET T : R # T => Right(R)
  BY <1>1
<1>4. g[T] = IF T = {} THEN 0 ELSE f[p] + g[T \ {p}]
  BY <1>2
<1>5. T # {}
  BY <1>4
<1>6. p \in T
  BY <1>5 DEF Pick
<1> HIDE DEF p
<1>7. g[T \ {p}] \in Int /\ f[p] \in Int
  BY <1>3, <1>6
<1>8. ASSUME NEW x \in T, x # p
      PROVE  g[T] = f[x] + g[T \ {x}]
  <2>1. g[T \ {p}] = f[x] + g[(T \ {p}) \ {x}]
    BY <1>3, <1>6, <1>8
  <2>2. g[T \ {x}] = f[p] + g[(T \ {x}) \ {p}]
    BY <1>3, <1>6, <1>8
  <2>3. (T \ {x}) \ {p} = (T \ {p}) \ {x}
    OBVIOUS
  <2>4. f[x] \in Int /\ g[(T \ {p}) \ {x}] \in Int
    BY <1>3, <1>6
  <2> QED
    BY <1>4, <1>5, <1>7, <2>1, <2>2, <2>3, <2>4
<1>9. \A x \in T : g[T] = f[x] + g[T \ {x}]
  BY <1>4, <1>5, <1>8
<1>10. g[T] \in Int
  BY <1>4, <1>5, <1>7
<1> QED
  BY <1>9, <1>10

\* The sum over nothing.
LEMMA TotalOfNone ==
    ASSUME NEW f, DOMAIN f = {}
    PROVE  Total(f) = 0
<1> DEFINE g == CHOOSE k : Sums(k, f)
<1>1. Sums(g, f)
  BY FS_EmptySet, SumsExist
<1> HIDE DEF g
<1>2. g[DOMAIN f] = 0
  BY <1>1 DEF Sums
<1> QED
  BY <1>2 DEF Total, g

\* One more element adds its number to the sum.
LEMMA TotalOfOneMore ==
    ASSUME NEW f, NEW h, NEW x, IsFiniteSet(DOMAIN f),
           x \notin DOMAIN f, DOMAIN h = DOMAIN f \cup {x},
           \A y \in DOMAIN f : h[y] = f[y],
           \A y \in DOMAIN h : h[y] \in Int
    PROVE  Total(f) \in Int /\ Total(h) = h[x] + Total(f)
<1>a. PICK g : g = CHOOSE m : Sums(m, f)
  OBVIOUS
<1>b. PICK k : k = CHOOSE m : Sums(m, h)
  OBVIOUS
<1>1. IsFiniteSet(DOMAIN h)
  BY FS_AddElement
<1>2. Sums(g, f)
  BY <1>a, SumsExist
<1>3. Sums(k, h)
  BY <1>1, <1>b, SumsExist
<1>4. \A T \in SUBSET DOMAIN f : g[T] = k[T]
  BY <1>2, <1>3, SumsAgree
<1>5. x \in DOMAIN h
  OBVIOUS
<1>6. DOMAIN h \ {x} = DOMAIN f
  OBVIOUS
<1>7. k[DOMAIN h \ {x}] \in Int /\ k[DOMAIN h] = h[x] + k[DOMAIN h \ {x}]
  BY <1>1, <1>3, <1>5, SumsTakeOut
<1> QED
  BY <1>a, <1>b, <1>4, <1>6, <1>7 DEF Total

-----------------------------------------------------------------------------
(* What the audit log signs for.                                           *)

\* The decrements in the audit log that the engine signed.
SignedEntries == {l \in sync_log : ~l.legacy /\ l.action = "update"}

\* Those of a row, drawn from the period that the row is in.
Signatures(e) ==
    {l \in SignedEntries : l.record = e /\ req[l.by].charged = entitlements[e].from}

Amounts(e) == [l \in Signatures(e) |-> req[l.by].call.amount]

\* Every signed entry came from an answered draw on a row that is still
\* there, and not in an earlier period than the one it was drawn from.
EntriesAreDraws ==
    \A l \in SignedEntries :
        /\ l.by \in Requests
        /\ req[l.by].pc = "done"
        /\ req[l.by].call.amount \in Int
        /\ req[l.by].charged \in Int
        /\ l.record \in EntIds
        /\ entitlements[l.record] # None
        /\ req[l.by].charged =< entitlements[l.record].from

\* A row that was there before the first request has not moved back.
SinceTheStart ==
    \A e \in EntIds : InitialRows[e] # None =>
        /\ entitlements[e] # None
        /\ InitialRows[e].from \in Int
        /\ InitialRows[e].from =< entitlements[e].from

SignedInv ==
    /\ Inv
    /\ IsFiniteSet(SignedEntries)
    /\ EntriesAreDraws
    /\ SinceTheStart
    /\ BalanceIsSigned

\* The fold of SignedUse is the sum of the amounts.
LEMMA SignedUseIsTotal ==
    ASSUME NEW e, IsFiniteSet(SignedEntries)
    PROVE  SignedUse(e) = Total(Amounts(e))
<1> DEFINE S == {l \in sync_log : /\ ~l.legacy
                                  /\ l.action = "update"
                                  /\ l.record = e
                                  /\ req[l.by].charged = entitlements[e].from}
           iter[T \in SUBSET S] ==
              IF T = {} THEN 0
              ELSE LET l == CHOOSE x \in T : TRUE IN req[l.by].call.amount + iter[T \ {l}]
           body(h) == [T \in SUBSET S |->
              IF T = {} THEN 0
              ELSE LET l == CHOOSE x \in T : TRUE IN req[l.by].call.amount + h[T \ {l}]]
<1>1. SignedUse(e) = iter[S]
  BY DEF SignedUse, MapThenSumSet, MapThenFoldSet
<1>2. iter = CHOOSE h : h = body(h)
  OBVIOUS
<1>3. S = Signatures(e) /\ IsFiniteSet(S)
  <2>1. S = Signatures(e) /\ S \in SUBSET SignedEntries
    BY DEF Signatures, SignedEntries
  <2> QED
    BY <2>1, FS_Subset
<1>4. DOMAIN Amounts(e) = S /\ \A l \in S : Amounts(e)[l] = req[l.by].call.amount
  BY <1>3 DEF Amounts
<1>5. PICK f : f = Amounts(e)
  OBVIOUS
<1> HIDE DEF iter
<1>6. \A h : h = body(h) <=> Sums(h, f)
  <2>1. \A T \in SUBSET S : T # {} => f[Pick(T)] = req[Pick(T).by].call.amount
    BY <1>4, <1>5 DEF Pick
  <2>2. DOMAIN f = S
    BY <1>4, <1>5
  <2> HIDE DEF S
  <2> QED
    BY <2>1, <2>2 DEF Sums, Pick
<1>7. PICK g : Sums(g, f)
  BY <1>3, <1>4, <1>5, SumsExist
<1>8. \A h : Sums(h, f) => h = g
  <2> SUFFICES ASSUME NEW h, Sums(h, f) PROVE h = g
    OBVIOUS
  <2>1. \A T \in SUBSET DOMAIN f : h[T] = g[T]
    BY <1>3, <1>4, <1>5, <1>7, SumsAgree
  <2> QED
    BY <1>7, <2>1 DEF Sums
<1>9. iter = g
  <2> HIDE DEF body
  <2> QED
    BY <1>2, <1>6, <1>7, <1>8
<1>10. (CHOOSE h : Sums(h, f)) = g
  BY <1>7, <1>8
<1> QED
  BY <1>1, <1>4, <1>5, <1>9, <1>10 DEF Total

\* It is so after a step too.
LEMMA SignedUseIsTotalAfter ==
    ASSUME NEW e
    PROVE  (IsFiniteSet(SignedEntries) => SignedUse(e) = Total(Amounts(e)))'
<1>1. IsFiniteSet(SignedEntries) => SignedUse(e) = Total(Amounts(e))
  BY SignedUseIsTotal
<1> QED
  BY <1>1, PTL

-----------------------------------------------------------------------------
(* What a step does to a row and to the signed entries.                    *)

RowAbsent(e) == entitlements[e] = None /\ entitlements'[e] = None

RowKept(e) ==
    /\ entitlements[e] # None
    /\ entitlements'[e] # None
    /\ entitlements'[e].product = entitlements[e].product
    /\ entitlements'[e].units = entitlements[e].units
    /\ entitlements'[e].from = entitlements[e].from

\* The row goes on to a later period, with the allowance of its product.
RowRenewed(e) ==
    /\ entitlements[e] # None
    /\ entitlements'[e] # None
    /\ entitlements'[e].product = entitlements[e].product
    /\ entitlements'[e].units = Allowance(entitlements[e].product)
    /\ entitlements'[e].from > entitlements[e].from

RowInserted(e) ==
    /\ entitlements[e] = None
    /\ entitlements'[e] # None
    /\ entitlements'[e].units = Allowance(entitlements'[e].product)

AnsweredKept == \A r \in Requests : req[r].pc = "done" => req'[r] = req[r]

\* A step that signs for nothing.
Unsigned ==
    /\ SignedEntries' = SignedEntries
    /\ AnsweredKept
    /\ \A e \in EntIds : RowAbsent(e) \/ RowKept(e) \/ RowRenewed(e) \/ RowInserted(e)

\* The rows that a step leaves alone.
LEMMA SameRow ==
    ASSUME NEW e, entitlements'[e] = entitlements[e]
    PROVE  RowAbsent(e) \/ RowKept(e)
  BY DEF RowAbsent, RowKept

\* The period and the balance that a draw is evaluated against are those of
\* the row, or those of a later period.
LEMMA PeriodKeptOrRenewed ==
    ASSUME TypeOK, RequestsOK, NEW r \in Requests, req[r].pc = "locked"
    PROVE  \/ /\ Period(r).units = req[r].seen.units
              /\ Period(r).from = req[r].seen.from
           \/ /\ Period(r).units = Allowance(req[r].seen.product)
              /\ Period(r).from > req[r].seen.from
<1>1. PICK units, from, rules, now :
        /\ units = req[r].seen.units /\ from = req[r].seen.from
        /\ rules = RulesOf[req[r].seen.product] /\ now = req[r].call.now
  OBVIOUS
<1>2. Period(r) = ResetIfNewPeriod(units, from, rules, now)
  BY <1>1 DEF Period
<1> QED
  BY <1>1, <1>2 DEF ResetIfNewPeriod, Allowance

\* A reset that is committed without a decrement keeps or renews the row.
LEMMA PlainWrite ==
    ASSUME Inv, NEW r \in Requests, req[r].pc = "locked", Write(r, Period(r).units)
    PROVE  \A e \in EntIds : RowAbsent(e) \/ RowKept(e) \/ RowRenewed(e)
<1> USE DEF Inv
<1> SUFFICES ASSUME NEW e \in EntIds
             PROVE  RowAbsent(e) \/ RowKept(e) \/ RowRenewed(e)
  OBVIOUS
<1>1. Period(r).units \in Nat \cup {None}
  BY PeriodOK
<1>2. PICK units : units = Period(r).units
  OBVIOUS
<1>3. PICK d : d = req[r].call.ent
  OBVIOUS
<1>4. /\ d \in EntIds
      /\ \A b \in EntIds : b # d => entitlements'[b] = entitlements[b]
      /\ entitlements'[d] \in RowType
      /\ entitlements'[d].units = units
      /\ entitlements'[d].from = Period(r).from
      /\ entitlements'[d].product = req[r].seen.product
  BY <1>1, <1>2, <1>3, WriteOK
<1>5. entitlements[d] = req[r].seen /\ req[r].seen \in RowType
  BY <1>3, LockedCall
<1>6. CASE e # d
  BY <1>4, <1>6, SameRow
<1>7. CASE e = d
  <2>1. entitlements[d] # None /\ entitlements'[d] # None
    BY <1>4, <1>5, NoneAssumption
  <2> QED
    BY <1>2, <1>4, <1>5, <1>7, <2>1, PeriodKeptOrRenewed DEF RowKept, RowRenewed
<1> QED
  BY <1>6, <1>7

\* Entries that are no decrements leave the signed ones as they are.
LEMMA NoSignature ==
    ASSUME \/ sync_log' = sync_log
           \/ \E r, c, e, client :
                \/ sync_log' = sync_log \cup {Entry(r, c, e, "skip", client)}
                \/ sync_log' = sync_log \cup {Entry(r, c, e, "insert", client)}
    PROVE  SignedEntries' = SignedEntries
  BY DEF SignedEntries, Entry

\* Every step but a decrement signs for nothing.
LEMMA StepSigns ==
    ASSUME Inv, [Next]_vars
    PROVE  Unsigned \/ \E r \in Requests : ApplyDraw(r)
<1> USE DEF Inv
<1>1. ASSUME entitlements' = entitlements
      PROVE  \A e \in EntIds : RowAbsent(e) \/ RowKept(e)
  BY <1>1, SameRow
<1>2. CASE UNCHANGED vars
  BY <1>1, <1>2, NoSignature DEF Unsigned, AnsweredKept, vars
<1>3. ASSUME NEW r \in Requests, NEW c \in Calls, Arrive(r, c)
      PROVE  Unsigned
  <2>1. entitlements' = entitlements /\ SignedEntries' = SignedEntries
    BY <1>3, NoSignature DEF Arrive, RefuseDraw, BeginDraw, SkipCreate, BeginCreate
  <2>2. AnsweredKept
    BY <1>3, ArriveShape DEF RefuseArrival, GoOn, Others, AnsweredKept
  <2> QED
    BY <1>1, <2>1, <2>2 DEF Unsigned
<1>4. ASSUME NEW r \in Requests, Finish(r), ~ApplyDraw(r)
      PROVE  Unsigned
  <2>1. req[r].pc \in {"locked", "creating"}
    BY <1>4 DEF Finish, SkipReplay, RejectInactive, ApplyUnlimited, RejectInsufficient,
                SignatureFails, Funded, Evaluating, CommitCreate,
                UniqueViolation, DatabaseFails
  <2>2. AnsweredKept
    <3>1. EndDraw(r) \/ RefuseCreate(r) \/ InsertRow(r)
      BY <1>4, <2>1, FinishDrawShape, FinishCreateShape
    <3> QED
      BY <3>1 DEF EndDraw, RefuseCreate, InsertRow, Others, AnsweredKept
  <2>3. SignedEntries' = SignedEntries
    <3>1. CASE SkipReplay(r)
      BY <3>1, NoSignature DEF SkipReplay
    <3>2. CASE ApplyUnlimited(r)
      BY <3>2, NoSignature DEF ApplyUnlimited
    <3>3. CASE CommitCreate(r)
      BY <3>3, NoSignature DEF CommitCreate
    <3>4. CASE sync_log' = sync_log
      BY <3>4, NoSignature
    <3> QED
      BY <1>4, <3>1, <3>2, <3>3, <3>4
         DEF Finish, RejectInactive, RejectInsufficient, SignatureFails, UniqueViolation,
             DatabaseFails
  <2>4. CASE SkipReplay(r) \/ UniqueViolation(r) \/ DatabaseFails(r)
    BY <1>1, <2>2, <2>3, <2>4 DEF SkipReplay, UniqueViolation, DatabaseFails, Unsigned
  <2>5. CASE \/ RejectInactive(r) \/ ApplyUnlimited(r)
             \/ RejectInsufficient(r) \/ SignatureFails(r)
    <3>1. req[r].pc = "locked" /\ Write(r, Period(r).units)
      BY <2>5 DEF RejectInactive, ApplyUnlimited, RejectInsufficient, SignatureFails,
                  Funded, Evaluating
    <3> QED
      BY <2>2, <2>3, <3>1, PlainWrite DEF Unsigned
  <2>6. CASE CommitCreate(r)
    <3> DEFINE c == req[r].call
               window == DeriveWindow(RulesOf[c.product], c.now)
               row == [status |-> "active", product |-> c.product,
                       units |-> window.units, from |-> window.from,
                       client |-> c.client]
    <3>1. PICK e \in EntIds :
              entitlements[e] = None /\ entitlements' = [entitlements EXCEPT ![e] = row]
      BY <2>6 DEF CommitCreate
    <3>2. row.units = Allowance(row.product)
      BY DEF DeriveWindow, Allowance
    <3>3. row # None
      <4>1. PICK d \in EntIds, new \in RowType :
                entitlements[d] = None /\ entitlements' = [entitlements EXCEPT ![d] = new]
        <5>1. InsertRow(r)
          BY <1>4, <2>6, FinishCreateShape DEF CommitCreate, RefuseCreate, TypeOK, RequestType,
             Answer
        <5> QED
          BY <5>1 DEF InsertRow
      <4> HIDE DEF row
      <4> QED
        BY <3>1, <4>1, NoneAssumption DEF TypeOK
    <3> HIDE DEF row
    <3>4. entitlements'[e] = row /\ \A d \in EntIds : d # e => entitlements'[d] = entitlements[d]
      BY <3>1 DEF TypeOK
    <3>5. RowInserted(e)
      BY <3>1, <3>2, <3>3, <3>4 DEF RowInserted
    <3> QED
      BY <2>2, <2>3, <3>4, <3>5, SameRow DEF Unsigned
  <2> QED
    BY <1>4, <2>4, <2>5, <2>6 DEF Finish
<1>5. ASSUME NEW e \in EntIds, OperatorSetsStatus(e)
      PROVE  Unsigned
  <2>1. PICK st \in Statuses : entitlements' = [entitlements EXCEPT ![e].status = st]
    BY <1>5 DEF OperatorSetsStatus
  <2>2. entitlements[e] \in RowType /\ entitlements[e] # None
    BY <1>5 DEF OperatorSetsStatus, TypeOK
  <2> DEFINE row == [entitlements[e] EXCEPT !.status = st]
  <2>3. /\ row.from = entitlements[e].from
        /\ row.units = entitlements[e].units
        /\ row.product = entitlements[e].product
        /\ row \in RowType
    BY <2>2 DEF RowType
  <2>4. entitlements' = [entitlements EXCEPT ![e] = row]
    BY <2>1
  <2> HIDE DEF row
  <2>5. entitlements'[e] = row /\ \A d \in EntIds : d # e => entitlements'[d] = entitlements[d]
    BY <2>4 DEF TypeOK
  <2>6. RowKept(e)
    BY <2>2, <2>3, <2>5, NoneAssumption DEF RowKept
  <2>7. SignedEntries' = SignedEntries /\ AnsweredKept
    BY <1>5, NoSignature DEF OperatorSetsStatus, AnsweredKept
  <2> QED
    BY <2>5, <2>6, <2>7, SameRow DEF Unsigned
<1> QED
  BY <1>2, <1>3, <1>4, <1>5 DEF Next, Terminating

-----------------------------------------------------------------------------
(* The accounts of a row after a step.                                     *)

\* What a request has answered stays, so a signed entry keeps its amount and
\* its period.
LEMMA EntriesKept ==
    ASSUME EntriesAreDraws, AnsweredKept
    PROVE  \A l \in SignedEntries : req'[l.by] = req[l.by]
  BY DEF EntriesAreDraws, AnsweredKept

\* A row in the same period with the same signatures has the same use.
LEMMA SameUse ==
    ASSUME NEW e, IsFiniteSet(SignedEntries), IsFiniteSet(SignedEntries'),
           Signatures(e)' = Signatures(e),
           \A l \in Signatures(e) : req'[l.by] = req[l.by]
    PROVE  SignedUse(e)' = SignedUse(e)
<1>1. Amounts(e)' = Amounts(e)
  BY DEF Amounts
<1>2. SignedUse(e) = Total(Amounts(e)) /\ SignedUse(e)' = Total(Amounts(e)')
  BY SignedUseIsTotal, SignedUseIsTotalAfter DEF Total
<1> QED
  BY <1>1, <1>2

\* A row without signatures has no use.
LEMMA NoUse ==
    ASSUME NEW e, IsFiniteSet(SignedEntries'), Signatures(e)' = {}
    PROVE  SignedUse(e)' = 0
<1>1. PICK f : f = Amounts(e)'
  OBVIOUS
<1>2. DOMAIN f = {}
  BY <1>1 DEF Amounts
<1>3. SignedUse(e)' = Total(f)
  BY <1>1, SignedUseIsTotalAfter DEF Total
<1> QED
  BY <1>2, <1>3, TotalOfNone

\* One more signature adds its amount to the use.
LEMMA MoreUse ==
    ASSUME NEW e, NEW x, IsFiniteSet(SignedEntries), IsFiniteSet(SignedEntries'),
           x \notin Signatures(e), Signatures(e)' = Signatures(e) \cup {x},
           \A l \in Signatures(e) : req'[l.by] = req[l.by],
           \A l \in Signatures(e)' : req'[l.by].call.amount \in Int
    PROVE  SignedUse(e) \in Int /\ SignedUse(e)' = SignedUse(e) + req'[x.by].call.amount
<1>1. PICK f, h : f = Amounts(e) /\ h = Amounts(e)'
  OBVIOUS
<1>2. /\ DOMAIN f = Signatures(e) /\ DOMAIN h = Signatures(e) \cup {x}
      /\ \A l \in DOMAIN f : f[l] = req[l.by].call.amount
      /\ \A l \in DOMAIN h : h[l] = req'[l.by].call.amount
  BY <1>1 DEF Amounts
<1>3. IsFiniteSet(DOMAIN f)
  <2>1. Signatures(e) \in SUBSET SignedEntries
    BY DEF Signatures
  <2> QED
    BY <1>2, <2>1, FS_Subset
<1>4. /\ \A l \in DOMAIN f : h[l] = f[l]
      /\ \A l \in DOMAIN h : h[l] \in Int
      /\ x \notin DOMAIN f /\ DOMAIN h = DOMAIN f \cup {x}
  BY <1>2
<1>5. Total(f) \in Int /\ Total(h) = h[x] + Total(f)
  BY <1>3, <1>4, TotalOfOneMore
<1>6. SignedUse(e) = Total(f) /\ SignedUse(e)' = Total(h)
  BY <1>1, SignedUseIsTotal, SignedUseIsTotalAfter DEF Total
<1>7. h[x] \in Int /\ h[x] = req'[x.by].call.amount
  BY <1>2, <1>4
<1> QED
  BY <1>5, <1>6, <1>7

\* The period that a kept row began with is the same, a renewed or inserted
\* row begins with the allowance.
LEMMA OpeningAfter ==
    ASSUME TypeOK, SinceTheStart, NEW e \in EntIds
    PROVE  /\ RowKept(e) => Opening(e)' = Opening(e)
           /\ RowRenewed(e) \/ RowInserted(e) => Opening(e)' = entitlements'[e].units
<1>1. ASSUME RowKept(e) PROVE Opening(e)' = Opening(e)
  BY <1>1 DEF RowKept, Opening, Allowance
<1>2. ASSUME RowRenewed(e) PROVE Opening(e)' = entitlements'[e].units
  <2>1. entitlements[e].from \in Int
    BY <1>2 DEF RowRenewed, TypeOK, RowType
  <2>2. InitialRows[e] # None => InitialRows[e].from # entitlements'[e].from
    BY <1>2, <2>1 DEF RowRenewed, SinceTheStart
  <2> QED
    BY <1>2, <2>2 DEF RowRenewed, Opening, Allowance
<1>3. ASSUME RowInserted(e) PROVE Opening(e)' = entitlements'[e].units
  BY <1>3 DEF RowInserted, SinceTheStart, Opening, Allowance
<1> QED
  BY <1>1, <1>2, <1>3

\* A row whose step signs for nothing stays accounted for.
LEMMA RowAccounted ==
    ASSUME SignedInv, IsFiniteSet(SignedEntries'), NEW e \in EntIds,
           AnsweredKept,
           {l \in SignedEntries' : l.record = e} = {l \in SignedEntries : l.record = e},
           RowAbsent(e) \/ RowKept(e) \/ RowRenewed(e) \/ RowInserted(e),
           entitlements'[e] # None, entitlements'[e].units # None,
           entitlements'[e].units \in Int
    PROVE  entitlements'[e].units + SignedUse(e)' = Opening(e)'
<1> USE DEF SignedInv
<1>1. TypeOK
  BY DEF Inv
<1>2. \A l \in SignedEntries : req'[l.by] = req[l.by]
  BY EntriesKept
<1>3. CASE RowKept(e)
  <2>1. Signatures(e)' = Signatures(e)
    BY <1>2, <1>3 DEF RowKept, Signatures
  <2>2. SignedUse(e)' = SignedUse(e)
    BY <1>2, <2>1, SameUse DEF Signatures
  <2>3. entitlements[e].units + SignedUse(e) = Opening(e)
    BY <1>3 DEF RowKept, BalanceIsSigned
  <2>4. Opening(e)' = Opening(e) /\ entitlements'[e].units = entitlements[e].units
    BY <1>1, <1>3, OpeningAfter DEF RowKept
  <2> QED
    BY <2>2, <2>3, <2>4
<1>4. CASE RowRenewed(e) \/ RowInserted(e)
  <2>1. Signatures(e)' = {}
    <3>1. ASSUME NEW l \in Signatures(e)' PROVE FALSE
      <4>1. /\ l \in SignedEntries /\ l.record = e
            /\ req[l.by].charged = entitlements'[e].from
        BY <1>2, <3>1 DEF Signatures
      <4>2. /\ entitlements[e] # None
            /\ req[l.by].charged \in Int
            /\ req[l.by].charged =< entitlements[e].from
        BY <4>1 DEF EntriesAreDraws
      <4>3. entitlements[e].from \in Int
        BY <1>1, <4>2 DEF TypeOK, RowType
      <4> QED
        BY <1>4, <4>1, <4>2, <4>3 DEF RowRenewed, RowInserted
    <3> QED
      BY <3>1
  <2>2. SignedUse(e)' = 0
    BY <2>1, NoUse
  <2>3. Opening(e)' = entitlements'[e].units
    BY <1>1, <1>4, OpeningAfter
  <2> QED
    BY <2>2, <2>3
<1> QED
  BY <1>3, <1>4 DEF RowAbsent

\* A step that signs for nothing leaves every balance accounted for.
LEMMA UnsignedKeeps ==
    ASSUME SignedInv, Inv', Unsigned
    PROVE  BalanceIsSigned'
<1> SUFFICES ASSUME NEW e \in EntIds, entitlements'[e] # None, entitlements'[e].units # None
             PROVE  entitlements'[e].units + SignedUse(e)' = Opening(e)'
  BY DEF BalanceIsSigned
<1>1. entitlements'[e].units \in Int
  BY DEF Inv, TypeOK, RowType
<1>2. IsFiniteSet(SignedEntries')
  BY DEF SignedInv, Unsigned
<1>3. {l \in SignedEntries' : l.record = e} = {l \in SignedEntries : l.record = e}
  BY DEF Unsigned
<1> QED
  BY <1>1, <1>2, <1>3, RowAccounted DEF Unsigned

\* What a decrement does.
LEMMA DrawSigns ==
    ASSUME Inv, NEW r \in Requests, ApplyDraw(r)
    PROVE  LET c == req[r].call
               x == Entry(r, c, c.ent, "update", c.client)
           IN  /\ c.ent \in EntIds /\ c.amount \in Int
               /\ req[r].pc = "locked" /\ req'[r].pc = "done"
               /\ req'[r].call = c
               /\ req'[r].charged = Period(r).from
               /\ AnsweredKept
               /\ SignedEntries' = SignedEntries \cup {x}
               /\ \A d \in EntIds : d # c.ent => entitlements'[d] = entitlements[d]
               /\ entitlements'[c.ent] # None
               /\ Period(r).units \in Int
               /\ entitlements'[c.ent].units = Period(r).units - c.amount
               /\ entitlements'[c.ent].from = Period(r).from
               /\ entitlements'[c.ent].product = req[r].seen.product
               /\ entitlements[c.ent] = req[r].seen
               /\ entitlements[c.ent] \in RowType
<1> USE DEF Inv
<1> DEFINE c == req[r].call
           x == Entry(r, c, c.ent, "update", c.client)
<1>1. req[r].pc = "locked" /\ Funded(r)
  BY DEF ApplyDraw, Funded, Evaluating
<1>2. c \in DrawCalls /\ entitlements[c.ent] = req[r].seen /\ req[r].seen \in RowType
      /\ c.amount > 0
  BY <1>1, LockedCall DEF RequestsOK
<1>3. c.ent \in EntIds /\ c.amount \in Int
  BY <1>2 DEF DrawCalls
<1>4. Period(r).units \in Nat /\ Period(r).units >= c.amount
  BY <1>1, PeriodOK DEF Funded
<1>5. PICK units : units = Period(r).units - c.amount
  OBVIOUS
<1>6. PICK e : e = c.ent
  OBVIOUS
<1>7. units \in Nat /\ Write(r, units)
  BY <1>3, <1>4, <1>5 DEF ApplyDraw
<1>8. /\ \A d \in EntIds : d # e => entitlements'[d] = entitlements[d]
      /\ entitlements'[e] \in RowType
      /\ entitlements'[e].units = units
      /\ entitlements'[e].from = Period(r).from
      /\ entitlements'[e].product = req[r].seen.product
  BY <1>1, <1>6, <1>7, WriteOK
<1> DEFINE new == [req[r] EXCEPT !.pc = "done", !.outcome = "applied",
                                 !.charged = Period(r).from]
<1>9. new.pc = "done" /\ new.call = c /\ new.charged = Period(r).from
  BY DEF TypeOK, RequestType
<1>10. req' = [req EXCEPT ![r] = new]
  BY DEF ApplyDraw
<1> HIDE DEF new
<1>11. req'[r] = new /\ \A q \in Requests : q # r => req'[q] = req[q]
  BY <1>10 DEF TypeOK
<1>12. AnsweredKept
  BY <1>1, <1>11 DEF AnsweredKept
<1>13. SignedEntries' = SignedEntries \cup {x}
  <2>1. sync_log' = sync_log \cup {x}
    BY DEF ApplyDraw
  <2>2. ~x.legacy /\ x.action = "update"
    BY DEF Entry
  <2> HIDE DEF x
  <2> QED
    BY <2>1, <2>2 DEF SignedEntries
<1>14. entitlements'[e] # None
  BY <1>8, NoneAssumption
<1> HIDE DEF x
<1> QED
  BY <1>1, <1>2, <1>3, <1>4, <1>5, <1>6, <1>8, <1>9, <1>11, <1>12, <1>13, <1>14 DEF x

\* A decrement is signed for: what the balance loses, its entry says.
LEMMA DrawKeeps ==
    ASSUME SignedInv, Inv', NEW r \in Requests, ApplyDraw(r)
    PROVE  BalanceIsSigned'
<1> USE DEF SignedInv
<1>0. PICK c, x : c = req[r].call /\ x = Entry(r, c, c.ent, "update", c.client)
  OBVIOUS
<1>1. /\ c.ent \in EntIds /\ c.amount \in Int
      /\ req[r].pc = "locked" /\ req'[r].pc = "done"
      /\ req'[r].call = c
      /\ req'[r].charged = Period(r).from
      /\ AnsweredKept
      /\ SignedEntries' = SignedEntries \cup {x}
      /\ \A d \in EntIds : d # c.ent => entitlements'[d] = entitlements[d]
      /\ entitlements'[c.ent] # None
      /\ Period(r).units \in Int
      /\ entitlements'[c.ent].units = Period(r).units - c.amount
      /\ entitlements'[c.ent].from = Period(r).from
      /\ entitlements'[c.ent].product = req[r].seen.product
      /\ entitlements[c.ent] = req[r].seen
      /\ entitlements[c.ent] \in RowType
  BY <1>0, DrawSigns DEF SignedInv
<1>2. x.by = r /\ x.record = c.ent
  BY <1>0 DEF Entry
<1>3. x \notin SignedEntries
  BY <1>1, <1>2 DEF EntriesAreDraws
<1>4. IsFiniteSet(SignedEntries')
  BY <1>1, FS_AddElement
<1>5. TypeOK /\ RequestsOK /\ SinceTheStart
  BY DEF Inv
<1>6. \A l \in SignedEntries : req'[l.by] = req[l.by]
  BY <1>1, EntriesKept
<1>7. \A l \in SignedEntries' : req'[l.by].call.amount \in Int
  BY <1>1, <1>2, <1>6 DEF EntriesAreDraws
<1> SUFFICES ASSUME NEW e \in EntIds, entitlements'[e] # None, entitlements'[e].units # None
             PROVE  entitlements'[e].units + SignedUse(e)' = Opening(e)'
  BY DEF BalanceIsSigned
<1>8. CASE e # c.ent
  <2>1. entitlements'[e].units \in Int
    BY DEF Inv, TypeOK, RowType
  <2>2. {l \in SignedEntries' : l.record = e} = {l \in SignedEntries : l.record = e}
    BY <1>1, <1>2, <1>8
  <2>3. RowAbsent(e) \/ RowKept(e)
    BY <1>1, <1>8, SameRow
  <2> QED
    BY <1>1, <1>4, <2>1, <2>2, <2>3, RowAccounted
<1>9. CASE e = c.ent
  <2>0. entitlements[e] # None /\ entitlements[e].from \in Int
    BY <1>1, <1>9, NoneAssumption DEF RowType
  <2>1. CASE Period(r).from = req[r].seen.from /\ Period(r).units = req[r].seen.units
    <3>1. Signatures(e)' = Signatures(e) \cup {x}
      BY <1>1, <1>2, <1>6, <1>9, <2>1 DEF Signatures
    <3>2. SignedUse(e) \in Int /\ SignedUse(e)' = SignedUse(e) + req'[x.by].call.amount
      <4>1. /\ x \notin Signatures(e)
            /\ \A l \in Signatures(e) : req'[l.by] = req[l.by]
        BY <1>3, <1>6 DEF Signatures
      <4>2. \A l \in Signatures(e)' : req'[l.by].call.amount \in Int
        BY <1>7 DEF Signatures
      <4> QED
        BY <1>4, <3>1, <4>1, <4>2, MoreUse
    <3>3. entitlements[e].units + SignedUse(e) = Opening(e)
      BY <1>1, <1>9, <2>0, <2>1, ClockAssumption DEF BalanceIsSigned
    <3>4. Opening(e)' = Opening(e)
      BY <1>1, <1>9, <2>0, <2>1 DEF Opening, Allowance
    <3> QED
      BY <1>1, <1>2, <1>9, <2>1, <3>2, <3>3, <3>4
  <2>2. CASE /\ Period(r).units = Allowance(req[r].seen.product)
             /\ Period(r).from > req[r].seen.from
    <3> DEFINE old == {l \in SignedEntries : l.record = e
                                              /\ req'[l.by].charged = entitlements'[e].from}
    <3>1. old = {}
      <4>1. ASSUME NEW l \in SignedEntries, l.record = e PROVE
              /\ req'[l.by].charged \in Int
              /\ req'[l.by].charged =< entitlements[e].from
        BY <1>6, <4>1 DEF EntriesAreDraws
      <4>2. entitlements'[e].from > entitlements[e].from /\ entitlements'[e].from = Period(r).from
        BY <1>1, <1>9, <2>2
      <4>3. Period(r).from \in Int
        BY <1>1, <1>5, PeriodOK DEF Inv
      <4> QED
        BY <2>0, <4>1, <4>2, <4>3
    <3>2. Signatures(e)' = {x}
      <4>1. Signatures(e)' = {l \in SignedEntries' : l.record = e
                                /\ req'[l.by].charged = entitlements'[e].from}
        BY DEF Signatures
      <4>2. x \in SignedEntries' /\ x.record = e /\ req'[x.by].charged = entitlements'[e].from
        BY <1>1, <1>2, <1>9
      <4> QED
        BY <1>1, <3>1, <4>1, <4>2
    <3>3. SignedUse(e)' = c.amount
      <4>1. PICK h : h = Amounts(e)'
        OBVIOUS
      <4>2. DOMAIN h = {x} /\ h[x] = c.amount
        BY <1>1, <1>2, <3>2, <4>1 DEF Amounts
      <4>3. PICK f : f = [l \in {} |-> 0]
        OBVIOUS
      <4>4. DOMAIN f = {} /\ IsFiniteSet(DOMAIN f)
        BY <4>3, FS_EmptySet
      <4>5. Total(f) = 0
        BY <4>4, TotalOfNone
      <4>6. /\ x \notin DOMAIN f /\ DOMAIN h = DOMAIN f \cup {x}
            /\ \A y \in DOMAIN f : h[y] = f[y]
            /\ \A y \in DOMAIN h : h[y] \in Int
        BY <1>1, <4>2, <4>4
      <4>7. Total(h) = h[x] + Total(f)
        BY <4>4, <4>6, TotalOfOneMore
      <4>8. SignedUse(e)' = Total(h)
        BY <1>4, <4>1, SignedUseIsTotalAfter DEF Total
      <4> QED
        BY <1>1, <4>2, <4>5, <4>7, <4>8
    <3>4. Opening(e)' = Period(r).units
      <4>1. InitialRows[e] # None => InitialRows[e].from # entitlements'[e].from
        BY <1>1, <1>5, <1>9, <2>0, <2>2 DEF SinceTheStart
      <4> QED
        BY <1>1, <1>9, <2>2, <4>1 DEF Opening, Allowance
    <3> QED
      BY <1>1, <1>9, <3>3, <3>4
  <2> QED
    BY <1>1, <1>5, <2>1, <2>2, PeriodKeptOrRenewed
<1> QED
  BY <1>8, <1>9

-----------------------------------------------------------------------------
(* The audit log accounts for the balances.                                *)

\* Rows and their periods are kept, so signed entries and initial rows stay
\* behind them.
LEMMA EntriesStayBehind ==
    ASSUME SignedInv, [Next]_vars
    PROVE  IsFiniteSet(SignedEntries') /\ EntriesAreDraws' /\ SinceTheStart'
<1> USE DEF SignedInv
<1>1. \A e \in EntIds : entitlements[e] # None =>
          /\ entitlements'[e] # None
          /\ entitlements'[e].from >= entitlements[e].from
          /\ entitlements[e].from \in Int
          /\ entitlements'[e].from \in Int
  <2>1. /\ entitlements' \in [EntIds -> RowType \cup {None}]
        /\ \A e \in EntIds : entitlements[e] # None =>
              /\ entitlements'[e] # None
              /\ entitlements'[e].from >= entitlements[e].from
    BY NextShape, TableGrows
  <2> QED
    BY <2>1 DEF Inv, TypeOK, RowType
<1>2. SinceTheStart'
  BY <1>1 DEF SinceTheStart
<1>3. CASE Unsigned
  <2>1. \A l \in SignedEntries : req'[l.by] = req[l.by]
    BY <1>3, EntriesKept DEF Unsigned
  <2>2. EntriesAreDraws'
    BY <1>1, <1>3, <2>1 DEF EntriesAreDraws, Unsigned
  <2> QED
    BY <1>2, <1>3, <2>2 DEF Unsigned
<1>4. ASSUME NEW r \in Requests, ApplyDraw(r)
      PROVE  IsFiniteSet(SignedEntries') /\ EntriesAreDraws'
  <2>0. PICK c, x : c = req[r].call /\ x = Entry(r, c, c.ent, "update", c.client)
    OBVIOUS
  <2>1. /\ c.ent \in EntIds /\ c.amount \in Int
        /\ req[r].pc = "locked" /\ req'[r].pc = "done"
        /\ req'[r].call = c
        /\ req'[r].charged = Period(r).from
        /\ AnsweredKept
        /\ SignedEntries' = SignedEntries \cup {x}
        /\ entitlements'[c.ent] # None
        /\ entitlements'[c.ent].from = Period(r).from
    BY <1>4, <2>0, DrawSigns
  <2>2. x.by = r /\ x.record = c.ent
    BY <2>0 DEF Entry
  <2>3. IsFiniteSet(SignedEntries')
    BY <2>1, FS_AddElement
  <2>4. Period(r).from \in Int
    BY <2>1, PeriodOK DEF Inv
  <2>5. \A l \in SignedEntries : req'[l.by] = req[l.by]
    BY <2>1, EntriesKept
  <2>6. ASSUME NEW l \in SignedEntries'
        PROVE  /\ l.by \in Requests
               /\ req'[l.by].pc = "done"
               /\ req'[l.by].call.amount \in Int
               /\ req'[l.by].charged \in Int
               /\ l.record \in EntIds
               /\ entitlements'[l.record] # None
               /\ req'[l.by].charged =< entitlements'[l.record].from
    <3>1. CASE l = x
      BY <2>1, <2>2, <2>4, <3>1
    <3>2. CASE l \in SignedEntries
      BY <1>1, <2>5, <3>2 DEF EntriesAreDraws
    <3> QED
      BY <2>1, <3>1, <3>2
  <2> QED
    BY <2>3, <2>6 DEF EntriesAreDraws
<1> QED
  BY <1>2, <1>3, <1>4, StepSigns

\* Before the first request nothing is signed for.
LEMMA InitSigned == Init => SignedInv
<1> SUFFICES ASSUME Init PROVE SignedInv
  OBVIOUS
<1>1. Inv
  BY InitInv
<1>2. SignedEntries = {}
  BY EngineAssumption DEF Init, SignedEntries
<1>3. IsFiniteSet(SignedEntries) /\ EntriesAreDraws
  BY <1>2, FS_EmptySet DEF EntriesAreDraws
<1>4. SinceTheStart
  BY EngineAssumption DEF Init, SinceTheStart, RowType
<1>5. \A e \in EntIds : SignedUse(e) = 0
  <2> SUFFICES ASSUME NEW e \in EntIds PROVE SignedUse(e) = 0
    OBVIOUS
  <2>1. PICK f : f = Amounts(e)
    OBVIOUS
  <2>2. DOMAIN f = {}
    BY <1>2, <2>1 DEF Amounts, Signatures
  <2> QED
    BY <1>3, <2>1, <2>2, SignedUseIsTotal, TotalOfNone
<1>6. BalanceIsSigned
  <2> SUFFICES ASSUME NEW e \in EntIds, entitlements[e] # None, entitlements[e].units # None
               PROVE  entitlements[e].units + SignedUse(e) = Opening(e)
    BY DEF BalanceIsSigned
  <2>1. entitlements[e].units \in Int
    BY <1>1 DEF Inv, TypeOK, RowType
  <2>2. Opening(e) = entitlements[e].units
    BY DEF Init, Opening
  <2> QED
    BY <1>5, <2>1, <2>2
<1> QED
  BY <1>1, <1>3, <1>4, <1>6 DEF SignedInv

\* The units left of an entitlement plus the draws that the audit log signs
\* for in the period are what the period began with, whatever draws, resets,
\* replays and failures interleave (draw commits the decrement and its audit
\* row together, and the savepoint undoes both).
THEOREM BalanceSigned == Spec => []BalanceIsSigned
<1>1. SignedInv /\ [Next]_vars => SignedInv'
  <2> SUFFICES ASSUME SignedInv, [Next]_vars PROVE SignedInv'
    OBVIOUS
  <2>1. Inv'
    BY StepInv DEF SignedInv
  <2>2. Unsigned \/ \E r \in Requests : ApplyDraw(r)
    BY StepSigns DEF SignedInv
  <2>3. BalanceIsSigned'
    BY <2>1, <2>2, UnsignedKeeps, DrawKeeps
  <2> QED
    BY <2>1, <2>3, EntriesStayBehind DEF SignedInv
<1>2. SignedInv => BalanceIsSigned
  BY DEF SignedInv
<1> QED
  BY <1>1, <1>2, InitSigned, PTL DEF Spec
=============================================================================
