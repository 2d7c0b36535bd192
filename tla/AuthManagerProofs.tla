--------------------------- MODULE AuthManagerProofs ---------------------------
(***************************************************************************)
(* What holds of the Auth_Manager for every number of tabs, lifecycles,    *)
(* revocations and faults: a revocation wins, nobody loses a session or a  *)
(* record that is still in force, and with Web Locks a session that is     *)
(* shown can be restored and one that was left is erased.                  *)
(***************************************************************************)
EXTENDS AuthManager, FiniteSetTheorems, TLAPS

-----------------------------------------------------------------------------
(* The inductive invariant.                                                *)

\* The steps that are taken under the lock.
Locked == {"preparing", "replacing", "publishing"} \cup (RestoreSteps \ {"lockRestore"})

\* What holds of a tab with the lifecycles ids in use and those that are over.
Fits(me, ids, over) ==
    /\ me \in TabType
    /\ {me.session, me.op.observed, me.op.attempt} \subseteq ids \cup {None}
    /\ me.request # None => me.request.token \in ids
    /\ \A i \in DOMAIN me.cleanups : me.cleanups[i] \in over \cup {None}
    /\ me.op.revoked => ~me.op.fresh
    /\ me.op.pc \in RestoreSteps => me.session = None
    /\ me.op.pc \in {"waiting", "request", "lockLogin", "preparing"} => me.op.attempt = None
    /\ me.op.pc \in {"replacing", "publishing"} => me.op.attempt # None
    /\ me.op.pc \in {"encrypting", "upgrading", "restoring"} => me.op.observed # None
    /\ me.op.pc = "erasing" => me.op.attempt \in over \cup {None}
    /\ me.holds = "op" <=> me.op.pc \in Locked
    /\ me.holds = "cleanup" => me.cleanups # <<>>

Owned(row, id) == row # None /\ row.owner = id

\* What the lock adds: nobody else moves marker m and record row meanwhile.
Guarded(me, m, row) ==
    /\ me.session # None /\ me.session = m => Owned(row, m)
    /\ me.op.pc \in {"reading", "encrypting", "upgrading", "restoring"} => me.op.observed = m
    /\ me.op.pc = "restoring" => Owned(row, me.op.observed)
    /\ me.op.pc \in {"replacing", "publishing"} => me.op.attempt = m
    /\ me.op.pc = "publishing" => Owned(row, me.op.attempt)
    /\ me.op.pc = "erasing" => me.op.attempt = None \/ me.op.attempt # m
    /\ me.holds = "cleanup" => Head(me.cleanups) = None \/ Head(me.cleanups) # m

Types ==
    /\ issued \subseteq Ids
    /\ expired \subseteq issued
    /\ loggedOut \subseteq issued
    /\ ended \subseteq issued
    /\ marker \in issued \cup {None}
    /\ meta \in MetaType \cup {None}
    /\ meta # None => meta.owner \in issued \cup {None}
    /\ tab \in [Tabs -> TabType]
    /\ faults \in Nat

\* A lifecycle that is not named by the marker is over.
Accounted == \A id \in issued : id = marker \/ id \in Over

OneHolder ==
    locks => \A t, u \in Tabs : tab[t].holds # "nothing" /\ tab[u].holds # "nothing" => t = u

\* The credentials of a lifecycle that was logged out of are gone or a clean-up
\* of them is queued.
Gone(id) == marker # id /\ ~Owned(meta, id)
Queued(id) == \E t \in Tabs : \E i \in DOMAIN tab[t].cleanups : tab[t].cleanups[i] = id

Inv ==
    /\ Types
    /\ Accounted
    /\ OneHolder
    /\ \A t \in Tabs : Fits(tab[t], issued, Over)
    /\ locks => \A t \in Tabs : Guarded(tab[t], marker, meta)
    /\ locks /\ faults = 0 => \A id \in loggedOut : Gone(id) \/ Queued(id)

-----------------------------------------------------------------------------
(* The pieces of a step, field by field.                                   *)

LEMMA NoOpType == NoOp \in OpType /\ NewTab \in TabType
<1>1. NoOp \in OpType
  BY DEF NoOp, OpType
<1>2. [NoOp EXCEPT !.pc = "lockRestore", !.fresh = TRUE] \in OpType
  BY DEF NoOp, OpType, RestoreSteps
<1>3. <<>> \in Seq(Ids \cup {None})
  OBVIOUS
<1> QED
  BY <1>1, <1>2, <1>3 DEF NewTab, TabType

\* A tab whose operation moves on and that takes or leaves the lock.
Moved(me, new, op, holds) ==
    /\ new \in TabType
    /\ new.op = op /\ new.holds = holds
    /\ new.session = me.session /\ new.own = me.own
    /\ new.request = me.request /\ new.cleanups = me.cleanups

LEMMA Moves ==
    ASSUME NEW me \in TabType, NEW op \in OpType, NEW holds \in {"nothing", "op", "cleanup"}
    PROVE  /\ Moved(me, [me EXCEPT !.op = op, !.holds = holds], op, holds)
           /\ Moved(me, [me EXCEPT !.op = op], op, me.holds)
           /\ Moved(me, [me EXCEPT !.holds = holds], me.op, holds)
<1> DEFINE requests == RequestType \cup {None}
           queues == Seq(Ids \cup {None})
           ids == Ids \cup {None}
           type == [session : ids, own : BOOLEAN, op : OpType, request : requests,
                    cleanups : queues, holds : {"nothing", "op", "cleanup"}]
<1>1. TabType = type
  BY DEF TabType
<1> HIDE DEF requests, queues, ids
<1>2. me \in type
  BY <1>1
<1>3. /\ [me EXCEPT !.op = op, !.holds = holds] \in type
      /\ [me EXCEPT !.op = op] \in type
      /\ [me EXCEPT !.holds = holds] \in type
  BY <1>2
<1> QED
  BY <1>1, <1>2, <1>3 DEF Moved

\* What a step that only drops captured generations leaves of a tab.
Kept(me, new) ==
    /\ new \in TabType
    /\ new.cleanups = me.cleanups /\ new.holds = me.holds
    /\ new.request = None <=> me.request = None
    /\ new.request # None => new.request.token = me.request.token
    /\ new.op.pc = me.op.pc /\ new.op.observed = me.op.observed
    /\ new.op.attempt = me.op.attempt /\ new.op.storage = me.op.storage

LEMMA BumpKeeps ==
    ASSUME NEW me \in TabType
    PROVE  /\ Kept(me, Bump(me))
           /\ Bump(me).session = me.session /\ ~Bump(me).own
           /\ ~Bump(me).op.fresh /\ Bump(me).op.revoked = me.op.revoked
           /\ Bump(me).op.wait = me.op.wait
<1> DEFINE op == [me.op EXCEPT !.fresh = FALSE]
           request == IF me.request = None THEN None ELSE [me.request EXCEPT !.fresh = FALSE]
           new == [me EXCEPT !.own = FALSE, !.op = op, !.request = request]
           requests == RequestType \cup {None}
           queues == Seq(Ids \cup {None})
           ids == Ids \cup {None}
<1>1. me \in [session : ids, own : BOOLEAN, op : OpType, request : requests,
              cleanups : queues, holds : {"nothing", "op", "cleanup"}]
  BY DEF TabType
<1>2. Bump(me) = new
  BY <1>1 DEF Bump
<1>3. /\ op \in OpType /\ ~op.fresh
      /\ op.pc = me.op.pc /\ op.observed = me.op.observed /\ op.attempt = me.op.attempt
      /\ op.storage = me.op.storage /\ op.revoked = me.op.revoked /\ op.wait = me.op.wait
  <2>1. me.op \in OpType
    BY <1>1
  <2> QED
    BY <2>1 DEF OpType
<1>4. /\ request \in requests /\ (request = None <=> me.request = None)
      /\ request # None => request.token = me.request.token
  <2>1. CASE me.request = None
    BY <2>1
  <2>2. CASE me.request # None
    <3>1. me.request \in RequestType
      BY <1>1, <2>2
    <3>2. request = [me.request EXCEPT !.fresh = FALSE]
      BY <2>2
    <3>3. request \in RequestType /\ request.token = me.request.token
      BY <3>1, <3>2 DEF RequestType
    <3> QED
      BY <2>2, <3>3, NoneAssumption
  <2> QED
    BY <2>1, <2>2
<1> HIDE DEF op, request, requests, queues, ids
<1>5. /\ new \in [session : ids, own : BOOLEAN, op : OpType, request : requests,
                  cleanups : queues, holds : {"nothing", "op", "cleanup"}]
      /\ new.session = me.session /\ new.own = FALSE /\ new.op = op /\ new.request = request
      /\ new.cleanups = me.cleanups /\ new.holds = me.holds
  BY <1>1, <1>3, <1>4
<1>6. new \in TabType
  BY <1>5 DEF TabType, requests, queues, ids
<1> QED
  BY <1>2, <1>3, <1>4, <1>5, <1>6 DEF Kept

\* A tab that drops generations, or its session with them, is as good as before.
LEMMA KeptFits ==
    ASSUME NEW ids, NEW over, NEW me, Fits(me, ids, over), NEW new, Kept(me, new),
           new.session \in {me.session, None}, ~new.op.fresh
    PROVE  /\ Fits(new, ids, over)
           /\ \A m, row : Guarded(me, m, row) => Guarded(new, m, row)
<1>1. Fits(new, ids, over)
  BY DEF Fits, Kept
<1>2. \A m, row : Guarded(me, m, row) => Guarded(new, m, row)
  BY DEF Guarded, Kept
<1> QED
  BY <1>1, <1>2

LEMMA InvalidateKeeps ==
    ASSUME NEW me \in TabType
    PROVE  /\ Kept(me, Invalidate(me))
           /\ Invalidate(me).session = None /\ ~Invalidate(me).own
           /\ ~Invalidate(me).op.fresh
           /\ Invalidate(me).op.wait = me.op.wait
<1> DEFINE bumped == Bump(me)
           op == [bumped.op EXCEPT !.revoked = TRUE]
           new == [bumped EXCEPT !.session = None, !.op = op]
           requests == RequestType \cup {None}
           queues == Seq(Ids \cup {None})
           ids == Ids \cup {None}
<1>1. /\ Kept(me, bumped) /\ ~bumped.own /\ ~bumped.op.fresh /\ bumped.op.wait = me.op.wait
  BY BumpKeeps
<1>2. bumped \in [session : ids, own : BOOLEAN, op : OpType, request : requests,
                  cleanups : queues, holds : {"nothing", "op", "cleanup"}]
  BY <1>1 DEF Kept, TabType
<1>3. Invalidate(me) = new
  BY <1>2 DEF Invalidate
<1> HIDE DEF bumped
<1>4. /\ op \in OpType /\ ~op.fresh /\ op.wait = bumped.op.wait
      /\ op.pc = bumped.op.pc /\ op.observed = bumped.op.observed
      /\ op.attempt = bumped.op.attempt /\ op.storage = bumped.op.storage
  <2>1. bumped.op \in OpType
    BY <1>2
  <2> QED
    BY <1>1, <2>1 DEF OpType
<1> HIDE DEF op
<1>5. /\ new \in TabType
      /\ new.session = None /\ new.own = bumped.own /\ new.op = op
      /\ new.request = bumped.request
      /\ new.cleanups = bumped.cleanups /\ new.holds = bumped.holds
  <2>1. None \in ids
    OBVIOUS
  <2> HIDE DEF requests, queues, ids
  <2>2. /\ new \in [session : ids, own : BOOLEAN, op : OpType, request : requests,
                    cleanups : queues, holds : {"nothing", "op", "cleanup"}]
        /\ new.session = None /\ new.own = bumped.own /\ new.op = op
        /\ new.request = bumped.request
        /\ new.cleanups = bumped.cleanups /\ new.holds = bumped.holds
    BY <1>2, <1>4, <2>1
  <2> QED
    BY <2>2 DEF TabType, requests, queues, ids
<1> HIDE DEF new
<1> QED
  BY <1>1, <1>3, <1>4, <1>5 DEF Kept

LEMMA InvalidateFits ==
    ASSUME NEW ids, NEW over, NEW me, Fits(me, ids, over)
    PROVE  /\ Fits(Invalidate(me), ids, over)
           /\ \A m, row : Guarded(me, m, row) => Guarded(Invalidate(me), m, row)
<1>1. me \in TabType
  BY DEF Fits
<1> QED
  BY <1>1, InvalidateKeeps, KeptFits

\* A clean-up is appended behind those that are queued.
LEMMA QueueFits ==
    ASSUME NEW ids, NEW over, over \subseteq Ids, NEW me, Fits(me, ids, over),
           NEW id \in over \cup {None}
    PROVE  /\ Fits(Queue(me, id), ids, over)
           /\ \A m, row : Guarded(me, m, row) => Guarded(Queue(me, id), m, row)
           /\ Queue(me, id).op = me.op /\ Queue(me, id).session = me.session
           /\ Queue(me, id).request = me.request /\ Queue(me, id).holds = me.holds
           /\ \A i \in DOMAIN me.cleanups :
                 i \in DOMAIN Queue(me, id).cleanups /\ Queue(me, id).cleanups[i] = me.cleanups[i]
           /\ \E i \in DOMAIN Queue(me, id).cleanups : Queue(me, id).cleanups[i] = id
<1> DEFINE old == me.cleanups
           queue == Append(old, id)
           new == [me EXCEPT !.cleanups = queue]
           requests == RequestType \cup {None}
           all == Ids \cup {None}
<1>1. me \in [session : all, own : BOOLEAN, op : OpType, request : requests,
              cleanups : Seq(all), holds : {"nothing", "op", "cleanup"}] /\ id \in all
  BY DEF Fits, TabType
<1> HIDE DEF requests, all
<1>2. old \in Seq(all) /\ queue \in Seq(all)
  BY <1>1
<1>3. /\ DOMAIN queue = DOMAIN old \cup {Len(old) + 1}
      /\ queue[Len(old) + 1] = id
      /\ \A i \in DOMAIN old : queue[i] = old[i]
      /\ queue # <<>>
      /\ old # <<>> => Head(queue) = Head(old)
  <2> HIDE DEF old
  <2>1. /\ DOMAIN old = 1 .. Len(old) /\ Len(old) \in Nat
        /\ DOMAIN queue = 1 .. (Len(old) + 1)
        /\ queue[Len(old) + 1] = id
        /\ \A i \in 1 .. Len(old) : queue[i] = old[i]
    BY <1>1, <1>2
  <2>2. queue # <<>>
    BY <1>1, <1>2, <2>1
  <2>3. old # <<>> => Head(queue) = Head(old)
    <3>1. old # <<>> => 1 \in 1 .. Len(old)
      BY <1>2
    <3>2. Head(queue) = queue[1] /\ Head(old) = old[1]
      OBVIOUS
    <3> QED
      BY <2>1, <3>1, <3>2
  <2> QED
    BY <2>1, <2>2, <2>3
<1>4. Queue(me, id) = new
  BY DEF Queue
<1> HIDE DEF old, queue
<1>5. /\ new \in [session : all, own : BOOLEAN, op : OpType, request : requests,
                  cleanups : Seq(all), holds : {"nothing", "op", "cleanup"}]
      /\ new.session = me.session /\ new.own = me.own /\ new.op = me.op
      /\ new.request = me.request /\ new.cleanups = queue /\ new.holds = me.holds
  BY <1>1, <1>2
<1> HIDE DEF new
<1>6. new \in TabType
  BY <1>5 DEF TabType, requests, all
<1>7. \A i \in DOMAIN queue : queue[i] \in over \cup {None}
  BY <1>3 DEF Fits, old
<1>8. Fits(new, ids, over)
  BY <1>3, <1>5, <1>6, <1>7 DEF Fits
<1>9. \A m, row : Guarded(me, m, row) => Guarded(new, m, row)
  <2>1. me.holds = "cleanup" => old # <<>>
    BY DEF Fits, old
  <2> QED
    BY <1>3, <1>5, <2>1 DEF Guarded, old
<1> QED
  BY <1>3, <1>4, <1>5, <1>8, <1>9 DEF old

LEMMA FitsMore ==
    ASSUME NEW ids, NEW over, NEW me, Fits(me, ids, over),
           NEW ids2, ids \subseteq ids2, NEW over2, over \subseteq over2
    PROVE  Fits(me, ids2, over2)
  BY DEF Fits

LEMMA ReturnFits ==
    ASSUME NEW ids, NEW over, NEW me, Fits(me, ids, over)
    PROVE  /\ Fits(Return(me), ids, over)
           /\ \A m, row : Guarded(me, m, row) => Guarded(Return(me), m, row)
           /\ Moved(me, Return(me), NoOp, IF me.holds = "op" THEN "nothing" ELSE me.holds)
<1> DEFINE holds == IF me.holds = "op" THEN "nothing" ELSE me.holds
<1>1. me \in TabType /\ holds \in {"nothing", "op", "cleanup"}
  BY DEF Fits, TabType
<1>2. Return(me) = [me EXCEPT !.op = NoOp, !.holds = holds]
  BY DEF Return
<1>3. Moved(me, Return(me), NoOp, holds)
  BY <1>1, <1>2, Moves, NoOpType
<1>4. /\ NoOp.pc = "idle" /\ ~NoOp.revoked /\ NoOp.observed = None /\ NoOp.attempt = None
      /\ holds # "op" /\ (holds = "cleanup" => me.holds = "cleanup")
  BY DEF NoOp
<1>5. "idle" \notin Locked \cup RestoreSteps
  BY DEF Locked, RestoreSteps
<1>6. Fits(Return(me), ids, over)
  BY <1>3, <1>4, <1>5 DEF Moved, Fits
<1>7. \A m, row : Guarded(me, m, row) => Guarded(Return(me), m, row)
  BY <1>3, <1>4 DEF Moved, Guarded
<1> QED
  BY <1>3, <1>6, <1>7

\* A login that fails queues the clean-up of its own attempt and leaves the lock.
LEMMA FailFits ==
    ASSUME NEW ids, NEW over, over \subseteq Ids, NEW me, Fits(me, ids, over),
           me.holds # "cleanup", me.op.attempt \in over \cup {None}, NEW storage \in BOOLEAN,
           me.op.pc \notin RestoreSteps
    PROVE  /\ Fits(Fail(me, storage), ids, over)
           /\ \A m, row : Guarded(me, m, row) => Guarded(Fail(me, storage), m, row)
           /\ Fail(me, storage).holds = "nothing" /\ Fail(me, storage).session = me.session
           /\ \A i \in DOMAIN me.cleanups :
                 /\ i \in DOMAIN Fail(me, storage).cleanups
                 /\ Fail(me, storage).cleanups[i] = me.cleanups[i]
<1> DEFINE queued == IF me.op.attempt = None THEN me ELSE Queue(me, me.op.attempt)
           op == [me.op EXCEPT !.pc = "failing", !.storage = storage,
                               !.wait = Len(queued.cleanups)]
           new == [queued EXCEPT !.op = op, !.holds = "nothing"]
<1>1. /\ Fits(queued, ids, over) /\ queued.op = me.op /\ queued.session = me.session
      /\ \A i \in DOMAIN me.cleanups :
            i \in DOMAIN queued.cleanups /\ queued.cleanups[i] = me.cleanups[i]
      /\ \A m, row : Guarded(me, m, row) => Guarded(queued, m, row)
  <2>1. CASE me.op.attempt = None
    BY <2>1
  <2>2. CASE me.op.attempt # None
    <3>1. PICK id \in over \cup {None} : id = me.op.attempt
      OBVIOUS
    <3>2. queued = Queue(me, id)
      BY <2>2, <3>1
    <3>3. /\ Fits(Queue(me, id), ids, over)
          /\ \A m, row : Guarded(me, m, row) => Guarded(Queue(me, id), m, row)
          /\ Queue(me, id).op = me.op /\ Queue(me, id).session = me.session
          /\ \A i \in DOMAIN me.cleanups :
                i \in DOMAIN Queue(me, id).cleanups
                /\ Queue(me, id).cleanups[i] = me.cleanups[i]
      <4>1. id \in over \cup {None} /\ over \subseteq Ids /\ Fits(me, ids, over)
        BY <3>1
      <4>2. Fits(Queue(me, id), ids, over)
        BY <4>1, QueueFits
      <4>3. ASSUME NEW m, NEW row, Guarded(me, m, row) PROVE Guarded(Queue(me, id), m, row)
        BY <4>1, <4>3, QueueFits
      <4>4. Queue(me, id).op = me.op /\ Queue(me, id).session = me.session
        BY <4>1 DEF Queue, Fits, TabType
      <4>5. \A i \in DOMAIN me.cleanups :
                i \in DOMAIN Queue(me, id).cleanups
                /\ Queue(me, id).cleanups[i] = me.cleanups[i]
        BY <4>1, QueueFits
      <4> QED
        BY <4>2, <4>3, <4>4, <4>5
    <3> HIDE DEF queued
    <3> QED
      BY <3>2, <3>3
  <2> QED
    BY <2>1, <2>2
<1>2. Fail(me, storage) = new
  BY <1>1 DEF Fail, Fits, TabType
<1> HIDE DEF queued
<1>3. queued \in TabType /\ me.op \in OpType /\ Len(queued.cleanups) \in Nat
  BY <1>1 DEF Fits, TabType
<1>4. /\ op \in OpType /\ op.pc = "failing"
      /\ op.fresh = me.op.fresh /\ op.revoked = me.op.revoked
      /\ op.observed = me.op.observed /\ op.attempt = me.op.attempt
  BY <1>3 DEF OpType, LoginSteps
<1> HIDE DEF op
<1>5. Moved(queued, new, op, "nothing")
  BY <1>3, <1>4, Moves
<1> HIDE DEF new
<1>6. "failing" \notin Locked \cup RestoreSteps
  BY DEF Locked, RestoreSteps
<1>7. Fits(new, ids, over)
  BY <1>1, <1>4, <1>5, <1>6 DEF Moved, Fits
<1>8. \A m, row : Guarded(me, m, row) => Guarded(new, m, row)
  BY <1>1, <1>4, <1>5 DEF Moved, Guarded
<1> QED
  BY <1>1, <1>2, <1>5, <1>7, <1>8 DEF Moved

-----------------------------------------------------------------------------
(* What a step of one tab has to show.                                     *)

LEMMA TabStep ==
    ASSUME Inv, NEW t \in Tabs, locks' = locks, issued \subseteq issued', Over \subseteq Over',
           Types', Accounted', \A u \in Tabs \ {t} : tab'[u] = tab[u],
           Fits(tab'[t], issued', Over'),
           locks => \A u \in Tabs : Guarded(tab'[u], marker', meta'),
           \/ tab'[t].holds \in {"nothing", tab[t].holds}
           \/ CanLock(t),
           locks /\ faults' = 0 => \A id \in loggedOut' : Gone(id)' \/ Queued(id)'
    PROVE  Inv'
<1>1. ASSUME NEW u \in Tabs PROVE Fits(tab'[u], issued', Over')
  <2>1. CASE u = t
    BY <2>1
  <2>2. CASE u # t
    <3>1. tab'[u] = tab[u] /\ Fits(tab[u], issued, Over)
      BY <2>2 DEF Inv
    <3> QED
      BY <3>1, FitsMore
  <2> QED
    BY <2>1, <2>2
<1>2. OneHolder'
  BY DEF OneHolder, Inv, CanLock
<1> QED
  BY <1>1, <1>2 DEF Inv

\* A step that leaves marker and record alone.
LEMMA QuietStep ==
    ASSUME Inv, NEW t \in Tabs, NEW new, tab' = [tab EXCEPT ![t] = new],
           UNCHANGED <<locks, marker, meta, issued, loggedOut>>,
           expired \subseteq expired', ended \subseteq ended',
           expired' \subseteq issued, ended' \subseteq issued,
           faults' \in {faults, faults + 1},
           Fits(new, issued, Over'),
           locks => Guarded(new, marker, meta),
           new.holds \in {"nothing", tab[t].holds} \/ CanLock(t),
           faults' = faults => \A i \in DOMAIN tab[t].cleanups :
                i \in DOMAIN new.cleanups /\ new.cleanups[i] = tab[t].cleanups[i]
    PROVE  Inv'
<1>1. /\ tab'[t] = new /\ \A u \in Tabs \ {t} : tab'[u] = tab[u]
      /\ tab' \in [Tabs -> TabType]
  BY DEF Inv, Types, Fits
<1>2. Over \subseteq Over'
  BY DEF Over
<1>3. Types'
  BY <1>1 DEF Inv, Types
<1>4. Accounted'
  BY <1>2 DEF Inv, Accounted
<1>5. locks => \A u \in Tabs : Guarded(tab'[u], marker', meta')
  BY <1>1 DEF Inv
<1>6. ASSUME locks, faults' = 0, NEW id \in loggedOut' PROVE Gone(id)' \/ Queued(id)'
  <2>1. faults = 0 /\ faults' = faults
    BY <1>6 DEF Inv, Types
  <2>2. Gone(id) \/ Queued(id)
    BY <1>6, <2>1 DEF Inv
  <2>3. Gone(id) => Gone(id)'
    BY DEF Gone, Owned
  <2>4. Queued(id) => Queued(id)'
    BY <1>1, <2>1 DEF Queued
  <2> QED
    BY <2>2, <2>3, <2>4
<1> QED
  BY <1>1, <1>2, <1>3, <1>4, <1>5, <1>6, TabStep

\* The same, when the history of the lifecycles does not grow either.
LEMMA SilentStep ==
    ASSUME Inv, NEW t \in Tabs, NEW new, tab' = [tab EXCEPT ![t] = new],
           UNCHANGED <<locks, marker, meta, issued, loggedOut, expired, ended>>,
           faults' \in {faults, faults + 1},
           Fits(new, issued, Over),
           locks => Guarded(new, marker, meta),
           new.holds \in {"nothing", tab[t].holds} \/ CanLock(t),
           faults' = faults => \A i \in DOMAIN tab[t].cleanups :
                i \in DOMAIN new.cleanups /\ new.cleanups[i] = tab[t].cleanups[i]
    PROVE  Inv'
<1>1. Over' = Over
  BY DEF Over
<1>2. Fits(new, issued, Over')
  BY <1>1
<1>3. expired \subseteq issued /\ ended \subseteq issued
  BY DEF Inv, Types
<1> QED
  BY <1>2, <1>3, QuietStep

\* The operation moves on.
LEMMA MoveStep ==
    ASSUME Inv, NEW t \in Tabs, NEW op \in OpType, NEW holds \in {"nothing", "op", "cleanup"},
           tab' = [tab EXCEPT ![t] = [tab[t] EXCEPT !.op = op, !.holds = holds]],
           UNCHANGED <<locks, marker, meta, issued, loggedOut, expired, ended>>,
           faults' \in {faults, faults + 1},
           \A new : Moved(tab[t], new, op, holds) =>
                Fits(new, issued, Over) /\ (locks => Guarded(new, marker, meta)),
           holds \in {"nothing", tab[t].holds} \/ CanLock(t)
    PROVE  Inv'
<1> DEFINE new == [tab[t] EXCEPT !.op = op, !.holds = holds]
<1>1. Moved(tab[t], new, op, holds)
  BY Moves DEF Inv, Fits
<1> HIDE DEF new
<1>2. Fits(new, issued, Over) /\ (locks => Guarded(new, marker, meta))
  BY <1>1
<1>3. new.holds = holds /\ new.cleanups = tab[t].cleanups
  BY <1>1 DEF Moved
<1>4. tab' = [tab EXCEPT ![t] = new]
  BY DEF new
<1> QED
  BY <1>2, <1>3, <1>4, SilentStep

\* The operation returns.
LEMMA ReturnStep ==
    ASSUME Inv, NEW t \in Tabs, NEW me, tab' = [tab EXCEPT ![t] = Return(me)],
           me.holds = tab[t].holds, me.cleanups = tab[t].cleanups,
           Fits(me, issued, Over), locks => Guarded(me, marker, meta),
           UNCHANGED <<locks, marker, meta, issued, loggedOut, expired, ended>>,
           faults' \in {faults, faults + 1}
    PROVE  Inv'
<1> DEFINE new == Return(me)
           holds == IF me.holds = "op" THEN "nothing" ELSE me.holds
<1>1. /\ Fits(new, issued, Over)
      /\ locks => Guarded(new, marker, meta)
      /\ Moved(me, new, NoOp, holds)
  BY ReturnFits
<1> HIDE DEF new
<1>2. new.holds \in {"nothing", tab[t].holds} /\ new.cleanups = tab[t].cleanups
  BY <1>1 DEF Moved
<1>3. tab' = [tab EXCEPT ![t] = new]
  BY DEF new
<1> QED
  BY <1>1, <1>2, <1>3, SilentStep

\* A login fails.
LEMMA FailStep ==
    ASSUME Inv, NEW t \in Tabs, NEW storage \in BOOLEAN,
           tab' = [tab EXCEPT ![t] = Fail(tab[t], storage)],
           tab[t].holds # "cleanup", tab[t].op.pc \notin RestoreSteps,
           tab[t].op.attempt \in ended' \cup {None},
           ended' \in {ended, Failed(t)},
           UNCHANGED <<locks, marker, meta, issued, loggedOut, expired>>,
           faults' \in {faults, faults + 1}
    PROVE  Inv'
<1> DEFINE me == tab[t]
           new == Fail(me, storage)
<1>1. /\ Fits(me, issued, Over)
      /\ locks => Guarded(me, marker, meta)
      /\ issued \subseteq Ids /\ expired \subseteq issued
      /\ loggedOut \subseteq issued /\ ended \subseteq issued
  BY DEF Inv, Types
<1>2. ended \subseteq ended' /\ ended' \subseteq issued
  BY <1>1 DEF Failed, Fits
<1>3. /\ Over \subseteq Over' /\ Over' \subseteq Ids
      /\ me.op.attempt \in Over' \cup {None}
  BY <1>1, <1>2 DEF Over
<1>4. Fits(me, issued, Over')
  BY <1>1, <1>3, FitsMore
<1>5. /\ Fits(new, issued, Over')
      /\ locks => Guarded(new, marker, meta)
      /\ new.holds = "nothing"
      /\ \A i \in DOMAIN me.cleanups :
            i \in DOMAIN new.cleanups /\ new.cleanups[i] = me.cleanups[i]
  BY <1>1, <1>3, <1>4, FailFits
<1>6. tab' = [tab EXCEPT ![t] = new]
  OBVIOUS
<1> HIDE DEF new, me
<1> QED
  BY <1>1, <1>2, <1>5, <1>6, QuietStep DEF me

-----------------------------------------------------------------------------
(* A login keeps the invariant.                                            *)

\* What the invariant says of one tab.
LEMMA OfTab ==
    ASSUME Inv, NEW t \in Tabs
    PROVE  /\ Fits(tab[t], issued, Over)
           /\ locks => Guarded(tab[t], marker, meta)
           /\ tab[t] \in TabType /\ tab[t].op \in OpType
           /\ tab[t].holds \in {"nothing", "op", "cleanup"}
           /\ tab[t].cleanups \in Seq(Ids \cup {None})
           /\ marker \in issued \cup {None}
           /\ {tab[t].session, tab[t].op.observed, tab[t].op.attempt} \subseteq issued \cup {None}
  BY DEF Inv, Types, Fits, TabType

LEMMA StartLoginKeeps ==
    ASSUME Inv, NEW t \in Tabs, StartLogin(t)
    PROVE  Inv'
<1> DEFINE me == tab[t]
           bumped == Bump(me)
           op == [NoOp EXCEPT !.pc = "waiting", !.fresh = TRUE, !.wait = Len(me.cleanups)]
           new == [bumped EXCEPT !.op = op]
<1>1. /\ Fits(me, issued, Over) /\ me \in TabType
      /\ locks => Guarded(me, marker, meta)
      /\ me.op.pc = "idle"
      /\ Len(me.cleanups) \in Nat
  BY OfTab DEF StartLogin
<1>2. /\ Kept(me, bumped) /\ bumped.session = me.session /\ ~bumped.op.fresh
  BY <1>1, BumpKeeps
<1>3. tab' = [tab EXCEPT ![t] = new]
  BY DEF StartLogin
<1> HIDE DEF bumped
<1>4. /\ Fits(bumped, issued, Over)
      /\ locks => Guarded(bumped, marker, meta)
      /\ bumped \in TabType
  <2>1. bumped \in TabType
    BY <1>2 DEF Kept
  <2> HIDE DEF me
  <2> QED
    BY <1>1, <1>2, <2>1, KeptFits
<1>5. /\ op \in OpType /\ op.pc = "waiting" /\ ~op.revoked
      /\ op.observed = None /\ op.attempt = None
  BY <1>1 DEF NoOp, OpType, LoginSteps
<1> HIDE DEF op
<1>6. Moved(bumped, new, op, bumped.holds)
  BY <1>4, <1>5, Moves
<1> HIDE DEF new
<1>7. "waiting" \notin Locked \cup RestoreSteps /\ "idle" \notin Locked
  BY DEF Locked, RestoreSteps
<1>8. Fits(new, issued, Over)
  BY <1>1, <1>2, <1>4, <1>5, <1>6, <1>7 DEF Moved, Fits, Kept
<1>9. locks => Guarded(new, marker, meta)
  BY <1>4, <1>5, <1>6 DEF Moved, Guarded
<1>10. new.holds = me.holds /\ new.cleanups = me.cleanups
  BY <1>2, <1>6 DEF Moved, Kept
<1> QED
  BY <1>3, <1>8, <1>9, <1>10, SilentStep DEF StartLogin, history

LEMMA SendLoginKeeps ==
    ASSUME Inv, NEW t \in Tabs, SendLogin(t)
    PROVE  Inv'
<1> DEFINE me == tab[t]
           op == [me.op EXCEPT !.pc = "request", !.observed = marker]
<1>1. /\ Fits(me, issued, Over) /\ me \in TabType /\ me.op \in OpType
      /\ locks => Guarded(me, marker, meta)
      /\ marker \in issued \cup {None} /\ issued \subseteq Ids
      /\ me.holds \in {"nothing", "op", "cleanup"}
  BY OfTab DEF Inv, Types
<1>2. CASE ~me.op.fresh
  <2>1. tab' = [tab EXCEPT ![t] = Return(me)]
    BY <1>2 DEF SendLogin
  <2> QED
    BY <1>1, <2>1, ReturnStep DEF SendLogin, history
<1>3. CASE me.op.fresh
  <2>1. tab' = [tab EXCEPT ![t] = [me EXCEPT !.op = op, !.holds = me.holds]]
    BY <1>1, <1>3 DEF SendLogin, TabType, OpType
  <2>2. /\ op \in OpType /\ op.pc = "request" /\ op.observed = marker
        /\ op.attempt = me.op.attempt /\ op.fresh = me.op.fresh /\ op.revoked = me.op.revoked
    BY <1>1 DEF OpType, LoginSteps
  <2>3. "request" \notin Locked \cup RestoreSteps /\ "waiting" \notin Locked
    BY DEF Locked, RestoreSteps
  <2>4. me.op.pc = "waiting"
    BY DEF SendLogin
  <2> HIDE DEF op, me
  <2>5. ASSUME NEW new, Moved(me, new, op, me.holds)
        PROVE  Fits(new, issued, Over) /\ (locks => Guarded(new, marker, meta))
    <3>1. Fits(new, issued, Over)
      BY <1>1, <2>2, <2>3, <2>4, <2>5 DEF Moved, Fits
    <3>2. locks => Guarded(new, marker, meta)
      BY <1>1, <2>2, <2>5 DEF Moved, Guarded
    <3> QED
      BY <3>1, <3>2
  <2>6. UNCHANGED <<locks, marker, meta, issued, loggedOut, expired, ended, faults>>
    BY DEF SendLogin, history
  <2>7. /\ tab' = [tab EXCEPT ![t] = [tab[t] EXCEPT !.op = op, !.holds = tab[t].holds]]
        /\ tab[t].holds \in {"nothing", "op", "cleanup"}
        /\ \A new : Moved(tab[t], new, op, tab[t].holds) =>
                Fits(new, issued, Over) /\ (locks => Guarded(new, marker, meta))
    BY <1>1, <2>1, <2>5 DEF me
  <2> QED
    BY <2>2, <2>6, <2>7, MoveStep
<1> QED
  BY <1>2, <1>3

LEMMA LoginRefusedKeeps ==
    ASSUME Inv, NEW t \in Tabs, LoginRefused(t)
    PROVE  Inv'
<1>1. Fits(tab[t], issued, Over) /\ (locks => Guarded(tab[t], marker, meta))
  BY OfTab
<1>2. tab' = [tab EXCEPT ![t] = Return(tab[t])]
  BY DEF LoginRefused
<1> QED
  BY <1>1, <1>2, ReturnStep DEF LoginRefused, history

LEMMA LoginAcceptedKeeps ==
    ASSUME Inv, NEW t \in Tabs, LoginAccepted(t)
    PROVE  Inv'
<1> DEFINE me == tab[t]
           op == [me.op EXCEPT !.pc = "lockLogin"]
<1>1. /\ Fits(me, issued, Over) /\ me \in TabType /\ me.op \in OpType
      /\ locks => Guarded(me, marker, meta)
      /\ me.holds \in {"nothing", "op", "cleanup"}
  BY OfTab
<1>2. CASE ~me.op.fresh
  <2>1. tab' = [tab EXCEPT ![t] = Return(me)]
    BY <1>2 DEF LoginAccepted
  <2> QED
    BY <1>1, <2>1, ReturnStep DEF LoginAccepted, history
<1>3. CASE me.op.fresh
  <2>1. tab' = [tab EXCEPT ![t] = [me EXCEPT !.op = op, !.holds = me.holds]]
    BY <1>1, <1>3 DEF LoginAccepted, TabType, OpType
  <2>2. /\ op \in OpType /\ op.pc = "lockLogin" /\ op.observed = me.op.observed
        /\ op.attempt = me.op.attempt /\ op.fresh = me.op.fresh /\ op.revoked = me.op.revoked
    BY <1>1 DEF OpType, LoginSteps
  <2>3. "lockLogin" \notin Locked \cup RestoreSteps /\ "request" \notin Locked
    BY DEF Locked, RestoreSteps
  <2>4. me.op.pc = "request"
    BY DEF LoginAccepted
  <2> HIDE DEF op, me
  <2>5. ASSUME NEW new, Moved(me, new, op, me.holds)
        PROVE  Fits(new, issued, Over) /\ (locks => Guarded(new, marker, meta))
    <3>1. Fits(new, issued, Over)
      BY <1>1, <2>2, <2>3, <2>4, <2>5 DEF Moved, Fits
    <3>2. locks => Guarded(new, marker, meta)
      BY <1>1, <2>2, <2>5 DEF Moved, Guarded
    <3> QED
      BY <3>1, <3>2
  <2>6. UNCHANGED <<locks, marker, meta, issued, loggedOut, expired, ended, faults>>
    BY DEF LoginAccepted, history
  <2>7. /\ tab' = [tab EXCEPT ![t] = [tab[t] EXCEPT !.op = op, !.holds = tab[t].holds]]
        /\ tab[t].holds \in {"nothing", "op", "cleanup"}
        /\ \A new : Moved(tab[t], new, op, tab[t].holds) =>
                Fits(new, issued, Over) /\ (locks => Guarded(new, marker, meta))
    BY <1>1, <2>1, <2>5 DEF me
  <2> QED
    BY <2>2, <2>6, <2>7, MoveStep
<1> QED
  BY <1>2, <1>3

LEMMA ScopeFailsKeeps ==
    ASSUME Inv, NEW t \in Tabs, ScopeFails(t)
    PROVE  Inv'
<1> DEFINE gone == Invalidate(tab[t])
<1>1. /\ Fits(tab[t], issued, Over) /\ tab[t] \in TabType
      /\ locks => Guarded(tab[t], marker, meta)
  BY OfTab
<1>2. /\ Fits(gone, issued, Over)
      /\ locks => Guarded(gone, marker, meta)
  BY <1>1, InvalidateFits
<1>3. gone.holds = tab[t].holds /\ gone.cleanups = tab[t].cleanups
  BY <1>1, InvalidateKeeps DEF Kept
<1>4. tab' = [tab EXCEPT ![t] = Return(gone)]
  BY DEF ScopeFails
<1> HIDE DEF gone
<1> QED
  BY <1>2, <1>3, <1>4, ReturnStep DEF ScopeFails

\* Where the steps of a login stand.
LEMMA Steps ==
    /\ "lockLogin" \notin Locked \cup RestoreSteps
    /\ \A pc \in {"preparing", "replacing", "publishing"} : pc \in Locked /\ pc \notin RestoreSteps
    /\ "failing" \notin Locked \cup RestoreSteps
    /\ "lockRestore" \notin Locked
    /\ \A pc \in RestoreSteps \ {"lockRestore"} : pc \in Locked
  BY DEF Locked, RestoreSteps

LEMMA LockLoginKeeps ==
    ASSUME Inv, NEW t \in Tabs, LockLogin(t)
    PROVE  Inv'
<1> DEFINE me == tab[t]
           op == [me.op EXCEPT !.pc = "preparing"]
<1>1. /\ Fits(me, issued, Over) /\ me \in TabType /\ me.op \in OpType
      /\ locks => Guarded(me, marker, meta)
      /\ me.op.pc = "lockLogin" /\ me.op.attempt = None
      /\ CanLock(t) /\ me.holds = "nothing"
  BY OfTab DEF LockLogin, CanLock, Fits
<1>2. CASE ~StillMine(t, me.op.observed)
  <2>1. tab' = [tab EXCEPT ![t] = Fail(tab[t], FALSE)]
    BY <1>2 DEF LockLogin
  <2> QED
    BY <1>1, <2>1, Steps, FailStep DEF LockLogin, history
<1>3. CASE StillMine(t, me.op.observed)
  <2>1. tab' = [tab EXCEPT ![t] = [me EXCEPT !.op = op, !.holds = "op"]]
    BY <1>1, <1>3 DEF LockLogin, TabType, OpType
  <2>2. /\ op \in OpType /\ op.pc = "preparing" /\ op.observed = me.op.observed
        /\ op.attempt = me.op.attempt /\ op.fresh = me.op.fresh /\ op.revoked = me.op.revoked
    BY <1>1 DEF OpType, LoginSteps
  <2> HIDE DEF op, me
  <2>5. ASSUME NEW new, Moved(me, new, op, "op")
        PROVE  Fits(new, issued, Over) /\ (locks => Guarded(new, marker, meta))
    <3>1. Fits(new, issued, Over)
      BY <1>1, <2>2, <2>5, Steps DEF Moved, Fits
    <3>2. locks => Guarded(new, marker, meta)
      BY <1>1, <2>2, <2>5 DEF Moved, Guarded
    <3> QED
      BY <3>1, <3>2
  <2> QED
    BY <1>1, <2>1, <2>2, <2>5, MoveStep DEF LockLogin, history, me
<1> QED
  BY <1>2, <1>3

LEMMA LosePreparationKeeps ==
    ASSUME Inv, NEW t \in Tabs, LosePreparation(t)
    PROVE  Inv'
<1>1. tab[t].op.attempt = None /\ tab[t].holds = "op"
  BY OfTab, Steps DEF LosePreparation, Fits
<1>2. tab' = [tab EXCEPT ![t] = Fail(tab[t], FALSE)]
  BY DEF LosePreparation
<1> QED
  BY <1>1, <1>2, Steps, FailStep DEF LosePreparation, history

LEMMA LosePublicationKeeps ==
    ASSUME Inv, NEW t \in Tabs, LosePublication(t)
    PROVE  Inv'
<1>1. tab[t].holds = "op"
  BY OfTab, Steps DEF LosePublication, Fits
<1>2. tab' = [tab EXCEPT ![t] = Fail(tab[t], FALSE)]
  BY DEF LosePublication
<1>3. tab[t].op.attempt \in ended' \cup {None}
  BY DEF LosePublication, Failed
<1> QED
  BY <1>1, <1>2, <1>3, Steps, FailStep DEF LosePublication

LEMMA StorageFailsKeeps ==
    ASSUME Inv, NEW t \in Tabs, StorageFails(t)
    PROVE  Inv'
<1>1. tab[t].holds = "op"
  BY OfTab, Steps DEF StorageFails, Fits
<1>2. tab' = [tab EXCEPT ![t] = Fail(tab[t], TRUE)]
  BY DEF StorageFails
<1>3. tab[t].op.attempt \in ended' \cup {None}
  BY DEF StorageFails, Failed
<1> QED
  BY <1>1, <1>2, <1>3, Steps, FailStep DEF StorageFails

\* While one tab has the lock, the others only wait: a change of marker or
\* record concerns the sessions they show and nothing else.
LEMMA OthersWait ==
    ASSUME Inv, locks, NEW t \in Tabs, tab[t].holds # "nothing" \/ CanLock(t),
           NEW u \in Tabs \ {t}, NEW m, NEW row,
           tab[u].session # None /\ tab[u].session = m => Owned(row, m)
    PROVE  Guarded(tab[u], m, row)
<1>1. tab[u].holds = "nothing"
  BY DEF Inv, OneHolder, CanLock
<1>2. Fits(tab[u], issued, Over)
  BY OfTab
<1>3. tab[u].op.pc \notin Locked
  BY <1>1, <1>2 DEF Fits
<1> QED
  BY <1>1, <1>3 DEF Guarded, Locked, RestoreSteps

LEMMA PublishMarkerKeeps ==
    ASSUME Inv, NEW t \in Tabs, PublishMarker(t)
    PROVE  Inv'
<1> DEFINE me == tab[t]
<1>1. PICK id \in Ids \ issued :
          /\ issued' = issued \cup {id}
          /\ marker' = id
          /\ tab' = [tab EXCEPT ![t] = [me EXCEPT !.session = None, !.own = FALSE,
                                                  !.op.attempt = id, !.op.pc = "replacing"]]
  BY DEF PublishMarker
<1>2. /\ Fits(me, issued, Over) /\ me \in TabType /\ me.op \in OpType
      /\ me.op.pc = "preparing" /\ me.holds = "op"
      /\ UNCHANGED <<locks, meta, expired, loggedOut, revokes, faults>>
      /\ ended' = ended \cup ({marker} \ {None})
  BY OfTab, Steps DEF PublishMarker, Fits
<1> DEFINE op == [me.op EXCEPT !.attempt = id, !.pc = "replacing"]
           new == [me EXCEPT !.session = None, !.own = FALSE, !.op = op]
<1>3. tab' = [tab EXCEPT ![t] = new]
  BY <1>1, <1>2 DEF TabType, OpType
<1>4. /\ op \in OpType /\ op.pc = "replacing" /\ op.attempt = id
      /\ op.observed = me.op.observed /\ op.fresh = me.op.fresh /\ op.revoked = me.op.revoked
  BY <1>2 DEF OpType, LoginSteps
<1> HIDE DEF op
<1>5. /\ new \in TabType /\ new.session = None /\ new.op = op
      /\ new.request = me.request /\ new.cleanups = me.cleanups /\ new.holds = me.holds
  BY <1>2, <1>4 DEF TabType
<1> HIDE DEF new, me
<1>6. /\ tab'[t] = new /\ tab' \in [Tabs -> TabType]
      /\ \A u \in Tabs \ {t} : tab'[u] = tab[u]
  BY <1>3, <1>5 DEF Inv, Types
<1>7. /\ issued \subseteq issued' /\ issued' \subseteq Ids /\ id # None
      /\ Over \subseteq Over' /\ (marker # None => marker \in Over')
  BY <1>1, <1>2, AuthAssumption DEF Inv, Types, Over
<1>8. Types'
  BY <1>1, <1>2, <1>6, <1>7 DEF Inv, Types
<1>9. Accounted'
  BY <1>1, <1>7, AuthAssumption DEF Inv, Accounted, Types
<1>10. Fits(new, issued', Over')
  <2>1. Fits(me, issued', Over')
    BY <1>2, <1>7, FitsMore
  <2>2. id \in issued'
    BY <1>1
  <2> QED
    BY <1>2, <1>4, <1>5, <1>7, <2>1, <2>2, Steps DEF Fits
<1>11. ASSUME locks, NEW u \in Tabs PROVE Guarded(tab'[u], marker', meta')
  <2>1. CASE u = t
    BY <1>1, <1>2, <1>4, <1>5, <1>6, <2>1 DEF Guarded
  <2>2. CASE u # t
    <3>1. tab[u].session \in issued \cup {None}
      BY OfTab
    <3>2. tab[u].session # None => tab[u].session # id
      BY <1>1, <3>1
    <3>3. Guarded(tab[u], id, meta)
      BY <1>2, <1>11, <2>2, <3>2, OthersWait DEF me
    <3> QED
      BY <1>1, <1>2, <1>6, <2>2, <3>3
  <2> QED
    BY <2>1, <2>2
<1>12. ASSUME locks, faults' = 0, NEW b \in loggedOut' PROVE Gone(b)' \/ Queued(b)'
  <2>1. Gone(b) \/ Queued(b)
    BY <1>2, <1>12 DEF Inv
  <2>2. b # id
    BY <1>1, <1>2 DEF Inv, Types
  <2>3. Gone(b) => Gone(b)'
    BY <1>1, <1>2, <2>2 DEF Gone, Owned
  <2>4. Queued(b) => Queued(b)'
    BY <1>5, <1>6 DEF Queued, me
  <2> QED
    BY <2>1, <2>3, <2>4
<1> QED
  BY <1>2, <1>5, <1>6, <1>7, <1>8, <1>9, <1>10, <1>11, <1>12, TabStep DEF me

\* A step of the tab that has the lock, or takes it, which moves marker or
\* record and leaves the lifecycles alone.
LEMMA LockedStep ==
    ASSUME Inv, NEW t \in Tabs, NEW new, tab' = [tab EXCEPT ![t] = new],
           tab[t].holds # "nothing" \/ CanLock(t),
           UNCHANGED <<locks, issued, loggedOut, expired, ended, faults>>,
           marker' \in {marker, None}, marker' # marker => marker \in Over,
           meta' \in MetaType \cup {None}, meta' # None => meta'.owner \in issued \cup {None},
           locks => \A u \in Tabs : tab[u].session # None /\ tab[u].session = marker'
                                        => Owned(meta', marker'),
           Fits(new, issued, Over),
           locks => Guarded(new, marker', meta'),
           new.holds \in {"nothing", tab[t].holds} \/ CanLock(t),
           locks => \A id \in loggedOut :
                      /\ Gone(id) => Gone(id)'
                      /\ (\E i \in DOMAIN tab[t].cleanups : tab[t].cleanups[i] = id) =>
                           Gone(id)' \/ \E i \in DOMAIN new.cleanups : new.cleanups[i] = id
    PROVE  Inv'
<1>1. /\ tab'[t] = new /\ \A u \in Tabs \ {t} : tab'[u] = tab[u]
      /\ tab' \in [Tabs -> TabType]
  BY DEF Inv, Types, Fits
<1>2. Over' = Over
  BY DEF Over
<1>3. Types'
  BY <1>1 DEF Inv, Types
<1>4. Accounted'
  BY <1>2 DEF Inv, Accounted
<1>5. ASSUME locks, NEW u \in Tabs PROVE Guarded(tab'[u], marker', meta')
  <2>1. CASE u = t
    BY <1>1, <1>5, <2>1
  <2>2. CASE u # t
    <3>1. PICK m, row : m = marker' /\ row = meta'
      OBVIOUS
    <3>2. Guarded(tab[u], m, row)
      BY <1>5, <2>2, <3>1, OthersWait
    <3> QED
      BY <1>1, <2>2, <3>1, <3>2
  <2> QED
    BY <2>1, <2>2
<1>6. ASSUME locks, faults' = 0, NEW id \in loggedOut' PROVE Gone(id)' \/ Queued(id)'
  <2>1. id \in loggedOut /\ (Gone(id) \/ Queued(id))
    BY <1>6 DEF Inv
  <2>2. CASE Gone(id)
    BY <1>6, <2>1, <2>2
  <2>3. CASE Queued(id)
    <3>1. PICK u \in Tabs : \E i \in DOMAIN tab[u].cleanups : tab[u].cleanups[i] = id
      BY <2>3 DEF Queued
    <3>2. CASE u = t
      BY <1>1, <1>6, <2>1, <3>1, <3>2 DEF Queued
    <3>3. CASE u # t
      BY <1>1, <3>1, <3>3 DEF Queued
    <3> QED
      BY <3>2, <3>3
  <2> QED
    BY <2>1, <2>2, <2>3
<1>7. Fits(tab'[t], issued', Over')
  BY <1>1, <1>2
<1> QED
  BY <1>1, <1>2, <1>3, <1>4, <1>5, <1>6, <1>7, TabStep

LEMMA ReplaceMetaKeeps ==
    ASSUME Inv, NEW t \in Tabs, ReplaceMeta(t)
    PROVE  Inv'
<1> DEFINE me == tab[t]
           op == [me.op EXCEPT !.pc = "publishing"]
           new == [me EXCEPT !.op = op]
<1>1. /\ Fits(me, issued, Over) /\ me \in TabType /\ me.op \in OpType
      /\ locks => Guarded(me, marker, meta)
      /\ me.op.pc = "replacing" /\ me.holds = "op" /\ me.op.attempt # None
      /\ me.op.attempt \in issued /\ issued \subseteq Ids
      /\ meta' = [owner |-> me.op.attempt, scoped |-> TRUE]
      /\ UNCHANGED <<locks, marker, issued, history>>
  BY OfTab, Steps DEF ReplaceMeta, Fits, Inv, Types
<1>2. tab' = [tab EXCEPT ![t] = new]
  BY <1>1 DEF ReplaceMeta, TabType, OpType
<1>3. /\ op \in OpType /\ op.pc = "publishing" /\ op.attempt = me.op.attempt
      /\ op.observed = me.op.observed /\ op.fresh = me.op.fresh /\ op.revoked = me.op.revoked
  BY <1>1 DEF OpType, LoginSteps
<1> HIDE DEF op
<1>4. Moved(me, new, op, me.holds)
  BY <1>1, <1>3, Moves
<1> HIDE DEF new
<1>5. Fits(new, issued, Over)
  BY <1>1, <1>3, <1>4, Steps DEF Fits, Moved
<1>6. meta' \in MetaType /\ meta' # None /\ meta'.owner = me.op.attempt
  <2>1. meta' \in MetaType
    BY <1>1 DEF MetaType
  <2>2. meta' # None
    BY <2>1, NoneAssumption
  <2>3. meta'.owner = me.op.attempt
    BY <1>1
  <2> QED
    BY <2>1, <2>2, <2>3
<1>7. locks => marker = me.op.attempt /\ Owned(meta', marker')
  BY <1>1, <1>6 DEF Guarded, Owned
<1>8. locks => Guarded(new, marker', meta')
  <2>1. new.op.pc = "publishing" /\ new.op.attempt = me.op.attempt /\ new.holds = "op"
    BY <1>1, <1>3, <1>4 DEF Moved
  <2> QED
    BY <1>1, <1>7, <2>1 DEF Guarded
<1>9. locks => \A id \in loggedOut : Gone(id) => Gone(id)'
  BY <1>1, <1>6, <1>7 DEF Gone, Owned
<1>10. new.holds = me.holds /\ new.cleanups = me.cleanups
  BY <1>4 DEF Moved
<1> HIDE DEF me
<1>11. UNCHANGED <<locks, marker, issued, loggedOut, expired, ended, faults>>
  BY <1>1 DEF history
<1> QED
  BY <1>1, <1>2, <1>5, <1>6, <1>7, <1>8, <1>9, <1>10, <1>11, LockedStep DEF me

LEMMA PublishSessionKeeps ==
    ASSUME Inv, NEW t \in Tabs, PublishSession(t)
    PROVE  Inv'
<1> DEFINE me == tab[t]
           back == Return(me)
           new == [back EXCEPT !.session = me.op.attempt, !.own = TRUE]
<1>1. /\ Fits(me, issued, Over) /\ me \in TabType /\ me.op \in OpType
      /\ locks => Guarded(me, marker, meta)
      /\ me.op.pc = "publishing" /\ me.holds = "op"
      /\ marker = me.op.attempt /\ me.op.attempt \in issued \cup {None}
      /\ issued \subseteq Ids
  BY OfTab, Steps DEF PublishSession, Fits, StillMine, Inv, Types
<1>2. /\ Fits(back, issued, Over) /\ Moved(me, back, NoOp, "nothing")
      /\ locks => Guarded(back, marker, meta)
  BY <1>1, ReturnFits
<1>3. tab' = [tab EXCEPT ![t] = new]
  BY DEF PublishSession
<1> HIDE DEF back
<1>4. /\ new \in TabType /\ new.session = me.op.attempt /\ new.op = back.op
      /\ new.request = back.request /\ new.cleanups = back.cleanups /\ new.holds = back.holds
  BY <1>1, <1>2 DEF TabType, Moved
<1> HIDE DEF new
<1>5. NoOp.pc = "idle" /\ NoOp.pc \notin RestoreSteps /\ back.op = NoOp
  BY <1>2 DEF NoOp, RestoreSteps, Moved
<1>6. Fits(new, issued, Over)
  BY <1>1, <1>2, <1>4, <1>5 DEF Fits
<1>7. locks => Guarded(new, marker, meta)
  BY <1>1, <1>2, <1>4 DEF Guarded
<1>8. new.holds = "nothing" /\ new.cleanups = me.cleanups
  BY <1>2, <1>4 DEF Moved
<1> QED
  BY <1>3, <1>6, <1>7, <1>8, SilentStep DEF PublishSession, history

LEMMA EndFailureKeeps ==
    ASSUME Inv, NEW t \in Tabs, EndFailure(t)
    PROVE  Inv'
<1> DEFINE me == IF tab[t].op.storage /\ tab[t].op.fresh THEN Invalidate(tab[t]) ELSE tab[t]
<1>1. /\ Fits(tab[t], issued, Over) /\ tab[t] \in TabType
      /\ locks => Guarded(tab[t], marker, meta)
  BY OfTab
<1>2. Fits(me, issued, Over) /\ (locks => Guarded(me, marker, meta))
  BY <1>1, InvalidateFits
<1>3. me.holds = tab[t].holds /\ me.cleanups = tab[t].cleanups
  BY <1>1, InvalidateKeeps DEF Kept
<1>4. tab' = [tab EXCEPT ![t] = Return(me)]
  BY DEF EndFailure
<1> HIDE DEF me
<1> QED
  BY <1>2, <1>3, <1>4, ReturnStep DEF EndFailure, history

-----------------------------------------------------------------------------
(* restoreSession keeps the invariant.                                     *)

LEMMA LockRestoreKeeps ==
    ASSUME Inv, NEW t \in Tabs, LockRestore(t)
    PROVE  Inv'
<1> DEFINE me == tab[t]
           op == [me.op EXCEPT !.pc = "reading", !.observed = marker]
<1>1. /\ Fits(me, issued, Over) /\ me \in TabType /\ me.op \in OpType
      /\ locks => Guarded(me, marker, meta)
      /\ marker \in issued \cup {None} /\ issued \subseteq Ids
      /\ me.op.pc = "lockRestore" /\ CanLock(t) /\ me.holds = "nothing"
  BY OfTab DEF LockRestore, CanLock, Inv, Types
<1>2. CASE ~me.op.fresh
  <2>1. tab' = [tab EXCEPT ![t] = Return(me)]
    BY <1>2 DEF LockRestore
  <2> QED
    BY <1>1, <2>1, ReturnStep DEF LockRestore, history
<1>3. CASE me.op.fresh
  <2>1. tab' = [tab EXCEPT ![t] = [me EXCEPT !.op = op, !.holds = "op"]]
    BY <1>1, <1>3 DEF LockRestore, TabType, OpType
  <2>2. /\ op \in OpType /\ op.pc = "reading" /\ op.observed = marker
        /\ op.attempt = me.op.attempt /\ op.fresh = me.op.fresh /\ op.revoked = me.op.revoked
    BY <1>1 DEF OpType, RestoreSteps
  <2>3. "lockRestore" \in RestoreSteps /\ "reading" \in RestoreSteps \ {"lockRestore"}
    BY DEF RestoreSteps
  <2> HIDE DEF op, me
  <2>4. ASSUME NEW new, Moved(me, new, op, "op")
        PROVE  Fits(new, issued, Over) /\ (locks => Guarded(new, marker, meta))
    <3>1. Fits(new, issued, Over)
      BY <1>1, <2>2, <2>3, <2>4, Steps DEF Moved, Fits
    <3>2. locks => Guarded(new, marker, meta)
      BY <1>1, <2>2, <2>4 DEF Moved, Guarded
    <3> QED
      BY <3>1, <3>2
  <2> QED
    BY <1>1, <2>1, <2>2, <2>4, MoveStep DEF LockRestore, history, me
<1> QED
  BY <1>2, <1>3

LEMMA ReadAbsentKeeps ==
    ASSUME Inv, NEW t \in Tabs, ReadAbsent(t)
    PROVE  Inv'
<1> DEFINE me == tab[t]
           left == IF meta = None THEN None ELSE meta.owner
           gone == Invalidate(me)
           op == [gone.op EXCEPT !.pc = "erasing", !.attempt = left]
           new == [gone EXCEPT !.op = op]
<1>1. /\ Fits(me, issued, Over) /\ me \in TabType
      /\ locks => Guarded(me, marker, meta)
      /\ me.op.pc = "reading" /\ me.holds = "op"
      /\ UNCHANGED <<locks, marker, meta, issued, history>>
  <2>1. "reading" \in RestoreSteps \ {"lockRestore"}
    BY DEF RestoreSteps
  <2> QED
    BY <2>1, OfTab, Steps DEF ReadAbsent, Fits
<1>2. CASE ~(me.op.fresh /\ marker = None)
  <2>1. tab' = [tab EXCEPT ![t] = Return(me)]
    BY <1>2 DEF ReadAbsent
  <2> QED
    BY <1>1, <2>1, ReturnStep DEF history
<1>3. CASE me.op.fresh /\ marker = None
  <2>1. left \in Over \cup {None} /\ Over \subseteq issued /\ issued \subseteq Ids
    BY <1>3 DEF Inv, Types, Accounted, Over
  <2>2. /\ Kept(me, gone) /\ gone.session = None /\ ~gone.op.fresh
        /\ Fits(gone, issued, Over)
        /\ locks => Guarded(gone, marker, meta)
        /\ gone \in TabType /\ gone.op \in OpType
    <3>1. Kept(me, gone) /\ gone.session = None /\ ~gone.op.fresh
      BY <1>1, InvalidateKeeps
    <3>2. Fits(gone, issued, Over) /\ (locks => Guarded(gone, marker, meta))
      BY <1>1, InvalidateFits
    <3>3. gone \in TabType /\ gone.op \in OpType
      BY <3>1 DEF Kept, TabType
    <3> QED
      BY <3>1, <3>2, <3>3
  <2>3. tab' = [tab EXCEPT ![t] = new]
    <3>1. tab' = [tab EXCEPT ![t] = Erase(me, left)]
      BY <1>3 DEF ReadAbsent
    <3>2. Erase(me, left) = new
      BY <2>2 DEF Erase, TabType, OpType
    <3> QED
      BY <3>1, <3>2
  <2> HIDE DEF left, gone
  <2>4. /\ op \in OpType /\ op.pc = "erasing" /\ op.attempt = left
        /\ op.observed = gone.op.observed /\ ~op.fresh
    BY <2>1, <2>2 DEF OpType, RestoreSteps
  <2> HIDE DEF op
  <2>5. Moved(gone, new, op, gone.holds)
    BY <2>2, <2>4, Moves
  <2> HIDE DEF new
  <2>6. "erasing" \in RestoreSteps \ {"lockRestore"}
    BY DEF RestoreSteps
  <2>7. Fits(new, issued, Over)
    BY <1>1, <2>1, <2>2, <2>4, <2>5, <2>6, Steps DEF Moved, Fits, Kept
  <2>8. locks => Guarded(new, marker, meta)
    BY <1>1, <1>3, <2>2, <2>4, <2>5 DEF Moved, Guarded, Kept
  <2>9. new.holds = me.holds /\ new.cleanups = me.cleanups
    BY <2>2, <2>5 DEF Moved, Kept
  <2> QED
    BY <1>1, <2>3, <2>7, <2>8, <2>9, SilentStep DEF history
<1> QED
  BY <1>2, <1>3

LEMMA EraseMetaKeeps ==
    ASSUME Inv, NEW t \in Tabs, EraseMeta(t)
    PROVE  Inv'
<1> DEFINE me == tab[t]
           new == Return(me)
<1>1. /\ Fits(me, issued, Over)
      /\ locks => Guarded(me, marker, meta)
      /\ me.op.pc = "erasing" /\ me.holds = "op"
      /\ meta' = MetaWithout(me.op.attempt)
      /\ UNCHANGED <<locks, marker, issued, history>>
      /\ tab' = [tab EXCEPT ![t] = new]
  <2>1. "erasing" \in RestoreSteps \ {"lockRestore"}
    BY DEF RestoreSteps
  <2> QED
    BY <2>1, OfTab, Steps DEF EraseMeta, Fits
<1>2. meta' \in {meta, None} /\ (marker # None /\ Owned(meta, marker) /\ locks => meta' = meta)
  BY <1>1 DEF MetaWithout, Guarded, Owned
<1>3. /\ Fits(new, issued, Over)
      /\ Moved(me, new, NoOp, "nothing")
      /\ \A m, row : Guarded(me, m, row) => Guarded(new, m, row)
  BY <1>1, ReturnFits
<1> HIDE DEF new
<1>4. /\ meta' \in MetaType \cup {None}
      /\ meta' # None => meta'.owner \in issued \cup {None}
  BY <1>2 DEF Inv, Types
<1>5. ASSUME locks, NEW u \in Tabs, tab[u].session # None, tab[u].session = marker'
      PROVE  Owned(meta', marker')
  <2>1. Owned(meta, marker) /\ marker # None
    BY <1>1, <1>5, OfTab DEF Guarded
  <2> QED
    BY <1>1, <1>2, <1>5, <2>1
<1>6. locks => Guarded(new, marker', meta')
  <2>1. new.op.pc = "idle" /\ new.holds = "nothing" /\ new.session = me.session
    BY <1>3 DEF Moved, NoOp
  <2> QED
    BY <1>5, <2>1 DEF Guarded
<1>7. \A id : Gone(id) => Gone(id)'
  BY <1>1, <1>2 DEF Gone, Owned
<1>8. new.holds = "nothing" /\ new.cleanups = me.cleanups
  BY <1>3 DEF Moved
<1> QED
  BY <1>1, <1>3, <1>4, <1>5, <1>6, <1>7, <1>8, LockedStep DEF history

LEMMA UpgradeKeeps ==
    ASSUME Inv, NEW t \in Tabs, Upgrade(t)
    PROVE  Inv'
<1> DEFINE me == tab[t]
           op == [me.op EXCEPT !.pc = "upgrading"]
<1>1. /\ Fits(me, issued, Over) /\ me \in TabType /\ me.op \in OpType
      /\ locks => Guarded(me, marker, meta)
      /\ me.op.pc = "encrypting" /\ me.holds \in {"nothing", "op", "cleanup"}
  BY OfTab DEF Upgrade
<1>2. CASE ~(StillMine(t, me.op.observed) /\ me.op.observed \notin expired)
  <2>1. tab' = [tab EXCEPT ![t] = Return(me)]
    BY <1>2 DEF Upgrade
  <2> QED
    BY <1>1, <2>1, ReturnStep DEF Upgrade, history
<1>3. CASE StillMine(t, me.op.observed) /\ me.op.observed \notin expired
  <2>1. tab' = [tab EXCEPT ![t] = [me EXCEPT !.op = op, !.holds = me.holds]]
    BY <1>1, <1>3 DEF Upgrade, TabType, OpType
  <2>2. /\ op \in OpType /\ op.pc = "upgrading" /\ op.observed = me.op.observed
        /\ op.attempt = me.op.attempt /\ op.fresh = me.op.fresh /\ op.revoked = me.op.revoked
    BY <1>1 DEF OpType, RestoreSteps
  <2>3. {"upgrading", "encrypting"} \subseteq RestoreSteps \ {"lockRestore"}
    BY DEF RestoreSteps
  <2> HIDE DEF op, me
  <2>4. ASSUME NEW new, Moved(me, new, op, me.holds)
        PROVE  Fits(new, issued, Over) /\ (locks => Guarded(new, marker, meta))
    <3>1. Fits(new, issued, Over)
      BY <1>1, <2>2, <2>3, <2>4, Steps DEF Moved, Fits
    <3>2. locks => Guarded(new, marker, meta)
      BY <1>1, <2>2, <2>4 DEF Moved, Guarded
    <3> QED
      BY <3>1, <3>2
  <2>5. UNCHANGED <<locks, marker, meta, issued, history>>
    BY DEF Upgrade
  <2>6. me.holds \in {"nothing", tab[t].holds}
    BY DEF me
  <2> QED
    BY <1>1, <2>1, <2>2, <2>4, <2>5, <2>6, MoveStep DEF history, me
<1> QED
  BY <1>2, <1>3

LEMMA WriteUpgradeKeeps ==
    ASSUME Inv, NEW t \in Tabs, WriteUpgrade(t)
    PROVE  Inv'
<1> DEFINE me == tab[t]
           op == [me.op EXCEPT !.pc = "restoring"]
           new == [me EXCEPT !.op = op]
<1>1. /\ Fits(me, issued, Over) /\ me \in TabType /\ me.op \in OpType
      /\ locks => Guarded(me, marker, meta)
      /\ me.op.pc = "upgrading" /\ me.holds = "op" /\ me.op.observed # None
      /\ me.op.observed \in issued /\ issued \subseteq Ids
      /\ meta' = [owner |-> me.op.observed, scoped |-> TRUE]
      /\ UNCHANGED <<locks, marker, issued, history>>
  <2>1. "upgrading" \in RestoreSteps \ {"lockRestore"}
    BY DEF RestoreSteps
  <2> QED
    BY <2>1, OfTab, Steps DEF WriteUpgrade, Fits, Inv, Types
<1>2. tab' = [tab EXCEPT ![t] = new]
  BY <1>1 DEF WriteUpgrade, TabType, OpType
<1>3. /\ op \in OpType /\ op.pc = "restoring" /\ op.attempt = me.op.attempt
      /\ op.observed = me.op.observed /\ op.fresh = me.op.fresh /\ op.revoked = me.op.revoked
  BY <1>1 DEF OpType, RestoreSteps
<1> HIDE DEF op
<1>4. Moved(me, new, op, me.holds)
  BY <1>1, <1>3, Moves
<1> HIDE DEF new
<1>5. Fits(new, issued, Over)
  <2>1. {"restoring", "upgrading"} \subseteq RestoreSteps \ {"lockRestore"}
    BY DEF RestoreSteps
  <2> QED
    BY <1>1, <1>3, <1>4, <2>1, Steps DEF Fits, Moved
<1>6. meta' \in MetaType /\ meta' # None /\ meta'.owner = me.op.observed
  <2>1. meta' \in MetaType
    BY <1>1 DEF MetaType
  <2>2. meta' # None
    BY <2>1, NoneAssumption
  <2>3. meta'.owner = me.op.observed
    BY <1>1
  <2> QED
    BY <2>1, <2>2, <2>3
<1>7. locks => marker = me.op.observed /\ Owned(meta', marker')
  BY <1>1, <1>6 DEF Guarded, Owned
<1>8. locks => Guarded(new, marker', meta')
  <2>1. new.op.pc = "restoring" /\ new.op.observed = me.op.observed /\ new.holds = "op"
    BY <1>1, <1>3, <1>4 DEF Moved
  <2> QED
    BY <1>1, <1>7, <2>1 DEF Guarded
<1>9. locks => \A id \in loggedOut : Gone(id) => Gone(id)'
  BY <1>1, <1>6, <1>7 DEF Gone, Owned
<1>10. new.holds = me.holds /\ new.cleanups = me.cleanups
  BY <1>4 DEF Moved
<1> HIDE DEF me
<1>11. UNCHANGED <<locks, marker, issued, loggedOut, expired, ended, faults>>
  BY <1>1 DEF history
<1> QED
  BY <1>1, <1>2, <1>5, <1>6, <1>7, <1>8, <1>9, <1>10, <1>11, LockedStep DEF me

LEMMA ReadPresentKeeps ==
    ASSUME Inv, NEW t \in Tabs, ReadPresent(t)
    PROVE  Inv'
<1> DEFINE me == tab[t]
           id == me.op.observed
           match == me.op.fresh /\ meta # None /\ meta.owner = id
<1>1. /\ Fits(me, issued, Over) /\ me \in TabType /\ me.op \in OpType
      /\ locks => Guarded(me, marker, meta)
      /\ me.op.pc = "reading" /\ me.holds = "op" /\ id # None /\ id \in issued
      /\ issued \subseteq Ids
      /\ UNCHANGED <<locks, meta, issued, history>>
  <2>1. "reading" \in RestoreSteps \ {"lockRestore"}
    BY DEF RestoreSteps
  <2> QED
    BY <2>1, OfTab, Steps DEF ReadPresent, Fits, Inv, Types
<1>2. CASE ~match
  <2>1. tab' = [tab EXCEPT ![t] = Return(me)] /\ marker' = marker
    BY <1>2 DEF ReadPresent
  <2> QED
    BY <1>1, <2>1, ReturnStep DEF history
<1>3. CASE match /\ id \notin expired
  <2> DEFINE pc == IF meta.scoped THEN "restoring" ELSE "encrypting"
             op == [me.op EXCEPT !.pc = pc]
  <2>1. tab' = [tab EXCEPT ![t] = [me EXCEPT !.op = op, !.holds = me.holds]] /\ marker' = marker
    BY <1>1, <1>3 DEF ReadPresent, TabType, OpType
  <2>2. /\ op \in OpType /\ op.pc = pc /\ op.observed = me.op.observed
        /\ op.attempt = me.op.attempt /\ op.fresh = me.op.fresh /\ op.revoked = me.op.revoked
    BY <1>1 DEF OpType, RestoreSteps
  <2>3. {"reading", pc} \subseteq RestoreSteps \ {"lockRestore"} /\ pc \in {"restoring", "encrypting"}
    BY DEF RestoreSteps
  <2>4. Owned(meta, id)
    BY <1>3 DEF Owned
  <2>5. me.holds \in {"nothing", tab[t].holds}
    OBVIOUS
  <2> HIDE DEF op, pc, me
  <2>6. ASSUME NEW new, Moved(me, new, op, me.holds)
        PROVE  Fits(new, issued, Over) /\ (locks => Guarded(new, marker, meta))
    <3>1. Fits(new, issued, Over)
      BY <1>1, <2>2, <2>3, <2>6, Steps DEF Moved, Fits
    <3>2. locks => Guarded(new, marker, meta)
      BY <1>1, <2>2, <2>3, <2>4, <2>6 DEF Moved, Guarded
    <3> QED
      BY <3>1, <3>2
  <2> QED
    BY <1>1, <2>1, <2>2, <2>5, <2>6, MoveStep DEF history, me
<1>4. CASE match /\ id \in expired
  <2> DEFINE gone == Invalidate(me)
             op == [gone.op EXCEPT !.pc = "erasing", !.attempt = id]
             new == [gone EXCEPT !.op = op]
  <2>1. marker' = MarkerWithout(id) /\ id \in Over
    BY <1>4 DEF ReadPresent, Over
  <2>2. /\ Kept(me, gone) /\ gone.session = None /\ ~gone.op.fresh
        /\ Fits(gone, issued, Over)
        /\ gone \in TabType /\ gone.op \in OpType
    <3>1. Kept(me, gone) /\ gone.session = None /\ ~gone.op.fresh
      BY <1>1, InvalidateKeeps
    <3>2. Fits(gone, issued, Over)
      BY <1>1, InvalidateFits
    <3>3. gone \in TabType /\ gone.op \in OpType
      BY <3>1 DEF Kept, TabType
    <3> QED
      BY <3>1, <3>2, <3>3
  <2>3. tab' = [tab EXCEPT ![t] = new]
    <3>1. tab' = [tab EXCEPT ![t] = Erase(me, id)]
      BY <1>4 DEF ReadPresent
    <3>2. Erase(me, id) = new
      BY <2>2 DEF Erase, TabType, OpType
    <3> QED
      BY <3>1, <3>2
  <2> HIDE DEF gone
  <2>4. /\ op \in OpType /\ op.pc = "erasing" /\ op.attempt = id
        /\ op.observed = gone.op.observed /\ ~op.fresh
    BY <1>1, <2>2 DEF OpType, RestoreSteps
  <2> HIDE DEF op
  <2>5. Moved(gone, new, op, gone.holds)
    BY <2>2, <2>4, Moves
  <2> HIDE DEF new
  <2>6. {"reading", "erasing"} \subseteq RestoreSteps \ {"lockRestore"}
    BY DEF RestoreSteps
  <2>7. Fits(new, issued, Over)
    BY <1>1, <2>1, <2>2, <2>4, <2>5, <2>6, Steps DEF Moved, Fits, Kept
  <2>8. marker' \in {marker, None} /\ id # marker' /\ (marker' # marker => marker = id)
    BY <1>1, <2>1 DEF MarkerWithout
  <2>9. new.holds = "op" /\ new.cleanups = me.cleanups /\ new.session = None
    BY <1>1, <2>2, <2>5 DEF Moved, Kept
  <2>10. locks => Guarded(new, marker', meta')
    BY <2>4, <2>5, <2>8, <2>9 DEF Moved, Guarded
  <2>11. ASSUME locks, NEW u \in Tabs, tab[u].session # None, tab[u].session = marker'
         PROVE  Owned(meta', marker')
    BY <1>1, <2>8, <2>11, OfTab DEF Guarded
  <2>12. ASSUME NEW b \in issued, Gone(b) PROVE Gone(b)'
    BY <1>1, <2>8, <2>12, AuthAssumption DEF Gone, Owned
  <2>13. /\ meta' \in MetaType \cup {None}
         /\ meta' # None => meta'.owner \in issued \cup {None}
         /\ loggedOut \subseteq issued
    BY <1>1 DEF Inv, Types
  <2> QED
    BY <1>1, <2>1, <2>3, <2>7, <2>8, <2>9, <2>10, <2>11, <2>12, <2>13, LockedStep DEF history
<1> QED
  BY <1>2, <1>3, <1>4

LEMMA PublishRestoredKeeps ==
    ASSUME Inv, NEW t \in Tabs, PublishRestored(t)
    PROVE  Inv'
<1> DEFINE me == tab[t]
           id == me.op.observed
           bumped == Bump(me)
           back == Return(bumped)
           new == [back EXCEPT !.session = id, !.own = TRUE]
<1>1. /\ Fits(me, issued, Over) /\ me \in TabType
      /\ locks => Guarded(me, marker, meta)
      /\ me.op.pc = "restoring" /\ me.holds = "op"
      /\ id \in issued \cup {None} /\ issued \subseteq Ids
      /\ UNCHANGED <<locks, marker, meta, issued, history>>
  <2>1. "restoring" \in RestoreSteps \ {"lockRestore"}
    BY DEF RestoreSteps
  <2> QED
    BY <2>1, OfTab, Steps DEF PublishRestored, Fits, Inv, Types
<1>2. CASE ~(StillMine(t, id) /\ id \notin expired)
  <2>1. tab' = [tab EXCEPT ![t] = Return(me)]
    BY <1>2 DEF PublishRestored
  <2> QED
    BY <1>1, <2>1, ReturnStep DEF history
<1>3. CASE StillMine(t, id) /\ id \notin expired
  <2>1. /\ Kept(me, bumped) /\ bumped.session = me.session /\ ~bumped.op.fresh
    BY <1>1, BumpKeeps
  <2>2. tab' = [tab EXCEPT ![t] = new]
    BY <1>3 DEF PublishRestored
  <2> HIDE DEF bumped
  <2>3. /\ Fits(bumped, issued, Over)
        /\ locks => Guarded(bumped, marker, meta)
    <3> HIDE DEF me
    <3> QED
      BY <1>1, <2>1, KeptFits
  <2>4. /\ Fits(back, issued, Over) /\ Moved(bumped, back, NoOp, "nothing")
        /\ locks => Guarded(back, marker, meta)
    BY <1>1, <2>1, <2>3, ReturnFits DEF Kept
  <2> HIDE DEF back
  <2>5. /\ new \in TabType /\ new.session = id /\ new.op = back.op
        /\ new.request = back.request /\ new.cleanups = back.cleanups /\ new.holds = back.holds
    BY <1>1, <2>4 DEF TabType, Moved
  <2> HIDE DEF new
  <2>6. NoOp.pc = "idle" /\ NoOp.pc \notin RestoreSteps /\ back.op = NoOp
    BY <2>4 DEF NoOp, RestoreSteps, Moved
  <2>7. Fits(new, issued, Over)
    BY <1>1, <2>4, <2>5, <2>6 DEF Fits
  <2>8. locks => Guarded(new, marker, meta)
    <3>1. locks => Owned(meta, id) /\ id = marker
      BY <1>1 DEF Guarded
    <3> QED
      BY <2>4, <2>5, <3>1 DEF Guarded
  <2>9. new.holds = "nothing" /\ new.cleanups = me.cleanups
    BY <2>1, <2>4, <2>5 DEF Moved, Kept
  <2> QED
    BY <1>1, <2>2, <2>7, <2>8, <2>9, SilentStep DEF history
<1> QED
  BY <1>2, <1>3

LEMMA RestoreFailsKeeps ==
    ASSUME Inv, NEW t \in Tabs, RestoreFails(t)
    PROVE  Inv'
<1>1. Fits(tab[t], issued, Over) /\ (locks => Guarded(tab[t], marker, meta))
  BY OfTab
<1>2. tab' = [tab EXCEPT ![t] = Return(tab[t])]
  BY DEF RestoreFails
<1> QED
  BY <1>1, <1>2, ReturnStep DEF RestoreFails

-----------------------------------------------------------------------------
(* Revocations, requests and crashes keep the invariant.                   *)

LEMMA Appended ==
    ASSUME NEW S, NEW old \in Seq(S), NEW id \in S
    PROVE  /\ \A i \in DOMAIN old : i \in DOMAIN Append(old, id) /\ Append(old, id)[i] = old[i]
           /\ \E i \in DOMAIN Append(old, id) : Append(old, id)[i] = id
<1>1. /\ DOMAIN old = 1 .. Len(old) /\ Len(old) \in Nat
      /\ DOMAIN Append(old, id) = 1 .. (Len(old) + 1)
      /\ Append(old, id)[Len(old) + 1] = id
      /\ \A i \in 1 .. Len(old) : Append(old, id)[i] = old[i]
  OBVIOUS
<1>2. Len(old) + 1 \in DOMAIN Append(old, id)
  BY <1>1
<1> QED
  BY <1>1, <1>2

\* A revocation clears the memory and queues the clean-up of the session.
LEMMA RevokeFits ==
    ASSUME NEW ids, NEW over, over \subseteq Ids, NEW me, Fits(me, ids, over),
           me.session \in over \cup {None}
    PROVE  /\ Fits(Revoke(me), ids, over)
           /\ \A m, row : Guarded(me, m, row) => Guarded(Revoke(me), m, row)
           /\ Revoke(me).holds = me.holds /\ Revoke(me).session = None
           /\ \A i \in DOMAIN me.cleanups :
                 /\ i \in DOMAIN Revoke(me).cleanups
                 /\ Revoke(me).cleanups[i] = me.cleanups[i]
           /\ \E i \in DOMAIN Revoke(me).cleanups : Revoke(me).cleanups[i] = me.session
<1> DEFINE gone == Invalidate(me)
<1>1. /\ Fits(gone, ids, over)
      /\ \A m, row : Guarded(me, m, row) => Guarded(gone, m, row)
  BY InvalidateFits
<1>2. gone.session = None /\ gone.holds = me.holds /\ gone.cleanups = me.cleanups
  BY InvalidateKeeps DEF Kept, Fits
<1>3. PICK id \in over \cup {None} : id = me.session
  OBVIOUS
<1>4. Revoke(me) = Queue(gone, id)
  BY <1>3 DEF Revoke
<1> HIDE DEF gone
<1>5. Fits(Queue(gone, id), ids, over)
  BY <1>1, QueueFits
<1>6. ASSUME NEW m, NEW row, Guarded(gone, m, row) PROVE Guarded(Queue(gone, id), m, row)
  BY <1>1, <1>6, QueueFits
<1>7. Queue(gone, id).holds = gone.holds /\ Queue(gone, id).session = gone.session
  BY <1>1 DEF Queue, Fits, TabType
<1>8. /\ \A i \in DOMAIN me.cleanups :
            i \in DOMAIN Queue(gone, id).cleanups
            /\ Queue(gone, id).cleanups[i] = me.cleanups[i]
      /\ \E i \in DOMAIN Queue(gone, id).cleanups : Queue(gone, id).cleanups[i] = id
  <2>1. Queue(gone, id).cleanups = Append(me.cleanups, id)
    BY <1>1, <1>2 DEF Queue, Fits, TabType
  <2>2. me.cleanups \in Seq(Ids \cup {None}) /\ id \in Ids \cup {None}
    BY DEF Fits, TabType
  <2> QED
    BY <2>1, <2>2, Appended
<1> QED
  BY <1>1, <1>2, <1>3, <1>4, <1>5, <1>6, <1>7, <1>8

\* The request of a tab begins or ends.
LEMMA RequestFits ==
    ASSUME NEW ids, NEW over, NEW me, Fits(me, ids, over),
           NEW request \in RequestType \cup {None}, request # None => request.token \in ids
    PROVE  /\ Fits([me EXCEPT !.request = request], ids, over)
           /\ \A m, row : Guarded(me, m, row) => Guarded([me EXCEPT !.request = request], m, row)
           /\ [me EXCEPT !.request = request].holds = me.holds
           /\ [me EXCEPT !.request = request].cleanups = me.cleanups
<1> DEFINE new == [me EXCEPT !.request = request]
<1>1. /\ new \in TabType /\ new.session = me.session /\ new.op = me.op
      /\ new.request = request /\ new.cleanups = me.cleanups /\ new.holds = me.holds
  BY DEF Fits, TabType
<1> HIDE DEF new
<1>2. Fits(new, ids, over)
  BY <1>1 DEF Fits
<1>3. \A m, row : Guarded(me, m, row) => Guarded(new, m, row)
  BY <1>1 DEF Guarded
<1> QED
  BY <1>1, <1>2, <1>3 DEF new

LEMMA RequestKeeps ==
    ASSUME Inv, NEW t \in Tabs, Request(t)
    PROVE  Inv'
<1> DEFINE request == [token |-> tab[t].session, fresh |-> TRUE]
           new == [tab[t] EXCEPT !.request = request]
<1>1. /\ Fits(tab[t], issued, Over)
      /\ locks => Guarded(tab[t], marker, meta)
  BY OfTab
<1>2. request \in RequestType /\ request.token \in issued
  BY OfTab DEF Request, RequestType, Inv, Types
<1> HIDE DEF request
<1>3. /\ Fits(new, issued, Over)
      /\ locks => Guarded(new, marker, meta)
      /\ new.holds = tab[t].holds /\ new.cleanups = tab[t].cleanups
  BY <1>1, <1>2, RequestFits
<1>4. tab' = [tab EXCEPT ![t] = new]
  BY DEF Request, request
<1> HIDE DEF new
<1> QED
  BY <1>3, <1>4, SilentStep DEF Request, history

LEMMA RequestServedKeeps ==
    ASSUME Inv, NEW t \in Tabs, RequestServed(t)
    PROVE  Inv'
<1> DEFINE new == [tab[t] EXCEPT !.request = None]
<1>1. /\ Fits(tab[t], issued, Over)
      /\ locks => Guarded(tab[t], marker, meta)
  BY OfTab
<1>2. /\ Fits(new, issued, Over)
      /\ locks => Guarded(new, marker, meta)
      /\ new.holds = tab[t].holds /\ new.cleanups = tab[t].cleanups
  BY <1>1, RequestFits
<1>3. tab' = [tab EXCEPT ![t] = new]
  BY DEF RequestServed
<1> HIDE DEF new
<1> QED
  BY <1>2, <1>3, SilentStep DEF RequestServed, history

LEMMA UnauthorizedKeeps ==
    ASSUME Inv, NEW t \in Tabs, Unauthorized(t)
    PROVE  Inv'
<1> DEFINE me == tab[t]
           revoked == IF AcceptsUnauthorized(me) THEN Revoke(me) ELSE me
           new == [revoked EXCEPT !.request = None]
<1>1. /\ Fits(me, issued, Over)
      /\ locks => Guarded(me, marker, meta)
      /\ me.request # None /\ me.request.token \in issued
      /\ issued \subseteq Ids /\ expired \subseteq issued
      /\ loggedOut \subseteq issued /\ ended \subseteq issued
      /\ ended' = ended \cup {me.request.token}
      /\ UNCHANGED <<locks, marker, meta, issued, expired, loggedOut, faults>>
  BY OfTab DEF Unauthorized, Inv, Types, Fits
<1>2. /\ Over \subseteq Over' /\ Over' \subseteq Ids /\ me.request.token \in Over'
  BY <1>1 DEF Over
<1>3. Fits(me, issued, Over')
  BY <1>1, <1>2, FitsMore
<1>4. /\ Fits(revoked, issued, Over')
      /\ locks => Guarded(revoked, marker, meta)
      /\ revoked.holds = me.holds
      /\ \A i \in DOMAIN me.cleanups :
            i \in DOMAIN revoked.cleanups /\ revoked.cleanups[i] = me.cleanups[i]
  <2>1. CASE AcceptsUnauthorized(me)
    <3>1. me.session \in Over' \cup {None}
      BY <1>2, <2>1 DEF AcceptsUnauthorized
    <3>2. revoked = Revoke(me)
      BY <2>1
    <3> HIDE DEF me, revoked
    <3> QED
      BY <1>1, <1>2, <1>3, <3>1, <3>2, RevokeFits
  <2>2. CASE ~AcceptsUnauthorized(me)
    BY <1>1, <1>3, <2>2
  <2> QED
    BY <2>1, <2>2
<1>5. tab' = [tab EXCEPT ![t] = new]
  BY DEF Unauthorized
<1> HIDE DEF revoked
<1>6. /\ Fits(new, issued, Over')
      /\ locks => Guarded(new, marker, meta)
      /\ new.holds = revoked.holds /\ new.cleanups = revoked.cleanups
  BY <1>4, RequestFits
<1> HIDE DEF new
<1> QED
  BY <1>1, <1>4, <1>5, <1>6, QuietStep

LEMMA RevokeExpiredKeeps ==
    ASSUME Inv, NEW t \in Tabs, RevokeExpired(t)
    PROVE  Inv'
<1> DEFINE new == Revoke(tab[t])
<1>1. /\ Fits(tab[t], issued, Over)
      /\ locks => Guarded(tab[t], marker, meta)
      /\ Over \subseteq Ids /\ tab[t].session \in Over
  BY OfTab DEF RevokeExpired, Over, Inv, Types
<1>2. /\ Fits(new, issued, Over)
      /\ locks => Guarded(new, marker, meta)
      /\ new.holds = tab[t].holds
      /\ \A i \in DOMAIN tab[t].cleanups :
            i \in DOMAIN new.cleanups /\ new.cleanups[i] = tab[t].cleanups[i]
  BY <1>1, RevokeFits
<1>3. tab' = [tab EXCEPT ![t] = new]
  BY DEF RevokeExpired
<1> HIDE DEF new
<1> QED
  BY <1>2, <1>3, SilentStep DEF RevokeExpired, history

LEMMA ExternalInvalidationKeeps ==
    ASSUME Inv, NEW t \in Tabs, ExternalInvalidation(t)
    PROVE  Inv'
<1> DEFINE new == Invalidate(tab[t])
<1>1. /\ Fits(tab[t], issued, Over) /\ tab[t] \in TabType
      /\ locks => Guarded(tab[t], marker, meta)
  BY OfTab
<1>2. /\ Fits(new, issued, Over)
      /\ locks => Guarded(new, marker, meta)
  BY <1>1, InvalidateFits
<1>3. new.holds = tab[t].holds /\ new.cleanups = tab[t].cleanups
  BY <1>1, InvalidateKeeps DEF Kept
<1>4. tab' = [tab EXCEPT ![t] = new]
  BY DEF ExternalInvalidation
<1> HIDE DEF new
<1> QED
  BY <1>2, <1>3, <1>4, SilentStep DEF ExternalInvalidation, history

LEMMA CrashKeeps ==
    ASSUME Inv, NEW t \in Tabs, Crash(t)
    PROVE  Inv'
<1>1. /\ NewTab.session = None /\ NewTab.request = None /\ NewTab.cleanups = <<>>
      /\ NewTab.holds = "nothing" /\ NewTab.op.pc = "lockRestore"
      /\ NewTab.op.observed = None /\ NewTab.op.attempt = None /\ ~NewTab.op.revoked
  BY DEF NewTab, NoOp
<1>2. Fits(NewTab, issued, Over)
  BY <1>1, NoOpType, Steps DEF Fits
<1>3. Guarded(NewTab, marker, meta)
  BY <1>1 DEF Guarded
<1>4. tab' = [tab EXCEPT ![t] = NewTab] /\ faults' = faults + 1 /\ faults' # faults
  BY DEF Crash, Inv, Types
<1> QED
  BY <1>1, <1>2, <1>3, <1>4, SilentStep DEF Crash

LEMMA LogoutKeeps ==
    ASSUME Inv, NEW t \in Tabs, Logout(t)
    PROVE  Inv'
<1> DEFINE me == tab[t]
           new == Revoke(me)
<1>1. /\ Fits(me, issued, Over)
      /\ locks => Guarded(me, marker, meta)
      /\ me.session \in issued \cup {None}
      /\ issued \subseteq Ids /\ expired \subseteq issued
      /\ loggedOut \subseteq issued /\ ended \subseteq issued
      /\ loggedOut' = loggedOut \cup ({me.session} \ {None})
      /\ UNCHANGED <<locks, marker, meta, issued, expired, ended, faults>>
      /\ tab' = [tab EXCEPT ![t] = new]
  BY OfTab DEF Logout, Inv, Types
<1>2. Over \subseteq Over' /\ Over' \subseteq Ids /\ me.session \in Over' \cup {None}
  BY <1>1 DEF Over
<1>3. Fits(me, issued, Over')
  BY <1>1, <1>2, FitsMore
<1>4. /\ Fits(new, issued, Over')
      /\ locks => Guarded(new, marker, meta)
      /\ new.holds = me.holds
      /\ \A i \in DOMAIN me.cleanups :
            i \in DOMAIN new.cleanups /\ new.cleanups[i] = me.cleanups[i]
      /\ \E i \in DOMAIN new.cleanups : new.cleanups[i] = me.session
  <2> HIDE DEF me
  <2> QED
    BY <1>1, <1>2, <1>3, RevokeFits
<1> HIDE DEF new
<1>5. /\ tab'[t] = new /\ \A u \in Tabs \ {t} : tab'[u] = tab[u]
      /\ tab' \in [Tabs -> TabType]
  BY <1>1, <1>4 DEF Inv, Types, Fits
<1>6. Types' /\ loggedOut' \subseteq issued'
  BY <1>1, <1>5 DEF Inv, Types
<1>7. Accounted'
  BY <1>1, <1>2 DEF Inv, Accounted
<1>8. locks => \A u \in Tabs : Guarded(tab'[u], marker', meta')
  BY <1>1, <1>4, <1>5 DEF Inv
<1>9. ASSUME locks, faults' = 0, NEW id \in loggedOut' PROVE Gone(id)' \/ Queued(id)'
  <2>1. CASE id \in loggedOut
    <3>1. Gone(id) \/ Queued(id)
      BY <1>1, <1>9, <2>1 DEF Inv
    <3>2. Gone(id) => Gone(id)'
      BY <1>1 DEF Gone, Owned
    <3>3. Queued(id) => Queued(id)'
      BY <1>4, <1>5 DEF Queued, me
    <3> QED
      BY <3>1, <3>2, <3>3
  <2>2. CASE id \notin loggedOut
    <3>1. id = me.session
      BY <1>1, <1>9, <2>2
    <3> QED
      BY <1>4, <1>5, <3>1 DEF Queued
  <2> QED
    BY <2>1, <2>2
<1> QED
  BY <1>1, <1>2, <1>4, <1>5, <1>6, <1>7, <1>8, <1>9, TabStep DEF me

-----------------------------------------------------------------------------
(* The queued clean-ups keep the invariant.                                *)

LEMMA BeginCleanupKeeps ==
    ASSUME Inv, NEW t \in Tabs, BeginCleanup(t)
    PROVE  Inv'
<1> DEFINE me == tab[t]
           new == [me EXCEPT !.holds = "cleanup"]
<1>1. /\ Fits(me, issued, Over) /\ me \in TabType /\ me.op \in OpType
      /\ locks => Guarded(me, marker, meta)
      /\ me.cleanups \in Seq(Ids \cup {None}) /\ me.cleanups # <<>>
      /\ CanLock(t) /\ me.holds = "nothing"
      /\ marker' = MarkerWithout(Head(me.cleanups))
      /\ UNCHANGED <<locks, meta, issued, history>>
      /\ tab' = [tab EXCEPT ![t] = new]
  BY OfTab DEF BeginCleanup, CanLock
<1>2. Head(me.cleanups) \in Over \cup {None}
  <2>1. 1 \in DOMAIN me.cleanups /\ Head(me.cleanups) = me.cleanups[1]
    BY <1>1
  <2> QED
    BY <1>1, <2>1 DEF Fits
<1>3. /\ marker' \in {marker, None} /\ (marker' # marker => marker \in Over)
      /\ Head(me.cleanups) = None \/ Head(me.cleanups) # marker'
  BY <1>1, <1>2, OfTab DEF MarkerWithout
<1>4. Moved(me, new, me.op, "cleanup")
  BY <1>1, Moves
<1> HIDE DEF new
<1>5. Fits(new, issued, Over)
  BY <1>1, <1>4 DEF Moved, Fits
<1>6. ASSUME locks, NEW u \in Tabs, tab[u].session # None, tab[u].session = marker'
      PROVE  Owned(meta', marker')
  BY <1>1, <1>3, <1>6, OfTab DEF Guarded
<1>7. locks => Guarded(new, marker', meta')
  <2>1. me.op.pc \notin Locked
    BY <1>1 DEF Fits
  <2>2. /\ new.op = me.op /\ new.session = me.session /\ new.cleanups = me.cleanups
    BY <1>4 DEF Moved
  <2> QED
    BY <1>3, <1>6, <2>1, <2>2 DEF Guarded, Locked, RestoreSteps
<1>8. ASSUME NEW id \in loggedOut, Gone(id) PROVE Gone(id)'
  BY <1>1, <1>3, <1>8, AuthAssumption DEF Gone, Owned, Inv, Types
<1>9. new.cleanups = me.cleanups
  BY <1>4 DEF Moved
<1>10. /\ meta' \in MetaType \cup {None}
       /\ meta' # None => meta'.owner \in issued \cup {None}
  BY <1>1 DEF Inv, Types
<1> QED
  BY <1>1, <1>3, <1>5, <1>6, <1>7, <1>8, <1>9, <1>10, LockedStep DEF history

LEMMA Removed ==
    ASSUME NEW S, NEW old \in Seq(S), old # <<>>
    PROVE  /\ Tail(old) \in Seq(S)
           /\ \A i \in DOMAIN Tail(old) : i + 1 \in DOMAIN old /\ Tail(old)[i] = old[i + 1]
           /\ \A i \in DOMAIN old :
                 old[i] = Head(old) \/ \E j \in DOMAIN Tail(old) : Tail(old)[j] = old[i]
<1>1. /\ Tail(old) \in Seq(S)
      /\ Len(old) \in Nat /\ Len(old) > 0 /\ Len(Tail(old)) = Len(old) - 1
      /\ DOMAIN old = 1 .. Len(old) /\ DOMAIN Tail(old) = 1 .. (Len(old) - 1)
      /\ Head(old) = old[1]
  OBVIOUS
<1>2. \A i \in 1 .. (Len(old) - 1) : Tail(old)[i] = old[i + 1]
  BY <1>1
<1>3. \A i \in DOMAIN Tail(old) : i + 1 \in DOMAIN old /\ Tail(old)[i] = old[i + 1]
  BY <1>1, <1>2
<1>4. ASSUME NEW i \in DOMAIN old, i # 1
      PROVE  \E j \in DOMAIN Tail(old) : Tail(old)[j] = old[i]
  <2>1. i - 1 \in DOMAIN Tail(old) /\ i = (i - 1) + 1
    BY <1>1, <1>4
  <2>2. Tail(old)[i - 1] = old[i]
    BY <1>3, <2>1
  <2> QED
    BY <2>1, <2>2
<1> QED
  BY <1>1, <1>3, <1>4

\* A clean-up leaves the queue, done or not.
LEMMA CleanedFits ==
    ASSUME NEW ids, NEW over, NEW me, Fits(me, ids, over), me.holds = "cleanup"
    PROVE  /\ Fits(Cleaned(me), ids, over)
           /\ \A m, row : Guarded(me, m, row) => Guarded(Cleaned(me), m, row)
           /\ Cleaned(me).holds = "nothing" /\ Cleaned(me).session = me.session
<1> DEFINE wait == IF me.op.wait = 0 THEN 0 ELSE me.op.wait - 1
           op == [me.op EXCEPT !.wait = wait]
           rest == Tail(me.cleanups)
           new == [me EXCEPT !.cleanups = rest, !.holds = "nothing", !.op = op]
<1>1. /\ me \in TabType /\ me.op \in OpType /\ me.cleanups \in Seq(Ids \cup {None})
      /\ me.cleanups # <<>>
  BY DEF Fits, TabType
<1>2. Cleaned(me) = new
  BY <1>1 DEF Cleaned, TabType, OpType
<1>3. /\ op \in OpType /\ op.pc = me.op.pc /\ op.observed = me.op.observed
      /\ op.attempt = me.op.attempt /\ op.fresh = me.op.fresh /\ op.revoked = me.op.revoked
  <2>1. me.op.wait \in Nat
    BY <1>1 DEF OpType
  <2>2. wait \in Nat
    BY <2>1
  <2> HIDE DEF wait
  <2> QED
    BY <1>1, <2>2 DEF OpType
<1> HIDE DEF op
<1>4. /\ rest \in Seq(Ids \cup {None})
      /\ \A i \in DOMAIN rest : i + 1 \in DOMAIN me.cleanups /\ rest[i] = me.cleanups[i + 1]
  BY <1>1, Removed
<1>5. /\ new \in TabType /\ new.session = me.session /\ new.op = op
      /\ new.request = me.request /\ new.cleanups = rest /\ new.holds = "nothing"
  <2> HIDE DEF rest
  <2> QED
    BY <1>1, <1>3, <1>4 DEF TabType
<1> HIDE DEF new, rest
<1>6. \A i \in DOMAIN rest : rest[i] \in over \cup {None}
  BY <1>4 DEF Fits
<1>7. Fits(new, ids, over)
  BY <1>3, <1>5, <1>6 DEF Fits
<1>8. \A m, row : Guarded(me, m, row) => Guarded(new, m, row)
  BY <1>3, <1>5 DEF Guarded
<1> QED
  BY <1>2, <1>4, <1>5, <1>7, <1>8

LEMMA EndCleanupKeeps ==
    ASSUME Inv, NEW t \in Tabs, EndCleanup(t)
    PROVE  Inv'
<1> DEFINE me == tab[t]
           new == Cleaned(me)
<1> PICK id : id = Head(me.cleanups)
  OBVIOUS
<1>1. /\ Fits(me, issued, Over)
      /\ locks => Guarded(me, marker, meta)
      /\ me.holds = "cleanup"
      /\ meta' = MetaWithout(id)
      /\ UNCHANGED <<locks, marker, issued, history>>
      /\ tab' = [tab EXCEPT ![t] = new]
  BY OfTab DEF EndCleanup
<1>2. meta' \in {meta, None} /\ (marker # None /\ Owned(meta, marker) /\ locks => meta' = meta)
  BY <1>1 DEF MetaWithout, Guarded, Owned
<1>3. /\ Fits(new, issued, Over)
      /\ locks => Guarded(new, marker, meta)
      /\ new.holds = "nothing" /\ new.session = me.session
      /\ \A i \in DOMAIN me.cleanups :
             \/ me.cleanups[i] = id
             \/ \E j \in DOMAIN new.cleanups : new.cleanups[j] = me.cleanups[i]
  <2> HIDE DEF me
  <2>1. Fits(new, issued, Over)
    BY <1>1, CleanedFits
  <2>2. locks => Guarded(new, marker, meta)
    BY <1>1, CleanedFits
  <2>3. new.holds = "nothing" /\ new.session = me.session
    BY <1>1 DEF new, Cleaned, Fits, TabType
  <2>4. /\ me.cleanups \in Seq(Ids \cup {None}) /\ me.cleanups # <<>>
        /\ new.cleanups = Tail(me.cleanups)
    BY <1>1 DEF new, Cleaned, Fits, TabType
  <2>5. \A i \in DOMAIN me.cleanups :
             \/ me.cleanups[i] = id
             \/ \E j \in DOMAIN new.cleanups : new.cleanups[j] = me.cleanups[i]
    BY <2>4, Removed
  <2> QED
    BY <2>1, <2>2, <2>3, <2>5
<1> HIDE DEF new
<1>4. /\ meta' \in MetaType \cup {None}
      /\ meta' # None => meta'.owner \in issued \cup {None}
  BY <1>2 DEF Inv, Types
<1>5. ASSUME locks, NEW u \in Tabs, tab[u].session # None, tab[u].session = marker'
      PROVE  Owned(meta', marker')
  <2>1. Owned(meta, marker) /\ marker # None
    BY <1>1, <1>5, OfTab DEF Guarded
  <2> QED
    BY <1>1, <1>2, <1>5, <2>1
<1>6. locks => Guarded(new, marker', meta')
  <2>1. new.op.pc \notin Locked
    BY <1>3 DEF Fits
  <2> QED
    BY <1>3, <1>5, <2>1 DEF Guarded, Locked, RestoreSteps
<1>7. \A b : Gone(b) => Gone(b)'
  BY <1>1, <1>2 DEF Gone, Owned
<1>8. locks /\ id # None => Gone(id)'
  BY <1>1 DEF Guarded, Gone, Owned, MetaWithout
<1>9. None \notin loggedOut
  BY AuthAssumption DEF Inv, Types
<1>10. ASSUME locks, NEW b \in loggedOut, NEW i \in DOMAIN me.cleanups, me.cleanups[i] = b
       PROVE  Gone(b)' \/ \E j \in DOMAIN new.cleanups : new.cleanups[j] = b
  <2>1. CASE b = id
    BY <1>8, <1>9, <1>10, <2>1
  <2>2. CASE b # id
    BY <1>3, <1>10, <2>2
  <2> QED
    BY <2>1, <2>2
<1> QED
  BY <1>1, <1>3, <1>4, <1>5, <1>6, <1>7, <1>10, LockedStep DEF history

LEMMA CleanupFailsKeeps ==
    ASSUME Inv, NEW t \in Tabs, CleanupFails(t)
    PROVE  Inv'
<1> DEFINE new == Cleaned(tab[t])
<1>1. /\ Fits(tab[t], issued, Over)
      /\ locks => Guarded(tab[t], marker, meta)
      /\ tab[t].holds = "cleanup"
  BY OfTab DEF CleanupFails
<1>2. /\ Fits(new, issued, Over)
      /\ locks => Guarded(new, marker, meta)
      /\ new.holds = "nothing"
  BY <1>1, CleanedFits
<1>3. tab' = [tab EXCEPT ![t] = new] /\ faults' = faults + 1 /\ faults' # faults
  BY DEF CleanupFails, Inv, Types
<1> HIDE DEF new
<1> QED
  BY <1>2, <1>3, SilentStep DEF CleanupFails

LEMMA ExpireKeeps ==
    ASSUME Inv, NEW id \in Ids, Expire(id)
    PROVE  Inv'
<1>1. /\ UNCHANGED <<locks, marker, meta, tab, issued, loggedOut, ended, faults>>
      /\ expired' = expired \cup {id} /\ id \in issued
  BY DEF Expire
<1>2. Over \subseteq Over'
  BY <1>1 DEF Over
<1>3. Types' /\ Accounted' /\ OneHolder'
  BY <1>1, <1>2 DEF Inv, Types, Accounted, OneHolder
<1>4. \A t \in Tabs : Fits(tab[t], issued, Over')
  BY <1>2, FitsMore DEF Inv
<1>5. \A b : (Gone(b) <=> Gone(b)') /\ (Queued(b) <=> Queued(b)')
  BY <1>1 DEF Gone, Queued
<1> QED
  BY <1>1, <1>3, <1>4, <1>5 DEF Inv

LEMMA Rests ==
    ASSUME Inv, UNCHANGED vars
    PROVE  Inv'
<1>1. UNCHANGED <<locks, marker, meta, tab, issued, expired, loggedOut, ended, faults>>
  BY DEF vars
<1> QED
  BY <1>1 DEF Inv, Types, Accounted, OneHolder, Gone, Queued, Over

LEMMA InitInv == Init => Inv
<1> SUFFICES ASSUME Init PROVE Inv
  OBVIOUS
<1>1. /\ NewTab \in TabType
      /\ NewTab.session = None /\ NewTab.request = None /\ NewTab.cleanups = <<>>
      /\ NewTab.holds = "nothing" /\ NewTab.op.pc = "lockRestore"
      /\ NewTab.op.observed = None /\ NewTab.op.attempt = None /\ ~NewTab.op.revoked
  BY NoOpType DEF NewTab, NoOp
<1>2. Fits(NewTab, issued, Over) /\ Guarded(NewTab, marker, meta)
  BY <1>1, Steps DEF Fits, Guarded
<1>3. tab = [t \in Tabs |-> NewTab]
  BY DEF Init
<1> HIDE DEF NewTab
<1>4. meta \in MetaType \cup {None} /\ (meta # None => meta.owner \in {First, None})
  <2>1. CASE meta \in [owner : {First}, scoped : BOOLEAN]
    BY <2>1, AuthAssumption DEF MetaType
  <2>2. CASE meta = [owner |-> None, scoped |-> FALSE]
    BY <2>2 DEF MetaType
  <2> QED
    BY <2>1, <2>2 DEF Init
<1>5. Types
  BY <1>1, <1>3, <1>4, AuthAssumption DEF Init, Types
<1>6. Accounted
  BY DEF Init, Accounted, Over
<1> QED
  BY <1>1, <1>2, <1>3, <1>5, <1>6 DEF Inv, OneHolder, Init

-----------------------------------------------------------------------------
(* The theorems.                                                           *)

LEMMA InvStep == Inv /\ [Next]_vars => Inv'
<1> SUFFICES ASSUME Inv, [Next]_vars PROVE Inv'
  OBVIOUS
<1>1. CASE \E t \in Tabs : StartLogin(t)
  BY <1>1, StartLoginKeeps
<1>2. CASE \E t \in Tabs : SendLogin(t)
  BY <1>2, SendLoginKeeps
<1>3. CASE \E t \in Tabs : LoginAccepted(t)
  BY <1>3, LoginAcceptedKeeps
<1>4. CASE \E t \in Tabs : LoginRefused(t)
  BY <1>4, LoginRefusedKeeps
<1>5. CASE \E t \in Tabs : LockLogin(t)
  BY <1>5, LockLoginKeeps
<1>6. CASE \E t \in Tabs : PublishMarker(t)
  BY <1>6, PublishMarkerKeeps
<1>7. CASE \E t \in Tabs : LosePreparation(t)
  BY <1>7, LosePreparationKeeps
<1>8. CASE \E t \in Tabs : ReplaceMeta(t)
  BY <1>8, ReplaceMetaKeeps
<1>9. CASE \E t \in Tabs : PublishSession(t)
  BY <1>9, PublishSessionKeeps
<1>10. CASE \E t \in Tabs : LosePublication(t)
  BY <1>10, LosePublicationKeeps
<1>11. CASE \E t \in Tabs : EndFailure(t)
  BY <1>11, EndFailureKeeps
<1>12. CASE \E t \in Tabs : LockRestore(t)
  BY <1>12, LockRestoreKeeps
<1>13. CASE \E t \in Tabs : ReadAbsent(t)
  BY <1>13, ReadAbsentKeeps
<1>14. CASE \E t \in Tabs : ReadPresent(t)
  BY <1>14, ReadPresentKeeps
<1>15. CASE \E t \in Tabs : EraseMeta(t)
  BY <1>15, EraseMetaKeeps
<1>16. CASE \E t \in Tabs : Upgrade(t)
  BY <1>16, UpgradeKeeps
<1>17. CASE \E t \in Tabs : WriteUpgrade(t)
  BY <1>17, WriteUpgradeKeeps
<1>18. CASE \E t \in Tabs : PublishRestored(t)
  BY <1>18, PublishRestoredKeeps
<1>19. CASE \E t \in Tabs : ScopeFails(t)
  BY <1>19, ScopeFailsKeeps
<1>20. CASE \E t \in Tabs : StorageFails(t)
  BY <1>20, StorageFailsKeeps
<1>21. CASE \E t \in Tabs : RestoreFails(t)
  BY <1>21, RestoreFailsKeeps
<1>22. CASE \E t \in Tabs : Logout(t)
  BY <1>22, LogoutKeeps
<1>23. CASE \E t \in Tabs : RevokeExpired(t)
  BY <1>23, RevokeExpiredKeeps
<1>24. CASE \E t \in Tabs : ExternalInvalidation(t)
  BY <1>24, ExternalInvalidationKeeps
<1>25. CASE \E t \in Tabs : Request(t)
  BY <1>25, RequestKeeps
<1>26. CASE \E t \in Tabs : RequestServed(t)
  BY <1>26, RequestServedKeeps
<1>27. CASE \E t \in Tabs : Unauthorized(t)
  BY <1>27, UnauthorizedKeeps
<1>28. CASE \E t \in Tabs : BeginCleanup(t)
  BY <1>28, BeginCleanupKeeps
<1>29. CASE \E t \in Tabs : EndCleanup(t)
  BY <1>29, EndCleanupKeeps
<1>30. CASE \E t \in Tabs : CleanupFails(t)
  BY <1>30, CleanupFailsKeeps
<1>31. CASE \E t \in Tabs : Crash(t)
  BY <1>31, CrashKeeps
<1>32. CASE \E id \in Ids : Expire(id)
  BY <1>32, ExpireKeeps
<1>33. CASE Resting \/ UNCHANGED vars
  BY <1>33, Rests DEF Resting
<1> QED
  BY <1>1, <1>2, <1>3, <1>4, <1>5, <1>6, <1>7, <1>8, <1>9, <1>10, <1>11, <1>12, <1>13, <1>14, <1>15, <1>16, <1>17, <1>18, <1>19, <1>20, <1>21, <1>22, <1>23, <1>24, <1>25, <1>26, <1>27, <1>28, <1>29, <1>30, <1>31, <1>32, <1>33
     DEF Next, Continue, Cleanup

\* The invariant holds of every reachable state.
THEOREM Inductive == Spec => []Inv
  BY InitInv, InvStep, PTL DEF Spec

LEMMA IssuedGrows == ASSUME [Next]_vars PROVE issued \subseteq issued'
<1>1. CASE \E t \in Tabs : StartLogin(t) \/ SendLogin(t) \/ LoginAccepted(t) \/ LoginRefused(t) \/ LockLogin(t)
  BY <1>1 DEF StartLogin, SendLogin, LoginAccepted, LoginRefused, LockLogin, history
<1>2. CASE \E t \in Tabs : PublishMarker(t) \/ LosePreparation(t) \/ ReplaceMeta(t) \/ PublishSession(t) \/ LosePublication(t)
  BY <1>2 DEF PublishMarker, LosePreparation, ReplaceMeta, PublishSession, LosePublication, history
<1>3. CASE \E t \in Tabs : EndFailure(t) \/ LockRestore(t) \/ ReadAbsent(t) \/ ReadPresent(t) \/ EraseMeta(t)
  BY <1>3 DEF EndFailure, LockRestore, ReadAbsent, ReadPresent, EraseMeta, history
<1>4. CASE \E t \in Tabs : Upgrade(t) \/ WriteUpgrade(t) \/ PublishRestored(t) \/ ScopeFails(t) \/ StorageFails(t)
  BY <1>4 DEF Upgrade, WriteUpgrade, PublishRestored, ScopeFails, StorageFails, history
<1>5. CASE \E t \in Tabs : RestoreFails(t) \/ Logout(t) \/ RevokeExpired(t) \/ ExternalInvalidation(t) \/ Request(t)
  BY <1>5 DEF RestoreFails, Logout, RevokeExpired, ExternalInvalidation, Request, history
<1>6. CASE \E t \in Tabs : RequestServed(t) \/ Unauthorized(t) \/ BeginCleanup(t) \/ EndCleanup(t) \/ CleanupFails(t)
  BY <1>6 DEF RequestServed, Unauthorized, BeginCleanup, EndCleanup, CleanupFails, history
<1>7. CASE \E t \in Tabs : Crash(t)
  BY <1>7 DEF Crash, history
<1>8. CASE (\E id \in Ids : Expire(id)) \/ Resting \/ UNCHANGED vars
  BY <1>8 DEF Expire, Resting, vars
<1> QED
  BY <1>1, <1>2, <1>3, <1>4, <1>5, <1>6, <1>7, <1>8 DEF Next, Continue, Cleanup

\* The steps that remove the record.
LEMMA RecordSteps ==
    ASSUME Inv, [Next]_vars, meta' # meta, meta' = None
    PROVE  \E t \in Tabs : EraseMeta(t) \/ EndCleanup(t)
<1> USE NoneAssumption
<1>1. CASE \E t \in Tabs : StartLogin(t) \/ SendLogin(t) \/ LoginAccepted(t) \/ LoginRefused(t) \/ LockLogin(t)
  BY <1>1 DEF StartLogin, SendLogin, LoginAccepted, LoginRefused, LockLogin, history
<1>2. CASE \E t \in Tabs : PublishMarker(t) \/ LosePreparation(t) \/ PublishSession(t) \/ LosePublication(t)
  BY <1>2 DEF PublishMarker, LosePreparation, PublishSession, LosePublication, history
<1>3. CASE \E t \in Tabs : EndFailure(t) \/ LockRestore(t) \/ ReadAbsent(t) \/ ReadPresent(t)
  BY <1>3 DEF EndFailure, LockRestore, ReadAbsent, ReadPresent, history
<1>4. CASE \E t \in Tabs : Upgrade(t) \/ PublishRestored(t) \/ ScopeFails(t) \/ StorageFails(t)
  BY <1>4 DEF Upgrade, PublishRestored, ScopeFails, StorageFails, history
<1>5. CASE \E t \in Tabs : RestoreFails(t) \/ Logout(t) \/ RevokeExpired(t) \/ ExternalInvalidation(t) \/ Request(t)
  BY <1>5 DEF RestoreFails, Logout, RevokeExpired, ExternalInvalidation, Request, history
<1>6. CASE \E t \in Tabs : RequestServed(t) \/ Unauthorized(t) \/ BeginCleanup(t) \/ CleanupFails(t)
  BY <1>6 DEF RequestServed, Unauthorized, BeginCleanup, CleanupFails, history
<1>7. CASE \E t \in Tabs : Crash(t)
  BY <1>7 DEF Crash, history
<1>8. CASE (\E id \in Ids : Expire(id)) \/ Resting \/ UNCHANGED vars
  BY <1>8 DEF Expire, Resting, vars
<1>9. CASE \E t \in Tabs : ReplaceMeta(t) \/ WriteUpgrade(t)
  <2>1. PICK t \in Tabs : ReplaceMeta(t) \/ WriteUpgrade(t)
    BY <1>9
  <2>2. CASE ReplaceMeta(t)
    <3>1. meta' = [owner |-> tab[t].op.attempt, scoped |-> TRUE] /\ tab[t].op.attempt \in Ids \cup {None}
      BY <2>2, OfTab DEF ReplaceMeta, OpType
    <3>2. meta' \in MetaType
      BY <3>1 DEF MetaType
    <3> QED
      BY <3>2
  <2>3. CASE WriteUpgrade(t)
    <3>1. meta' = [owner |-> tab[t].op.observed, scoped |-> TRUE] /\ tab[t].op.observed \in Ids \cup {None}
      BY <2>3, OfTab DEF WriteUpgrade, OpType
    <3>2. meta' \in MetaType
      BY <3>1 DEF MetaType
    <3> QED
      BY <3>2
  <2> QED
    BY <2>1, <2>2, <2>3
<1>10. CASE \E t \in Tabs : EraseMeta(t) \/ EndCleanup(t)
  BY <1>10
<1> QED
  BY <1>1, <1>2, <1>3, <1>4, <1>5, <1>6, <1>7, <1>8, <1>9, <1>10 DEF Next, Continue, Cleanup

\* Every variable has its type, and with Web Locks at most one tab is in a
\* critical section: withAuthSessionLock excludes the others.
THEOREM TypeCorrect == Spec => []TypeOK
<1>1. Inv => TypeOK
  <2> SUFFICES ASSUME Inv PROVE TypeOK
    OBVIOUS
  <2>1. marker \in Ids \cup {None} /\ meta \in MetaType \cup {None} /\ tab \in [Tabs -> TabType]
    BY DEF Inv, Types
  <2>2. ASSUME locks PROVE Cardinality({t \in Tabs : tab[t].holds # "nothing"}) =< 1
    <3> DEFINE holders == {t \in Tabs : tab[t].holds # "nothing"}
    <3>1. CASE holders = {}
      BY <3>1, FS_EmptySet
    <3>2. CASE holders # {}
      <4>1. PICK t : t \in holders
        BY <3>2
      <4>2. holders = {t}
        BY <2>2, <4>1 DEF Inv, OneHolder
      <4>3. Cardinality(holders) = 1
        <5> HIDE DEF holders
        <5> QED
          BY <4>2, FS_Singleton
      <4> QED
        BY <4>3
    <3> QED
      BY <3>1, <3>2
  <2> QED
    BY <2>1, <2>2 DEF TypeOK
<1> QED
  BY Inductive, <1>1, PTL

\* With Web Locks, the session a tab works under is always in the record that a
\* reopened tab restores from.
THEOREM SessionSurvivesItsTab == Spec => []LoggedInIsRestorable
<1>1. Inv => LoggedInIsRestorable
  BY DEF Inv, Guarded, Owned, LoggedInIsRestorable, Current
<1> QED
  BY Inductive, <1>1, PTL

\* With Web Locks and no fault, a lifecycle that was logged out of has neither
\* marker nor record once no clean-up is queued.
THEOREM LogoutLeavesNothing == Spec => []LoggedOutIsErased
<1>1. Inv => LoggedOutIsErased
  <2> SUFFICES ASSUME Inv, locks, faults = 0, \A t \in Tabs : tab[t].cleanups = <<>>,
                      NEW id \in loggedOut
               PROVE  marker # id /\ (meta = None \/ meta.owner # id)
    BY DEF LoggedOutIsErased
  <2>1. Gone(id) \/ Queued(id)
    BY DEF Inv
  <2>2. ~Queued(id)
    BY DEF Queued
  <2> QED
    BY <2>1, <2>2 DEF Gone, Owned
<1> QED
  BY Inductive, <1>1, PTL

\* Only a publication changes the session a tab shows into another one; what
\* the other steps do to the session of the tab that takes them.
LEMMA SameSession ==
    ASSUME NEW me \in TabType
    PROVE  /\ Bump(me).session = me.session
           /\ Return(me).session = me.session
           /\ Cleaned(me).session = me.session
           /\ Invalidate(me).session = None
           /\ Revoke(me).session = None
<1>1. Bump(me).session = me.session /\ Invalidate(me).session = None
  BY BumpKeeps, InvalidateKeeps
<1>2. Return(me).session = me.session
  BY DEF Return, TabType
<1>3. Cleaned(me).session = me.session
  BY DEF Cleaned, TabType
<1>5. Invalidate(me) \in TabType
  BY InvalidateKeeps DEF Kept
<1>6. Revoke(me).session = None
  BY <1>1, <1>5 DEF Revoke, Queue, TabType
<1> QED
  BY <1>1, <1>2, <1>3, <1>6

LEMMA FailSession ==
    ASSUME NEW me \in TabType
    PROVE  Fail(me, TRUE).session = me.session /\ Fail(me, FALSE).session = me.session
  BY DEF Fail, Queue, TabType

LEMMA LosesSession ==
    ASSUME Inv, NEW t \in Tabs,
           \/ ScopeFails(t) \/ EndFailure(t) \/ PublishMarker(t) \/ Crash(t)
           \/ Logout(t) \/ RevokeExpired(t) \/ ExternalInvalidation(t) \/ Unauthorized(t)
    PROVE  /\ \A u \in Tabs \ {t} : tab'[u].session = tab[u].session
           /\ tab'[t].session \in {tab[t].session, None}
           /\ tab[t].session # None /\ tab'[t].session # tab[t].session =>
                 \/ tab[t].session \in Over'
                 \/ tab[t].session # marker'
                 \/ faults' # faults \/ tab[t].op.storage
<1> DEFINE me == tab[t]
           Reason == \/ me.session \in Over'
                     \/ me.session # marker'
                     \/ faults' # faults \/ me.op.storage
<1>1. /\ me \in TabType /\ me.session \in issued \cup {None} /\ tab \in [Tabs -> TabType]
      /\ faults \in Nat /\ Fits(me, issued, Over)
  BY OfTab DEF Inv, Types
<1>2. Invalidate(me) \in TabType
  BY <1>1, InvalidateKeeps DEF Kept
<1>3. CASE ScopeFails(t)
  <2>1. tab' = [tab EXCEPT ![t] = Return(Invalidate(me))] /\ faults' = faults + 1
    BY <1>3 DEF ScopeFails
  <2>2. Return(Invalidate(me)).session = None
    BY <1>1, <1>2, SameSession
  <2> QED
    BY <1>1, <2>1, <2>2
<1>4. CASE EndFailure(t)
  <2> DEFINE next == IF me.op.storage /\ me.op.fresh THEN Invalidate(me) ELSE me
  <2>1. tab' = [tab EXCEPT ![t] = Return(next)]
    BY <1>4 DEF EndFailure
  <2>2. Return(next).session = next.session
    BY <1>1, <1>2, SameSession
  <2>3. next.session = me.session \/ (me.op.storage /\ next.session = None)
    BY <1>1, SameSession
  <2> HIDE DEF next
  <2> QED
    BY <1>1, <2>1, <2>2, <2>3
<1>5. CASE PublishMarker(t)
  <2>1. PICK id \in Ids \ issued :
            /\ marker' = id
            /\ tab' = [tab EXCEPT ![t] = [me EXCEPT !.session = None, !.own = FALSE,
                                            !.op.attempt = id, !.op.pc = "replacing"]]
    BY <1>5 DEF PublishMarker
  <2>2. tab'[t].session = None /\ \A u \in Tabs \ {t} : tab'[u] = tab[u]
    BY <1>1, <2>1 DEF TabType
  <2>3. me.session # None => me.session # marker'
    BY <1>1, <2>1
  <2> QED
    BY <2>2, <2>3
<1>6. CASE Crash(t)
  <2>1. tab' = [tab EXCEPT ![t] = NewTab] /\ faults' = faults + 1 /\ NewTab.session = None
    BY <1>6 DEF Crash, NewTab
  <2> QED
    BY <1>1, <2>1
<1>7. CASE Logout(t)
  <2>1. tab' = [tab EXCEPT ![t] = Revoke(me)] /\ (me.session # None => me.session \in loggedOut')
    BY <1>7 DEF Logout
  <2> QED
    BY <1>1, <2>1, SameSession DEF Over
<1>8. CASE RevokeExpired(t)
  <2>1. tab' = [tab EXCEPT ![t] = Revoke(me)] /\ me.session \in expired'
    BY <1>8 DEF RevokeExpired, history
  <2> QED
    BY <1>1, <2>1, SameSession DEF Over
<1>9. CASE ExternalInvalidation(t)
  <2>1. tab' = [tab EXCEPT ![t] = Invalidate(me)] /\ me.session # marker'
    BY <1>9 DEF ExternalInvalidation
  <2> QED
    BY <1>1, <2>1, SameSession
<1>10. CASE Unauthorized(t)
  <2> DEFINE next == IF AcceptsUnauthorized(me) THEN Revoke(me) ELSE me
  <2>1. /\ tab' = [tab EXCEPT ![t] = [next EXCEPT !.request = None]]
        /\ me.request.token \in ended'
    BY <1>10 DEF Unauthorized
  <2>2. next.session = me.session \/ (me.session \in ended' /\ next.session = None)
    BY <1>1, <2>1, SameSession DEF AcceptsUnauthorized
  <2>3. [next EXCEPT !.request = None].session = next.session
    <3>1. CASE AcceptsUnauthorized(me)
      BY <1>2, <3>1 DEF Revoke, Queue, TabType
    <3>2. CASE ~AcceptsUnauthorized(me)
      BY <1>1, <3>2 DEF TabType
    <3> QED
      BY <3>1, <3>2
  <2> HIDE DEF next
  <2> QED
    BY <1>1, <2>1, <2>2, <2>3 DEF Over
<1> QED
  BY <1>3, <1>4, <1>5, <1>6, <1>7, <1>8, <1>9, <1>10

LEMMA KeepsSession ==
    ASSUME Inv, NEW t \in Tabs,
           \/ StartLogin(t) \/ SendLogin(t) \/ LoginAccepted(t) \/ LoginRefused(t)
           \/ LockLogin(t) \/ LosePreparation(t) \/ ReplaceMeta(t) \/ LosePublication(t)
           \/ StorageFails(t) \/ LockRestore(t) \/ ReadAbsent(t) \/ ReadPresent(t)
           \/ EraseMeta(t) \/ Upgrade(t) \/ WriteUpgrade(t) \/ RestoreFails(t)
           \/ Request(t) \/ RequestServed(t) \/ BeginCleanup(t) \/ EndCleanup(t)
           \/ CleanupFails(t)
    PROVE  \A u \in Tabs : tab'[u].session = tab[u].session
<1> DEFINE me == tab[t]
<1>1. /\ me \in TabType /\ tab \in [Tabs -> TabType] /\ Fits(me, issued, Over)
  BY OfTab DEF Inv, Types
<1>2. me.op.pc \in RestoreSteps => me.session = None
  BY <1>1 DEF Fits
<1>3. CASE StartLogin(t)
  <2>1. Bump(me) \in TabType /\ Bump(me).session = me.session
    BY <1>1, BumpKeeps DEF Kept
  <2> QED
    BY <1>1, <1>3, <2>1 DEF StartLogin, TabType
<1>4. CASE SendLogin(t)
  BY <1>1, <1>4, SameSession DEF SendLogin, TabType
<1>5. CASE LoginAccepted(t)
  BY <1>1, <1>5, SameSession DEF LoginAccepted, TabType
<1>6. CASE LoginRefused(t)
  BY <1>1, <1>6, SameSession DEF LoginRefused, TabType
<1>7. CASE LockLogin(t)
  BY <1>1, <1>7, FailSession DEF LockLogin, TabType
<1>8. CASE LosePreparation(t)
  BY <1>1, <1>8, FailSession DEF LosePreparation, TabType
<1>9. CASE ReplaceMeta(t)
  BY <1>1, <1>9, SameSession DEF ReplaceMeta, TabType
<1>10. CASE LosePublication(t)
  BY <1>1, <1>10, FailSession DEF LosePublication, TabType
<1>11. CASE StorageFails(t)
  BY <1>1, <1>11, FailSession DEF StorageFails, TabType
<1>12. CASE LockRestore(t)
  BY <1>1, <1>12, SameSession DEF LockRestore, TabType
<1>13. CASE EraseMeta(t)
  BY <1>1, <1>13, SameSession DEF EraseMeta, TabType
<1>14. CASE Upgrade(t)
  BY <1>1, <1>14, SameSession DEF Upgrade, TabType
<1>15. CASE WriteUpgrade(t)
  BY <1>1, <1>15, SameSession DEF WriteUpgrade, TabType
<1>16. CASE RestoreFails(t)
  BY <1>1, <1>16, SameSession DEF RestoreFails, TabType
<1>17. CASE Request(t)
  BY <1>1, <1>17, SameSession DEF Request, TabType
<1>18. CASE RequestServed(t)
  BY <1>1, <1>18, SameSession DEF RequestServed, TabType
<1>19. CASE BeginCleanup(t)
  BY <1>1, <1>19, SameSession DEF BeginCleanup, TabType
<1>20. CASE EndCleanup(t)
  BY <1>1, <1>20, SameSession DEF EndCleanup, TabType
<1>21. CASE CleanupFails(t)
  BY <1>1, <1>21, SameSession DEF CleanupFails, TabType
<1>22. ASSUME NEW id PROVE Erase(me, id).session = None
  <2>1. Invalidate(me) \in TabType /\ Invalidate(me).session = None
    BY <1>1, InvalidateKeeps DEF Kept
  <2> QED
    BY <2>1 DEF Erase, TabType
<1>23. CASE ReadAbsent(t)
  <2>1. me.session = None
    BY <1>2, <1>23 DEF ReadAbsent, RestoreSteps
  <2> QED
    BY <1>1, <1>22, <1>23, <2>1, SameSession DEF ReadAbsent, TabType
<1>24. CASE ReadPresent(t)
  <2>1. me.session = None
    BY <1>2, <1>24 DEF ReadPresent, RestoreSteps
  <2> QED
    BY <1>1, <1>22, <1>24, <2>1, SameSession DEF ReadPresent, TabType
<1> QED
  BY <1>3, <1>4, <1>5, <1>6, <1>7, <1>8, <1>9, <1>10, <1>11, <1>12, <1>13, <1>14, <1>15, <1>16, <1>17, <1>18, <1>19, <1>20, <1>21, <1>23, <1>24

LEMMA Publishes ==
    ASSUME Inv, NEW t \in Tabs, PublishSession(t) \/ PublishRestored(t)
    PROVE  /\ \A u \in Tabs \ {t} : tab'[u].session = tab[u].session
           /\ tab'[t].session # tab[t].session =>
                 tab[t].op.fresh /\ tab'[t].session = marker'
<1> DEFINE me == tab[t]
<1>1. me \in TabType /\ tab \in [Tabs -> TabType]
  BY OfTab DEF Inv, Types
<1>2. CASE PublishSession(t)
  <2>1. /\ tab' = [tab EXCEPT ![t] = [Return(me) EXCEPT !.session = me.op.attempt, !.own = TRUE]]
        /\ me.op.fresh /\ marker' = me.op.attempt
    BY <1>2 DEF PublishSession, StillMine
  <2>2. [Return(me) EXCEPT !.session = me.op.attempt, !.own = TRUE].session = me.op.attempt
    BY <1>1 DEF Return, TabType
  <2> QED
    BY <1>1, <2>1, <2>2
<1>3. CASE PublishRestored(t)
  <2> DEFINE id == me.op.observed
             new == [Return(Bump(me)) EXCEPT !.session = id, !.own = TRUE]
  <2>1. CASE StillMine(t, id) /\ id \notin expired
    <3>1. tab' = [tab EXCEPT ![t] = new] /\ me.op.fresh /\ marker' = id
      BY <1>3, <2>1 DEF PublishRestored, StillMine
    <3>2. Bump(me) \in TabType
      BY <1>1, BumpKeeps DEF Kept
    <3>3. new.session = id
      BY <3>2 DEF Return, TabType
    <3> QED
      BY <1>1, <3>1, <3>3
  <2>2. CASE ~(StillMine(t, id) /\ id \notin expired)
    <3>1. tab' = [tab EXCEPT ![t] = Return(me)]
      BY <1>3, <2>2 DEF PublishRestored
    <3> QED
      BY <1>1, <3>1, SameSession
  <2> QED
    BY <2>1, <2>2
<1> QED
  BY <1>2, <1>3

\* Every step, by what it does to the session of a tab.
LEMMA SessionSteps ==
    ASSUME Inv, [Next]_vars, NEW t \in Tabs, tab'[t].session # tab[t].session
    PROVE  \/ tab[t].op.fresh /\ tab'[t].session = marker'
           \/ /\ tab'[t].session = None
              /\ tab[t].session # None =>
                    \/ tab[t].session \in Over'
                    \/ tab[t].session # marker'
                    \/ faults' # faults \/ tab[t].op.storage
<1>1. CASE \E u \in Tabs : PublishSession(u) \/ PublishRestored(u)
  BY <1>1, Publishes
<1>2. CASE \E u \in Tabs : \/ ScopeFails(u) \/ EndFailure(u) \/ PublishMarker(u) \/ Crash(u)
                           \/ Logout(u) \/ RevokeExpired(u) \/ ExternalInvalidation(u)
                           \/ Unauthorized(u)
  BY <1>2, LosesSession
<1>3. CASE \E u \in Tabs :
               \/ StartLogin(u) \/ SendLogin(u) \/ LoginAccepted(u) \/ LoginRefused(u)
               \/ LockLogin(u) \/ LosePreparation(u) \/ ReplaceMeta(u) \/ LosePublication(u)
               \/ StorageFails(u) \/ LockRestore(u) \/ ReadAbsent(u) \/ ReadPresent(u)
               \/ EraseMeta(u) \/ Upgrade(u) \/ WriteUpgrade(u) \/ RestoreFails(u)
               \/ Request(u) \/ RequestServed(u) \/ BeginCleanup(u) \/ EndCleanup(u)
               \/ CleanupFails(u)
  BY <1>3, KeepsSession
<1>4. CASE (\E id \in Ids : Expire(id)) \/ Resting \/ UNCHANGED vars
  BY <1>4 DEF Expire, Resting, vars
<1> QED
  BY <1>1, <1>2, <1>3, <1>4 DEF Next, Continue, Cleanup

\* A revocation wins: whatever was under way in a tab when it was logged out
\* of, refused or invalidated publishes no session there (the generation is
\* compared again before each publication).
THEOREM RevocationIsFinal == Spec => RevocationWins
<1> DEFINE Wins ==
      \A t \in Tabs : (tab'[t].session # None /\ tab'[t].session # tab[t].session) =>
                          ~tab[t].op.revoked
<1>1. Inv /\ [Next]_vars => [Wins]_vars
  <2> SUFFICES ASSUME Inv, [Next]_vars, NEW t \in Tabs,
                      tab'[t].session # None, tab'[t].session # tab[t].session
               PROVE  ~tab[t].op.revoked
    OBVIOUS
  <2>1. tab[t].op.fresh
    BY SessionSteps
  <2> QED
    BY <2>1, OfTab DEF Fits
<1> QED
  BY Inductive, <1>1, PTL DEF Spec, RevocationWins

\* A tab loses its session only for a reason of that very session.
THEOREM SessionsEndForAReason == Spec => SessionLostForAReason
<1> DEFINE Reasoned ==
      \A t \in Tabs : (tab[t].session # None /\ tab'[t].session # tab[t].session) =>
              \/ tab[t].session \in Over'
              \/ tab[t].session # marker'
              \/ faults' # faults \/ tab[t].op.storage
<1>1. Inv /\ [Next]_vars => [Reasoned]_vars
  <2> SUFFICES ASSUME Inv, [Next]_vars, NEW t \in Tabs,
                      tab[t].session # None, tab'[t].session # tab[t].session
               PROVE  \/ tab[t].session \in Over'
                      \/ tab[t].session # marker'
                      \/ faults' # faults \/ tab[t].op.storage
    OBVIOUS
  <2> QED
    BY SessionSteps
<1> QED
  BY Inductive, <1>1, PTL DEF Spec, SessionLostForAReason

\* A late clean-up spares its successors: marker and record go only when their
\* lifecycle is over.
THEOREM OnlyEndedLifecyclesGo == Spec => OnlyTheEndedAreErased
<1> DEFINE Spared ==
      /\ marker # None /\ marker' # marker => marker \in Over'
      /\ meta # None /\ meta' = None => meta.owner \in Over' \cup {None}
<1>1. Inv /\ [Next]_vars => Inv'
  BY InvStep
<1>2. Inv /\ Inv' /\ [Next]_vars => [Spared]_vars
  <2> SUFFICES ASSUME Inv, Inv', [Next]_vars PROVE Spared
    OBVIOUS
  <2>1. ASSUME marker # None, marker' # marker PROVE marker \in Over'
    <3>1. issued \subseteq issued' /\ marker \in issued
      BY <2>1, IssuedGrows DEF Inv, Types
    <3> QED
      BY <2>1, <3>1 DEF Inv, Accounted
  <2>2. ASSUME meta # None, meta' = None PROVE meta.owner \in Over' \cup {None}
    <3>1. \E t \in Tabs : EraseMeta(t) \/ EndCleanup(t)
      <4>1. meta' # meta
        BY <2>2
      <4> QED
        BY <4>1, <2>2, RecordSteps
    <3>2. Over' = Over
      BY <3>1 DEF EraseMeta, EndCleanup, history, Over
    <3>3. PICK t \in Tabs : EraseMeta(t) \/ EndCleanup(t)
      BY <3>1
    <3>4. Fits(tab[t], issued, Over)
      BY OfTab
    <3>5. CASE EraseMeta(t)
      <4>1. tab[t].op.attempt \in Over \cup {None}
        BY <3>4, <3>5 DEF Fits, EraseMeta
      <4> QED
        BY <2>2, <3>2, <3>5, <4>1 DEF EraseMeta, MetaWithout
    <3>6. CASE EndCleanup(t)
      <4>1. /\ tab[t].cleanups \in Seq(Ids \cup {None}) /\ tab[t].cleanups # <<>>
        BY <3>4, <3>6, OfTab DEF Fits, EndCleanup
      <4>2. 1 \in DOMAIN tab[t].cleanups /\ Head(tab[t].cleanups) = tab[t].cleanups[1]
        BY <4>1
      <4>3. Head(tab[t].cleanups) \in Over \cup {None}
        BY <3>4, <4>2 DEF Fits
      <4> QED
        BY <2>2, <3>2, <3>6, <4>3 DEF EndCleanup, MetaWithout
    <3> QED
      BY <3>3, <3>5, <3>6
  <2> QED
    BY <2>1, <2>2
<1> QED
  BY Inductive, <1>1, <1>2, PTL DEF Spec, OnlyTheEndedAreErased
=============================================================================
