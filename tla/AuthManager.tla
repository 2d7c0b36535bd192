---------------------------- MODULE AuthManager ----------------------------
(***************************************************************************)
(* The Auth_Manager of the offline app (web/src/domain/authManager.ts) in  *)
(* several tabs of one browser, with the parts of authState.tsx, client.ts *)
(* and localStore.ts that call it or that it calls.                        *)
(*                                                                         *)
(* Each login starts a lifecycle with an id of its own (a UUID).  The tabs *)
(* share a marker in localStorage, which names the lifecycle in force, and *)
(* one record in IndexedDB, which holds its credentials.  A step runs from *)
(* one await to the next.  Marker and record are guarded by a Web Lock     *)
(* where the browser has one (locks), otherwise only within a tab.         *)
(*                                                                         *)
(* A lifecycle id also stands for its token and its session.  Generations  *)
(* are only compared for equality with the tab's current one: whoever has  *)
(* captured it holds a flag (fresh, own) that the next increment clears.   *)
(***************************************************************************)
EXTENDS Integers, Sequences, FiniteSets

CONSTANTS
    None,
    Tabs,
    Ids,         \* lifecycle ids that crypto.randomUUID may return
    First,       \* the lifecycle of an earlier visit
    MaxRevokes,  \* bound on logouts and 401 answers
    MaxExpired,  \* bound on tokens that expire
    MaxFaults    \* bound on crashes and storage failures

ASSUME AuthAssumption ==
    /\ First \in Ids
    /\ None \notin Ids
    /\ MaxRevokes \in Nat
    /\ MaxExpired \in Nat
    /\ MaxFaults \in Nat

VARIABLES
    locks,      \* does the browser have Web Locks?
    marker,     \* the lifecycle that localStorage names, or None
    meta,       \* the record in IndexedDB, or None
    tab,        \* the manager of each tab
    issued,     \* ids in use so far
    expired,    \* lifecycles whose token has expired
    loggedOut,  \* history: lifecycles that somebody logged out of
    ended,      \* history: lifecycles refused by the server, replaced or failed
    revokes,
    faults

vars == <<locks, marker, meta, tab, issued, expired, loggedOut, ended, revokes, faults>>
history == <<expired, loggedOut, ended, revokes, faults>>

\* owner None: written by a revision that kept no owner; scoped FALSE: by one
\* that kept no data scope in the session.
MetaType == [owner : Ids \cup {None}, scoped : BOOLEAN]

LoginSteps ==
    {"waiting", "request", "lockLogin", "preparing", "replacing", "publishing", "failing"}
RestoreSteps ==
    {"lockRestore", "reading", "encrypting", "upgrading", "restoring", "erasing"}

\* login or restoreSession under way.  revoked is history: a revocation since
\* the operation began.
OpType ==
    [pc : {"idle"} \cup LoginSteps \cup RestoreSteps, fresh : BOOLEAN,
     observed : Ids \cup {None}, attempt : Ids \cup {None},
     wait : Nat, storage : BOOLEAN, revoked : BOOLEAN]

\* getAuthRequestSnapshot
RequestType == [token : Ids, fresh : BOOLEAN]

TabType ==
    [session : Ids \cup {None}, own : BOOLEAN, op : OpType,
     request : RequestType \cup {None},
     cleanups : Seq(Ids \cup {None}), holds : {"nothing", "op", "cleanup"}]

ASSUME NoneAssumption == None \notin MetaType \cup RequestType

NoOp ==
    [pc |-> "idle", fresh |-> FALSE, observed |-> None, attempt |-> None,
     wait |-> 0, storage |-> FALSE, revoked |-> FALSE]

\* A tab that opens restores the session before it shows anything.
NewTab ==
    [session |-> None, own |-> FALSE, request |-> None, cleanups |-> <<>>,
     holds |-> "nothing",
     op |-> [NoOp EXCEPT !.pc = "lockRestore", !.fresh = TRUE]]

Init ==
    /\ locks \in BOOLEAN
    /\ marker \in {First, None}
    /\ meta \in [owner : {First}, scoped : BOOLEAN] \cup
               {[owner |-> None, scoped |-> FALSE], None}
    /\ tab = [t \in Tabs |-> NewTab]
    /\ issued = {First}
    /\ expired = {}
    /\ loggedOut = {}
    /\ ended = IF marker = None THEN {First} ELSE {}
    /\ revokes = 0
    /\ faults = 0

-----------------------------------------------------------------------------
(* Pieces of a step.                                                       *)

\* The increment of lifecycleGeneration.
Bump(me) ==
    [me EXCEPT !.own = FALSE, !.op.fresh = FALSE,
               !.request = IF @ = None THEN None ELSE [@ EXCEPT !.fresh = FALSE]]

\* invalidateLocalLifecycle
Invalidate(me) == [Bump(me) EXCEPT !.session = None, !.op.revoked = TRUE]

\* queuePersistedSessionCleanup
Queue(me, id) == [me EXCEPT !.cleanups = Append(@, id)]

\* Mutant: the session is read after it has been cleared.
RevokeTooLate(me) == LET gone == Invalidate(me) IN Queue(gone, gone.session)

\* revokePersistedSession
Revoke(me) == Queue(Invalidate(me), me.session)

\* withAuthSessionLock
CanLock(t) ==
    /\ tab[t].holds = "nothing"
    /\ locks => \A u \in Tabs : tab[u].holds = "nothing"

\* The operation returns.
Return(me) == [me EXCEPT !.op = NoOp, !.holds = IF @ = "op" THEN "nothing" ELSE @]

\* removeSessionMarker
MarkerWithout(id) == IF marker = id THEN None ELSE marker

\* Mutant: the owner of the record is not compared.
MetaErased(id) == None

\* deleteAuthMetadataIfOwnedBy
MetaWithout(id) ==
    IF meta # None /\ meta.owner = id THEN None ELSE meta

\* isCurrent of the published owner, and isAuthenticated.
Current(t) ==
    /\ tab[t].session # None
    /\ tab[t].own
    /\ tab[t].session = marker
    /\ tab[t].session \notin expired

-----------------------------------------------------------------------------
(* login.                                                                  *)

\* Bound: no more logins than there are ids.
Pending ==
    {t \in Tabs : tab[t].op.pc \in {"waiting", "request", "lockLogin", "preparing"}}

StartLogin(t) ==
    /\ tab[t].op.pc = "idle"
    /\ Cardinality(Pending) < Cardinality(Ids \ issued)
    /\ tab' = [tab EXCEPT ![t] =
          [Bump(@) EXCEPT !.op = [NoOp EXCEPT !.pc = "waiting", !.fresh = TRUE,
                                              !.wait = Len(tab[t].cleanups)]]]
    /\ UNCHANGED <<locks, marker, meta, issued, history>>

\* The clean-ups that were queued before are done: read the marker and send.
SendLogin(t) ==
    /\ tab[t].op.pc = "waiting"
    /\ tab[t].op.wait = 0
    /\ tab' = [tab EXCEPT ![t] =
          IF @.op.fresh THEN [@ EXCEPT !.op.pc = "request", !.op.observed = marker]
                        ELSE Return(@)]
    /\ UNCHANGED <<locks, marker, meta, issued, history>>

\* Wrong password, an incoherent token or no network: nothing is stored.
LoginRefused(t) ==
    /\ tab[t].op.pc = "request"
    /\ tab' = [tab EXCEPT ![t] = Return(@)]
    /\ UNCHANGED <<locks, marker, meta, issued, history>>

LoginAccepted(t) ==
    /\ tab[t].op.pc = "request"
    /\ tab' = [tab EXCEPT ![t] = IF @.op.fresh THEN [@ EXCEPT !.op.pc = "lockLogin"]
                                 ELSE Return(@)]
    /\ UNCHANGED <<locks, marker, meta, issued, history>>

\* The digest that names the data scope cannot be computed.
ScopeFails(t) ==
    /\ tab[t].op.pc = "request"
    /\ tab[t].op.fresh
    /\ faults < MaxFaults
    /\ faults' = faults + 1
    /\ tab' = [tab EXCEPT ![t] = Return(Invalidate(@))]
    /\ UNCHANGED <<locks, marker, meta, issued, expired, loggedOut, ended, revokes>>

\* The catch block: the attempt removes its own marker and record, waits for
\* that and returns.
Fail(me, storage) ==
    LET queued == IF me.op.attempt = None THEN me ELSE Queue(me, me.op.attempt)
    IN  [queued EXCEPT !.op.pc = "failing", !.op.storage = storage,
                       !.op.wait = Len(queued.cleanups),
                       !.holds = "nothing"]

Failed(t) == ended \cup ({tab[t].op.attempt} \ {None})

StillMine(t, id) == tab[t].op.fresh /\ marker = id

LockLogin(t) ==
    /\ tab[t].op.pc = "lockLogin"
    /\ CanLock(t)
    /\ tab' = [tab EXCEPT ![t] =
          IF StillMine(t, @.op.observed)
          THEN [@ EXCEPT !.op.pc = "preparing", !.holds = "op"]
          ELSE Fail(@, FALSE)]
    /\ UNCHANGED <<locks, marker, meta, issued, history>>

\* Key, session and migrated rows are ready: the new marker replaces the one
\* that was observed before the password was sent.
PublishMarker(t) ==
    /\ tab[t].op.pc = "preparing"
    /\ StillMine(t, tab[t].op.observed)
    /\ \E id \in Ids \ issued :
          /\ issued' = issued \cup {id}
          /\ marker' = id
          /\ tab' = [tab EXCEPT ![t] =
                [@ EXCEPT !.session = None, !.own = FALSE,
                          !.op.attempt = id, !.op.pc = "replacing"]]
    /\ ended' = ended \cup ({marker} \ {None})
    /\ UNCHANGED <<locks, meta, expired, loggedOut, revokes, faults>>

\* The tab or the marker has moved on, or the new token has expired already.
LosePreparation(t) ==
    /\ tab[t].op.pc = "preparing"
    /\ tab' = [tab EXCEPT ![t] = Fail(@, FALSE)]
    /\ UNCHANGED <<locks, marker, meta, issued, history>>

\* replaceAuthMetadata: session, key and owner in one transaction.
ReplaceMeta(t) ==
    /\ tab[t].op.pc = "replacing"
    /\ meta' = [owner |-> tab[t].op.attempt, scoped |-> TRUE]
    /\ tab' = [tab EXCEPT ![t].op.pc = "publishing"]
    /\ UNCHANGED <<locks, marker, issued, history>>

\* Mutant: the generation is not compared again after the transaction.
PublishSessionUnguarded(t) ==
    /\ tab[t].op.pc = "publishing"
    /\ marker = tab[t].op.attempt
    /\ tab' = [tab EXCEPT ![t] = [Return(@) EXCEPT !.session = tab[t].op.attempt,
                                                   !.own = TRUE]]
    /\ UNCHANGED <<locks, marker, meta, issued, history>>

PublishSession(t) ==
    /\ tab[t].op.pc = "publishing"
    /\ StillMine(t, tab[t].op.attempt)
    /\ tab' = [tab EXCEPT ![t] = [Return(@) EXCEPT !.session = tab[t].op.attempt,
                                                   !.own = TRUE]]
    /\ UNCHANGED <<locks, marker, meta, issued, history>>

LosePublication(t) ==
    /\ tab[t].op.pc = "publishing"
    /\ ~StillMine(t, tab[t].op.attempt)
    /\ tab' = [tab EXCEPT ![t] = Fail(@, FALSE)]
    /\ ended' = Failed(t)
    /\ UNCHANGED <<locks, marker, meta, issued, expired, loggedOut, revokes, faults>>

\* Storage or crypto fails under the lock.
StorageFails(t) ==
    /\ tab[t].op.pc \in {"preparing", "replacing"}
    /\ faults < MaxFaults
    /\ faults' = faults + 1
    /\ tab' = [tab EXCEPT ![t] = Fail(@, TRUE)]
    /\ ended' = Failed(t)
    /\ UNCHANGED <<locks, marker, meta, issued, expired, loggedOut, revokes>>

\* After the clean-up a storage failure also drops what the tab has in memory.
EndFailure(t) ==
    /\ tab[t].op.pc = "failing"
    /\ tab[t].op.wait = 0
    /\ tab' = [tab EXCEPT ![t] = Return(IF @.op.storage /\ @.op.fresh
                                        THEN Invalidate(@) ELSE @)]
    /\ UNCHANGED <<locks, marker, meta, issued, history>>

-----------------------------------------------------------------------------
(* restoreSession, when a tab opens.                                       *)

LockRestore(t) ==
    /\ tab[t].op.pc = "lockRestore"
    /\ CanLock(t)
    /\ tab' = [tab EXCEPT ![t] =
          IF @.op.fresh
          THEN [@ EXCEPT !.op.pc = "reading", !.op.observed = marker, !.holds = "op"]
          ELSE Return(@)]
    /\ UNCHANGED <<locks, marker, meta, issued, history>>

\* Credentials to be removed: what the tab holds is dropped at once, the
\* record in a transaction of its own.
Erase(me, id) ==
    [Invalidate(me) EXCEPT !.op.pc = "erasing", !.op.attempt = id]

\* Without a marker the record is a leftover and is erased.
ReadAbsent(t) ==
    LET me == tab[t]
        absent == me.op.fresh /\ marker = None
    IN  /\ me.op.pc = "reading"
        /\ me.op.observed = None
        /\ tab' = [tab EXCEPT ![t] =
              IF absent THEN Erase(me, IF meta = None THEN None ELSE meta.owner)
              ELSE Return(me)]
        /\ UNCHANGED <<locks, marker, meta, issued, history>>

\* Marker and record of the same lifecycle: go on if the token is fresh,
\* remove both if it is not.  Otherwise leave both alone.
ReadPresent(t) ==
    LET me == tab[t]
        id == me.op.observed
        match == me.op.fresh /\ meta # None /\ meta.owner = id
    IN  /\ me.op.pc = "reading"
        /\ id # None
        /\ marker' = IF match /\ id \in expired THEN MarkerWithout(id) ELSE marker
        /\ tab' = [tab EXCEPT ![t] =
              IF ~match THEN Return(me)
              ELSE IF id \in expired THEN Erase(me, id)
              ELSE [me EXCEPT !.op.pc = IF meta.scoped THEN "restoring" ELSE "encrypting"]]
        /\ UNCHANGED <<locks, meta, issued, history>>

EraseMeta(t) ==
    /\ tab[t].op.pc = "erasing"
    /\ meta' = MetaWithout(tab[t].op.attempt)
    /\ tab' = [tab EXCEPT ![t] = Return(@)]
    /\ UNCHANGED <<locks, marker, issued, history>>

\* The scope is added to an older session, if the lifecycle was still in force
\* when the transaction began.
Upgrade(t) ==
    LET id == tab[t].op.observed
    IN  /\ tab[t].op.pc = "encrypting"
        /\ tab' = [tab EXCEPT ![t] = IF StillMine(t, id) /\ id \notin expired
                                     THEN [@ EXCEPT !.op.pc = "upgrading"]
                                     ELSE Return(@)]
        /\ UNCHANGED <<locks, marker, meta, issued, history>>

WriteUpgrade(t) ==
    /\ tab[t].op.pc = "upgrading"
    /\ meta' = [owner |-> tab[t].op.observed, scoped |-> TRUE]
    /\ tab' = [tab EXCEPT ![t].op.pc = "restoring"]
    /\ UNCHANGED <<locks, marker, issued, history>>

PublishRestored(t) ==
    LET id == tab[t].op.observed
    IN  /\ tab[t].op.pc = "restoring"
        /\ tab' = [tab EXCEPT ![t] =
              IF StillMine(t, id) /\ id \notin expired
              THEN [Return(Bump(@)) EXCEPT !.session = id, !.own = TRUE]
              ELSE Return(@)]
        /\ UNCHANGED <<locks, marker, meta, issued, history>>

\* Storage fails: the tab stays logged out and leaves the record alone.
RestoreFails(t) ==
    /\ tab[t].op.pc \in RestoreSteps \ {"lockRestore"}
    /\ faults < MaxFaults
    /\ faults' = faults + 1
    /\ tab' = [tab EXCEPT ![t] = Return(@)]
    /\ UNCHANGED <<locks, marker, meta, issued, expired, loggedOut, ended, revokes>>

-----------------------------------------------------------------------------
(* Revocation.                                                             *)

Logout(t) ==
    /\ revokes < MaxRevokes
    /\ revokes' = revokes + 1
    /\ tab' = [tab EXCEPT ![t] = Revoke(@)]
    /\ loggedOut' = loggedOut \cup ({tab[t].session} \ {None})
    /\ UNCHANGED <<locks, marker, meta, issued, expired, ended, faults>>

\* getAuthRequestSnapshot at the start of a protected request.
Request(t) ==
    /\ tab[t].request = None
    /\ tab[t].session # None
    /\ tab[t].session = marker
    /\ tab[t].session \notin expired
    /\ tab' = [tab EXCEPT ![t].request = [token |-> tab[t].session, fresh |-> TRUE]]
    /\ UNCHANGED <<locks, marker, meta, issued, history>>

RequestServed(t) ==
    /\ tab[t].request # None
    /\ tab' = [tab EXCEPT ![t].request = None]
    /\ UNCHANGED <<locks, marker, meta, issued, history>>

\* Mutant: only the generation is compared.
AcceptsAnyToken(me) == me.request.fresh

\* handleUnauthorized takes a 401 only from a request of this very session.
AcceptsUnauthorized(me) == me.request.fresh /\ me.request.token = me.session

Unauthorized(t) ==
    /\ tab[t].request # None
    /\ revokes < MaxRevokes
    /\ revokes' = revokes + 1
    /\ ended' = ended \cup {tab[t].request.token}
    /\ tab' = [tab EXCEPT ![t] =
          [(IF AcceptsUnauthorized(@) THEN Revoke(@) ELSE @) EXCEPT !.request = None]]
    /\ UNCHANGED <<locks, marker, meta, issued, expired, loggedOut, faults>>

Expire(id) ==
    /\ id \in issued \ expired
    /\ Cardinality(expired) < MaxExpired
    /\ expired' = expired \cup {id}
    /\ UNCHANGED <<locks, marker, meta, tab, issued, loggedOut, ended, revokes, faults>>

\* The timer of authState, or its check when the tab comes to the foreground.
RevokeExpired(t) ==
    /\ tab[t].session \in expired
    /\ tab[t].own
    /\ tab' = [tab EXCEPT ![t] = Revoke(@)]
    /\ UNCHANGED <<locks, marker, meta, issued, history>>

\* The storage event of another tab, or that check: the marker is not the
\* tab's any more.  Only the memory is cleared.
ExternalInvalidation(t) ==
    /\ tab[t].session # None
    /\ tab[t].session # marker
    /\ tab' = [tab EXCEPT ![t] = Invalidate(@)]
    /\ UNCHANGED <<locks, marker, meta, issued, history>>

\* Mutant: the marker is removed without a comparison.
BeginCleanupUnguarded(t) ==
    /\ tab[t].cleanups # <<>>
    /\ CanLock(t)
    /\ marker' = None
    /\ tab' = [tab EXCEPT ![t].holds = "cleanup"]
    /\ UNCHANGED <<locks, meta, issued, history>>

\* pendingRevocation: the clean-ups of a tab run one after the other.
BeginCleanup(t) ==
    /\ tab[t].cleanups # <<>>
    /\ CanLock(t)
    /\ marker' = MarkerWithout(Head(tab[t].cleanups))
    /\ tab' = [tab EXCEPT ![t].holds = "cleanup"]
    /\ UNCHANGED <<locks, meta, issued, history>>

Cleaned(me) ==
    [me EXCEPT !.cleanups = Tail(@), !.holds = "nothing",
               !.op.wait = IF @ = 0 THEN 0 ELSE @ - 1]

EndCleanup(t) ==
    /\ tab[t].holds = "cleanup"
    /\ meta' = MetaWithout(Head(tab[t].cleanups))
    /\ tab' = [tab EXCEPT ![t] = Cleaned(@)]
    /\ UNCHANGED <<locks, marker, issued, history>>

\* Best effort: an error is swallowed.
CleanupFails(t) ==
    /\ tab[t].holds = "cleanup"
    /\ faults < MaxFaults
    /\ faults' = faults + 1
    /\ tab' = [tab EXCEPT ![t] = Cleaned(@)]
    /\ UNCHANGED <<locks, marker, meta, issued, expired, loggedOut, ended, revokes>>

\* Android kills the process; the tab opens again.
Crash(t) ==
    /\ faults < MaxFaults
    /\ faults' = faults + 1
    /\ tab' = [tab EXCEPT ![t] = NewTab]
    /\ UNCHANGED <<locks, marker, meta, issued, expired, loggedOut, ended, revokes>>

-----------------------------------------------------------------------------
\* The steps that an operation or a clean-up takes by itself.
Continue(t) ==
    \/ SendLogin(t) \/ LoginAccepted(t) \/ LoginRefused(t) \/ LockLogin(t)
    \/ PublishMarker(t) \/ LosePreparation(t) \/ ReplaceMeta(t)
    \/ PublishSession(t) \/ LosePublication(t) \/ EndFailure(t)
    \/ LockRestore(t) \/ ReadAbsent(t) \/ ReadPresent(t) \/ EraseMeta(t)
    \/ Upgrade(t) \/ WriteUpgrade(t) \/ PublishRestored(t)

Cleanup(t) == BeginCleanup(t) \/ EndCleanup(t)

\* No tab has anything under way.
Resting ==
    /\ \A t \in Tabs : tab[t].op.pc = "idle" /\ tab[t].cleanups = <<>>
    /\ UNCHANGED vars

Next ==
    \/ \E t \in Tabs : StartLogin(t) \/ Continue(t)
    \/ \E t \in Tabs : ScopeFails(t) \/ StorageFails(t) \/ RestoreFails(t)
    \/ \E t \in Tabs : Logout(t) \/ RevokeExpired(t) \/ ExternalInvalidation(t)
    \/ \E t \in Tabs : Request(t) \/ RequestServed(t) \/ Unauthorized(t)
    \/ \E t \in Tabs : Cleanup(t) \/ CleanupFails(t)
    \/ \E t \in Tabs : Crash(t)
    \/ \E id \in Ids : Expire(id)
    \/ Resting

Spec == Init /\ [][Next]_vars

-----------------------------------------------------------------------------
(* Properties.                                                             *)

\* Every variable has its type, and with Web Locks one tab at most is in a
\* critical section.
TypeOK ==
    /\ marker \in Ids \cup {None}
    /\ meta \in MetaType \cup {None}
    /\ tab \in [Tabs -> TabType]
    /\ locks => Cardinality({t \in Tabs : tab[t].holds # "nothing"}) =< 1

\* A session that a tab works under survives the death of the tab: with Web
\* Locks the record in IndexedDB is its own, whatever clean-ups of older
\* lifecycles, failed logins of other tabs and upgrades run late.
LoggedInIsRestorable ==
    \A t \in Tabs : locks /\ Current(t) => meta # None /\ meta.owner = tab[t].session

\* A revocation wins: a login or a restoration that was under way when the tab
\* was logged out, refused or invalidated publishes no session.
RevocationWins ==
    [][\A t \in Tabs :
          (tab'[t].session # None /\ tab'[t].session # tab[t].session) =>
              ~tab[t].op.revoked]_vars

Over == loggedOut \cup ended \cup expired

\* A tab loses its session only for a reason of that session: logged out of,
\* refused by the server, expired or replaced by another marker, or the tab or
\* its storage failed.  A late 401 of an earlier session is none.
SessionLostForAReason ==
    [][\A t \in Tabs :
          (tab[t].session # None /\ tab'[t].session # tab[t].session) =>
              \/ tab[t].session \in Over'
              \/ tab[t].session # marker'
              \/ faults' # faults \/ tab[t].op.storage]_vars

\* A late clean-up spares its successors: marker and record of a lifecycle go
\* only when that lifecycle was logged out of, refused, replaced, abandoned or
\* had expired.
OnlyTheEndedAreErased ==
    [][/\ marker # None /\ marker' # marker => marker \in Over'
       /\ meta # None /\ meta' = None => meta.owner \in Over' \cup {None}]_vars

\* With Web Locks and no crash or storage failure, a lifecycle that somebody
\* logged out of has neither marker nor credentials once the clean-ups have run,
\* whatever another tab restored, upgraded or published meanwhile.
LoggedOutIsErased ==
    (locks /\ faults = 0 /\ \A t \in Tabs : tab[t].cleanups = <<>>) =>
        \A id \in loggedOut : marker # id /\ (meta = None \/ meta.owner # id)
=============================================================================
