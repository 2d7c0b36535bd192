----------------------------- MODULE SyncEngine -----------------------------
(***************************************************************************)
(* The Sync_Engine of the offline app (web/src/domain/syncEngine.ts) over  *)
(* the IndexedDB queue of web/src/store/localStore.ts.                     *)
(*                                                                         *)
(* Staff capture actions offline; an action may name a player or a session *)
(* that another queued action creates, and then carries that action's      *)
(* client id (a local id) until the server's id for it is known (D2).  A   *)
(* tab flushes the queue in two phases: actions that wait for nobody, then *)
(* the deferred ones whose producers phase 1 has resolved.  Every await is *)
(* a step boundary.  Tabs share the queue and nothing keeps two tabs from  *)
(* flushing at once; each row carries a revision, and a write whose        *)
(* revision is not the one that was read is refused.                       *)
(*                                                                         *)
(* Revisions are only compared for equality.  A tab keeps the set of rows  *)
(* whose revision is still the one it read (fresh); a write to a row takes *)
(* it out of the other tabs' sets.                                         *)
(***************************************************************************)
EXTENDS Integers, FiniteSets

CONSTANTS
    None,
    Tabs,
    Acts,        \* the actions that staff may capture, by client_id
    Kind,        \* "player", "session" or "other" for each action
    PlayerOf,    \* the player action an action depends on, or None
    SessionOf,   \* the session action an attendance depends on, or None
    CreatedAt,   \* order of the actions in a batch: created_at, client_id
    Captures,    \* sets of actions that one screen commits together
    Invalid,     \* actions that the server refuses on their own account
    StaleScreens,\* may a screen hold a local id after it was resolved?
    MaxFaults    \* bound on crashes, logouts and 401 answers

ASSUME EngineAssumption ==
    /\ Kind \in [Acts -> {"player", "session", "other"}]
    /\ PlayerOf \in [Acts -> Acts \cup {None}]
    /\ SessionOf \in [Acts -> Acts \cup {None}]
    /\ CreatedAt \in [Acts -> Nat]
    /\ Captures \subseteq SUBSET Acts
    /\ Invalid \subseteq Acts
    /\ StaleScreens \in BOOLEAN
    /\ MaxFaults \in Nat
    /\ None \notin Acts \cup Tabs

VARIABLES
    queue,      \* sync_queue: a row, or None, for each action
    resolved,   \* producers whose local id has a server id in the metadata
    tab,        \* the running engine of each tab
    net,        \* requests under way
    landed,     \* the actions that the server has applied
    faults

vars == <<queue, resolved, tab, net, landed, faults>>

References == {"none", "local", "server"}

RowType ==
    [status : {"unsynced", "applied", "skipped", "rejected"},
     player : References, session : References]

Results == {"applied", "skipped", "rejected"}

ASSUME NoneAssumption == None \notin RowType

Steps ==
    {"idle", "readPlayers", "rewritePlayers", "readSessions", "rewriteSessions",
     "snapshot", "send", "await", "reconcile", "persistPlayers",
     "persistSessions", "select"}

IdleTab ==
    [login |-> "in", current |-> FALSE, pc |-> "idle", phase |-> 0,
     batch |-> <<>>, deferred |-> {}, localIds |-> {}, fresh |-> {}, todo |-> {},
     results |-> <<>>, learned |-> {}]

Init ==
    /\ queue = [a \in Acts |-> None]
    /\ resolved = {}
    /\ tab = [t \in Tabs |-> IdleTab]
    /\ net = {}
    /\ landed = {}
    /\ faults = 0

-----------------------------------------------------------------------------
\* getActionsByStatus('unsynced').
Unsynced == {a \in Acts : queue[a] # None /\ queue[a].status = "unsynced"}

\* The flush of t is at this step and the owner it captured is the current
\* one; every await is followed by that check.
At(t, step) == tab[t].pc = step /\ tab[t].current

EndFlush(t) ==
    [tab EXCEPT ![t] = [IdleTab EXCEPT !.login = tab[t].login]]

\* Writing these rows moves their revisions on for whoever has read them.
Outdate(tabs, rows) ==
    [u \in Tabs |-> [tabs[u] EXCEPT !.fresh = @ \ rows]]

PlayerResolvable(a) ==
    Kind[a] # "player" /\ queue[a].player = "local" /\ PlayerOf[a] \in resolved

SessionResolvable(a) ==
    queue[a].session = "local" /\ SessionOf[a] \in resolved

-----------------------------------------------------------------------------
(* Captures.                                                               *)

Producers(a) == {PlayerOf[a], SessionOf[a]} \ {None}

\* A screen that chose the producer before it was resolved still holds its
\* local id; one that read the directory afterwards holds the server's.
ReferenceTo(producer, choice) ==
    IF producer = None THEN "none"
    ELSE IF producer \in resolved THEN choice ELSE "local"

\* commitPreparedCapture: all rows of a capture in one transaction.
Capture(t, group) ==
    /\ tab[t].login = "in"
    /\ \A a \in group : queue[a] = None
    /\ \A a \in group : \A p \in Producers(a) : p \in group \/ queue[p] # None
    /\ \E choice \in IF StaleScreens THEN {"local", "server"} ELSE {"server"} :
          queue' = [a \in Acts |->
              IF a \in group
              THEN [status |-> "unsynced",
                    player |-> ReferenceTo(PlayerOf[a], choice),
                    session |-> ReferenceTo(SessionOf[a], choice)]
              ELSE queue[a]]
    /\ UNCHANGED <<resolved, tab, net, landed, faults>>

-----------------------------------------------------------------------------
(* doFlush.                                                                *)

\* flush: the online event, the 30 s tick or an enqueue; overlapping calls of
\* one tab share the flush that is running.
StartFlush(t) ==
    /\ tab[t].login = "in"
    /\ tab[t].pc = "idle"
    /\ Unsynced # {}
    /\ tab' = [tab EXCEPT ![t].pc = "readPlayers", ![t].current = TRUE]
    /\ UNCHANGED <<queue, resolved, net, landed, faults>>

\* applyStoredResolutions and applyStoredSessionResolutions: read the map and
\* the unsynced rows, then rewrite the references row by row.
ReadPlayers(t) ==
    /\ At(t, "readPlayers")
    /\ tab' = [tab EXCEPT ![t].pc = "rewritePlayers", ![t].fresh = Unsynced,
                          ![t].todo = {a \in Unsynced : PlayerResolvable(a)}]
    /\ UNCHANGED <<queue, resolved, net, landed, faults>>

ReadSessions(t) ==
    /\ At(t, "readSessions")
    /\ tab' = [tab EXCEPT ![t].pc = "rewriteSessions", ![t].fresh = Unsynced,
                          ![t].todo = {a \in Unsynced : SessionResolvable(a)}]
    /\ UNCHANGED <<queue, resolved, net, landed, faults>>

\* putAction of a row that changed since it was read throws, and the
\* exception ends the flush.
Rewrite(t) ==
    \E a \in tab[t].todo :
        /\ \/ At(t, "rewritePlayers") /\ a \in tab[t].fresh
                /\ queue' = [queue EXCEPT ![a].player = "server"]
           \/ At(t, "rewriteSessions") /\ a \in tab[t].fresh
                /\ queue' = [queue EXCEPT ![a].session = "server"]
        /\ tab' = Outdate([tab EXCEPT ![t].todo = @ \ {a}], {a})
        /\ UNCHANGED <<resolved, net, landed, faults>>

RewriteConflict(t) ==
    /\ At(t, "rewritePlayers") \/ At(t, "rewriteSessions")
    /\ \E a \in tab[t].todo : a \notin tab[t].fresh
    /\ tab' = EndFlush(t)
    /\ UNCHANGED <<queue, resolved, net, landed, faults>>

\* Where the flush goes when the last row of a pass is rewritten.
AfterRewrite(me) ==
    CASE me.pc = "rewritePlayers" /\ me.phase = 0  -> "readSessions"
      [] me.pc = "rewritePlayers" /\ me.phase = 1  -> "persistSessions"
      [] me.pc = "rewriteSessions" /\ me.phase = 0 -> "snapshot"
      [] me.pc = "rewriteSessions" /\ me.phase = 1 -> "select"
      [] OTHER                                     -> "idle"

Rewritten(t) ==
    /\ At(t, "rewritePlayers") \/ At(t, "rewriteSessions")
    /\ tab[t].todo = {}
    /\ tab' = IF AfterRewrite(tab[t]) = "idle" THEN EndFlush(t)
              ELSE [tab EXCEPT ![t].pc = AfterRewrite(tab[t])]
    /\ UNCHANGED <<queue, resolved, net, landed, faults>>

\* What a row says when it is read: the wire action's references.
Wire(rows) == [a \in rows |-> {queue[a].player, queue[a].session}]

\* Mutant: a local id always waits.
WaitsForever(a, localIds) ==
    (Kind[a] # "player" /\ queue[a].player = "local") \/ queue[a].session = "local"

\* An action that waits for an action still queued.
Waits(a, localIds) ==
    \/ Kind[a] # "player" /\ queue[a].player = "local" /\ PlayerOf[a] \in localIds
    \/ queue[a].session = "local" /\ SessionOf[a] \in localIds

\* Mutant: nothing is deferred.
SnapshotUndeferred(t) ==
    LET localIds == {a \in Unsynced : Kind[a] \in {"player", "session"}}
    IN  /\ At(t, "snapshot")
        /\ tab' = IF Unsynced = {} THEN EndFlush(t)
                  ELSE [tab EXCEPT ![t].pc = "send", ![t].phase = 1,
                           ![t].fresh = Unsynced, ![t].localIds = localIds,
                           ![t].batch = Wire(Unsynced), ![t].deferred = {}]
        /\ UNCHANGED <<queue, resolved, net, landed, faults>>

\* getUnsyncedActions and the split into the two phases.
Snapshot(t) ==
    LET localIds == {a \in Unsynced : Kind[a] \in {"player", "session"}}
        waiting == {a \in Unsynced : Waits(a, localIds)}
    IN  /\ At(t, "snapshot")
        /\ tab' = IF Unsynced = {} THEN EndFlush(t)
                  ELSE [tab EXCEPT ![t].pc = "send", ![t].phase = 1,
                           ![t].fresh = Unsynced, ![t].localIds = localIds,
                           ![t].batch = Wire(Unsynced \ waiting),
                           ![t].deferred = waiting]
        /\ UNCHANGED <<queue, resolved, net, landed, faults>>

\* Phase 2 takes the deferred rows as they are now, if their references are
\* resolved by now.
Select(t) ==
    LET ready == {a \in tab[t].deferred \cap Unsynced : ~Waits(a, tab[t].localIds)}
    IN  /\ At(t, "select")
        /\ tab' = IF ready = {} THEN EndFlush(t)
                  ELSE [tab EXCEPT ![t].pc = "send", ![t].phase = 2,
                           ![t].fresh = Unsynced, ![t].batch = Wire(ready)]
        /\ UNCHANGED <<queue, resolved, net, landed, faults>>

-----------------------------------------------------------------------------
(* transmit.                                                               *)

\* A request carries the rows as they were read; one for an empty batch is
\* not sent.
Send(t) ==
    /\ At(t, "send")
    /\ IF DOMAIN tab[t].batch = {}
       THEN tab' = [tab EXCEPT ![t].pc = "persistPlayers"] /\ UNCHANGED net
       ELSE /\ tab' = [tab EXCEPT ![t].pc = "await"]
            /\ net' = net \cup {[tab |-> t, acts |-> tab[t].batch]}
    /\ UNCHANGED <<queue, resolved, landed, faults>>

\* External, the API: an unresolved local id names no row and is rejected; an
\* action applied before is skipped.
ServerResult(a, references) ==
    IF a \in Invalid \/ "local" \in references THEN "rejected"
    ELSE IF a \in landed THEN "skipped" ELSE "applied"

ServerHandles(m) ==
    LET results == [a \in DOMAIN m.acts |-> ServerResult(a, m.acts[a])]
    IN  /\ m \in net
        /\ net' = net \ {m}
        /\ landed' = landed \cup {a \in DOMAIN results : results[a] = "applied"}
        /\ tab' = IF m.tab = None THEN tab
                  ELSE [tab EXCEPT ![m.tab].results = results]
        /\ UNCHANGED <<queue, resolved, faults>>

Answered(t) == tab[t].pc = "await" /\ tab[t].results # <<>>

\* The network loses a request that no tab waits for any more.
LoseRequest(m) ==
    /\ m \in net
    /\ m.tab = None
    /\ net' = net \ {m}
    /\ UNCHANGED <<queue, resolved, tab, landed, faults>>

Receive(t) ==
    /\ At(t, "await")
    /\ Answered(t)
    /\ tab' = [tab EXCEPT ![t].pc = "reconcile", ![t].todo = DOMAIN tab[t].batch,
                          ![t].learned = {}]
    /\ UNCHANGED <<queue, resolved, net, landed, faults>>

\* What t waits for is nobody's any more; the server may handle it still.
Abandoned(t) ==
    {m \in net : m.tab # t} \cup {[m EXCEPT !.tab = None] : m \in {n \in net : n.tab = t}}

\* retainAll: the rows stay unsynced; attempt_count and the revision move on.
Retained(t, end) == Outdate(end, DOMAIN tab[t].batch \cap tab[t].fresh)

\* The request or its answer is lost, or the server answers 5xx.
NetworkError(t) ==
    /\ At(t, "await")
    /\ tab' = Retained(t, EndFlush(t))
    /\ net' = Abandoned(t)
    /\ UNCHANGED <<queue, resolved, landed, faults>>

\* A 401: the client has the session revoked, as at a logout, before the engine
\* sees the exception; its owner is no longer current and nothing is written.
Unauthorized(t) ==
    /\ At(t, "await")
    /\ faults < MaxFaults
    /\ tab[t].results = <<>>
    /\ tab' = [tab EXCEPT ![t] = [IdleTab EXCEPT !.login = "leaving"]]
    /\ net' = {m \in net : m.tab # t}
    /\ faults' = faults + 1
    /\ UNCHANGED <<queue, resolved, landed>>

\* The results are written one row at a time, in the order of the batch.
NextResult(t) ==
    CHOOSE a \in tab[t].todo : \A b \in tab[t].todo : CreatedAt[a] =< CreatedAt[b]

\* Mutant: updateActionStatus does not compare the revision.
ReconcileUnguarded(t) ==
    LET a == NextResult(t)
        result == tab[t].results[a]
    IN  /\ At(t, "reconcile")
        /\ tab[t].todo # {}
        /\ queue' = [queue EXCEPT ![a].status = result]
        /\ tab' = Outdate([tab EXCEPT ![t].todo = @ \ {a},
                                      ![t].learned = IF result = "rejected" THEN @
                                                     ELSE @ \cup {a}],
                          {a})
        /\ UNCHANGED <<resolved, net, landed, faults>>

\* Mutant: a rejected producer's id is recorded too.
ReconcileLearnsRejected(t) ==
    LET a == NextResult(t)
    IN  /\ At(t, "reconcile")
        /\ tab[t].todo # {}
        /\ IF a \in tab[t].fresh
           THEN /\ queue' = [queue EXCEPT ![a].status = tab[t].results[a]]
                /\ tab' = Outdate([tab EXCEPT ![t].todo = @ \ {a},
                                              ![t].learned = @ \cup {a}], {a})
           ELSE /\ tab' = [tab EXCEPT ![t].todo = @ \ {a}]
                /\ UNCHANGED queue
        /\ UNCHANGED <<resolved, net, landed, faults>>

\* updateActionStatus; a row that changed since it was sent is left alone, and
\* the id that came with it is not used.
Reconcile(t) ==
    LET a == NextResult(t)
        result == tab[t].results[a]
    IN  /\ At(t, "reconcile")
        /\ tab[t].todo # {}
        /\ IF a \in tab[t].fresh
           THEN /\ queue' = [queue EXCEPT ![a].status = result]
                /\ tab' = Outdate([tab EXCEPT ![t].todo = @ \ {a},
                                              ![t].learned = IF result = "rejected" THEN @
                                                             ELSE @ \cup {a}],
                                  {a})
           ELSE /\ tab' = [tab EXCEPT ![t].todo = @ \ {a}]
                /\ UNCHANGED queue
        /\ UNCHANGED <<resolved, net, landed, faults>>

Reconciled(t) ==
    /\ At(t, "reconcile")
    /\ tab[t].todo = {}
    /\ tab' = [tab EXCEPT ![t].pc = "persistPlayers", ![t].results = <<>>]
    /\ UNCHANGED <<queue, resolved, net, landed, faults>>

-----------------------------------------------------------------------------
(* persistResolutions and persistSessionResolutions.                       *)

Learned(t, kind) == {a \in tab[t].learned : Kind[a] = kind}

\* mergeOwnerMetadata retries until its read-merge-write is atomic.  After
\* phase 1 the references are rewritten at once; after phase 2 they wait for
\* the next flush.
PersistPlayers(t) ==
    /\ At(t, "persistPlayers")
    /\ resolved' = resolved \cup Learned(t, "player")
    /\ tab' = [tab EXCEPT ![t].pc =
                  IF Learned(t, "player") # {} /\ tab[t].phase = 1
                  THEN "readPlayers" ELSE "persistSessions"]
    /\ UNCHANGED <<queue, net, landed, faults>>

PersistSessions(t) ==
    /\ At(t, "persistSessions")
    /\ resolved' = resolved \cup Learned(t, "session")
    /\ tab' = IF Learned(t, "session") # {} THEN [tab EXCEPT ![t].pc = "readSessions"]
              ELSE IF tab[t].phase = 1 THEN [tab EXCEPT ![t].pc = "select"]
              ELSE EndFlush(t)
    /\ UNCHANGED <<queue, net, landed, faults>>

-----------------------------------------------------------------------------
(* The lifecycle of a tab.                                                 *)

\* The owner is no longer current: the flush stops where it is and leaves the
\* rest for a later one.
StopStale(t) ==
    /\ tab[t].pc # "idle"
    /\ ~tab[t].current
    /\ tab' = EndFlush(t)
    /\ net' = Abandoned(t)
    /\ UNCHANGED <<queue, resolved, landed, faults>>

\* logout: the tab forgets its session at once and queues the removal of the
\* session marker, which all tabs share.
Logout(t) ==
    /\ tab[t].login = "in"
    /\ faults < MaxFaults
    /\ faults' = faults + 1
    /\ tab' = [tab EXCEPT ![t].login = "leaving", ![t].current = FALSE]
    /\ UNCHANGED <<queue, resolved, net, landed>>

\* Nobody's session is current without its marker.
Ended(tabs) ==
    [u \in Tabs |-> [tabs[u] EXCEPT !.login = "out", !.current = FALSE]]

RemoveMarker(t) ==
    /\ tab[t].login = "leaving"
    /\ tab' = Ended(tab)
    /\ UNCHANGED <<queue, resolved, net, landed, faults>>

\* login publishes a marker of its own; a tab that held the old one is out.
Login(t) ==
    /\ tab[t].login = "out"
    /\ tab' = [Ended(tab) EXCEPT ![t].login = "in"]
    /\ UNCHANGED <<queue, resolved, net, landed, faults>>

\* restoreSession: a tab takes up the session whose marker is there.
Restore(t) ==
    /\ tab[t].login = "out"
    /\ \E u \in Tabs : tab[u].login # "out"
    /\ tab' = [tab EXCEPT ![t].login = "in"]
    /\ UNCHANGED <<queue, resolved, net, landed, faults>>

\* The tab is closed or the browser kills it; when it opens again it restores
\* the session if the marker is still there.
Crash(t) ==
    /\ tab[t].pc # "idle"
    /\ faults < MaxFaults
    /\ faults' = faults + 1
    /\ tab' = [tab EXCEPT ![t] =
          [IdleTab EXCEPT !.login = IF tab[t].login = "out" THEN "out" ELSE "in"]]
    /\ net' = Abandoned(t)
    /\ UNCHANGED <<queue, resolved, landed>>

\* Everything that can be captured is captured and settled.
Terminating ==
    /\ \A a \in Acts : queue[a] # None
    /\ Unsynced = {}
    /\ net = {}
    /\ \A t \in Tabs : tab[t].pc = "idle"
    /\ UNCHANGED vars

-----------------------------------------------------------------------------
\* The steps that a running flush takes by itself.
Continue(t) ==
    \/ ReadPlayers(t) \/ ReadSessions(t)
    \/ Rewrite(t) \/ RewriteConflict(t) \/ Rewritten(t)
    \/ Snapshot(t) \/ Select(t) \/ Send(t)
    \/ Reconcile(t) \/ Reconciled(t)
    \/ PersistPlayers(t) \/ PersistSessions(t) \/ StopStale(t)

Exchange(t) == (\E m \in net : m.tab = t /\ ServerHandles(m)) \/ Receive(t)

Next ==
    \/ \E t \in Tabs, g \in Captures : Capture(t, g)
    \/ \E t \in Tabs : StartFlush(t) \/ Continue(t) \/ Exchange(t)
    \/ \E t \in Tabs : NetworkError(t) \/ Unauthorized(t)
    \/ \E m \in net : (m.tab = None /\ ServerHandles(m)) \/ LoseRequest(m)
    \/ \E t \in Tabs : Logout(t) \/ RemoveMarker(t) \/ Login(t) \/ Restore(t) \/ Crash(t)
    \/ Terminating

\* The 30 s tick starts a flush while work is pending; JavaScript runs what it
\* awaits, the clean-up after a logout included; an exchange that is tried
\* again and again succeeds at some time; somebody logs in.
Fairness ==
    \A t \in Tabs :
        /\ WF_vars(StartFlush(t))
        /\ WF_vars(Continue(t))
        /\ WF_vars(RemoveMarker(t))
        /\ WF_vars(Login(t))
        /\ SF_vars(\E m \in net : m.tab = t /\ ServerHandles(m))
        /\ SF_vars(Receive(t))

Spec == Init /\ [][Next]_vars
FairSpec == Spec /\ Fairness

-----------------------------------------------------------------------------
(* Properties.                                                             *)

\* Every variable has its type.
TypeOK ==
    /\ queue \in [Acts -> RowType \cup {None}]
    /\ resolved \subseteq Acts
    /\ landed \subseteq Acts
    /\ faults \in 0 .. MaxFaults
    /\ \A m \in net : m.tab \in Tabs \cup {None} /\ DOMAIN m.acts \subseteq Acts
    /\ \A t \in Tabs :
          /\ tab[t].login \in {"in", "leaving", "out"}
          /\ tab[t].pc \in Steps
          /\ tab[t].phase \in 0 .. 2
          /\ tab[t].todo \cup tab[t].deferred \cup tab[t].learned \subseteq Acts
          /\ tab[t].pc = "reconcile" => tab[t].todo \subseteq DOMAIN tab[t].results

\* No captured action is ever lost from the queue, and a settled one is never
\* touched again: the late answer, retry or rewrite of a second tab does not
\* turn an applied sale into an unsynced or a rejected one.
TerminalIsFinal ==
    [][\A a \in Acts : queue[a] # None =>
          /\ queue'[a] # None
          /\ queue[a].status # "unsynced" => queue'[a] = queue[a]]_vars

\* The device believes only what the server said: an action shown as synced is
\* applied there, and a server id stands in a row only after the action that
\* creates the player or the session was applied.
BelievesServer ==
    \A a \in Acts : queue[a] # None =>
        /\ queue[a].status \in {"applied", "skipped"} => a \in landed
        /\ queue[a].player = "server" => PlayerOf[a] \in landed
        /\ queue[a].session = "server" => SessionOf[a] \in landed

\* The D2 promise: a dependent action is sent with the server's id of what it
\* depends on.  The server refuses it for its reference only if the action
\* that creates the player or the session was itself refused.
NoOrphan ==
    \A a \in Acts \ Invalid :
        (queue[a] # None /\ queue[a].status = "rejected") =>
            \E p \in Producers(a) : queue[p].status = "rejected"

\* As long as nobody crashes or logs out, that promise is kept (stated for one
\* tab whose screens hold the ids of the directory).
NoOrphanWithoutFaults == faults = 0 => NoOrphan

\* Every captured action is settled at some time, whatever is lost on the way:
\* lost requests and answers, crashes, logouts and refused producers included.
EveryActionSettles ==
    \A a \in Acts : (a \in Unsynced) ~> (a \notin Unsynced)
=============================================================================
