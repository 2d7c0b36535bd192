--------------------------- MODULE SyncEngineProofs ---------------------------
(***************************************************************************)
(* What holds of the Sync_Engine for every number of tabs, every set of    *)
(* captures and every number of crashes, logouts and lost requests: the    *)
(* device believes only what the server said, and what is settled stays    *)
(* as it is.  One tab without faults sends no orphan.                      *)
(***************************************************************************)
EXTENDS SyncEngine, FiniteSetTheorems, TLAPS

-----------------------------------------------------------------------------
(* The inductive invariant.                                                *)

\* What a request carries and what an answer says, for some of the actions.
Batches == UNION {[S -> SUBSET References] : S \in SUBSET Acts}
Answers == UNION {[S -> Results] : S \in SUBSET Acts}

TabType ==
    [login : {"in", "leaving", "out"}, current : BOOLEAN, pc : Steps, phase : 0 .. 2,
     batch : Batches, deferred : SUBSET Acts, localIds : SUBSET Acts,
     fresh : SUBSET Acts, todo : SUBSET Acts, results : Answers, learned : SUBSET Acts]

Types ==
    /\ queue \in [Acts -> RowType \cup {None}]
    /\ resolved \in SUBSET Acts
    /\ landed \in SUBSET Acts
    /\ faults \in 0 .. MaxFaults
    /\ tab \in [Tabs -> TabType]
    /\ net \in SUBSET [tab : Tabs \cup {None}, acts : Batches]

\* A tab that read a row which nobody has written since read an unsynced one.
FreshIsUnsynced(me) == me.fresh \subseteq Unsynced

\* The answer that a tab has is one to the batch that it sent.
AnswerMatches(me) ==
    /\ me.results # <<>> => me.pc \in {"await", "reconcile"}
    /\ me.pc = "await" /\ me.results # <<>> => DOMAIN me.results = DOMAIN me.batch
    /\ me.pc = "reconcile" => me.todo \subseteq DOMAIN me.results

\* What a tab has been told, has learned or is about to write is so.
TabBelievesServer(me) ==
    /\ me.learned \subseteq landed
    /\ \A a \in DOMAIN me.results : me.results[a] # "rejected" => a \in landed
    /\ me.pc = "rewritePlayers" => \A a \in me.todo : PlayerOf[a] \in landed
    /\ me.pc = "rewriteSessions" => \A a \in me.todo : SessionOf[a] \in landed

TabSound(me) == FreshIsUnsynced(me) /\ AnswerMatches(me) /\ TabBelievesServer(me)

\* A request that a tab waits for carries the batch of that tab, and has not
\* been answered.
RequestMatches(m) ==
    m.tab # None =>
        /\ tab[m.tab].pc = "await"
        /\ tab[m.tab].results = <<>>
        /\ m.acts = tab[m.tab].batch

Inv ==
    /\ Types
    /\ \A t \in Tabs : TabSound(tab[t])
    /\ \A m \in net : RequestMatches(m)
    /\ resolved \subseteq landed
    /\ BelievesServer

-----------------------------------------------------------------------------
(* Lemmas on the operators of the engine.                                  *)

\* A nonempty set of numbers has a least one.
LEMMA LeastNumber ==
    ASSUME NEW S \in SUBSET Nat, S # {}
    PROVE  \E n \in S : \A m \in S : n =< m
<1> DEFINE Initial == {0 .. n : n \in S}
<1>1. Initial \subseteq FiniteSubsetsOf(Nat)
  <2>1. ASSUME NEW n \in S PROVE 0 .. n \in FiniteSubsetsOf(Nat)
    BY FS_Interval DEF FiniteSubsetsOf
  <2> QED
    BY <2>1
<1>2. Initial # {}
  OBVIOUS
<1>3. PICK I \in Initial : \A J \in Initial : ~(<<J, I>> \in StrictSubsetOrdering(Nat))
  <2> HIDE DEF Initial
  <2> QED
    BY <1>1, <1>2, FS_StrictSubsetOrderingWellFounded, WFMin
<1>4. PICK n \in S : I = 0 .. n
  OBVIOUS
<1>5. ASSUME NEW m \in S, m < n
      PROVE  FALSE
  <2>1. 0 .. m \in Initial
    OBVIOUS
  <2>2. 0 .. m \subseteq 0 .. n /\ n \in 0 .. n /\ n \notin 0 .. m
    BY <1>5
  <2>3. <<0 .. m, 0 .. n>> \in StrictSubsetOrdering(Nat)
    BY <2>2 DEF StrictSubsetOrdering
  <2> QED
    BY <2>1, <2>3, <1>3, <1>4
<1> QED
  BY <1>5

\* The next row to settle is one of those that are left.
LEMMA NextResultIsLeft ==
    ASSUME Types, NEW t \in Tabs, tab[t].todo # {}
    PROVE  NextResult(t) \in tab[t].todo
<1>1. tab[t].todo \subseteq Acts
  BY DEF Types, TabType
<1> DEFINE Times == {CreatedAt[a] : a \in tab[t].todo}
<1>2. Times \in SUBSET Nat /\ Times # {}
  BY <1>1, EngineAssumption
<1>3. PICK n \in Times : \A m \in Times : n =< m
  <2> HIDE DEF Times
  <2> QED
    BY <1>2, LeastNumber
<1>4. \E a \in tab[t].todo : \A b \in tab[t].todo : CreatedAt[a] =< CreatedAt[b]
  BY <1>3
<1> QED
  BY <1>4 DEF NextResult

\* The empty request and the empty answer.
LEMMA EmptyBatch == <<>> \in Batches /\ <<>> \in Answers /\ DOMAIN <<>> = {}
<1>1. <<>> \in [{} -> SUBSET References] /\ <<>> \in [{} -> Results]
  OBVIOUS
<1> QED
  BY <1>1 DEF Batches, Answers

\* A tab that has no flush running is in order.
LEMMA IdleIsSound ==
    ASSUME NEW login \in {"in", "leaving", "out"}
    PROVE  LET idle == [IdleTab EXCEPT !.login = login]
           IN  idle \in TabType /\ TabSound(idle)
<1>1. IdleTab \in TabType
  <2> DEFINE nothing == <<>>
  <2>1. nothing \in Batches /\ nothing \in Answers
    BY EmptyBatch
  <2>2. IdleTab =
            [login |-> "in", current |-> FALSE, pc |-> "idle", phase |-> 0,
             batch |-> nothing, deferred |-> {}, localIds |-> {}, fresh |-> {},
             todo |-> {}, results |-> nothing, learned |-> {}]
    BY DEF IdleTab
  <2> HIDE DEF nothing
  <2>3. "idle" \in Steps /\ 0 \in 0 .. 2 /\ "in" \in {"in", "leaving", "out"}
    BY DEF Steps
  <2> QED
    BY <2>1, <2>2, <2>3 DEF TabType
<1> DEFINE idle == [IdleTab EXCEPT !.login = login]
<1>2. idle \in TabType
  BY <1>1 DEF TabType
<1>3. /\ idle.pc = "idle" /\ idle.results = <<>>
      /\ idle.fresh = {} /\ idle.learned = {}
  BY DEF IdleTab
<1>4. TabSound(idle)
  <2> HIDE DEF idle
  <2> QED
    BY <1>3, EmptyBatch
       DEF TabSound, FreshIsUnsynced, AnswerMatches, TabBelievesServer
<1> QED
  BY <1>2, <1>4

\* What is read of rows makes a request.
LEMMA WireType ==
    ASSUME Types, NEW rows \in SUBSET Unsynced
    PROVE  Wire(rows) \in Batches /\ DOMAIN Wire(rows) = rows
<1>1. Wire(rows) \in [rows -> SUBSET References]
  BY DEF Wire, Unsynced, Types, RowType
<1> QED
  BY <1>1 DEF Batches, Wire, Unsynced

\* Outdating rows changes what is fresh, and nothing else.
LEMMA Outdated ==
    ASSUME NEW tabs \in [Tabs -> TabType], NEW rows
    PROVE  /\ Outdate(tabs, rows) \in [Tabs -> TabType]
           /\ \A u \in Tabs :
                 /\ Outdate(tabs, rows)[u].fresh = tabs[u].fresh \ rows
                 /\ Outdate(tabs, rows)[u].pc = tabs[u].pc
                 /\ Outdate(tabs, rows)[u].batch = tabs[u].batch
                 /\ Outdate(tabs, rows)[u].todo = tabs[u].todo
                 /\ Outdate(tabs, rows)[u].results = tabs[u].results
                 /\ Outdate(tabs, rows)[u].learned = tabs[u].learned
  BY DEF Outdate, TabType

-----------------------------------------------------------------------------
(* Steps that only one tab takes part in.                                  *)

LEMMA InitInv == Init => Inv
<1> SUFFICES ASSUME Init
             PROVE  Inv
  OBVIOUS
<1> DEFINE idle == [IdleTab EXCEPT !.login = "in"]
<1>1. idle \in TabType /\ TabSound(idle)
  BY IdleIsSound
<1>2. idle = IdleTab
  BY DEF IdleTab
<1> HIDE DEF idle
<1>3. Types
  BY <1>1, <1>2, EngineAssumption DEF Init, Types
<1> QED
  BY <1>1, <1>2, <1>3 DEF Init, Inv, BelievesServer

\* A tab that moves on to a sound state of its own disturbs nobody, as long as
\* the requests that are under way still match.
LEMMA TabMoves ==
    ASSUME Inv, NEW t \in Tabs, NEW me \in TabType, TabSound(me),
           tab' = [tab EXCEPT ![t] = me],
           UNCHANGED <<queue, landed>>,
           resolved' \in SUBSET landed,
           faults' \in 0 .. MaxFaults,
           net' \in SUBSET [tab : Tabs \cup {None}, acts : Batches],
           \A m \in net' : RequestMatches(m)'
    PROVE  Inv'
<1>1. Types'
  BY DEF Inv, Types
<1>2. \A u \in Tabs : TabSound(tab[u])'
  BY DEF Inv, Types, TabSound, FreshIsUnsynced, AnswerMatches, TabBelievesServer, Unsynced
<1>3. BelievesServer' /\ (resolved \subseteq landed)'
  BY DEF Inv, BelievesServer
<1> QED
  BY <1>1, <1>2, <1>3 DEF Inv

\* The same for a tab that waits for no request.
LEMMA TabMovesOffline ==
    ASSUME Inv, NEW t \in Tabs, NEW me \in TabType, TabSound(me),
           tab' = [tab EXCEPT ![t] = me],
           tab[t].pc # "await",
           UNCHANGED <<queue, net, landed, faults>>,
           resolved' \in SUBSET landed
    PROVE  Inv'
<1>1. \A m \in net' : RequestMatches(m)'
  BY DEF Inv, Types, RequestMatches
<1>2. faults' \in 0 .. MaxFaults
      /\ net' \in SUBSET [tab : Tabs \cup {None}, acts : Batches]
  BY DEF Inv, Types
<1> QED
  BY <1>1, <1>2, TabMoves

\* The same for a tab that only goes on to its next step.
LEMMA GoesOn ==
    ASSUME Inv, NEW t \in Tabs, tab[t].pc \notin {"await", "reconcile"},
           NEW step \in Steps \ {"await", "reconcile", "rewritePlayers", "rewriteSessions"},
           tab' = [tab EXCEPT ![t].pc = step],
           UNCHANGED <<queue, net, landed, faults>>,
           resolved' \in SUBSET landed
    PROVE  Inv'
<1> DEFINE me == [tab[t] EXCEPT !.pc = step]
<1>1. tab' = [tab EXCEPT ![t] = me]
  BY DEF Inv, Types
<1>2. /\ me \in TabType
      /\ me.pc = step /\ me.fresh = tab[t].fresh
      /\ me.results = tab[t].results /\ me.learned = tab[t].learned
  BY DEF Inv, Types, TabType
<1> HIDE DEF me
<1>3. TabSound(tab[t])
  BY DEF Inv
<1>4. TabSound(me)
  BY <1>2, <1>3 DEF TabSound, FreshIsUnsynced, AnswerMatches, TabBelievesServer
<1> QED
  BY <1>1, <1>2, <1>4, TabMovesOffline

\* Nobody waits for a request of a tab that gave up waiting.
LEMMA AbandonedMatch ==
    ASSUME Inv, NEW t \in Tabs, net' = Abandoned(t),
           \A u \in Tabs \ {t} :
              /\ tab'[u].pc = tab[u].pc
              /\ tab'[u].results = tab[u].results
              /\ tab'[u].batch = tab[u].batch
    PROVE  /\ net' \in SUBSET [tab : Tabs \cup {None}, acts : Batches]
           /\ \A m \in net' : RequestMatches(m)'
<1>1. ASSUME NEW m \in net'
      PROVE  \/ m \in net /\ m.tab # t
             \/ m.tab = None /\ m.acts \in Batches /\ m \in [tab : Tabs \cup {None}, acts : Batches]
  BY <1>1 DEF Inv, Types, Abandoned
<1>2. ASSUME NEW m \in net' PROVE m \in [tab : Tabs \cup {None}, acts : Batches]
  BY <1>1 DEF Inv, Types
<1>3. ASSUME NEW m \in net' PROVE RequestMatches(m)'
  BY <1>1 DEF Inv, Types, RequestMatches
<1> QED
  BY <1>2, <1>3

\* A flush that ends, its request left to itself.
LEMMA EndFlushInv ==
    ASSUME Inv, NEW t \in Tabs, NEW login \in {"in", "leaving", "out"},
           tab' = [tab EXCEPT ![t] = [IdleTab EXCEPT !.login = login]],
           UNCHANGED <<queue, resolved, landed>>,
           faults' \in 0 .. MaxFaults,
           \/ net' = net /\ tab[t].pc # "await"
           \/ net' = Abandoned(t)
           \/ net' = {m \in net : m.tab # t}
    PROVE  Inv'
<1> DEFINE idle == [IdleTab EXCEPT !.login = login]
<1>1. idle \in TabType /\ TabSound(idle)
  BY IdleIsSound
<1>2. tab' = [tab EXCEPT ![t] = idle]
  OBVIOUS
<1> HIDE DEF idle
<1>3. /\ net' \in SUBSET [tab : Tabs \cup {None}, acts : Batches]
      /\ \A m \in net' : RequestMatches(m)'
  <2>1. \A u \in Tabs \ {t} : tab'[u] = tab[u]
    BY <1>2 DEF Inv, Types
  <2>2. CASE net' = Abandoned(t)
    BY <2>1, <2>2, AbandonedMatch
  <2>3. CASE net' = net /\ tab[t].pc # "await"
    BY <2>1, <2>3 DEF Inv, Types, RequestMatches
  <2>4. CASE net' = {m \in net : m.tab # t}
    BY <2>1, <2>4 DEF Inv, Types, RequestMatches
  <2> QED
    BY <2>2, <2>3, <2>4
<1>4. resolved' \in SUBSET landed
  BY DEF Inv
<1> QED
  BY <1>1, <1>2, <1>3, <1>4, TabMoves

-----------------------------------------------------------------------------
(* One lemma for each action that changes what the invariant is about.     *)

LEMMA CaptureInv ==
    ASSUME Inv, NEW t \in Tabs, NEW group \in Captures, Capture(t, group)
    PROVE  Inv'
<1>1. PICK choice \in {"local", "server"} :
          queue' = [a \in Acts |->
              IF a \in group
              THEN [status |-> "unsynced",
                    player |-> ReferenceTo(PlayerOf[a], choice),
                    session |-> ReferenceTo(SessionOf[a], choice)]
              ELSE queue[a]]
  BY DEF Capture
<1>2. \A p : ReferenceTo(p, choice) \in References
             /\ (ReferenceTo(p, choice) = "server" => p \in resolved)
  BY DEF ReferenceTo, References
<1>3. queue' \in [Acts -> RowType \cup {None}]
  BY <1>1, <1>2 DEF Inv, Types, RowType
<1>4. Types'
  BY <1>3 DEF Inv, Types, Capture
<1>5. Unsynced \subseteq Unsynced'
  BY <1>1, NoneAssumption, <1>2 DEF Capture, Unsynced, RowType
<1>6. \A u \in Tabs : TabSound(tab[u])'
  BY <1>5 DEF Inv, Capture, TabSound, FreshIsUnsynced, AnswerMatches, TabBelievesServer
<1>7. BelievesServer'
  BY <1>1, <1>2 DEF Inv, Capture, BelievesServer
<1> QED
  BY <1>4, <1>6, <1>7 DEF Inv, Capture, RequestMatches

LEMMA StartFlushInv ==
    ASSUME Inv, NEW t \in Tabs, StartFlush(t)
    PROVE  Inv'
<1> DEFINE me == [tab[t] EXCEPT !.pc = "readPlayers", !.current = TRUE]
<1>1. tab' = [tab EXCEPT ![t] = me]
  BY DEF StartFlush, Inv, Types
<1>2. /\ me \in TabType
      /\ me.pc = "readPlayers" /\ me.fresh = tab[t].fresh
      /\ me.results = tab[t].results /\ me.learned = tab[t].learned
  <2>1. tab[t] \in TabType /\ "readPlayers" \in Steps
    BY DEF Inv, Types, Steps
  <2> QED
    BY <2>1 DEF TabType
<1> HIDE DEF me
<1>3. TabSound(tab[t]) /\ tab[t].pc = "idle" /\ resolved' \in SUBSET landed
  BY DEF Inv, StartFlush
<1>4. TabSound(me)
  BY <1>2, <1>3 DEF TabSound, FreshIsUnsynced, AnswerMatches, TabBelievesServer
<1> QED
  BY <1>1, <1>2, <1>3, <1>4, TabMovesOffline DEF StartFlush

\* A reference is rewritten only to a producer that the server has applied.
LEMMA ReadInv ==
    ASSUME Inv, NEW t \in Tabs, ReadPlayers(t) \/ ReadSessions(t)
    PROVE  Inv'
<1>1. CASE ReadPlayers(t)
  <2> DEFINE todo == {a \in Unsynced : PlayerResolvable(a)}
             me == [tab[t] EXCEPT !.pc = "rewritePlayers", !.fresh = Unsynced, !.todo = todo]
  <2>0. /\ Unsynced \subseteq Acts /\ todo \subseteq Unsynced
        /\ \A a \in todo : PlayerOf[a] \in landed
    BY DEF Unsynced, PlayerResolvable, Inv
  <2>1. tab' = [tab EXCEPT ![t] = me]
    BY <1>1 DEF ReadPlayers, Inv, Types
  <2> HIDE DEF todo
  <2>2. /\ me \in TabType
        /\ me.pc = "rewritePlayers" /\ me.fresh = Unsynced /\ me.todo = todo
        /\ me.results = tab[t].results /\ me.learned = tab[t].learned
    <3>1. tab[t] \in TabType /\ "rewritePlayers" \in Steps
      BY DEF Inv, Types, Steps
    <3> QED
      BY <2>0, <3>1 DEF TabType
  <2> HIDE DEF me
  <2>3. TabSound(tab[t]) /\ tab[t].pc = "readPlayers" /\ resolved' \in SUBSET landed
    BY <1>1 DEF Inv, ReadPlayers, At
  <2>4. TabSound(me)
    BY <2>0, <2>2, <2>3 DEF TabSound, FreshIsUnsynced, AnswerMatches, TabBelievesServer
  <2> QED
    BY <1>1, <2>1, <2>2, <2>3, <2>4, TabMovesOffline DEF ReadPlayers
<1>2. CASE ReadSessions(t)
  <2> DEFINE todo == {a \in Unsynced : SessionResolvable(a)}
             me == [tab[t] EXCEPT !.pc = "rewriteSessions", !.fresh = Unsynced, !.todo = todo]
  <2>0. /\ Unsynced \subseteq Acts /\ todo \subseteq Unsynced
        /\ \A a \in todo : SessionOf[a] \in landed
    BY DEF Unsynced, SessionResolvable, Inv
  <2>1. tab' = [tab EXCEPT ![t] = me]
    BY <1>2 DEF ReadSessions, Inv, Types
  <2> HIDE DEF todo
  <2>2. /\ me \in TabType
        /\ me.pc = "rewriteSessions" /\ me.fresh = Unsynced /\ me.todo = todo
        /\ me.results = tab[t].results /\ me.learned = tab[t].learned
    <3>1. tab[t] \in TabType /\ "rewriteSessions" \in Steps
      BY DEF Inv, Types, Steps
    <3> QED
      BY <2>0, <3>1 DEF TabType
  <2> HIDE DEF me
  <2>3. TabSound(tab[t]) /\ tab[t].pc = "readSessions" /\ resolved' \in SUBSET landed
    BY <1>2 DEF Inv, ReadSessions, At
  <2>4. TabSound(me)
    BY <2>0, <2>2, <2>3 DEF TabSound, FreshIsUnsynced, AnswerMatches, TabBelievesServer
  <2> QED
    BY <1>2, <2>1, <2>2, <2>3, <2>4, TabMovesOffline DEF ReadSessions
<1> QED
  BY <1>1, <1>2

LEMMA RewriteInv ==
    ASSUME Inv, NEW t \in Tabs, Rewrite(t)
    PROVE  Inv'
<1>1. PICK a \in tab[t].todo :
          /\ \/ At(t, "rewritePlayers") /\ a \in tab[t].fresh
                /\ queue' = [queue EXCEPT ![a].player = "server"]
             \/ At(t, "rewriteSessions") /\ a \in tab[t].fresh
                /\ queue' = [queue EXCEPT ![a].session = "server"]
          /\ tab' = Outdate([tab EXCEPT ![t].todo = @ \ {a}], {a})
          /\ UNCHANGED <<resolved, net, landed, faults>>
  BY DEF Rewrite
<1>2. a \in Acts /\ a \in Unsynced /\ queue[a] \in RowType
  BY <1>1 DEF Inv, Types, TabType, TabSound, FreshIsUnsynced, At, Unsynced
<1>3. queue' \in [Acts -> RowType \cup {None}] /\ queue'[a] # None /\ queue'[a].status = "unsynced"
  BY <1>1, <1>2, NoneAssumption DEF Inv, Types, RowType, References, Unsynced
<1>4. Unsynced' = Unsynced
  BY <1>1, <1>2, <1>3 DEF Unsynced, Inv, Types
<1> DEFINE done == [tab EXCEPT ![t].todo = @ \ {a}]
<1>5. /\ done \in [Tabs -> TabType]
      /\ \A u \in Tabs :
            /\ done[u].todo \subseteq tab[u].todo /\ done[u].fresh = tab[u].fresh
            /\ done[u].pc = tab[u].pc /\ done[u].batch = tab[u].batch
            /\ done[u].results = tab[u].results /\ done[u].learned = tab[u].learned
  BY DEF Inv, Types, TabType
<1> HIDE DEF done
<1>6. /\ tab' \in [Tabs -> TabType]
      /\ \A u \in Tabs :
            /\ tab'[u].todo \subseteq tab[u].todo /\ tab'[u].fresh \subseteq tab[u].fresh
            /\ tab'[u].pc = tab[u].pc /\ tab'[u].batch = tab[u].batch
            /\ tab'[u].results = tab[u].results /\ tab'[u].learned = tab[u].learned
  <2>1. tab' = Outdate(done, {a})
    BY <1>1 DEF done
  <2> QED
    BY <1>5, <2>1, Outdated
<1>7. Types'
  BY <1>1, <1>3, <1>6 DEF Inv, Types
<1>8. \A u \in Tabs : TabSound(tab[u])'
  <2> SUFFICES ASSUME NEW u \in Tabs PROVE TabSound(tab[u])'
    OBVIOUS
  <2>1. TabSound(tab[u])
    BY DEF Inv
  <2>2. FreshIsUnsynced(tab[u])'
    BY <1>4, <1>6, <2>1 DEF TabSound, FreshIsUnsynced
  <2>3. AnswerMatches(tab[u])'
    BY <1>6, <2>1 DEF TabSound, AnswerMatches
  <2>4. TabBelievesServer(tab[u])'
    BY <1>1, <1>6, <2>1 DEF TabSound, TabBelievesServer
  <2> QED
    BY <2>2, <2>3, <2>4 DEF TabSound
<1>9. BelievesServer'
  <2>1. CASE At(t, "rewritePlayers") /\ queue' = [queue EXCEPT ![a].player = "server"]
    <3>1. PlayerOf[a] \in landed
      BY <2>1 DEF Inv, TabSound, TabBelievesServer, At
    <3>2. /\ queue'[a].status = "unsynced" /\ queue'[a].session = queue[a].session
          /\ \A b \in Acts \ {a} : queue'[b] = queue[b]
      BY <1>2, <2>1 DEF Inv, Types, RowType, Unsynced
    <3> QED
      BY <1>1, <1>2, <3>1, <3>2 DEF Inv, BelievesServer, Unsynced
  <2>2. CASE At(t, "rewriteSessions") /\ queue' = [queue EXCEPT ![a].session = "server"]
    <3>1. SessionOf[a] \in landed
      BY <2>2 DEF Inv, TabSound, TabBelievesServer, At
    <3>2. /\ queue'[a].status = "unsynced" /\ queue'[a].player = queue[a].player
          /\ \A b \in Acts \ {a} : queue'[b] = queue[b]
      BY <1>2, <2>2 DEF Inv, Types, RowType, Unsynced
    <3> QED
      BY <1>1, <1>2, <3>1, <3>2 DEF Inv, BelievesServer, Unsynced
  <2> QED
    BY <1>1, <2>1, <2>2
<1>10. \A m \in net' : RequestMatches(m)'
  <2> SUFFICES ASSUME NEW m \in net, m.tab # None PROVE RequestMatches(m)'
    BY <1>1 DEF RequestMatches
  <2>1. m.tab \in Tabs /\ RequestMatches(m)
    BY DEF Inv, Types
  <2> QED
    BY <1>6, <2>1 DEF RequestMatches
<1> QED
  BY <1>1, <1>7, <1>8, <1>9, <1>10 DEF Inv

\* The flush ends, or goes on to its next step.
LEMMA EndsInv ==
    ASSUME Inv, NEW t \in Tabs, tab' = EndFlush(t), tab[t].pc # "await",
           UNCHANGED <<queue, resolved, net, landed, faults>>
    PROVE  Inv'
<1>1. tab[t].login \in {"in", "leaving", "out"} /\ faults' \in 0 .. MaxFaults
  BY DEF Inv, Types, TabType
<1> QED
  BY <1>1, EndFlushInv DEF EndFlush

LEMMA RewriteConflictInv ==
    ASSUME Inv, NEW t \in Tabs, RewriteConflict(t)
    PROVE  Inv'
<1>1. tab[t].pc # "await"
  BY DEF RewriteConflict, At
<1> QED
  BY <1>1, EndsInv DEF RewriteConflict

LEMMA RewrittenInv ==
    ASSUME Inv, NEW t \in Tabs, Rewritten(t)
    PROVE  Inv'
<1>1. /\ tab[t].pc \notin {"await", "reconcile"}
      /\ AfterRewrite(tab[t]) \in
            {"readSessions", "persistSessions", "snapshot", "select", "idle"}
  <2>1. tab[t].pc \in {"rewritePlayers", "rewriteSessions"}
    BY DEF Rewritten, At
  <2> QED
    BY <2>1 DEF AfterRewrite
<1>2. resolved' \in SUBSET landed
  BY DEF Rewritten, Inv
<1>3. CASE AfterRewrite(tab[t]) = "idle"
  BY <1>1, <1>3, EndsInv DEF Rewritten
<1>4. CASE AfterRewrite(tab[t]) # "idle"
  BY <1>1, <1>2, <1>4, GoesOn DEF Rewritten, Steps
<1> QED
  BY <1>3, <1>4

LEMMA SnapshotInv ==
    ASSUME Inv, NEW t \in Tabs, Snapshot(t)
    PROVE  Inv'
<1> DEFINE localIds == {a \in Unsynced : Kind[a] \in {"player", "session"}}
           waiting == {a \in Unsynced : Waits(a, localIds)}
           batch == Wire(Unsynced \ waiting)
           me == [tab[t] EXCEPT !.pc = "send", !.phase = 1, !.fresh = Unsynced,
                                !.localIds = localIds, !.batch = batch, !.deferred = waiting]
<1>1. tab[t].pc = "snapshot" /\ UNCHANGED <<queue, resolved, net, landed, faults>>
  BY DEF Snapshot, At
<1>2. CASE Unsynced = {}
  BY <1>1, <1>2, EndsInv DEF Snapshot
<1>3. CASE Unsynced # {}
  <2>1. tab' = [tab EXCEPT ![t] = me]
    <3>1. tab' = [tab EXCEPT ![t].pc = "send", ![t].phase = 1, ![t].fresh = Unsynced,
                             ![t].localIds = localIds, ![t].batch = batch,
                             ![t].deferred = waiting]
      BY <1>3, Zenon DEF Snapshot
    <3> HIDE DEF localIds, waiting, batch
    <3> QED
      BY <3>1 DEF Inv, Types
  <2>2. /\ localIds \subseteq Acts /\ waiting \subseteq Acts /\ Unsynced \subseteq Acts
        /\ batch \in Batches
    <3>1. waiting \subseteq Unsynced /\ localIds \subseteq Unsynced /\ Unsynced \subseteq Acts
      BY DEF Unsynced
    <3> HIDE DEF waiting, localIds
    <3> QED
      BY <3>1, WireType DEF Inv
  <2> HIDE DEF waiting, localIds, batch
  <2>3. /\ me \in TabType
        /\ me.pc = "send" /\ me.fresh = Unsynced
        /\ me.results = tab[t].results /\ me.learned = tab[t].learned
    <3>1. tab[t] \in TabType /\ "send" \in Steps /\ 1 \in 0 .. 2
      BY DEF Inv, Types, Steps
    <3> QED
      BY <2>2, <3>1 DEF TabType
  <2> HIDE DEF me
  <2>4. TabSound(tab[t]) /\ resolved' \in SUBSET landed
    BY <1>1 DEF Inv
  <2>5. TabSound(me)
    BY <1>1, <2>3, <2>4 DEF TabSound, FreshIsUnsynced, AnswerMatches, TabBelievesServer
  <2> QED
    BY <1>1, <2>1, <2>3, <2>4, <2>5, TabMovesOffline
<1> QED
  BY <1>2, <1>3

LEMMA SelectInv ==
    ASSUME Inv, NEW t \in Tabs, Select(t)
    PROVE  Inv'
<1> DEFINE ready == {a \in tab[t].deferred \cap Unsynced : ~Waits(a, tab[t].localIds)}
           batch == Wire(ready)
           me == [tab[t] EXCEPT !.pc = "send", !.phase = 2, !.fresh = Unsynced,
                                !.batch = batch]
<1>1. tab[t].pc = "select" /\ UNCHANGED <<queue, resolved, net, landed, faults>>
  BY DEF Select, At
<1>2. CASE ready = {}
  BY <1>1, <1>2, EndsInv DEF Select
<1>3. CASE ready # {}
  <2>1. tab' = [tab EXCEPT ![t] = me]
    <3>1. tab' = [tab EXCEPT ![t].pc = "send", ![t].phase = 2, ![t].fresh = Unsynced,
                             ![t].batch = batch]
      BY <1>3, Zenon DEF Select
    <3> HIDE DEF ready, batch
    <3> QED
      BY <3>1 DEF Inv, Types
  <2>2. Unsynced \subseteq Acts /\ batch \in Batches
    <3>1. ready \subseteq Unsynced /\ Unsynced \subseteq Acts
      BY DEF Unsynced
    <3> HIDE DEF ready
    <3> QED
      BY <3>1, WireType DEF Inv
  <2> HIDE DEF ready, batch
  <2>3. /\ me \in TabType
        /\ me.pc = "send" /\ me.fresh = Unsynced
        /\ me.results = tab[t].results /\ me.learned = tab[t].learned
    <3>1. tab[t] \in TabType /\ "send" \in Steps /\ 2 \in 0 .. 2
      BY DEF Inv, Types, Steps
    <3> QED
      BY <2>2, <3>1 DEF TabType
  <2> HIDE DEF me
  <2>4. TabSound(tab[t]) /\ resolved' \in SUBSET landed
    BY <1>1 DEF Inv
  <2>5. TabSound(me)
    BY <1>1, <2>3, <2>4 DEF TabSound, FreshIsUnsynced, AnswerMatches, TabBelievesServer
  <2> QED
    BY <1>1, <2>1, <2>3, <2>4, <2>5, TabMovesOffline
<1> QED
  BY <1>2, <1>3

LEMMA SendInv ==
    ASSUME Inv, NEW t \in Tabs, Send(t)
    PROVE  Inv'
<1>1. tab[t].pc = "send" /\ resolved' \in SUBSET landed
  BY DEF Send, At, Inv
<1>2. CASE DOMAIN tab[t].batch = {}
  BY <1>1, <1>2, GoesOn DEF Send, Steps
<1>3. CASE DOMAIN tab[t].batch # {}
  <2> DEFINE me == [tab[t] EXCEPT !.pc = "await"]
             request == [tab |-> t, acts |-> tab[t].batch]
  <2>1. tab' = [tab EXCEPT ![t] = me] /\ net' = net \cup {request}
    BY <1>3 DEF Send, Inv, Types
  <2>2. /\ me \in TabType
        /\ me.pc = "await" /\ me.fresh = tab[t].fresh /\ me.batch = tab[t].batch
        /\ me.results = tab[t].results /\ me.learned = tab[t].learned
    BY DEF Inv, Types, TabType, Steps
  <2>3. request \in [tab : Tabs \cup {None}, acts : Batches]
        /\ request.tab = t /\ request.acts = tab[t].batch
    BY DEF Inv, Types, TabType
  <2> HIDE DEF me, request
  <2>4. TabSound(tab[t])
    BY DEF Inv
  <2>5. TabSound(me)
    BY <1>1, <2>2, <2>4 DEF TabSound, FreshIsUnsynced, AnswerMatches, TabBelievesServer
  <2>6. net' \in SUBSET [tab : Tabs \cup {None}, acts : Batches]
    BY <2>1, <2>3 DEF Inv, Types
  <2>7. \A m \in net' : RequestMatches(m)'
    <3>1. tab'[t] = me /\ me.results = <<>> /\ \A u \in Tabs \ {t} : tab'[u] = tab[u]
      BY <1>1, <2>1, <2>2, <2>4 DEF Inv, Types, TabSound, AnswerMatches
    <3>2. \A m \in net : m.tab # t
      BY <1>1, EngineAssumption DEF Inv, RequestMatches
    <3> QED
      BY <2>1, <2>2, <2>3, <3>1, <3>2 DEF Inv, Types, RequestMatches
  <2>8. UNCHANGED <<queue, landed>> /\ faults' \in 0 .. MaxFaults
    BY DEF Send, Inv, Types
  <2> QED
    BY <1>1, <2>1, <2>2, <2>5, <2>6, <2>7, <2>8, TabMoves
<1> QED
  BY <1>2, <1>3

\* An answer is to the actions of the request, and what it does not reject has
\* landed.
LEMMA ServerHandlesInv ==
    ASSUME Inv, NEW m \in net, ServerHandles(m)
    PROVE  Inv'
<1> DEFINE results == [a \in DOMAIN m.acts |-> ServerResult(a, m.acts[a])]
<1>1. /\ net' = net \ {m}
      /\ landed' = landed \cup {a \in DOMAIN results : results[a] = "applied"}
      /\ tab' = IF m.tab = None THEN tab ELSE [tab EXCEPT ![m.tab].results = results]
      /\ UNCHANGED <<queue, resolved, faults>>
  BY DEF ServerHandles
<1>2. m.tab \in Tabs \cup {None} /\ m.acts \in Batches /\ DOMAIN m.acts \in SUBSET Acts
  BY DEF Inv, Types, Batches
<1>3. results \in Answers /\ DOMAIN results = DOMAIN m.acts
  BY <1>2 DEF ServerResult, Results, Answers
<1>4. \A a \in DOMAIN results :
          results[a] # "rejected" => a \in landed \/ results[a] = "applied"
  BY DEF ServerResult
<1> HIDE DEF results
<1>5. /\ landed \subseteq landed' /\ landed' \subseteq Acts
      /\ \A a \in DOMAIN results : results[a] # "rejected" => a \in landed'
  BY <1>1, <1>2, <1>3, <1>4 DEF Inv, Types
<1>6. /\ tab' \in [Tabs -> TabType]
      /\ \A u \in Tabs :
            /\ tab'[u].todo = tab[u].todo /\ tab'[u].fresh = tab[u].fresh
            /\ tab'[u].pc = tab[u].pc /\ tab'[u].batch = tab[u].batch
            /\ tab'[u].learned = tab[u].learned
            /\ tab'[u].results = IF u = m.tab THEN results ELSE tab[u].results
  <2>1. CASE m.tab = None
    <3>1. \A u \in Tabs : u # m.tab
      BY <2>1, EngineAssumption
    <3> QED
      BY <1>1, <2>1, <3>1 DEF Inv, Types
  <2>2. CASE m.tab \in Tabs
    <3> DEFINE me == [tab[m.tab] EXCEPT !.results = results]
    <3>1. tab' = [tab EXCEPT ![m.tab] = me]
      BY <1>1, <2>2, EngineAssumption DEF Inv, Types
    <3>2. /\ me \in TabType
          /\ me.todo = tab[m.tab].todo /\ me.fresh = tab[m.tab].fresh
          /\ me.pc = tab[m.tab].pc /\ me.batch = tab[m.tab].batch
          /\ me.learned = tab[m.tab].learned /\ me.results = results
      BY <1>3, <2>2 DEF Inv, Types, TabType
    <3> HIDE DEF me
    <3> QED
      BY <2>2, <3>1, <3>2 DEF Inv, Types
  <2> QED
    BY <1>2, <2>1, <2>2
<1>7. Types'
  BY <1>1, <1>5, <1>6 DEF Inv, Types
<1>8. ASSUME NEW u \in Tabs PROVE TabSound(tab[u])'
  <2>1. TabSound(tab[u])
    BY DEF Inv
  <2>2. FreshIsUnsynced(tab[u])'
    BY <1>1, <1>6, <2>1 DEF TabSound, FreshIsUnsynced, Unsynced
  <2>3. u = m.tab => tab[u].pc = "await" /\ m.acts = tab[u].batch
    BY EngineAssumption DEF Inv, RequestMatches
  <2>4. AnswerMatches(tab[u])'
    BY <1>3, <1>6, <2>1, <2>3 DEF TabSound, AnswerMatches
  <2>5. TabBelievesServer(tab[u])'
    BY <1>5, <1>6, <2>1 DEF TabSound, TabBelievesServer
  <2> QED
    BY <2>2, <2>4, <2>5 DEF TabSound
<1>9. BelievesServer' /\ (resolved \subseteq landed)'
  BY <1>1, <1>5 DEF Inv, BelievesServer
<1>10. \A n \in net' : RequestMatches(n)'
  BY <1>1, <1>6 DEF Inv, Types, RequestMatches
<1> QED
  BY <1>7, <1>8, <1>9, <1>10 DEF Inv

LEMMA LoseRequestInv ==
    ASSUME Inv, NEW m \in net, LoseRequest(m)
    PROVE  Inv'
<1>1. Types' /\ BelievesServer' /\ (resolved \subseteq landed)'
  BY DEF LoseRequest, Inv, Types, BelievesServer
<1>2. \A u \in Tabs : TabSound(tab[u])'
  BY DEF LoseRequest, Inv, TabSound, FreshIsUnsynced, AnswerMatches, TabBelievesServer, Unsynced
<1>3. \A n \in net' : RequestMatches(n)'
  BY DEF LoseRequest, Inv, RequestMatches
<1> QED
  BY <1>1, <1>2, <1>3 DEF Inv

LEMMA ReceiveInv ==
    ASSUME Inv, NEW t \in Tabs, Receive(t)
    PROVE  Inv'
<1> DEFINE sent == DOMAIN tab[t].batch
           me == [tab[t] EXCEPT !.pc = "reconcile", !.todo = sent, !.learned = {}]
<1>1. /\ tab[t].pc = "await" /\ tab[t].results # <<>>
      /\ UNCHANGED <<queue, resolved, net, landed, faults>>
  BY DEF Receive, At, Answered
<1>2. tab' = [tab EXCEPT ![t] = me]
  BY DEF Receive, Inv, Types
<1>3. TabSound(tab[t]) /\ sent \subseteq Acts
  BY DEF Inv, Types, TabType, Batches
<1>4. sent = DOMAIN tab[t].results
  BY <1>1, <1>3 DEF TabSound, AnswerMatches
<1> HIDE DEF sent
<1>5. /\ me \in TabType
      /\ me.pc = "reconcile" /\ me.fresh = tab[t].fresh /\ me.todo = sent
      /\ me.results = tab[t].results /\ me.learned = {}
  <2>1. tab[t] \in TabType /\ "reconcile" \in Steps
    BY DEF Inv, Types, Steps
  <2> QED
    BY <1>3, <2>1 DEF TabType
<1> HIDE DEF me
<1>6. TabSound(me)
  BY <1>3, <1>4, <1>5 DEF TabSound, FreshIsUnsynced, AnswerMatches, TabBelievesServer
<1>7. \A m \in net' : RequestMatches(m)'
  <2>1. \A m \in net : m.tab # t
    BY <1>1, EngineAssumption DEF Inv, RequestMatches
  <2> QED
    BY <1>1, <1>2, <2>1 DEF Inv, Types, RequestMatches
<1>8. /\ faults' \in 0 .. MaxFaults /\ resolved' \in SUBSET landed
      /\ net' \in SUBSET [tab : Tabs \cup {None}, acts : Batches]
  BY <1>1 DEF Inv, Types
<1> QED
  BY <1>1, <1>2, <1>5, <1>6, <1>7, <1>8, TabMoves

\* A tab that ends its flush outdates the rows it leaves unsynced.
LEMMA NetworkErrorInv ==
    ASSUME Inv, NEW t \in Tabs, NetworkError(t)
    PROVE  Inv'
<1> DEFINE rows == DOMAIN tab[t].batch \cap tab[t].fresh
           end == EndFlush(t)
           idle == [IdleTab EXCEPT !.login = tab[t].login]
<1>1. /\ tab' = Outdate(end, rows) /\ net' = Abandoned(t)
      /\ UNCHANGED <<queue, resolved, landed, faults>>
  BY DEF NetworkError, Retained
<1>2. end = [tab EXCEPT ![t] = idle]
  BY DEF EndFlush
<1>3. idle \in TabType /\ TabSound(idle)
  BY IdleIsSound DEF Inv, Types, TabType
<1> HIDE DEF idle, end, rows
<1>4. /\ end \in [Tabs -> TabType] /\ end[t] = idle
      /\ \A u \in Tabs \ {t} : end[u] = tab[u]
  BY <1>2, <1>3 DEF Inv, Types
<1>5. \A u \in Tabs : TabSound(end[u])
  BY <1>3, <1>4 DEF Inv
<1>6. /\ tab' \in [Tabs -> TabType]
      /\ \A u \in Tabs :
            /\ tab'[u].fresh = end[u].fresh \ rows
            /\ tab'[u].pc = end[u].pc
            /\ tab'[u].batch = end[u].batch
            /\ tab'[u].todo = end[u].todo
            /\ tab'[u].results = end[u].results
            /\ tab'[u].learned = end[u].learned
  BY <1>1, <1>4, Outdated
<1>7. /\ net' \in SUBSET [tab : Tabs \cup {None}, acts : Batches]
      /\ \A m \in net' : RequestMatches(m)'
  BY <1>1, <1>4, <1>6, AbandonedMatch
<1>8. Types' /\ BelievesServer' /\ (resolved \subseteq landed)'
  BY <1>1, <1>6, <1>7 DEF Inv, Types, BelievesServer
<1>9. \A u \in Tabs : TabSound(tab[u])'
  BY <1>1, <1>5, <1>6
     DEF TabSound, FreshIsUnsynced, AnswerMatches, TabBelievesServer, Unsynced
<1> QED
  BY <1>7, <1>8, <1>9 DEF Inv

\* The result that a tab writes next is one that the server gave.
LEMMA NextResultIsSaid ==
    ASSUME Inv, NEW t \in Tabs, tab[t].pc = "reconcile", tab[t].todo # {}
    PROVE  LET a == NextResult(t)
           IN  /\ a \in tab[t].todo /\ a \in Acts
               /\ tab[t].results[a] \in Results
               /\ tab[t].results[a] # "rejected" => a \in landed
<1> DEFINE a == NextResult(t)
<1>1. TabSound(tab[t])
  BY DEF Inv
<1>2. a \in tab[t].todo /\ a \in Acts /\ a \in DOMAIN tab[t].results
  BY <1>1, NextResultIsLeft DEF Inv, Types, TabType, TabSound, AnswerMatches
<1> HIDE DEF a
<1>3. /\ tab[t].results[a] \in Results
      /\ tab[t].results[a] # "rejected" => a \in landed
  BY <1>1, <1>2 DEF Inv, Types, TabType, Answers, TabSound, TabBelievesServer
<1> QED
  BY <1>2, <1>3 DEF a

\* A row is settled only by whoever still knows it as it is, and only as the
\* server said.
LEMMA ReconcileInv ==
    ASSUME Inv, NEW t \in Tabs, Reconcile(t)
    PROVE  Inv'
<1> DEFINE a == NextResult(t)
           result == tab[t].results[a]
           learned == IF result = "rejected" THEN tab[t].learned
                      ELSE tab[t].learned \cup {a}
<1>1. /\ tab[t].pc = "reconcile" /\ tab[t].todo # {}
      /\ UNCHANGED <<resolved, net, landed, faults>>
  BY DEF Reconcile, At
<1>2. TabSound(tab[t])
  BY DEF Inv
<1>3. a \in tab[t].todo /\ a \in Acts
  BY <1>1, NextResultIsSaid
<1>4. result \in Results /\ (result # "rejected" => a \in landed)
  BY <1>1, NextResultIsSaid
<1>5. learned \subseteq landed /\ learned \subseteq Acts
  BY <1>2, <1>3, <1>4 DEF Inv, Types, TabType, TabSound, TabBelievesServer
<1>6. CASE a \notin tab[t].fresh
  <2> DEFINE me == [tab[t] EXCEPT !.todo = @ \ {a}]
  <2>1. tab' = [tab EXCEPT ![t] = me] /\ UNCHANGED queue
    BY <1>6 DEF Reconcile, Inv, Types
  <2> HIDE DEF a
  <2>2. /\ me \in TabType
        /\ me.pc = tab[t].pc /\ me.fresh = tab[t].fresh
        /\ me.todo \subseteq tab[t].todo /\ me.batch = tab[t].batch
        /\ me.results = tab[t].results /\ me.learned = tab[t].learned
    BY DEF Inv, Types, TabType
  <2> HIDE DEF me
  <2>3. TabSound(me)
    BY <1>2, <2>2 DEF TabSound, FreshIsUnsynced, AnswerMatches, TabBelievesServer
  <2>4. resolved' \in SUBSET landed
    BY <1>1 DEF Inv
  <2> QED
    BY <1>1, <2>1, <2>2, <2>3, <2>4, TabMovesOffline
<1>7. CASE a \in tab[t].fresh
  <2> DEFINE done == [tab EXCEPT ![t].todo = @ \ {a}, ![t].learned = learned]
  <2>1. queue' = [queue EXCEPT ![a].status = result] /\ tab' = Outdate(done, {a})
    BY <1>7 DEF Reconcile
  <2> HIDE DEF a, result, learned
  <2>2. /\ done \in [Tabs -> TabType]
        /\ \A u \in Tabs :
              /\ done[u].todo \subseteq tab[u].todo /\ done[u].fresh = tab[u].fresh
              /\ done[u].pc = tab[u].pc /\ done[u].batch = tab[u].batch
              /\ done[u].results = tab[u].results
              /\ done[u].learned \subseteq landed
    <3> DEFINE me == [tab[t] EXCEPT !.todo = @ \ {a}, !.learned = learned]
    <3>1. done = [tab EXCEPT ![t] = me]
      BY DEF Inv, Types
    <3>2. /\ me \in TabType
          /\ me.todo \subseteq tab[t].todo /\ me.fresh = tab[t].fresh
          /\ me.pc = tab[t].pc /\ me.batch = tab[t].batch
          /\ me.results = tab[t].results /\ me.learned = learned
      <4>1. tab[t] \in TabType /\ learned \in SUBSET Acts
        BY <1>5 DEF Inv, Types
      <4> QED
        BY <4>1 DEF TabType
    <3> HIDE DEF me, done
    <3>3. /\ tab \in [Tabs -> TabType] /\ learned \subseteq landed
          /\ \A u \in Tabs : tab[u].learned \subseteq landed
      BY <1>5 DEF Inv, Types, TabSound, TabBelievesServer
    <3>4. \A u \in Tabs : done[u] = IF u = t THEN me ELSE tab[u]
      BY <3>1, <3>3
    <3> QED
      BY <3>1, <3>2, <3>3, <3>4
  <2> HIDE DEF done
  <2>3. /\ tab' \in [Tabs -> TabType]
        /\ \A u \in Tabs :
              /\ tab'[u].todo \subseteq tab[u].todo /\ tab'[u].fresh = tab[u].fresh \ {a}
              /\ tab'[u].pc = tab[u].pc /\ tab'[u].batch = tab[u].batch
              /\ tab'[u].results = tab[u].results
              /\ tab'[u].learned \subseteq landed
    <3>1. /\ Outdate(done, {a}) \in [Tabs -> TabType]
          /\ \A u \in Tabs :
                /\ Outdate(done, {a})[u].fresh = done[u].fresh \ {a}
                /\ Outdate(done, {a})[u].pc = done[u].pc
                /\ Outdate(done, {a})[u].batch = done[u].batch
                /\ Outdate(done, {a})[u].todo = done[u].todo
                /\ Outdate(done, {a})[u].results = done[u].results
                /\ Outdate(done, {a})[u].learned = done[u].learned
      BY <2>2, Outdated
    <3> QED
      BY <2>1, <2>2, <3>1
  <2>4. queue[a] \in RowType /\ queue[a] # None
    BY <1>2, <1>7, <1>3 DEF TabSound, FreshIsUnsynced, Unsynced, Inv, Types
  <2>5. /\ queue' \in [Acts -> RowType \cup {None}] /\ queue'[a] # None
        /\ queue'[a].status = result
        /\ queue'[a].player = queue[a].player /\ queue'[a].session = queue[a].session
        /\ \A b \in Acts \ {a} : queue'[b] = queue[b]
    <3>1. [queue[a] EXCEPT !.status = result] \in RowType
      BY <1>4, <2>4 DEF RowType, Results
    <3> QED
      BY <1>3, <2>1, <2>4, <3>1, NoneAssumption DEF Inv, Types, RowType
  <2>6. Types'
    BY <1>1, <2>3, <2>5 DEF Inv, Types
  <2>7. Unsynced \ {a} \subseteq Unsynced'
    BY <2>5 DEF Unsynced
  <2>8. \A u \in Tabs : TabSound(tab[u])'
    BY <1>1, <2>3, <2>7 DEF Inv, TabSound, FreshIsUnsynced, AnswerMatches, TabBelievesServer
  <2>9. BelievesServer'
    BY <1>1, <1>4, <2>4, <2>5 DEF Inv, BelievesServer
  <2>10. \A m \in net' : RequestMatches(m)'
    BY <1>1, <2>3 DEF Inv, Types, RequestMatches
  <2> QED
    BY <1>1, <2>6, <2>8, <2>9, <2>10 DEF Inv
<1> QED
  BY <1>6, <1>7

LEMMA ReconciledInv ==
    ASSUME Inv, NEW t \in Tabs, Reconciled(t)
    PROVE  Inv'
<1> DEFINE nothing == <<>>
           me == [tab[t] EXCEPT !.pc = "persistPlayers", !.results = nothing]
<1>1. /\ tab[t].pc = "reconcile"
      /\ UNCHANGED <<queue, resolved, net, landed, faults>>
  BY DEF Reconciled, At
<1>2. tab' = [tab EXCEPT ![t] = me]
  BY DEF Reconciled, Inv, Types
<1>3. nothing \in Answers /\ nothing = <<>> /\ DOMAIN nothing = {}
  BY EmptyBatch
<1> HIDE DEF nothing
<1>4. /\ me \in TabType
      /\ me.pc = "persistPlayers" /\ me.fresh = tab[t].fresh
      /\ me.results = nothing /\ me.learned = tab[t].learned
  <2>1. tab[t] \in TabType /\ "persistPlayers" \in Steps
    BY DEF Inv, Types, Steps
  <2> QED
    BY <1>3, <2>1 DEF TabType
<1> HIDE DEF me
<1>5. TabSound(tab[t]) /\ resolved' \in SUBSET landed
  BY <1>1 DEF Inv
<1>6. TabSound(me)
  BY <1>3, <1>4, <1>5 DEF TabSound, FreshIsUnsynced, AnswerMatches, TabBelievesServer
<1> QED
  BY <1>1, <1>2, <1>4, <1>5, <1>6, TabMovesOffline

\* Only a producer that has landed is recorded in the metadata.
LEMMA PersistInv ==
    ASSUME Inv, NEW t \in Tabs, PersistPlayers(t) \/ PersistSessions(t)
    PROVE  Inv'
<1>1. resolved' \in SUBSET landed
  <2>1. resolved \subseteq landed /\ tab[t].learned \subseteq landed
    BY DEF Inv, TabSound, TabBelievesServer
  <2> QED
    BY <2>1 DEF PersistPlayers, PersistSessions, Learned
<1>2. /\ tab[t].pc \in {"persistPlayers", "persistSessions"}
      /\ UNCHANGED <<queue, net, landed, faults>>
  BY DEF PersistPlayers, PersistSessions, At
<1>3. CASE \E step \in {"readPlayers", "persistSessions", "readSessions", "select"} :
              tab' = [tab EXCEPT ![t].pc = step]
  BY <1>1, <1>2, <1>3, GoesOn DEF Steps
<1>4. CASE tab' = EndFlush(t)
  <2> DEFINE idle == [IdleTab EXCEPT !.login = tab[t].login]
  <2>1. idle \in TabType /\ TabSound(idle)
    BY IdleIsSound DEF Inv, Types, TabType
  <2>2. tab' = [tab EXCEPT ![t] = idle]
    BY <1>4 DEF EndFlush
  <2> HIDE DEF idle
  <2> QED
    BY <1>1, <1>2, <2>1, <2>2, TabMovesOffline
<1> QED
  BY <1>3, <1>4 DEF PersistPlayers, PersistSessions

-----------------------------------------------------------------------------
(* The lifecycle of a tab.                                                 *)

\* A flush that is stopped or cut short.
LEMMA StoppedInv ==
    ASSUME Inv, NEW t \in Tabs, StopStale(t) \/ Unauthorized(t) \/ Crash(t)
    PROVE  Inv'
<1>1. UNCHANGED <<queue, resolved, landed>> /\ faults' \in 0 .. MaxFaults
  BY EngineAssumption DEF StopStale, Unauthorized, Crash, Inv, Types
<1>2. CASE StopStale(t)
  <2>1. tab[t].login \in {"in", "leaving", "out"}
    BY DEF Inv, Types, TabType
  <2> QED
    BY <1>1, <1>2, <2>1, EndFlushInv DEF StopStale, EndFlush
<1>3. CASE Unauthorized(t)
  BY <1>1, <1>3, EndFlushInv DEF Unauthorized
<1>4. CASE Crash(t)
  <2> DEFINE login == IF tab[t].login = "out" THEN "out" ELSE "in"
  <2>1. login \in {"in", "leaving", "out"}
    OBVIOUS
  <2>2. tab' = [tab EXCEPT ![t] = [IdleTab EXCEPT !.login = login]] /\ net' = Abandoned(t)
    BY <1>4 DEF Crash
  <2> HIDE DEF login
  <2> QED
    BY <1>1, <2>1, <2>2, EndFlushInv
<1> QED
  BY <1>2, <1>3, <1>4

\* A tab whose flush stands where the other's does.
SameFlush(me, other) ==
    /\ me.pc = other.pc /\ me.batch = other.batch /\ me.fresh = other.fresh
    /\ me.todo = other.todo /\ me.results = other.results /\ me.learned = other.learned

\* What a tab knows of its session is no part of its flush.
LEMMA SessionOfTab ==
    ASSUME NEW me \in TabType, NEW login \in {"in", "leaving", "out"}
    PROVE  LET after == [me EXCEPT !.login = login, !.current = FALSE]
           IN  after \in TabType /\ SameFlush(after, me)
  BY DEF TabType, SameFlush

LEMMA EndedTabs ==
    ASSUME tab \in [Tabs -> TabType]
    PROVE  /\ Ended(tab) \in [Tabs -> TabType]
           /\ \A u \in Tabs : SameFlush(Ended(tab)[u], tab[u])
<1>1. ASSUME NEW u \in Tabs
      PROVE  Ended(tab)[u] \in TabType /\ SameFlush(Ended(tab)[u], tab[u])
  <2> DEFINE after == [tab[u] EXCEPT !.login = "out", !.current = FALSE]
  <2>1. after \in TabType /\ SameFlush(after, tab[u])
    BY SessionOfTab
  <2>2. Ended(tab)[u] = after
    BY DEF Ended
  <2> QED
    BY <2>1, <2>2
<1>2. Ended(tab) = [u \in Tabs |-> Ended(tab)[u]]
  BY DEF Ended
<1> QED
  BY <1>1, <1>2

\* Logging in and out does not touch what a flush has read or sent.
LEMMA SessionChangesInv ==
    ASSUME Inv, NEW t \in Tabs, Logout(t) \/ RemoveMarker(t) \/ Login(t) \/ Restore(t)
    PROVE  Inv'
<1>1. UNCHANGED <<queue, resolved, net, landed>> /\ faults' \in 0 .. MaxFaults
  BY EngineAssumption DEF Logout, RemoveMarker, Login, Restore, Inv, Types
<1>2. /\ tab' \in [Tabs -> TabType]
      /\ \A u \in Tabs :
            /\ tab'[u].todo = tab[u].todo /\ tab'[u].fresh = tab[u].fresh
            /\ tab'[u].pc = tab[u].pc /\ tab'[u].batch = tab[u].batch
            /\ tab'[u].results = tab[u].results /\ tab'[u].learned = tab[u].learned
  <2>1. CASE Logout(t)
    <3> DEFINE me == [tab[t] EXCEPT !.login = "leaving", !.current = FALSE]
    <3>1. tab' = [tab EXCEPT ![t] = me]
      BY <2>1 DEF Logout, Inv, Types
    <3>2. me \in TabType /\ SameFlush(me, tab[t])
      BY SessionOfTab DEF Inv, Types
    <3> HIDE DEF me
    <3> QED
      BY <3>1, <3>2 DEF Inv, Types, SameFlush
  <2>2. CASE RemoveMarker(t)
    BY <2>2, EndedTabs DEF RemoveMarker, Inv, Types, SameFlush
  <2>3. CASE Login(t)
    <3> DEFINE ended == Ended(tab)
    <3>1. ended \in [Tabs -> TabType] /\ \A u \in Tabs : SameFlush(ended[u], tab[u])
      BY EndedTabs DEF Inv, Types
    <3>2. tab' = [ended EXCEPT ![t].login = "in"]
      BY <2>3 DEF Login
    <3> HIDE DEF ended
    <3> QED
      BY <3>1, <3>2 DEF TabType, SameFlush
  <2>4. CASE Restore(t)
    BY <2>4 DEF Restore, Inv, Types, TabType
  <2> QED
    BY <2>1, <2>2, <2>3, <2>4
<1>3. Types' /\ BelievesServer' /\ (resolved \subseteq landed)'
  BY <1>1, <1>2 DEF Inv, Types, BelievesServer
<1>4. \A u \in Tabs : TabSound(tab[u])'
  BY <1>1, <1>2 DEF Inv, TabSound, FreshIsUnsynced, AnswerMatches, TabBelievesServer, Unsynced
<1>5. \A m \in net' : RequestMatches(m)'
  BY <1>1, <1>2 DEF Inv, Types, RequestMatches
<1> QED
  BY <1>3, <1>4, <1>5 DEF Inv

-----------------------------------------------------------------------------
(* The invariant holds in every reachable state.                           *)

LEMMA StutterInv == Inv /\ UNCHANGED vars => Inv'
<1> SUFFICES ASSUME Inv, UNCHANGED vars
             PROVE  Inv'
  OBVIOUS
<1>1. \A u \in Tabs : TabSound(tab[u])'
  BY DEF Inv, TabSound, FreshIsUnsynced, AnswerMatches, TabBelievesServer, Unsynced, vars
<1> QED
  BY <1>1 DEF Inv, Types, RequestMatches, BelievesServer, vars

THEOREM Inductive == Spec => []Inv
<1>1. Init => Inv
  BY InitInv
<1>2. Inv /\ [Next]_vars => Inv'
  <2> SUFFICES ASSUME Inv, [Next]_vars
               PROVE  Inv'
    OBVIOUS
  <2>1. ASSUME NEW t \in Tabs, NEW g \in Captures, Capture(t, g) PROVE Inv'
    BY <2>1, CaptureInv
  <2>2. ASSUME NEW t \in Tabs, StartFlush(t) PROVE Inv'
    BY <2>2, StartFlushInv
  <2>3. ASSUME NEW t \in Tabs, Continue(t) PROVE Inv'
    BY <2>3, ReadInv, RewriteInv, RewriteConflictInv, RewrittenInv, SnapshotInv, SelectInv,
       SendInv, ReconcileInv, ReconciledInv, PersistInv, StoppedInv DEF Continue
  <2>4. ASSUME NEW t \in Tabs, Exchange(t) PROVE Inv'
    BY <2>4, ServerHandlesInv, ReceiveInv DEF Exchange
  <2>5. ASSUME NEW t \in Tabs, NetworkError(t) \/ Unauthorized(t) PROVE Inv'
    BY <2>5, NetworkErrorInv, StoppedInv
  <2>6. ASSUME NEW m \in net, ServerHandles(m) \/ LoseRequest(m) PROVE Inv'
    BY <2>6, ServerHandlesInv, LoseRequestInv
  <2>7. ASSUME NEW t \in Tabs,
               Logout(t) \/ RemoveMarker(t) \/ Login(t) \/ Restore(t) \/ Crash(t)
        PROVE  Inv'
    BY <2>7, SessionChangesInv, StoppedInv
  <2>8. Terminating \/ UNCHANGED vars => Inv'
    BY StutterInv DEF Terminating
  <2> QED
    BY <2>1, <2>2, <2>3, <2>4, <2>5, <2>6, <2>7, <2>8 DEF Next
<1> QED
  BY <1>1, <1>2, PTL DEF Spec

\* Every variable keeps its type, whatever the tabs, the network and the server
\* do.
THEOREM TypeCorrect == Spec => []TypeOK
<1>1. Inv => TypeOK
  <2> SUFFICES ASSUME Inv PROVE TypeOK
    OBVIOUS
  <2>1. ASSUME NEW t \in Tabs
        PROVE  /\ tab[t].login \in {"in", "leaving", "out"}
               /\ tab[t].pc \in Steps
               /\ tab[t].phase \in 0 .. 2
               /\ tab[t].todo \cup tab[t].deferred \cup tab[t].learned \subseteq Acts
               /\ tab[t].pc = "reconcile" => tab[t].todo \subseteq DOMAIN tab[t].results
    BY DEF Inv, Types, TabType, TabSound, AnswerMatches
  <2>2. \A m \in net : m.tab \in Tabs \cup {None} /\ DOMAIN m.acts \subseteq Acts
    BY DEF Inv, Types, Batches
  <2> QED
    BY <2>1, <2>2 DEF Inv, Types, TypeOK
<1> QED
  BY <1>1, Inductive, PTL

\* What a device shows as synced the server has applied, and a server id stands
\* in a row only after the action that creates what it names was applied.
THEOREM DeviceBelievesServer == Spec => []BelievesServer
<1>1. Inv => BelievesServer
  BY DEF Inv
<1> QED
  BY <1>1, Inductive, PTL

\* No captured row is ever lost, and a settled one is never written again: a tab
\* writes only what it has read unsynced and nobody has written since.
THEOREM SettledStays == Spec => TerminalIsFinal
<1> DEFINE Kept ==
        \A a \in Acts : queue[a] # None =>
            /\ queue'[a] # None
            /\ queue[a].status # "unsynced" => queue'[a] = queue[a]
<1>1. ASSUME Inv, Inv', [Next]_vars PROVE Kept
  <2>1. ASSUME NEW t \in Tabs, NEW g \in Captures, Capture(t, g) PROVE Kept
    BY <2>1, NoneAssumption DEF Capture
  <2>2. ASSUME NEW t \in Tabs, Rewrite(t) PROVE Kept
    <3>1. PICK a \in tab[t].fresh :
              \/ queue' = [queue EXCEPT ![a].player = "server"]
              \/ queue' = [queue EXCEPT ![a].session = "server"]
      BY <2>2 DEF Rewrite
    <3>2. a \in Unsynced
      BY <1>1, <3>1 DEF Inv, TabSound, FreshIsUnsynced
    <3>3. [queue[a] EXCEPT !.player = "server"] \in RowType
          /\ [queue[a] EXCEPT !.session = "server"] \in RowType
      BY <1>1, <3>2 DEF Inv, Types, Unsynced, RowType, References
    <3> QED
      BY <1>1, <3>1, <3>2, <3>3, NoneAssumption DEF Inv, Types, Unsynced
  <2>3. ASSUME NEW t \in Tabs, Reconcile(t) PROVE Kept
    <3> DEFINE a == NextResult(t)
               row == [queue[a] EXCEPT !.status = tab[t].results[a]]
    <3>1. CASE a \notin tab[t].fresh
      BY <2>3, <3>1 DEF Reconcile
    <3>2. CASE a \in tab[t].fresh
      <4>1. a \in Unsynced /\ a \in Acts
        BY <1>1, <3>2 DEF Inv, TabSound, FreshIsUnsynced, Unsynced
      <4>2. queue' = [queue EXCEPT ![a] = row]
        BY <2>3, <3>2 DEF Reconcile
      <4>3. tab[t].results[a] \in Results
        BY <1>1, <2>3, NextResultIsSaid DEF Reconcile, At
      <4>4. row \in RowType
        BY <1>1, <4>1, <4>3 DEF Inv, Types, Unsynced, RowType, Results
      <4> HIDE DEF row, a
      <4>5. queue'[a] = row /\ \A b \in Acts \ {a} : queue'[b] = queue[b]
        BY <1>1, <4>1, <4>2 DEF Inv, Types
      <4>6. queue'[a] # None
        BY <4>4, <4>5, NoneAssumption
      <4> QED
        BY <4>1, <4>5, <4>6 DEF Unsynced
    <3> QED
      BY <3>1, <3>2
  <2>4. UNCHANGED queue => Kept
    OBVIOUS
  <2>5. CASE UNCHANGED vars
    BY <2>4, <2>5 DEF vars
  <2>6. ASSUME NEW t \in Tabs, StartFlush(t) \/ Continue(t) \/ Exchange(t)
        PROVE  Kept
    <3>1. ASSUME ~Rewrite(t), ~Reconcile(t) PROVE UNCHANGED queue
      BY <2>6, <3>1
         DEF StartFlush, Continue, Exchange, ReadPlayers, ReadSessions, RewriteConflict,
             Rewritten, Snapshot, Select, Send, Reconciled, PersistPlayers, PersistSessions,
             StopStale, ServerHandles, Receive
    <3> QED
      BY <2>2, <2>3, <2>4, <3>1
  <2> QED
    BY <1>1, <2>1, <2>4, <2>5, <2>6
       DEF Next, NetworkError, Unauthorized, ServerHandles, LoseRequest, Logout,
           RemoveMarker, Login, Restore, Crash, Terminating
<1>2. Spec => []Inv
  BY Inductive
<1> QED
  BY <1>1, <1>2, PTL DEF Spec, TerminalIsFinal

-----------------------------------------------------------------------------
(* One tab without faults sends no orphan.                                 *)

\* What a capture of the app is like: an action names a player action as its
\* player and a session action as its session, and a registration needs neither.
ProducersOfTheirKind ==
    \A a \in Acts :
        /\ PlayerOf[a] # None => Kind[PlayerOf[a]] = "player" /\ Kind[a] # "player"
        /\ SessionOf[a] # None => Kind[SessionOf[a]] = "session"

Has(a, statuses) == queue[a] # None /\ queue[a].status \in statuses
Refused(a) == Has(a, {"rejected"})
Settled(a) == Has(a, {"applied", "skipped"})

\* An action comes with its producers or after them.
Present ==
    \A a \in Acts : queue[a] # None =>
        /\ \A p \in Producers(a) : queue[p] # None
        /\ queue[a].player = "local" => PlayerOf[a] # None
        /\ queue[a].session = "local" => SessionOf[a] # None

\* The flush belongs to the session, and the rows that it is about to rewrite
\* are as it read them.
InCharge(me) ==
    /\ me.login = "in" /\ (me.pc # "idle" => me.current)
    /\ me.pc \in {"rewritePlayers", "rewriteSessions"} => me.todo \subseteq me.fresh

\* The ids that the flush has learned and not yet stored.
PlayersToStore(me) == IF me.pc \in {"reconcile", "persistPlayers"} THEN me.learned ELSE {}

SessionsToStore(me) ==
    IF \/ me.pc \in {"reconcile", "persistPlayers", "persistSessions"}
       \/ me.pc \in {"readPlayers", "rewritePlayers"} /\ me.phase = 1
    THEN me.learned ELSE {}

\* The server id of what is settled is known.
SettledIsKnown(me) ==
    \A a \in Acts : Settled(a) =>
        /\ Kind[a] = "player" => a \in resolved \cup PlayersToStore(me)
        /\ Kind[a] = "session" => a \in resolved \cup SessionsToStore(me)

\* The rows of a set that still carry a local id carry one that is not resolved.
PlayersCurrent(rows) == \A a \in rows : queue[a].player = "local" => PlayerOf[a] \notin resolved
SessionsCurrent(rows) == \A a \in rows : queue[a].session = "local" => SessionOf[a] \notin resolved

\* What the passes before the snapshot have achieved.
PassesDone(me) ==
    /\ me.pc \in {"send", "await", "reconcile", "persistPlayers", "persistSessions", "select"} =>
          me.phase # 0
    /\ me.pc = "snapshot" => me.phase = 0 /\ SessionsCurrent(Unsynced)
    /\ me.phase = 0 =>
          /\ me.pc = "rewritePlayers" => PlayersCurrent(Unsynced \ me.todo)
          /\ me.pc \in {"readSessions", "rewriteSessions", "snapshot"} => PlayersCurrent(Unsynced)
          /\ me.pc = "rewriteSessions" => SessionsCurrent(Unsynced \ me.todo)

\* A deferred row that no longer waits, a row that is sent, an answer: each names
\* a local id only of an action that was refused.
DeferredInOrder(me) ==
    \A a \in me.deferred :
        /\ queue[a] # None
        /\ a \in Unsynced /\ queue[a].player = "local" /\ PlayerOf[a] \notin me.localIds =>
              Refused(PlayerOf[a])
        /\ a \in Unsynced /\ queue[a].session = "local" /\ SessionOf[a] \notin me.localIds =>
              Refused(SessionOf[a])

Excused(a) == a \in Invalid \/ \E p \in Producers(a) : Refused(p)

SentInOrder(me) ==
    me.pc \in {"send", "await"} =>
        \A a \in DOMAIN me.batch : "local" \in me.batch[a] => Excused(a)

AnsweredInOrder(me) == \A a \in DOMAIN me.results : me.results[a] = "rejected" => Excused(a)

Orderly(me) ==
    /\ InCharge(me) /\ SettledIsKnown(me) /\ PassesDone(me)
    /\ DeferredInOrder(me) /\ SentInOrder(me) /\ AnsweredInOrder(me)

Calm == faults = 0 => Present /\ NoOrphan /\ \A t \in Tabs : Orderly(tab[t])

\* A tab that moves on over the same rows stays in order.
LEMMA CalmMoves ==
    ASSUME Calm, faults = 0, NEW t, Tabs = {t},
           UNCHANGED <<queue, resolved>>, Orderly(tab'[t])
    PROVE  Calm'
<1>1. Present' /\ NoOrphan'
  BY DEF Calm, Present, NoOrphan
<1>2. Orderly(tab[t])'
  BY DEF Orderly, InCharge, SettledIsKnown, PassesDone, DeferredInOrder, SentInOrder,
         AnsweredInOrder, PlayersToStore, SessionsToStore, PlayersCurrent, SessionsCurrent,
         Excused, Settled, Refused, Has, Unsynced
<1> QED
  BY <1>1, <1>2 DEF Calm

\* A tab whose flush has ended is in order when its session goes on.
LEMMA IdleIsOrderly ==
    ASSUME NEW t, NEW me,
           Orderly(tab[t]),
           tab[t].pc \notin {"reconcile", "persistPlayers", "persistSessions"},
           tab[t].pc \in {"readPlayers", "rewritePlayers"} => tab[t].phase # 1,
           me.login = "in", me.pc = "idle", me.phase = 0, me.deferred = {},
           DOMAIN me.results = {}
    PROVE  Orderly(me)
<1>1. SettledIsKnown(me)
  BY DEF Orderly, SettledIsKnown, PlayersToStore, SessionsToStore
<1> QED
  BY <1>1 DEF Orderly, InCharge, PassesDone, DeferredInOrder, SentInOrder, AnsweredInOrder

LEMMA StartFlushCalm ==
    ASSUME Inv, Calm, faults = 0, NEW t \in Tabs, Tabs = {t}, StartFlush(t)
    PROVE  Calm'
<1> DEFINE me == [tab[t] EXCEPT !.pc = "readPlayers", !.current = TRUE]
<1>1. tab'[t] = me
  BY DEF StartFlush, Inv, Types
<1>2. /\ me.pc = "readPlayers" /\ me.login = tab[t].login /\ me.current /\ me.phase = tab[t].phase
      /\ me.deferred = tab[t].deferred /\ me.localIds = tab[t].localIds
      /\ me.results = tab[t].results
  BY DEF Inv, Types, TabType
<1> HIDE DEF me
<1>3. Orderly(tab[t]) /\ tab[t].pc = "idle"
  BY DEF Calm, StartFlush
<1>4. SettledIsKnown(me)
  BY <1>2, <1>3 DEF Orderly, SettledIsKnown, PlayersToStore, SessionsToStore
<1>5. Orderly(me)
  BY <1>2, <1>3, <1>4
     DEF Orderly, InCharge, PassesDone, DeferredInOrder, SentInOrder, AnsweredInOrder
<1> QED
  BY <1>1, <1>5, CalmMoves DEF StartFlush

\* The rows that a pass leaves alone carry no local id that is resolved.
LEMMA ReadCalm ==
    ASSUME Inv, Calm, faults = 0, ProducersOfTheirKind, NEW t \in Tabs, Tabs = {t},
           ReadPlayers(t) \/ ReadSessions(t)
    PROVE  Calm'
<1>0. Orderly(tab[t]) /\ Present
  BY DEF Calm
<1>1. CASE ReadPlayers(t)
  <2> DEFINE todo == {a \in Unsynced : PlayerResolvable(a)}
             me == [tab[t] EXCEPT !.pc = "rewritePlayers", !.fresh = Unsynced, !.todo = todo]
  <2>1. tab'[t] = me
    BY <1>1 DEF ReadPlayers, Inv, Types
  <2>2. PlayersCurrent(Unsynced \ todo) /\ todo \subseteq Unsynced
    BY <1>0 DEF PlayersCurrent, PlayerResolvable, Present, ProducersOfTheirKind, Unsynced
  <2> HIDE DEF todo
  <2>3. /\ me.pc = "rewritePlayers" /\ me.login = tab[t].login
        /\ me.current = tab[t].current /\ me.phase = tab[t].phase
        /\ me.deferred = tab[t].deferred /\ me.localIds = tab[t].localIds
        /\ me.results = tab[t].results /\ me.fresh = Unsynced /\ me.todo = todo
        /\ me.learned = tab[t].learned
    BY DEF Inv, Types, TabType
  <2> HIDE DEF me
  <2>4. tab[t].pc = "readPlayers"
    BY <1>1 DEF ReadPlayers, At
  <2>5. SettledIsKnown(me)
    BY <1>0, <2>3, <2>4 DEF Orderly, SettledIsKnown, PlayersToStore, SessionsToStore
  <2>6. Orderly(me)
    BY <1>0, <2>2, <2>3, <2>4, <2>5
       DEF Orderly, InCharge, PassesDone, DeferredInOrder, SentInOrder, AnsweredInOrder
  <2> QED
    BY <1>1, <2>1, <2>6, CalmMoves DEF ReadPlayers
<1>2. CASE ReadSessions(t)
  <2> DEFINE todo == {a \in Unsynced : SessionResolvable(a)}
             me == [tab[t] EXCEPT !.pc = "rewriteSessions", !.fresh = Unsynced, !.todo = todo]
  <2>1. tab'[t] = me
    BY <1>2 DEF ReadSessions, Inv, Types
  <2>2. SessionsCurrent(Unsynced \ todo) /\ todo \subseteq Unsynced
    BY <1>0 DEF SessionsCurrent, SessionResolvable, Unsynced
  <2> HIDE DEF todo
  <2>3. /\ me.pc = "rewriteSessions" /\ me.login = tab[t].login
        /\ me.current = tab[t].current /\ me.phase = tab[t].phase
        /\ me.deferred = tab[t].deferred /\ me.localIds = tab[t].localIds
        /\ me.results = tab[t].results /\ me.fresh = Unsynced /\ me.todo = todo
    BY DEF Inv, Types, TabType
  <2> HIDE DEF me
  <2>4. tab[t].pc = "readSessions"
    BY <1>2 DEF ReadSessions, At
  <2>5. SettledIsKnown(me)
    BY <1>0, <2>3, <2>4 DEF Orderly, SettledIsKnown, PlayersToStore, SessionsToStore
  <2>6. Orderly(me)
    BY <1>0, <2>2, <2>3, <2>4, <2>5
       DEF Orderly, InCharge, PassesDone, DeferredInOrder, SentInOrder, AnsweredInOrder
  <2> QED
    BY <1>2, <2>1, <2>6, CalmMoves DEF ReadSessions
<1> QED
  BY <1>1, <1>2

\* What is deferred, sent or answered stays in order while rows are captured,
\* rewritten and settled.
RowsMoveOn ==
    \A a \in Acts : queue[a] # None =>
        /\ queue'[a] # None
        /\ queue[a].status # "unsynced" => queue'[a].status = queue[a].status
        /\ queue'[a].player = "local" => queue[a].player = "local"
        /\ queue'[a].session = "local" => queue[a].session = "local"

LEMMA StaysInOrder ==
    ASSUME Types, Present, RowsMoveOn, NEW t,
           DeferredInOrder(tab[t]), SentInOrder(tab[t]), AnsweredInOrder(tab[t]),
           tab'[t].deferred = tab[t].deferred, tab[t].deferred \subseteq Acts,
           tab'[t].localIds = tab[t].localIds,
           tab'[t].pc = tab[t].pc, tab'[t].batch = tab[t].batch,
           DOMAIN tab[t].batch \subseteq Acts,
           tab'[t].results = tab[t].results, DOMAIN tab[t].results \subseteq Acts
    PROVE  DeferredInOrder(tab[t])' /\ SentInOrder(tab[t])' /\ AnsweredInOrder(tab[t])'
<1>1. \A p \in Acts : Refused(p) => Refused(p)'
  BY DEF Refused, Has, RowsMoveOn
<1>2. \A a \in Acts : queue[a] # None /\ a \in Unsynced' => a \in Unsynced
  BY DEF RowsMoveOn, Unsynced
<1>3. DeferredInOrder(tab[t])'
  <2> SUFFICES ASSUME NEW a \in tab[t].deferred
               PROVE  /\ queue'[a] # None
                      /\ a \in Unsynced' /\ queue'[a].player = "local"
                            /\ PlayerOf[a] \notin tab[t].localIds => Refused(PlayerOf[a])'
                      /\ a \in Unsynced' /\ queue'[a].session = "local"
                            /\ SessionOf[a] \notin tab[t].localIds => Refused(SessionOf[a])'
    BY DEF DeferredInOrder
  <2>1. a \in Acts /\ queue[a] # None /\ queue'[a] # None
    BY DEF DeferredInOrder, RowsMoveOn
  <2>2. /\ queue[a].player = "local" => PlayerOf[a] \in Acts
        /\ queue[a].session = "local" => SessionOf[a] \in Acts
    BY <2>1, EngineAssumption DEF Present
  <2> QED
    BY <1>1, <1>2, <2>1, <2>2 DEF DeferredInOrder, RowsMoveOn
<1>4. \A a \in Acts : Excused(a) => Excused(a)'
  BY <1>1, EngineAssumption DEF Excused, Producers
<1> QED
  BY <1>3, <1>4 DEF SentInOrder, AnsweredInOrder

LEMMA RewriteCalm ==
    ASSUME Inv, Calm, faults = 0, NEW t \in Tabs, Tabs = {t}, Rewrite(t)
    PROVE  Calm'
<1>0. Orderly(tab[t]) /\ Present /\ NoOrphan /\ tab[t] \in TabType
  BY DEF Calm, Inv, Types
<1>1. PICK a \in tab[t].todo :
        /\ \/ At(t, "rewritePlayers") /\ a \in tab[t].fresh
                /\ queue' = [queue EXCEPT ![a].player = "server"]
           \/ At(t, "rewriteSessions") /\ a \in tab[t].fresh
                /\ queue' = [queue EXCEPT ![a].session = "server"]
        /\ tab' = Outdate([tab EXCEPT ![t].todo = @ \ {a}], {a})
        /\ UNCHANGED <<resolved, net, landed, faults>>
  BY DEF Rewrite
<1>2. a \in Acts /\ a \in Unsynced /\ queue[a] \in RowType /\ queue[a] # None
  BY <1>1 DEF Inv, Types, TabSound, FreshIsUnsynced, Unsynced
<1>3. /\ tab'[t].pc = tab[t].pc /\ tab'[t].login = tab[t].login /\ tab'[t].current = tab[t].current
      /\ tab'[t].phase = tab[t].phase /\ tab'[t].deferred = tab[t].deferred
      /\ tab'[t].localIds = tab[t].localIds /\ tab'[t].results = tab[t].results
      /\ tab'[t].learned = tab[t].learned /\ tab'[t].batch = tab[t].batch
      /\ tab'[t].todo = tab[t].todo \ {a} /\ tab'[t].fresh = tab[t].fresh \ {a}
  BY <1>0, <1>1 DEF Outdate, Inv, Types, TabType
<1>4. /\ tab[t].pc \in {"rewritePlayers", "rewriteSessions"}
      /\ \A b \in Acts \ {a} : queue'[b] = queue[b]
      /\ queue'[a] # None /\ queue'[a].status = queue[a].status
      /\ queue'[a].player =
            IF tab[t].pc = "rewritePlayers" THEN "server" ELSE queue[a].player
      /\ queue'[a].session =
            IF tab[t].pc = "rewriteSessions" THEN "server" ELSE queue[a].session
  <2>1. /\ [queue[a] EXCEPT !.player = "server"] \in RowType
        /\ [queue[a] EXCEPT !.session = "server"] \in RowType
    BY <1>2 DEF RowType, References
  <2> QED
    BY <1>1, <1>2, <2>1, NoneAssumption DEF At, Inv, Types, RowType
<1>5. /\ Unsynced' = Unsynced
      /\ \A b \in Acts : queue'[b] # None <=> queue[b] # None
      /\ \A b \in Acts : Settled(b)' <=> Settled(b)
      /\ \A b \in Acts : queue[b] # None => queue'[b].status = queue[b].status
  BY <1>2, <1>4 DEF Unsynced, Settled, Has
<1>6. \A b \in Acts :
        /\ queue'[b].player = "local" => queue[b].player = "local"
        /\ queue'[b].session = "local" => queue[b].session = "local"
  BY <1>2, <1>4
<1>7. Present' /\ NoOrphan'
  BY <1>0, <1>5, <1>6, EngineAssumption DEF Present, NoOrphan, Producers
<1>8. /\ DOMAIN tab[t].batch \subseteq Acts /\ DOMAIN tab[t].results \subseteq Acts
      /\ tab[t].deferred \subseteq Acts
  BY <1>0 DEF TabType, Batches, Answers
<1>9. DeferredInOrder(tab[t])' /\ SentInOrder(tab[t])' /\ AnsweredInOrder(tab[t])'
  <2>1. RowsMoveOn
    BY <1>5, <1>6 DEF RowsMoveOn
  <2> QED
    BY <1>0, <1>3, <1>8, <2>1, StaysInOrder DEF Orderly, Inv
<1>10. SettledIsKnown(tab[t])'
  <2>1. /\ PlayersToStore(tab[t])' = PlayersToStore(tab[t])
        /\ SessionsToStore(tab[t])' = SessionsToStore(tab[t])
    BY <1>3 DEF PlayersToStore, SessionsToStore
  <2> QED
    BY <1>0, <1>1, <1>5, <2>1 DEF Orderly, SettledIsKnown
<1>11. PassesDone(tab[t])'
  <2>1. PassesDone(tab[t]) /\ resolved' = resolved /\ Unsynced \subseteq Acts
    BY <1>0, <1>1 DEF Orderly, Unsynced
  <2>2. PlayersCurrent(Unsynced) => PlayersCurrent(Unsynced)'
    BY <1>5, <1>6, <2>1 DEF PlayersCurrent
  <2>3. ASSUME tab[t].pc = "rewritePlayers", PlayersCurrent(Unsynced \ tab[t].todo)
        PROVE  PlayersCurrent(Unsynced \ tab[t].todo)'
    BY <1>3, <1>4, <1>5, <1>6, <2>1, <2>3 DEF PlayersCurrent
  <2>4. ASSUME tab[t].pc = "rewriteSessions", SessionsCurrent(Unsynced \ tab[t].todo)
        PROVE  SessionsCurrent(Unsynced \ tab[t].todo)'
    BY <1>3, <1>4, <1>5, <1>6, <2>1, <2>4 DEF SessionsCurrent
  <2> QED
    BY <1>3, <1>4, <2>1, <2>2, <2>3, <2>4 DEF PassesDone
<1>12. InCharge(tab[t])'
  BY <1>0, <1>3 DEF Orderly, InCharge
<1> QED
  BY <1>7, <1>9, <1>10, <1>11, <1>12 DEF Calm, Orderly

\* A flush that ends by itself leaves a tab in order.
LEMMA EndedCalm ==
    ASSUME Inv, Calm, faults = 0, NEW t \in Tabs, Tabs = {t},
           tab[t].pc \notin {"reconcile", "persistPlayers", "persistSessions"},
           tab[t].pc \in {"readPlayers", "rewritePlayers"} => tab[t].phase # 1,
           tab' = EndFlush(t), UNCHANGED <<queue, resolved>>
    PROVE  Calm'
<1> DEFINE me == [IdleTab EXCEPT !.login = tab[t].login]
<1>1. tab'[t] = me
  BY DEF EndFlush, Inv, Types
<1>2. /\ me.login = tab[t].login /\ me.pc = "idle" /\ me.phase = 0 /\ me.deferred = {}
      /\ DOMAIN me.results = {}
  BY EmptyBatch DEF IdleTab
<1> HIDE DEF me
<1>3. Orderly(tab[t]) /\ tab[t].login = "in"
  BY DEF Calm, Orderly, InCharge
<1>4. Orderly(me)
  BY <1>2, <1>3, IdleIsOrderly
<1> QED
  BY <1>1, <1>4, CalmMoves

\* One tab alone never finds a row changed under it.
LEMMA NoConflictAlone ==
    ASSUME Calm, faults = 0, NEW t \in Tabs
    PROVE  ~RewriteConflict(t) /\ ~StopStale(t) /\ ~RemoveMarker(t) /\ ~Login(t) /\ ~Restore(t)
  BY DEF Calm, Orderly, InCharge, RewriteConflict, StopStale, RemoveMarker, Login, Restore, At

\* A step to another place of the flush, over the same rows.
SameReading(me, other) ==
    /\ me.login = other.login /\ me.current = other.current
    /\ me.deferred = other.deferred /\ me.localIds = other.localIds
    /\ me.phase = other.phase /\ me.batch = other.batch
    /\ me.results = other.results /\ me.fresh = other.fresh
    /\ me.todo = other.todo /\ me.learned = other.learned

LEMMA StepOn ==
    ASSUME NEW me \in TabType, NEW step
    PROVE  LET after == [me EXCEPT !.pc = step]
           IN  SameReading(after, me) /\ after.pc = step
  BY DEF TabType, SameReading

LEMMA RewrittenCalm ==
    ASSUME Inv, Calm, faults = 0, NEW t \in Tabs, Tabs = {t}, Rewritten(t)
    PROVE  Calm'
<1> DEFINE step == AfterRewrite(tab[t])
           me == [tab[t] EXCEPT !.pc = step]
<1>0. Orderly(tab[t]) /\ tab[t].todo = {} /\ tab[t].pc \in {"rewritePlayers", "rewriteSessions"}
      /\ UNCHANGED <<queue, resolved>> /\ tab[t].phase \in 0 .. 2
  BY DEF Calm, Rewritten, At, Inv, Types, TabType
<1>1. CASE step = "idle"
  <2>1. tab[t].pc = "rewritePlayers" => tab[t].phase # 1
    BY <1>1 DEF AfterRewrite
  <2>2. tab' = EndFlush(t)
    BY <1>1 DEF Rewritten
  <2> QED
    BY <1>0, <2>1, <2>2, EndedCalm
<1>2. CASE step # "idle"
  <2>1. tab'[t] = me
    BY <1>2 DEF Rewritten, Inv, Types
  <2>2. SameReading(me, tab[t]) /\ me.pc = step
    BY StepOn DEF Inv, Types
  <2> HIDE DEF me
  <2>3. \/ tab[t].pc = "rewritePlayers" /\ tab[t].phase = 0 /\ step = "readSessions"
        \/ tab[t].pc = "rewritePlayers" /\ tab[t].phase = 1 /\ step = "persistSessions"
        \/ tab[t].pc = "rewriteSessions" /\ tab[t].phase = 0 /\ step = "snapshot"
        \/ tab[t].pc = "rewriteSessions" /\ tab[t].phase = 1 /\ step = "select"
    BY <1>0, <1>2 DEF AfterRewrite
  <2> HIDE DEF step
  <2>4. SettledIsKnown(me)
    BY <1>0, <2>2, <2>3
       DEF Orderly, SettledIsKnown, PlayersToStore, SessionsToStore, SameReading
  <2>5. Unsynced \ tab[t].todo = Unsynced
    BY <1>0
  <2>6. PassesDone(me)
    BY <1>0, <2>2, <2>3, <2>5 DEF Orderly, PassesDone, SameReading
  <2>7. Orderly(me)
    BY <1>0, <2>2, <2>3, <2>4, <2>6
       DEF Orderly, InCharge, DeferredInOrder, SentInOrder, AnsweredInOrder, SameReading
  <2> QED
    BY <1>0, <2>1, <2>7, CalmMoves
<1> QED
  BY <1>1, <1>2

\* A local id whose action is no longer queued, and that the rows still carry,
\* is one of an action that was refused.
LEMMA SettledOrRefused ==
    ASSUME Inv, Present, NEW p \in Acts, queue[p] # None, p \notin Unsynced, ~Settled(p)
    PROVE  Refused(p)
  BY DEF Inv, Types, RowType, Unsynced, Settled, Refused, Has

LEMMA SnapshotCalm ==
    ASSUME Inv, Calm, faults = 0, ProducersOfTheirKind, NEW t \in Tabs, Tabs = {t}, Snapshot(t)
    PROVE  Calm'
<1> DEFINE localIds == {a \in Unsynced : Kind[a] \in {"player", "session"}}
           waiting == {a \in Unsynced : Waits(a, localIds)}
           batch == Wire(Unsynced \ waiting)
           me == [tab[t] EXCEPT !.pc = "send", !.phase = 1, !.fresh = Unsynced,
                                !.localIds = localIds, !.batch = batch, !.deferred = waiting]
<1>0. /\ Orderly(tab[t]) /\ Present /\ tab[t].pc = "snapshot"
      /\ UNCHANGED <<queue, resolved>>
  BY DEF Calm, Snapshot, At
<1>1. CASE tab' = EndFlush(t)
  BY <1>0, <1>1, EndedCalm
<1>2. CASE tab' # EndFlush(t)
  <2>1. tab'[t] = me
    BY <1>2 DEF Snapshot, Inv, Types
  <2>2. ASSUME NEW a \in Unsynced
        PROVE  /\ queue[a].player = "local" /\ PlayerOf[a] \notin localIds => Refused(PlayerOf[a])
               /\ queue[a].session = "local" /\ SessionOf[a] \notin localIds => Refused(SessionOf[a])
    <3>1. a \in Acts /\ queue[a] # None
      BY DEF Unsynced
    <3>2. ASSUME queue[a].player = "local", PlayerOf[a] \notin localIds
          PROVE  Refused(PlayerOf[a])
      <4>1. /\ PlayerOf[a] \in Acts /\ Kind[PlayerOf[a]] = "player"
            /\ queue[PlayerOf[a]] # None
        BY <1>0, <3>1, <3>2, EngineAssumption DEF Present, ProducersOfTheirKind, Producers
      <4>2. PlayerOf[a] \notin Unsynced
        BY <3>2, <4>1
      <4>3. ~Settled(PlayerOf[a])
        BY <1>0, <3>2, <4>1
           DEF Orderly, SettledIsKnown, PlayersToStore, PassesDone, PlayersCurrent
      <4> QED
        BY <1>0, <4>1, <4>2, <4>3, SettledOrRefused
    <3>3. ASSUME queue[a].session = "local", SessionOf[a] \notin localIds
          PROVE  Refused(SessionOf[a])
      <4>1. /\ SessionOf[a] \in Acts /\ Kind[SessionOf[a]] = "session"
            /\ queue[SessionOf[a]] # None
        BY <1>0, <3>1, <3>3, EngineAssumption DEF Present, ProducersOfTheirKind, Producers
      <4>2. SessionOf[a] \notin Unsynced
        BY <3>3, <4>1
      <4>3. ~Settled(SessionOf[a])
        BY <1>0, <3>3, <4>1
           DEF Orderly, SettledIsKnown, SessionsToStore, PassesDone, SessionsCurrent
      <4> QED
        BY <1>0, <4>1, <4>2, <4>3, SettledOrRefused
    <3> QED
      BY <3>2, <3>3
  <2>3. ASSUME NEW a \in DOMAIN batch, "local" \in batch[a]
        PROVE  Excused(a)
    <3>1. a \in Unsynced /\ ~Waits(a, localIds) /\ a \in Acts /\ queue[a] # None
      BY <2>3 DEF Wire, Unsynced
    <3>2. queue[a].player = "local" \/ queue[a].session = "local"
      BY <2>3 DEF Wire
    <3>3. queue[a].player = "local" => PlayerOf[a] # None /\ Kind[a] # "player"
      BY <1>0, <3>1 DEF Present, ProducersOfTheirKind
    <3>4. queue[a].session = "local" => SessionOf[a] # None
      BY <1>0, <3>1 DEF Present
    <3> HIDE DEF localIds, batch
    <3> QED
      BY <2>2, <3>1, <3>2, <3>3, <3>4 DEF Waits, Excused, Producers
  <2>4. waiting \subseteq Unsynced /\ Unsynced \subseteq Acts /\ \A a \in Unsynced : queue[a] # None
    BY DEF Unsynced
  <2>5. /\ me.pc = "send" /\ me.phase = 1 /\ me.login = tab[t].login
        /\ me.current = tab[t].current /\ me.localIds = localIds /\ me.batch = batch
        /\ me.deferred = waiting /\ me.results = tab[t].results
    <3> HIDE DEF localIds, waiting, batch
    <3> QED
      BY DEF Inv, Types, TabType
  <2> HIDE DEF localIds, waiting, batch, me
  <2>6. SettledIsKnown(me)
    BY <1>0, <2>5 DEF Orderly, SettledIsKnown, PlayersToStore, SessionsToStore
  <2>7. SentInOrder(me) /\ DeferredInOrder(me)
    BY <2>2, <2>3, <2>4, <2>5 DEF SentInOrder, DeferredInOrder
  <2>8. Orderly(me)
    BY <1>0, <2>5, <2>6, <2>7 DEF Orderly, InCharge, PassesDone, AnsweredInOrder
  <2> QED
    BY <1>0, <2>1, <2>8, CalmMoves
<1> QED
  BY <1>1, <1>2

LEMMA SelectCalm ==
    ASSUME Inv, Calm, faults = 0, ProducersOfTheirKind, NEW t \in Tabs, Tabs = {t}, Select(t)
    PROVE  Calm'
<1> DEFINE ready == {a \in tab[t].deferred \cap Unsynced : ~Waits(a, tab[t].localIds)}
           batch == Wire(ready)
           me == [tab[t] EXCEPT !.pc = "send", !.phase = 2, !.fresh = Unsynced, !.batch = batch]
<1>0. /\ Orderly(tab[t]) /\ Present /\ tab[t].pc = "select"
      /\ UNCHANGED <<queue, resolved>>
  BY DEF Calm, Select, At
<1>1. CASE tab' = EndFlush(t)
  BY <1>0, <1>1, EndedCalm
<1>2. CASE tab' # EndFlush(t)
  <2>1. tab'[t] = me
    BY <1>2 DEF Select, Inv, Types
  <2>2. ASSUME NEW a \in DOMAIN batch, "local" \in batch[a]
        PROVE  Excused(a)
    <3>1. /\ a \in Unsynced /\ a \in tab[t].deferred /\ ~Waits(a, tab[t].localIds)
          /\ a \in Acts /\ queue[a] # None
      BY <2>2 DEF Wire, Unsynced
    <3>2. queue[a].player = "local" \/ queue[a].session = "local"
      BY <2>2 DEF Wire
    <3>3. queue[a].player = "local" => PlayerOf[a] # None /\ Kind[a] # "player"
      BY <1>0, <3>1 DEF Present, ProducersOfTheirKind
    <3>4. queue[a].session = "local" => SessionOf[a] # None
      BY <1>0, <3>1 DEF Present
    <3>5. DeferredInOrder(tab[t])
      BY <1>0 DEF Orderly
    <3> HIDE DEF batch
    <3> QED
      BY <3>1, <3>2, <3>3, <3>4, <3>5 DEF DeferredInOrder, Waits, Excused, Producers
  <2>3. /\ me.pc = "send" /\ me.phase = 2 /\ me.login = tab[t].login
        /\ me.current = tab[t].current /\ me.localIds = tab[t].localIds /\ me.batch = batch
        /\ me.deferred = tab[t].deferred /\ me.results = tab[t].results
    <3> HIDE DEF batch
    <3> QED
      BY DEF Inv, Types, TabType
  <2> HIDE DEF ready, batch, me
  <2>4. SettledIsKnown(me)
    BY <1>0, <2>3 DEF Orderly, SettledIsKnown, PlayersToStore, SessionsToStore
  <2>5. SentInOrder(me)
    BY <2>2, <2>3 DEF SentInOrder
  <2>6. Orderly(me)
    BY <1>0, <2>3, <2>4, <2>5
       DEF Orderly, InCharge, PassesDone, DeferredInOrder, AnsweredInOrder
  <2> QED
    BY <1>0, <2>1, <2>6, CalmMoves
<1> QED
  BY <1>1, <1>2

LEMMA SendCalm ==
    ASSUME Inv, Calm, faults = 0, NEW t \in Tabs, Tabs = {t}, Send(t)
    PROVE  Calm'
<1>0. Orderly(tab[t]) /\ tab[t].pc = "send" /\ UNCHANGED <<queue, resolved>>
  BY DEF Calm, Send, At
<1>1. PICK step \in {"persistPlayers", "await"} : tab' = [tab EXCEPT ![t].pc = step]
  BY DEF Send
<1> DEFINE me == [tab[t] EXCEPT !.pc = step]
<1>2. tab'[t] = me
  BY <1>1 DEF Inv, Types
<1>3. SameReading(me, tab[t]) /\ me.pc = step
  BY StepOn DEF Inv, Types
<1> HIDE DEF me
<1>4. SettledIsKnown(me)
  BY <1>0, <1>3 DEF Orderly, SettledIsKnown, PlayersToStore, SessionsToStore
<1>5. Orderly(me)
  BY <1>0, <1>1, <1>3, <1>4
     DEF Orderly, InCharge, PassesDone, DeferredInOrder, SentInOrder, AnsweredInOrder,
         SameReading
<1> QED
  BY <1>0, <1>2, <1>5, CalmMoves

\* The server refuses, of what it is sent, only what is excused.
LEMMA ServerHandlesCalm ==
    ASSUME Inv, Calm, faults = 0, NEW t \in Tabs, Tabs = {t}, NEW m \in net, ServerHandles(m)
    PROVE  Calm'
<1> DEFINE results == [a \in DOMAIN m.acts |-> ServerResult(a, m.acts[a])]
           me == [tab[t] EXCEPT !.results = results]
<1>0. Orderly(tab[t]) /\ UNCHANGED <<queue, resolved>> /\ tab[t] \in TabType
      /\ tab \in [Tabs -> TabType] /\ m.tab \in {t, None}
  BY DEF Calm, ServerHandles, Inv, Types
<1>1. CASE m.tab = None
  BY <1>0, <1>1, CalmMoves DEF ServerHandles
<1>2. CASE m.tab # None
  <2>1. m.tab = t /\ tab'[t] = me
    BY <1>0, <1>2 DEF ServerHandles
  <2>2. m.acts = tab[t].batch /\ tab[t].pc = "await"
    BY <1>2, <2>1 DEF Inv, RequestMatches
  <2>3. \A a \in DOMAIN results : results[a] = "rejected" => Excused(a)
    BY <1>0, <2>2 DEF ServerResult, Orderly, SentInOrder, Excused
  <2> HIDE DEF results
  <2>4. /\ me.pc = tab[t].pc /\ me.phase = tab[t].phase /\ me.login = tab[t].login
        /\ me.current = tab[t].current /\ me.localIds = tab[t].localIds
        /\ me.batch = tab[t].batch /\ me.deferred = tab[t].deferred /\ me.results = results
    BY <1>0 DEF TabType
  <2> HIDE DEF me
  <2>5. SettledIsKnown(me)
    BY <1>0, <2>2, <2>4 DEF Orderly, SettledIsKnown, PlayersToStore, SessionsToStore
  <2>6. Orderly(me)
    BY <1>0, <2>2, <2>3, <2>4, <2>5
       DEF Orderly, InCharge, PassesDone, DeferredInOrder, SentInOrder, AnsweredInOrder
  <2> QED
    BY <1>0, <2>1, <2>6, CalmMoves
<1> QED
  BY <1>1, <1>2

LEMMA ReceiveCalm ==
    ASSUME Inv, Calm, faults = 0, NEW t \in Tabs, Tabs = {t}, Receive(t)
    PROVE  Calm'
<1> DEFINE todo == DOMAIN tab[t].batch
           me == [tab[t] EXCEPT !.pc = "reconcile", !.todo = todo, !.learned = {}]
<1>0. Orderly(tab[t]) /\ tab[t].pc = "await" /\ UNCHANGED <<queue, resolved>>
      /\ tab[t] \in TabType
  BY DEF Calm, Receive, At, Inv, Types
<1>1. tab'[t] = me
  BY DEF Receive, Inv, Types
<1> HIDE DEF todo
<1>2. /\ me.pc = "reconcile" /\ me.phase = tab[t].phase /\ me.login = tab[t].login
      /\ me.current = tab[t].current /\ me.localIds = tab[t].localIds
      /\ me.deferred = tab[t].deferred /\ me.results = tab[t].results
  BY <1>0 DEF TabType
<1> HIDE DEF me
<1>3. SettledIsKnown(me)
  BY <1>0, <1>2 DEF Orderly, SettledIsKnown, PlayersToStore, SessionsToStore
<1>4. Orderly(me)
  BY <1>0, <1>2, <1>3
     DEF Orderly, InCharge, PassesDone, DeferredInOrder, SentInOrder, AnsweredInOrder
<1> QED
  BY <1>0, <1>1, <1>4, CalmMoves

LEMMA NetworkErrorCalm ==
    ASSUME Inv, Calm, faults = 0, NEW t \in Tabs, Tabs = {t}, NetworkError(t)
    PROVE  Calm'
<1> DEFINE ended == [IdleTab EXCEPT !.login = tab[t].login]
           me == tab'[t]
<1>0. Orderly(tab[t]) /\ tab[t].pc = "await" /\ UNCHANGED <<queue, resolved>>
      /\ tab[t].login = "in"
  BY DEF Calm, NetworkError, At, Orderly, InCharge
<1>1. /\ me.login = tab[t].login /\ me.pc = "idle" /\ me.phase = 0 /\ me.deferred = {}
      /\ me.results = <<>>
  BY DEF NetworkError, Retained, EndFlush, Outdate, Inv, Types, IdleTab
<1> HIDE DEF me
<1>2. Orderly(me)
  BY <1>0, <1>1, IdleIsOrderly, EmptyBatch
<1> QED
  BY <1>0, <1>2, CalmMoves DEF me

\* What is settled is learned, and what is refused is excused.
LEMMA ReconcileCalm ==
    ASSUME Inv, Calm, faults = 0, NEW t \in Tabs, Tabs = {t}, Reconcile(t)
    PROVE  Calm'
<1> DEFINE a == NextResult(t)
           result == tab[t].results[a]
<1>0. /\ Orderly(tab[t]) /\ Present /\ NoOrphan /\ tab[t] \in TabType
      /\ tab[t].pc = "reconcile" /\ UNCHANGED resolved
  BY DEF Calm, Reconcile, At, Inv, Types
<1>1. a \in tab[t].todo /\ a \in Acts /\ a \in DOMAIN tab[t].results /\ result \in Results
  BY NextResultIsLeft, NextResultIsSaid, <1>0 DEF Reconcile, Inv, Types, TabType, TabSound, AnswerMatches
<1>2. CASE a \notin tab[t].fresh
  <2> DEFINE todo == tab[t].todo \ {a}
             me == [tab[t] EXCEPT !.todo = todo]
  <2>1. tab'[t] = me /\ UNCHANGED queue
    BY <1>2 DEF Reconcile, Inv, Types
  <2> HIDE DEF todo, a
  <2>2. /\ me.pc = tab[t].pc /\ me.phase = tab[t].phase /\ me.login = tab[t].login
        /\ me.current = tab[t].current /\ me.localIds = tab[t].localIds
        /\ me.deferred = tab[t].deferred /\ me.results = tab[t].results
        /\ me.learned = tab[t].learned
    BY <1>0 DEF TabType
  <2> HIDE DEF me
  <2>3. SettledIsKnown(me)
    BY <1>0, <2>2 DEF Orderly, SettledIsKnown, PlayersToStore, SessionsToStore
  <2>4. Orderly(me)
    BY <1>0, <2>2, <2>3
       DEF Orderly, InCharge, PassesDone, DeferredInOrder, SentInOrder, AnsweredInOrder
  <2> QED
    BY <1>0, <2>1, <2>4, CalmMoves
<1>3. CASE a \in tab[t].fresh
  <2> DEFINE learned == IF result = "rejected" THEN tab[t].learned ELSE tab[t].learned \cup {a}
  <2>1. /\ queue' = [queue EXCEPT ![a].status = result]
        /\ tab' = Outdate([tab EXCEPT ![t].todo = @ \ {a}, ![t].learned = learned], {a})
    BY <1>3 DEF Reconcile, Inv, Types
  <2>2. a \in Unsynced /\ queue[a] \in RowType /\ queue[a] # None /\ queue[a].status = "unsynced"
    BY <1>3 DEF Inv, Types, TabSound, FreshIsUnsynced, Unsynced
  <2> HIDE DEF learned
  <2>3. /\ tab'[t].pc = tab[t].pc /\ tab'[t].phase = tab[t].phase
        /\ tab'[t].login = tab[t].login /\ tab'[t].current = tab[t].current
        /\ tab'[t].localIds = tab[t].localIds /\ tab'[t].batch = tab[t].batch
        /\ tab'[t].deferred = tab[t].deferred /\ tab'[t].results = tab[t].results
        /\ tab'[t].learned = learned
    BY <1>0, <2>1 DEF Outdate, Inv, Types, TabType
  <2>4. /\ queue'[a] # None /\ queue'[a].status = result
        /\ queue'[a].player = queue[a].player /\ queue'[a].session = queue[a].session
        /\ \A b \in Acts \ {a} : queue'[b] = queue[b]
    <3>1. [queue[a] EXCEPT !.status = result] \in RowType
      BY <1>1, <2>2 DEF RowType, Results
    <3> HIDE DEF a
    <3> QED
      BY <1>1, <2>1, <2>2, <3>1, NoneAssumption DEF Inv, Types, RowType
  <2>5. result = "rejected" => Excused(a)
    BY <1>0, <1>1 DEF Orderly, AnsweredInOrder
  <2> HIDE DEF a, result
  <2>6. RowsMoveOn
    BY <2>2, <2>4 DEF RowsMoveOn
  <2>7. /\ DOMAIN tab[t].batch \subseteq Acts /\ DOMAIN tab[t].results \subseteq Acts
        /\ tab[t].deferred \subseteq Acts
    BY <1>0 DEF TabType, Batches, Answers
  <2>8. DeferredInOrder(tab[t])' /\ SentInOrder(tab[t])' /\ AnsweredInOrder(tab[t])'
    BY <1>0, <2>3, <2>6, <2>7, StaysInOrder DEF Orderly, Inv
  <2>9. Present'
    <3>1. \A b \in Acts :
            /\ queue'[b] # None <=> queue[b] # None
            /\ queue'[b].player = queue[b].player /\ queue'[b].session = queue[b].session
      BY <2>2, <2>4
    <3>2. \A b \in Acts : Producers(b) \subseteq Acts
      BY EngineAssumption DEF Producers
    <3> QED
      BY <1>0, <3>1, <3>2 DEF Present
  <2>10. NoOrphan'
    <3>1. ASSUME NEW b \in Acts \ Invalid, queue'[b] # None, queue'[b].status = "rejected"
          PROVE  \E p \in Producers(b) : queue[p] # None /\ queue[p].status = "rejected"
      BY <1>0, <2>4, <2>5, <3>1 DEF NoOrphan, Excused, Refused, Has, Present
    <3>2. \A p \in Acts : queue[p] # None /\ queue[p].status = "rejected" =>
                             queue'[p].status = "rejected"
      BY <2>2, <2>4
    <3> QED
      BY <3>1, <3>2, EngineAssumption DEF NoOrphan, Producers
  <2>11. SettledIsKnown(tab[t])'
    <3>1. ASSUME NEW b \in Acts, Settled(b)'
          PROVE  Settled(b) \/ b \in learned
      BY <2>4, <3>1 DEF Settled, Has, learned
    <3>2. tab[t].learned \subseteq learned
      BY DEF learned
    <3>3. /\ PlayersToStore(tab[t]) = tab[t].learned /\ PlayersToStore(tab[t])' = learned
          /\ SessionsToStore(tab[t]) = tab[t].learned /\ SessionsToStore(tab[t])' = learned
      BY <1>0, <2>3 DEF PlayersToStore, SessionsToStore
    <3> QED
      BY <1>0, <3>1, <3>2, <3>3 DEF Orderly, SettledIsKnown
  <2>12. InCharge(tab[t])' /\ PassesDone(tab[t])'
    BY <1>0, <2>3 DEF Orderly, InCharge, PassesDone
  <2> QED
    BY <2>8, <2>9, <2>10, <2>11, <2>12 DEF Calm, Orderly
<1> QED
  BY <1>2, <1>3

LEMMA ReconciledCalm ==
    ASSUME Inv, Calm, faults = 0, NEW t \in Tabs, Tabs = {t}, Reconciled(t)
    PROVE  Calm'
<1> DEFINE nothing == <<>>
           me == [tab[t] EXCEPT !.pc = "persistPlayers", !.results = nothing]
<1>0. Orderly(tab[t]) /\ tab[t].pc = "reconcile" /\ UNCHANGED <<queue, resolved>>
      /\ tab[t] \in TabType /\ DOMAIN nothing = {}
  BY EmptyBatch DEF Calm, Reconciled, At, Inv, Types
<1>1. tab'[t] = me
  BY DEF Reconciled, Inv, Types
<1> HIDE DEF nothing
<1>2. /\ me.pc = "persistPlayers" /\ me.phase = tab[t].phase /\ me.login = tab[t].login
      /\ me.current = tab[t].current /\ me.localIds = tab[t].localIds
      /\ me.deferred = tab[t].deferred /\ me.results = nothing
      /\ me.learned = tab[t].learned
  BY <1>0 DEF TabType
<1> HIDE DEF me
<1>3. SettledIsKnown(me)
  BY <1>0, <1>2 DEF Orderly, SettledIsKnown, PlayersToStore, SessionsToStore
<1>4. Orderly(me)
  BY <1>0, <1>2, <1>3
     DEF Orderly, InCharge, PassesDone, DeferredInOrder, SentInOrder, AnsweredInOrder
<1> QED
  BY <1>0, <1>1, <1>4, CalmMoves

\* A flush that stores what it has learned keeps it known; the passes before the
\* snapshot are over by then.
LEMMA PersistCalm ==
    ASSUME Inv, Calm, faults = 0, NEW t \in Tabs, Tabs = {t},
           PersistPlayers(t) \/ PersistSessions(t)
    PROVE  Calm'
<1>0. /\ Orderly(tab[t]) /\ Present /\ NoOrphan /\ tab[t] \in TabType
      /\ tab[t].pc \in {"persistPlayers", "persistSessions"} /\ tab[t].phase # 0
      /\ tab[t].login = "in" /\ tab[t].current /\ UNCHANGED queue
  BY DEF Calm, PersistPlayers, PersistSessions, At, Inv, Types, Orderly, PassesDone, InCharge
<1>1. Present' /\ NoOrphan'
  BY <1>0 DEF Present, NoOrphan
<1>2. CASE tab' = EndFlush(t)
  <2>1. PersistSessions(t)
    <3>1. tab'[t].pc = "idle"
      BY <1>2 DEF EndFlush, IdleTab, Inv, Types
    <3>2. ASSUME PersistPlayers(t) PROVE tab'[t].pc # "idle"
      BY <1>0, <3>2 DEF PersistPlayers, Inv, Types, TabType
    <3> QED
      BY <3>1, <3>2
  <2>2. \A a \in Acts : Settled(a) =>
          (Kind[a] = "player" => a \in resolved') /\ (Kind[a] = "session" => a \in resolved')
    BY <1>0, <2>1 DEF Orderly, SettledIsKnown, PlayersToStore, SessionsToStore,
                      PersistSessions, At, Learned
  <2>3. /\ tab'[t].login = "in" /\ tab'[t].pc = "idle" /\ tab'[t].deferred = {}
        /\ tab'[t].results = <<>> /\ tab'[t].phase = 0
    BY <1>0, <1>2 DEF EndFlush, IdleTab, Inv, Types
  <2>4. SettledIsKnown(tab[t])'
    BY <1>0, <2>2, <2>3 DEF SettledIsKnown, Settled, Has
  <2>5. Orderly(tab[t])'
    BY <2>3, <2>4, EmptyBatch
       DEF Orderly, InCharge, PassesDone, DeferredInOrder, SentInOrder, AnsweredInOrder
  <2> QED
    BY <1>1, <2>5 DEF Calm
<1>3. ASSUME NEW step, tab' = [tab EXCEPT ![t].pc = step],
             step \in {"readPlayers", "persistSessions", "readSessions", "select"}
      PROVE  Calm'
  <2> DEFINE me == [tab[t] EXCEPT !.pc = step]
  <2>1. tab'[t] = me
    BY <1>3 DEF Inv, Types
  <2>2. SameReading(me, tab[t]) /\ me.pc = step
    BY <1>0, StepOn
  <2> HIDE DEF me
  <2>3. \/ tab[t].pc = "persistPlayers" /\ step = "readPlayers" /\ tab[t].phase = 1
            /\ resolved' = resolved \cup Learned(t, "player")
        \/ tab[t].pc = "persistPlayers" /\ step = "persistSessions"
            /\ resolved' = resolved \cup Learned(t, "player")
        \/ tab[t].pc = "persistSessions" /\ step \in {"readSessions", "select"}
            /\ resolved' = resolved \cup Learned(t, "session")
    <3>1. tab'[t].pc = step
      BY <2>1, <2>2
    <3>2. CASE PersistPlayers(t)
      BY <1>0, <1>3, <3>1, <3>2 DEF PersistPlayers, At, Inv, Types, TabType
    <3>3. CASE PersistSessions(t)
      BY <1>0, <1>3, <3>1, <3>3 DEF PersistSessions, At, Inv, Types, TabType, EndFlush, IdleTab
    <3> QED
      BY <3>2, <3>3
  <2>4. \A a \in Acts : Settled(a) =>
          /\ Kind[a] = "player" => a \in resolved' \cup PlayersToStore(me)
          /\ Kind[a] = "session" => a \in resolved' \cup SessionsToStore(me)
    BY <1>0, <2>2, <2>3
       DEF Orderly, SettledIsKnown, PlayersToStore, SessionsToStore, Learned, SameReading
  <2>5. SettledIsKnown(tab[t])'
    <3>1. PlayersToStore(tab[t])' = PlayersToStore(me) /\ SessionsToStore(tab[t])' = SessionsToStore(me)
      BY <2>1 DEF PlayersToStore, SessionsToStore
    <3>2. \A a \in Acts : Settled(a)' => Settled(a)
      BY <1>0 DEF Settled, Has
    <3> QED
      BY <2>4, <3>1, <3>2 DEF SettledIsKnown
  <2>6. InCharge(tab[t])' /\ PassesDone(tab[t])'
    BY <1>0, <1>3, <2>1, <2>2 DEF InCharge, PassesDone, SameReading
  <2>7. DeferredInOrder(tab[t])' /\ SentInOrder(tab[t])' /\ AnsweredInOrder(tab[t])'
    BY <1>0, <1>3, <2>1, <2>2
       DEF Orderly, DeferredInOrder, SentInOrder, AnsweredInOrder, SameReading, Refused, Has,
           Excused, Unsynced
  <2> QED
    BY <1>1, <2>5, <2>6, <2>7 DEF Calm, Orderly
<1> QED
  BY <1>2, <1>3 DEF PersistPlayers, PersistSessions

\* A new row carries no local id that is resolved, and comes with its producers.
LEMMA CaptureCalm ==
    ASSUME Inv, Calm, faults = 0, ~StaleScreens, NEW t \in Tabs, Tabs = {t},
           NEW u \in Tabs, NEW group \in Captures, Capture(u, group)
    PROVE  Calm'
<1> DEFINE row(a) == [status |-> "unsynced", player |-> ReferenceTo(PlayerOf[a], "server"),
                      session |-> ReferenceTo(SessionOf[a], "server")]
<1>0. /\ Orderly(tab[t]) /\ Present /\ NoOrphan /\ tab[t] \in TabType
      /\ UNCHANGED <<resolved, tab>> /\ group \subseteq Acts
      /\ \A a \in group : queue[a] = None
      /\ \A a \in group : \A p \in Producers(a) : p \in group \/ queue[p] # None
  BY EngineAssumption DEF Calm, Capture, Inv, Types
<1>1. queue' = [a \in Acts |-> IF a \in group THEN row(a) ELSE queue[a]]
  BY DEF Capture
<1>2. ASSUME NEW a \in group
      PROVE  /\ queue'[a] # None /\ queue'[a].status = "unsynced"
             /\ queue'[a].player = "local" => PlayerOf[a] # None /\ PlayerOf[a] \notin resolved
             /\ queue'[a].session = "local" => SessionOf[a] # None /\ SessionOf[a] \notin resolved
  <2>1. \A p : /\ ReferenceTo(p, "server") \in References
               /\ ReferenceTo(p, "server") = "local" => p # None /\ p \notin resolved
    BY DEF ReferenceTo, References
  <2>2. row(a) \in RowType
    BY <2>1 DEF RowType
  <2>3. queue'[a] = row(a)
    BY <1>0, <1>1
  <2>4. queue'[a] # None
    BY <2>2, <2>3, NoneAssumption
  <2> QED
    BY <2>1, <2>3, <2>4
<1>3. \A a \in Acts \ group : queue'[a] = queue[a]
  BY <1>1
<1> HIDE DEF row
<1>4. Present'
  <2>1. \A a \in Acts : queue[a] # None => queue'[a] # None
    BY <1>2, <1>3
  <2>2. \A a \in Acts : Producers(a) \subseteq Acts
    BY EngineAssumption DEF Producers
  <2>3. ASSUME NEW a \in Acts, queue'[a] # None
        PROVE  /\ \A p \in Producers(a) : queue'[p] # None
               /\ queue'[a].player = "local" => PlayerOf[a] # None
               /\ queue'[a].session = "local" => SessionOf[a] # None
    BY <1>0, <1>2, <1>3, <2>1, <2>2, <2>3 DEF Present
  <2> QED
    BY <2>3 DEF Present
<1>5. \A a \in Acts :
        /\ Settled(a)' <=> Settled(a)
        /\ queue'[a] # None /\ queue'[a].status = "rejected" =>
              queue[a] # None /\ queue[a].status = "rejected"
        /\ queue[a] # None => queue'[a] = queue[a]
  BY <1>0, <1>2, <1>3 DEF Settled, Has
<1>6. NoOrphan'
  <2>1. \A a \in Acts : Producers(a) \subseteq Acts
    BY EngineAssumption DEF Producers
  <2> QED
    BY <1>0, <1>5, <2>1 DEF NoOrphan, Present
<1>7. DeferredInOrder(tab[t])' /\ SentInOrder(tab[t])' /\ AnsweredInOrder(tab[t])'
  <2>1. RowsMoveOn
    BY <1>5 DEF RowsMoveOn
  <2>2. /\ DOMAIN tab[t].batch \subseteq Acts /\ DOMAIN tab[t].results \subseteq Acts
        /\ tab[t].deferred \subseteq Acts
    BY <1>0 DEF TabType, Batches, Answers
  <2> QED
    BY <1>0, <2>1, <2>2, StaysInOrder DEF Orderly, Inv
<1>8. SettledIsKnown(tab[t])'
  <2>1. /\ PlayersToStore(tab[t])' = PlayersToStore(tab[t])
        /\ SessionsToStore(tab[t])' = SessionsToStore(tab[t])
    BY <1>0 DEF PlayersToStore, SessionsToStore
  <2> QED
    BY <1>0, <1>5, <2>1 DEF Orderly, SettledIsKnown
<1>9. InCharge(tab[t])'
  BY <1>0 DEF Orderly, InCharge
<1>10. PassesDone(tab[t])'
  <2>1. \A a \in Unsynced' : a \in Acts /\ (a \in Unsynced \/ a \in group)
    BY <1>3 DEF Unsynced
  <2>2. \A a \in Unsynced : queue'[a] = queue[a]
    BY <1>5 DEF Unsynced
  <2>3. PassesDone(tab[t])
    BY <1>0 DEF Orderly
  <2>4. PlayersCurrent(Unsynced) => PlayersCurrent(Unsynced)'
    BY <1>0, <1>2, <2>1, <2>2 DEF PlayersCurrent
  <2>5. SessionsCurrent(Unsynced) => SessionsCurrent(Unsynced)'
    BY <1>0, <1>2, <2>1, <2>2 DEF SessionsCurrent
  <2>6. PlayersCurrent(Unsynced \ tab[t].todo) => PlayersCurrent(Unsynced \ tab[t].todo)'
    BY <1>0, <1>2, <2>1, <2>2 DEF PlayersCurrent
  <2>7. SessionsCurrent(Unsynced \ tab[t].todo) => SessionsCurrent(Unsynced \ tab[t].todo)'
    BY <1>0, <1>2, <2>1, <2>2 DEF SessionsCurrent
  <2> QED
    BY <1>0, <2>3, <2>4, <2>5, <2>6, <2>7 DEF PassesDone
<1> QED
  BY <1>4, <1>6, <1>7, <1>8, <1>9, <1>10 DEF Calm, Orderly

LEMMA InitCalm == Init => Calm
<1> SUFFICES ASSUME Init
             PROVE  Calm
  OBVIOUS
<1>1. \A a \in Acts : queue[a] = None
  BY DEF Init
<1>2. ASSUME NEW t \in Tabs PROVE Orderly(tab[t])
  <2>1. /\ tab[t].login = "in" /\ tab[t].pc = "idle" /\ tab[t].phase = 0
        /\ tab[t].deferred = {} /\ DOMAIN tab[t].results = {}
    BY EmptyBatch DEF Init, IdleTab
  <2> QED
    BY <1>1, <2>1
       DEF Orderly, InCharge, SettledIsKnown, PassesDone, DeferredInOrder, SentInOrder,
           AnsweredInOrder, Settled, Has
<1> QED
  BY <1>1, <1>2 DEF Calm, Present, NoOrphan

\* A crash, a logout and a 401 answer are faults.
LEMMA FaultIsCounted ==
    ASSUME Inv, NEW t, Logout(t) \/ Unauthorized(t) \/ Crash(t)
    PROVE  faults' # 0
  BY EngineAssumption DEF Inv, Types, Logout, Unauthorized, Crash

\* One tab whose screens hold the ids of the directory never has an action
\* refused for its reference to an action that the server accepted, whatever
\* requests and answers are lost, as long as nobody crashes or logs out.
THEOREM NoOrphans ==
    ASSUME NEW only, Tabs = {only}, ~StaleScreens, ProducersOfTheirKind
    PROVE  Spec => []NoOrphanWithoutFaults
<1>1. Init => Calm
  BY InitCalm
<1>2. ASSUME Inv, Calm, [Next]_vars PROVE Calm'
  <2>0. faults' = 0 => faults = 0
    <3>1. faults \in Nat
      BY <1>2, EngineAssumption DEF Inv, Types
    <3>2. ASSUME NEW t \in Tabs, StartFlush(t) \/ Continue(t) \/ Exchange(t)
          PROVE  UNCHANGED faults
      BY <3>2
         DEF StartFlush, Continue, Exchange, ReadPlayers, ReadSessions, Rewrite,
             RewriteConflict, Rewritten, Snapshot, Select, Send, Reconcile, Reconciled,
             PersistPlayers, PersistSessions, StopStale, ServerHandles, Receive
    <3>3. ASSUME NEW t \in Tabs,
                 \/ NetworkError(t) \/ Unauthorized(t) \/ Logout(t) \/ RemoveMarker(t)
                 \/ Login(t) \/ Restore(t) \/ Crash(t)
          PROVE  faults' \in {faults, faults + 1}
      BY <3>3 DEF NetworkError, Unauthorized, Logout, RemoveMarker, Login, Restore, Crash
    <3>4. \A t \in Tabs, g \in Captures : Capture(t, g) => UNCHANGED faults
      BY DEF Capture
    <3>5. \A m \in net : ServerHandles(m) \/ LoseRequest(m) => UNCHANGED faults
      BY DEF ServerHandles, LoseRequest
    <3>6. Terminating \/ UNCHANGED vars => UNCHANGED faults
      BY DEF Terminating, vars
    <3>7. faults' \in {faults, faults + 1}
      BY <1>2, <3>2, <3>3, <3>4, <3>5, <3>6 DEF Next
    <3> QED
      BY <3>1, <3>7
  <2> SUFFICES ASSUME faults = 0, faults' = 0
               PROVE  Calm'
    BY <2>0 DEF Calm
  <2> USE <1>2
  <2>1. ASSUME NEW t \in Tabs, NEW g \in Captures, Capture(t, g) PROVE Calm'
    BY <2>1, CaptureCalm
  <2>2. ASSUME NEW t \in Tabs, StartFlush(t) PROVE Calm'
    BY <2>2, StartFlushCalm
  <2>3. ASSUME NEW t \in Tabs, Continue(t) PROVE Calm'
    <3>1. Tabs = {t}
      OBVIOUS
    <3> QED
      BY <2>3, <3>1, ReadCalm, RewriteCalm, NoConflictAlone, RewrittenCalm, SnapshotCalm,
         SelectCalm, SendCalm, ReconcileCalm, ReconciledCalm, PersistCalm DEF Continue
  <2>4. ASSUME NEW m \in net, ServerHandles(m) PROVE Calm'
    BY <2>4, ServerHandlesCalm
  <2>5. ASSUME NEW t \in Tabs, Receive(t) \/ NetworkError(t) PROVE Calm'
    BY <2>5, ReceiveCalm, NetworkErrorCalm
  <2>6. ASSUME UNCHANGED <<queue, resolved, tab>> PROVE Calm'
    BY <2>6, CalmMoves DEF Calm
  <2>7. \A m \in net : LoseRequest(m) => UNCHANGED <<queue, resolved, tab>>
    BY DEF LoseRequest
  <2>8. Terminating \/ UNCHANGED vars => UNCHANGED <<queue, resolved, tab>>
    BY DEF Terminating, vars
  <2>9. ASSUME NEW t \in Tabs
        PROVE  /\ ~RemoveMarker(t) /\ ~Login(t) /\ ~Restore(t)
               /\ ~Logout(t) /\ ~Unauthorized(t) /\ ~Crash(t)
    BY NoConflictAlone, FaultIsCounted
  <2> QED
    BY <2>1, <2>2, <2>3, <2>4, <2>5, <2>6, <2>7, <2>8, <2>9 DEF Next, Exchange
<1>3. Calm => NoOrphanWithoutFaults
  BY DEF Calm, NoOrphanWithoutFaults
<1>4. Spec => []Inv
  BY Inductive
<1> QED
  BY <1>1, <1>2, <1>3, <1>4, PTL DEF Spec
=============================================================================
