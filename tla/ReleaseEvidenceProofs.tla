------------------------ MODULE ReleaseEvidenceProofs ------------------------
(***************************************************************************)
(* What holds of funhouse-release-evidence check for every repository,     *)
(* every change of it while it is read and every number of them: a PASS    *)
(* held at as_of, and a repository that did not change is not blocked.     *)
(***************************************************************************)
EXTENDS ReleaseEvidence, FiniteSetTheorems, WellFoundedInduction, TLAPS

-----------------------------------------------------------------------------
(* The inductive invariant.                                                *)

\* What became of the items of a list by a later time, if everything that
\* happened meanwhile is dated after t.
RunsSince(old, new, t) ==
    /\ \A r \in new : r \in old \/ r.updated > t
    /\ \A r \in old : \E q \in new :
          /\ q.id = r.id /\ q.created = r.created
          /\ q.sha = r.sha /\ q.event = r.event /\ q.mode = r.mode
          /\ q = r \/ q.updated > t

DeploymentsSince(old, new, t) ==
    /\ \A d \in new : d \in old \/ d.at > t
    /\ \A d \in old : \E q \in new :
          q.id = d.id /\ q.created = d.created /\ (q = d \/ q.at > t)

StatusesSince(old, new, t) ==
    /\ old \subseteq new
    /\ \A c \in new : c \in old \/ c.created > t

\* main never returns to a commit that it left.
MainSince(old, new) == new.main = old.main \/ old.main \in new.past

Since(old, new, t) ==
    /\ new.active = old.active
    /\ old.past \subseteq new.past
    /\ MainSince(old, new)
    /\ StatusesSince(old.statuses, new.statuses, t)
    /\ \A k \in Workflows : RunsSince(old.runs[k], new.runs[k], t)
    /\ \A p \in Projects : DeploymentsSince(old.deployments[p], new.deployments[p], t)

\* Something that happened is still to be seen.
Touched(w, old, t) ==
    \/ \E k \in Workflows : \E r \in w.runs[k] : r.updated > t
    \/ \E p \in Projects : \E d \in w.deployments[p] : d.at > t
    \/ w.main # old.main

Newer(i, j) == i.created > j.created \/ (i.created = j.created /\ i.id >= j.id)
Dominates(i, items) == \A j \in items : Newer(i, j)

\* The pieces.  The runs of workflow k were read at i:
RunsRead(i, k) ==
    i =< Len(seen) =>
        /\ seen[i].active <=> k \in then.active
        /\ seen[i].runs \subseteq RunType
        /\ Numbered(seen[i].runs)
        /\ \A r \in seen[i].runs : r.created =< clock
        /\ RunsSince(then.runs[k], seen[i].runs, as_of)

\* the statuses of the candidate:
StatusesRead ==
    7 =< Len(seen) =>
        /\ seen[7] \subseteq world.statuses
        /\ StatusesSince(StatusesOf(then, Candidate), seen[7], as_of)

\* the newest deployment at i and its status at i + 1, as compared with an older
\* list and with the current one:
NewestAt(pieces, i, old, now, t) ==
    /\ i =< Len(pieces) /\ pieces[i] # <<>> =>
          /\ pieces[i].id \in Nat /\ pieces[i].created \in Nat
          /\ Dominates(pieces[i], old)
          /\ \E q \in now : q.id = pieces[i].id /\ q.created = pieces[i].created
    /\ i + 1 =< Len(pieces) /\ pieces[i + 1] # <<>> =>
          /\ pieces[i] # <<>>
          /\ pieces[i + 1].id = pieces[i].id /\ pieces[i + 1].created = pieces[i].created
          /\ pieces[i + 1] \in old \/ pieces[i + 1].at > t
          /\ pieces[i + 1].at \in Nat

DeploymentRead(i, p, w) == NewestAt(seen, i, w.deployments[p], world.deployments[p], as_of)

\* and main first and last.
MainRead ==
    /\ 1 =< Len(seen) => seen[1] \in Shas /\ seen[1] \in world.past \cup {world.main}
    /\ 12 =< Len(seen) => confirmed.main = seen[1] \/ seen[1] \in world.past
    /\ 16 =< Len(seen) /\ seen[16] = seen[1] => confirmed.main = seen[1]

\* What each piece is as long as nothing has happened.
QuietPiece(i) ==
    CASE i \in {1, 16} -> then.main
      [] i \in 2..5 -> [active |-> Reads[i][2] \in then.active, runs |-> then.runs[Reads[i][2]]]
      [] i = 6 -> Gate(then, then.runs["ci"], Candidate)
      [] i = 7 -> StatusesOf(then, Candidate)
      [] i \in {8, 9, 12, 13} -> Newest(then, "api")
      [] i \in {10, 11, 14, 15} -> Newest(then, "pwa")

Clocks ==
    /\ clock \in Nat /\ as_of \in Nat /\ events \in Nat
    /\ check \in {"idle", "reading", "PASS", "BLOCKED", "error"}
    /\ Sound(world, clock)
    /\ check = "idle" => seen = <<>> /\ events = 0
    /\ check # "idle" => as_of < clock

Pieces ==
    /\ \E T : seen \in Seq(T)
    /\ Len(seen) =< 16
    /\ RunsRead(2, "ci") /\ RunsRead(3, "api_role")
    /\ RunsRead(4, "browser") /\ RunsRead(5, "preflight")
    /\ StatusesRead
    /\ DeploymentRead(8, "api", then) /\ DeploymentRead(10, "pwa", then)
    /\ DeploymentRead(12, "api", confirmed) /\ DeploymentRead(14, "pwa", confirmed)
    /\ MainRead

Begun ==
    /\ Sound(then, as_of)
    /\ Since(then, world, as_of)
    /\ asked.validator \in {then.main, Local}
    /\ 12 =< Len(seen) => Sound(confirmed, clock) /\ Since(confirmed, world, as_of)
    /\ events = 0 => world = then /\ \A i \in 1..Len(seen) : seen[i] = QuietPiece(i)
    /\ events > 0 => Touched(world, then, as_of)

Inv ==
    /\ Clocks
    /\ Pieces
    /\ check # "idle" => Begun
    /\ PassHeld
    /\ QuietWorldPasses

-----------------------------------------------------------------------------
(* Lemmas on lists of items.                                               *)

\* A set of numbers with an upper bound has a greatest one.
LEMMA GreatestExists ==
    ASSUME NEW S, S \subseteq Nat, S # {}, NEW bound \in Nat, \A x \in S : x =< bound
    PROVE  \E top \in S : \A x \in S : top >= x
<1> DEFINE T == {bound - x : x \in S}
           R == OpToRel(<, Nat)
<1>1. T \subseteq Nat /\ T # {}
  <2>1. T \subseteq Nat
    OBVIOUS
  <2>2. PICK x \in S : TRUE
    OBVIOUS
  <2>3. bound - x \in T
    OBVIOUS
  <2> QED
    BY <2>1, <2>3
<1>2. \A x, y \in Nat : <<y, x>> \in R <=> y < x
  BY Zenon DEF OpToRel
<1>3. \E x \in T : \A y \in T : ~(<<y, x>> \in R)
  <2> HIDE DEF T
  <2> QED
    BY <1>1, NatLessThanWellFounded, WFMin, Zenon
<1> HIDE DEF R
<1>4. PICK x \in T : \A y \in T : ~(<<y, x>> \in R)
  BY <1>3
<1>5. PICK top \in S : x = bound - top
  BY <1>4
<1>6. ASSUME NEW y \in S PROVE top >= y
  <2>1. bound - y \in T /\ bound - y \in Nat /\ x \in Nat
    BY <1>1
  <2>2. ~(bound - y < bound - top)
    BY <1>2, <1>4, <1>5, <2>1
  <2>3. top \in Int /\ y \in Int
    OBVIOUS
  <2> QED
    BY <2>2, <2>3
<1> QED
  BY <1>6

\* What Latest finds, of any of the items of a list of bounded age.
LEMMA LatestFound ==
    ASSUME NEW items, Numbered(items), NEW S, S \subseteq items, S # {}, NEW time \in Nat,
           \A i \in S : i.created \in Nat /\ i.created =< time
    PROVE  Latest(S) \in S /\ Dominates(Latest(S), S)
<1>1. Cardinality(items) \in Nat /\ \A i \in S : i.id \in Nat /\ i.id =< Cardinality(items)
  BY FS_CardinalityType DEF Numbered
<1>2. PICK i \in S : \A j \in S : i.created >= j.created
  <2> DEFINE times == {j.created : j \in S}
  <2>1. times \subseteq Nat /\ times # {} /\ \A x \in times : x =< time
    OBVIOUS
  <2>2. \E top \in times : \A x \in times : top >= x
    <3> HIDE DEF times
    <3> QED
      BY <2>1, GreatestExists
  <2> QED
    BY <2>2
<1>3. PICK k \in S : k.created = i.created /\ \A j \in S : j.created = i.created => k.id >= j.id
  <2> DEFINE ties == {j \in S : j.created = i.created}
             ids == {j.id : j \in ties}
  <2>1. ids \subseteq Nat /\ \A x \in ids : x =< Cardinality(items)
    BY <1>1
  <2>2. i.id \in ids
    OBVIOUS
  <2>3. \E top \in ids : \A x \in ids : top >= x
    <3> HIDE DEF ids
    <3> QED
      BY <1>1, <2>1, <2>2, GreatestExists
  <2> QED
    BY <2>3
<1>4. \A j \in S : k.created > j.created \/ (k.created = j.created /\ k.id >= j.id)
  BY <1>2, <1>3
<1> QED
  BY <1>4 DEF Latest, Dominates, Newer

\* There is one such item.
LEMMA LatestIs ==
    ASSUME NEW S, \A i, j \in S : i.id = j.id => i = j,
           \A i \in S : i.id \in Nat /\ i.created \in Nat,
           NEW x \in S, Dominates(x, S)
    PROVE  Latest(S) = x
<1>1. \A j \in S : x.created > j.created \/ (x.created = j.created /\ x.id >= j.id)
  BY DEF Dominates, Newer
<1>2. ASSUME NEW y \in S, \A j \in S : y.created > j.created \/ (y.created = j.created /\ y.id >= j.id)
      PROVE  y = x
  BY <1>1, <1>2
<1> QED
  BY <1>1, <1>2 DEF Latest

\* A list stays numbered when an item is created,
LEMMA Created ==
    ASSUME NEW S, Numbered(S), NEW x, x.id = Cardinality(S) + 1
    PROVE  Numbered(S \cup {x})
<1>1. Cardinality(S) \in Nat
  BY FS_CardinalityType DEF Numbered
<1>2. x \notin S
  BY <1>1 DEF Numbered
<1>3. IsFiniteSet(S \cup {x}) /\ Cardinality(S \cup {x}) = Cardinality(S) + 1
  BY <1>2, FS_AddElement DEF Numbered
<1> QED
  BY <1>1, <1>3 DEF Numbered

\* and when one changes.
LEMMA Changed ==
    ASSUME NEW S, Numbered(S), NEW r \in S, NEW x, x.id = r.id
    PROVE  Numbered((S \ {r}) \cup {x})
<1>1. Cardinality(S) \in Nat
  BY FS_CardinalityType DEF Numbered
<1>2. IsFiniteSet(S \ {r}) /\ Cardinality(S \ {r}) = Cardinality(S) - 1
  BY FS_RemoveElement DEF Numbered
<1>3. x \notin S \ {r}
  BY DEF Numbered
<1>4. /\ IsFiniteSet((S \ {r}) \cup {x})
      /\ Cardinality((S \ {r}) \cup {x}) = Cardinality(S)
  BY <1>1, <1>2, <1>3, FS_AddElement
<1> QED
  BY <1>4 DEF Numbered

-----------------------------------------------------------------------------
(* Lemmas on what became of a repository.                                  *)

LEMMA SinceItself == ASSUME NEW w, NEW t PROVE Since(w, w, t)
  BY DEF Since, MainSince, RunsSince, DeploymentsSince, StatusesSince

\* What happened since then and what happened next happened since then.
LEMMA SinceGoesOn ==
    ASSUME NEW old, NEW mid, NEW new, NEW t, Since(old, mid, t), Since(mid, new, t)
    PROVE  Since(old, new, t)
<1>1. /\ new.active = old.active
      /\ old.past \subseteq new.past
      /\ MainSince(old, new)
      /\ StatusesSince(old.statuses, new.statuses, t)
  BY DEF Since, MainSince, StatusesSince
<1>2. ASSUME NEW k \in Workflows PROVE RunsSince(old.runs[k], new.runs[k], t)
  <2> DEFINE A == old.runs[k]
             B == mid.runs[k]
             C == new.runs[k]
  <2>1. RunsSince(A, B, t) /\ RunsSince(B, C, t)
    BY DEF Since
  <2> HIDE DEF A, B, C
  <2>2. \A r \in C : r \in A \/ r.updated > t
    BY <2>1 DEF RunsSince
  <2>3. ASSUME NEW r \in A
        PROVE  \E q \in C : /\ q.id = r.id /\ q.created = r.created
                            /\ q.sha = r.sha /\ q.event = r.event /\ q.mode = r.mode
                            /\ q = r \/ q.updated > t
    <3>1. PICK p \in B : /\ p.id = r.id /\ p.created = r.created
                         /\ p.sha = r.sha /\ p.event = r.event /\ p.mode = r.mode
                         /\ p = r \/ p.updated > t
      BY <2>1 DEF RunsSince
    <3>2. PICK q \in C : /\ q.id = p.id /\ q.created = p.created
                         /\ q.sha = p.sha /\ q.event = p.event /\ q.mode = p.mode
                         /\ q = p \/ q.updated > t
      BY <2>1 DEF RunsSince
    <3> QED
      BY <3>1, <3>2
  <2>4. RunsSince(A, C, t)
    BY <2>2, <2>3 DEF RunsSince
  <2> QED
    BY <2>4 DEF A, C
<1>3. ASSUME NEW p \in Projects
      PROVE  DeploymentsSince(old.deployments[p], new.deployments[p], t)
  <2> DEFINE A == old.deployments[p]
             B == mid.deployments[p]
             C == new.deployments[p]
  <2>1. DeploymentsSince(A, B, t) /\ DeploymentsSince(B, C, t)
    BY DEF Since
  <2> HIDE DEF A, B, C
  <2>2. DeploymentsSince(A, C, t)
    BY <2>1 DEF DeploymentsSince
  <2> QED
    BY <2>2 DEF A, C
<1> QED
  BY <1>1, <1>2, <1>3 DEF Since

-----------------------------------------------------------------------------
(* The changes of the repository.                                          *)

\* One more thing has happened.
Moved(w) == Sound(w, clock) /\ Since(world, w, as_of) /\ Touched(w, then, as_of)

LEMMA ClockPast ==
    ASSUME Inv, check = "reading"
    PROVE  /\ clock \in Nat /\ as_of \in Nat /\ as_of < clock
           /\ Sound(world, clock) /\ world \in WorldType
           /\ MainSince(then, world)
  BY DEF Inv, Clocks, Begun, Since, Sound

\* To a run,
LEMMA RunsMove ==
    ASSUME Inv, check = "reading", NEW k \in Workflows,
           NEW R, R \subseteq RunType, Numbered(R),
           \A r \in R : r.mode \in Modes(k) /\ r.created =< clock /\ r.updated =< clock,
           k = "ci" => \A r \in R : r.state = "success" => r.gate = "success",
           RunsSince(world.runs[k], R, as_of), \E r \in R : r.updated > as_of
    PROVE  Moved([world EXCEPT !.runs[k] = R])
<1> DEFINE w == [world EXCEPT !.runs[k] = R]
<1>1. /\ world \in WorldType /\ Sound(world, clock)
      /\ clock \in Nat /\ as_of \in Nat
  BY ClockPast
<1>2. /\ w.main = world.main /\ w.past = world.past /\ w.active = world.active
      /\ w.statuses = world.statuses /\ w.deployments = world.deployments
      /\ w.runs = [world.runs EXCEPT ![k] = R]
      /\ w \in WorldType
  BY <1>1 DEF WorldType
<1>3. \A j \in Workflows : w.runs[j] = IF j = k THEN R ELSE world.runs[j]
  BY <1>1, <1>2 DEF WorldType
<1> HIDE DEF w
<1>4. Sound(w, clock)
  BY <1>1, <1>2, <1>3 DEF Sound, Workflows
<1>5. Since(world, w, as_of)
  BY <1>2, <1>3, SinceItself DEF Since, MainSince
<1>6. Touched(w, then, as_of)
  BY <1>3 DEF Touched
<1> QED
  BY <1>4, <1>5, <1>6 DEF Moved, w

\* or to a deployment.
LEMMA DeploymentsMove ==
    ASSUME Inv, check = "reading", NEW p \in Projects,
           NEW D, D \subseteq DeploymentType, Numbered(D),
           \A d \in D : d.created =< clock /\ d.at =< clock,
           DeploymentsSince(world.deployments[p], D, as_of), \E d \in D : d.at > as_of,
           NEW C, C \subseteq StatusType, Numbered(C), \A c \in C : c.created =< clock,
           StatusesSince(world.statuses, C, as_of)
    PROVE  Moved([world EXCEPT !.deployments[p] = D, !.statuses = C])
<1> DEFINE w == [world EXCEPT !.deployments[p] = D, !.statuses = C]
<1>1. /\ world \in WorldType /\ Sound(world, clock)
      /\ clock \in Nat /\ as_of \in Nat
  BY ClockPast
<1>2. /\ w.main = world.main /\ w.past = world.past /\ w.active = world.active
      /\ w.statuses = C /\ w.deployments = [world.deployments EXCEPT ![p] = D]
      /\ w.runs = world.runs
      /\ w \in WorldType
  BY <1>1 DEF WorldType
<1>3. \A q \in Projects : w.deployments[q] = IF q = p THEN D ELSE world.deployments[q]
  BY <1>1, <1>2 DEF WorldType
<1> HIDE DEF w
<1>4. Sound(w, clock)
  BY <1>1, <1>2, <1>3 DEF Sound
<1>5. Since(world, w, as_of)
  BY <1>2, <1>3, SinceItself DEF Since, MainSince
<1>6. Touched(w, then, as_of)
  BY <1>3 DEF Touched
<1> QED
  BY <1>4, <1>5, <1>6 DEF Moved, w

LEMMA NewRunMoves == ASSUME Inv, NewRun PROVE Moved(world')
<1>1. check = "reading"
  BY DEF NewRun, Change
<1>2. PICK k \in Workflows : \E m \in Modes(k) :
          world' = [world EXCEPT !.runs[k] = @ \cup
              {[id |-> Cardinality(@) + 1, sha |-> world.main, event |-> Event(k), mode |-> m,
                created |-> clock, started |-> clock, updated |-> clock,
                state |-> "running", gate |-> "running"]}]
  BY DEF NewRun
<1>3. PICK m \in Modes(k) :
          world' = [world EXCEPT !.runs[k] = @ \cup
              {[id |-> Cardinality(@) + 1, sha |-> world.main, event |-> Event(k), mode |-> m,
                created |-> clock, started |-> clock, updated |-> clock,
                state |-> "running", gate |-> "running"]}]
  BY <1>2
<1> DEFINE S == world.runs[k]
           x == [id |-> Cardinality(S) + 1, sha |-> world.main, event |-> Event(k), mode |-> m,
                 created |-> clock, started |-> clock, updated |-> clock,
                 state |-> "running", gate |-> "running"]
<1>4. /\ Sound(world, clock) /\ clock \in Nat /\ as_of \in Nat /\ as_of < clock
      /\ world \in WorldType
  BY <1>1, ClockPast
<1>5. Numbered(S) /\ Cardinality(S) \in Nat /\ S \subseteq RunType /\ world.main \in Shas
  BY <1>4, FS_CardinalityType DEF Sound, Numbered, WorldType
<1>6. x \in RunType
  <2>1. /\ Event(k) \in {"push", "workflow_dispatch"}
        /\ m \in {"", "applied-or-skipped", "skipped"}
    BY DEF Event, Modes
  <2>2. Cardinality(S) + 1 \in Nat
    BY <1>5
  <2> HIDE DEF S
  <2> QED
    BY <1>4, <1>5, <2>1, <2>2 DEF RunType, States
<1>7. world' = [world EXCEPT !.runs[k] = S \cup {x}]
  BY <1>3, <1>4 DEF WorldType
<1>8. Numbered(S \cup {x})
  BY <1>5, Created
<1>9. /\ \A r \in S \cup {x} : r.mode \in Modes(k) /\ r.created =< clock /\ r.updated =< clock
      /\ k = "ci" => \A r \in S \cup {x} : r.state = "success" => r.gate = "success"
  BY <1>4 DEF Sound
<1>10. RunsSince(S, S \cup {x}, as_of) /\ \E r \in S \cup {x} : r.updated > as_of
  <2>1. x \in S \cup {x} /\ x.updated > as_of
    BY <1>4
  <2> HIDE DEF x, S
  <2> QED
    BY <2>1 DEF RunsSince
<1> HIDE DEF x
<1>11. Moved([world EXCEPT !.runs[k] = S \cup {x}])
  BY <1>1, <1>5, <1>6, <1>8, <1>9, <1>10, RunsMove
<1> QED
  BY <1>7, <1>11

\* A run that starts again or ends keeps what it is selected by.
LEMMA RunChanges ==
    ASSUME Inv, check = "reading", NEW k \in Workflows, NEW r \in world.runs[k],
           NEW x \in RunType, x.id = r.id, x.created = r.created, x.sha = r.sha,
           x.event = r.event, x.mode = r.mode, x.updated = clock,
           x.state = "success" => x.gate = "success"
    PROVE  Moved([world EXCEPT !.runs[k] = (@ \ {r}) \cup {x}])
<1> DEFINE S == world.runs[k]
           R == (S \ {r}) \cup {x}
<1>1. /\ Sound(world, clock) /\ clock \in Nat /\ as_of \in Nat /\ as_of < clock
      /\ world \in WorldType
  BY ClockPast
<1>2. Numbered(S) /\ S \subseteq RunType
  BY <1>1 DEF Sound, WorldType
<1>3. Numbered(R) /\ R \subseteq RunType
  BY <1>2, Changed
<1>4. /\ \A i \in R : i.mode \in Modes(k) /\ i.created =< clock /\ i.updated =< clock
      /\ k = "ci" => \A i \in R : i.state = "success" => i.gate = "success"
  BY <1>1 DEF Sound
<1>5. RunsSince(S, R, as_of) /\ \E i \in R : i.updated > as_of
  BY <1>1 DEF RunsSince
<1> HIDE DEF R
<1>6. Moved([world EXCEPT !.runs[k] = R])
  BY <1>3, <1>4, <1>5, RunsMove
<1>7. [world EXCEPT !.runs[k] = (@ \ {r}) \cup {x}] = [world EXCEPT !.runs[k] = R]
  BY <1>1 DEF WorldType, R
<1> QED
  BY <1>6, <1>7

LEMMA ReRunMoves == ASSUME Inv, ReRun PROVE Moved(world')
<1>1. PICK k \in Workflows : \E r \in world.runs[k] :
          world' = [world EXCEPT !.runs[k] = (@ \ {r}) \cup
              {[r EXCEPT !.state = "running", !.gate = "running", !.started = clock, !.updated = clock]}]
  BY DEF ReRun
<1>2. PICK r \in world.runs[k] :
          world' = [world EXCEPT !.runs[k] = (@ \ {r}) \cup
              {[r EXCEPT !.state = "running", !.gate = "running", !.started = clock, !.updated = clock]}]
  BY <1>1
<1> DEFINE x == [r EXCEPT !.state = "running", !.gate = "running", !.started = clock, !.updated = clock]
<1>3. check = "reading"
  BY DEF ReRun, Change
<1>4. r \in RunType /\ clock \in Nat
  BY <1>3, ClockPast DEF WorldType
<1>5. /\ x \in RunType /\ x.id = r.id /\ x.created = r.created /\ x.sha = r.sha
      /\ x.event = r.event /\ x.mode = r.mode /\ x.updated = clock /\ x.state # "success"
  BY <1>4 DEF RunType, States
<1> HIDE DEF x
<1>6. Moved([world EXCEPT !.runs[k] = (@ \ {r}) \cup {x}])
  BY <1>3, <1>5, RunChanges
<1> QED
  BY <1>2, <1>6 DEF x

LEMMA FinishRunMoves == ASSUME Inv, FinishRun PROVE Moved(world')
<1>1. PICK k \in Workflows : \E r \in world.runs[k] : \E state \in {"success", "failure"} :
          world' = [world EXCEPT !.runs[k] = (@ \ {r}) \cup
              {[r EXCEPT !.state = state, !.gate = state, !.updated = clock]}]
  BY DEF FinishRun
<1>2. PICK r \in world.runs[k] : \E state \in {"success", "failure"} :
          world' = [world EXCEPT !.runs[k] = (@ \ {r}) \cup
              {[r EXCEPT !.state = state, !.gate = state, !.updated = clock]}]
  BY <1>1
<1>3. PICK state \in {"success", "failure"} :
          world' = [world EXCEPT !.runs[k] = (@ \ {r}) \cup
              {[r EXCEPT !.state = state, !.gate = state, !.updated = clock]}]
  BY <1>2
<1> DEFINE x == [r EXCEPT !.state = state, !.gate = state, !.updated = clock]
<1>4. check = "reading"
  BY DEF FinishRun, Change
<1>5. r \in RunType /\ clock \in Nat
  BY <1>4, ClockPast DEF WorldType
<1>6. /\ x \in RunType /\ x.id = r.id /\ x.created = r.created /\ x.sha = r.sha
      /\ x.event = r.event /\ x.mode = r.mode /\ x.updated = clock /\ x.gate = x.state
  BY <1>5 DEF RunType, States
<1> HIDE DEF x
<1>7. Moved([world EXCEPT !.runs[k] = (@ \ {r}) \cup {x}])
  BY <1>4, <1>6, RunChanges
<1> QED
  BY <1>3, <1>7 DEF x

LEMMA DeployMoves == ASSUME Inv, Deploy PROVE Moved(world')
<1>1. PICK p \in Projects :
          world' = [world EXCEPT !.deployments[p] = @ \cup
              {[id |-> Cardinality(@) + 1, sha |-> world.main, created |-> clock,
                state |-> "pending", at |-> clock]}]
  BY DEF Deploy
<1> DEFINE S == world.deployments[p]
           x == [id |-> Cardinality(S) + 1, sha |-> world.main, created |-> clock,
                 state |-> "pending", at |-> clock]
<1>2. check = "reading"
  BY DEF Deploy, Change
<1>3. /\ Sound(world, clock) /\ clock \in Nat /\ as_of \in Nat /\ as_of < clock
      /\ world \in WorldType
  BY <1>2, ClockPast
<1>4. /\ Numbered(S) /\ Cardinality(S) \in Nat /\ S \subseteq DeploymentType
      /\ world.main \in Shas
  BY <1>3, FS_CardinalityType DEF Sound, Numbered, WorldType
<1>5. x \in DeploymentType
  <2>1. Cardinality(S) + 1 \in Nat
    BY <1>4
  <2> HIDE DEF S
  <2> QED
    BY <1>3, <1>4, <2>1 DEF DeploymentType, States
<1>6. world' = [world EXCEPT !.deployments[p] = S \cup {x}, !.statuses = world.statuses]
  BY <1>1, <1>3 DEF WorldType
<1>7. Numbered(S \cup {x})
  BY <1>4, Created
<1>8. /\ \A d \in S \cup {x} : d.created =< clock /\ d.at =< clock
      /\ DeploymentsSince(S, S \cup {x}, as_of)
      /\ \E d \in S \cup {x} : d.at > as_of
  <2>1. x \in S \cup {x} /\ x.at > as_of /\ x.created =< clock /\ x.at =< clock
    BY <1>3
  <2>2. \A d \in S : d.created =< clock /\ d.at =< clock
    BY <1>3 DEF Sound
  <2> HIDE DEF x, S
  <2> QED
    BY <2>1, <2>2 DEF DeploymentsSince
<1>9. /\ world.statuses \subseteq StatusType /\ Numbered(world.statuses)
      /\ \A c \in world.statuses : c.created =< clock
      /\ StatusesSince(world.statuses, world.statuses, as_of)
  BY <1>3 DEF Sound, WorldType, StatusesSince
<1> HIDE DEF x
<1>10. Moved([world EXCEPT !.deployments[p] = S \cup {x}, !.statuses = world.statuses])
  BY <1>2, <1>4, <1>5, <1>7, <1>8, <1>9, DeploymentsMove
<1> QED
  BY <1>6, <1>10

LEMMA SettleDeploymentMoves == ASSUME Inv, SettleDeployment PROVE Moved(world')
<1>1. PICK p \in Projects : \E d \in world.deployments[p] : \E state \in {"success", "failure"} :
          world' = [world EXCEPT
              !.deployments[p] = (@ \ {d}) \cup {[d EXCEPT !.state = state, !.at = clock]},
              !.statuses = @ \cup {[id |-> Cardinality(@) + 1, project |-> p, sha |-> d.sha,
                                    created |-> clock, state |-> state]}]
  BY DEF SettleDeployment
<1>2. PICK d \in world.deployments[p] : \E state \in {"success", "failure"} :
          world' = [world EXCEPT
              !.deployments[p] = (@ \ {d}) \cup {[d EXCEPT !.state = state, !.at = clock]},
              !.statuses = @ \cup {[id |-> Cardinality(@) + 1, project |-> p, sha |-> d.sha,
                                    created |-> clock, state |-> state]}]
  BY <1>1
<1>3. PICK state \in {"success", "failure"} :
          world' = [world EXCEPT
              !.deployments[p] = (@ \ {d}) \cup {[d EXCEPT !.state = state, !.at = clock]},
              !.statuses = @ \cup {[id |-> Cardinality(@) + 1, project |-> p, sha |-> d.sha,
                                    created |-> clock, state |-> state]}]
  BY <1>2
<1> DEFINE S == world.deployments[p]
           x == [d EXCEPT !.state = state, !.at = clock]
           D == (S \ {d}) \cup {x}
           y == [id |-> Cardinality(world.statuses) + 1, project |-> p, sha |-> d.sha,
                 created |-> clock, state |-> state]
           C == world.statuses \cup {y}
<1>4. check = "reading"
  BY DEF SettleDeployment, Change
<1>5. /\ Sound(world, clock) /\ clock \in Nat /\ as_of \in Nat /\ as_of < clock
      /\ world \in WorldType
  BY <1>4, ClockPast
<1>6. /\ Numbered(S) /\ S \subseteq DeploymentType
      /\ Numbered(world.statuses) /\ world.statuses \subseteq StatusType
      /\ Cardinality(world.statuses) \in Nat
  BY <1>5, FS_CardinalityType DEF Sound, Numbered, WorldType
<1>7. /\ x \in DeploymentType /\ x.id = d.id /\ x.created = d.created /\ x.at = clock
      /\ y \in StatusType
  <2>1. d \in DeploymentType
    BY <1>6
  <2>2. x \in DeploymentType /\ x.id = d.id /\ x.created = d.created /\ x.at = clock
    BY <1>5, <2>1 DEF DeploymentType, States
  <2>3. Cardinality(world.statuses) + 1 \in Nat /\ d.sha \in Shas
    BY <1>6, <2>1 DEF DeploymentType, States
  <2>4. y \in StatusType
    BY <1>5, <2>3 DEF StatusType, States
  <2> QED
    BY <2>2, <2>4
<1>8. Numbered(D) /\ Numbered(C)
  BY <1>6, <1>7, Created, Changed
<1>9. /\ \A i \in D : i.created =< clock /\ i.at =< clock
      /\ \E i \in D : i.at > as_of
  <2>1. \A i \in S : i.created =< clock /\ i.at =< clock
    BY <1>5 DEF Sound
  <2>2. x \in D /\ x.at > as_of /\ x.at =< clock /\ x.created =< clock
    BY <1>5, <1>7, <2>1
  <2> HIDE DEF x, S
  <2> QED
    BY <2>1, <2>2
<1>10. DeploymentsSince(S, D, as_of)
  BY <1>5, <1>7 DEF DeploymentsSince
<1>11. \A c \in C : c.created =< clock
  BY <1>5 DEF Sound
<1>12. StatusesSince(world.statuses, C, as_of)
  BY <1>5 DEF StatusesSince
<1>13. world' = [world EXCEPT !.deployments[p] = D, !.statuses = C]
  BY <1>3, <1>5 DEF WorldType
<1>14. D \subseteq DeploymentType /\ C \subseteq StatusType
  BY <1>6, <1>7
<1> HIDE DEF D, C
<1>15. Moved([world EXCEPT !.deployments[p] = D, !.statuses = C])
  BY <1>4, <1>8, <1>9, <1>10, <1>11, <1>12, <1>14, DeploymentsMove
<1> QED
  BY <1>13, <1>15

LEMMA PushMoves == ASSUME Inv, Push PROVE Moved(world')
<1>1. PICK sha \in Shas \ {world.main} :
          /\ sha \notin world.past
          /\ world' = [world EXCEPT !.main = sha, !.past = @ \cup {world.main}]
  BY DEF Push
<1>2. check = "reading"
  BY DEF Push, Change
<1>3. /\ Sound(world, clock) /\ world \in WorldType /\ MainSince(then, world)
  BY <1>2, ClockPast
<1>4. /\ world'.main = sha /\ world'.past = world.past \cup {world.main}
      /\ world'.active = world.active /\ world'.runs = world.runs
      /\ world'.statuses = world.statuses /\ world'.deployments = world.deployments
      /\ world' \in WorldType
  BY <1>1, <1>3 DEF WorldType
<1>5. Sound(world', clock)
  BY <1>1, <1>3, <1>4 DEF Sound
<1>6. Since(world, world', as_of)
  BY <1>4, SinceItself DEF Since, MainSince
<1>7. Touched(world', then, as_of)
  BY <1>1, <1>3, <1>4 DEF Touched, MainSince
<1> QED
  BY <1>5, <1>6, <1>7 DEF Moved

\* Whatever happens to the repository, what was read of it stays so.
LEMMA ChangeKeeps == ASSUME Inv, Change, Moved(world') PROVE Inv'
<1>1. /\ check = "reading" /\ events' = events + 1
      /\ UNCHANGED <<clock, check, asked, as_of, collected_at, seen, then, confirmed>>
  BY DEF Change
<1>2. /\ Sound(world', clock) /\ Since(world, world', as_of) /\ Touched(world', then, as_of)
  BY DEF Moved
<1>3. Clocks /\ Pieces /\ Begun
  BY <1>1 DEF Inv
<1>4. Clocks'
  BY <1>1, <1>2, <1>3 DEF Clocks
<1>5. UNCHANGED Candidate
  BY <1>1 DEF Candidate
<1>6. /\ RunsRead(2, "ci")' /\ RunsRead(3, "api_role")'
      /\ RunsRead(4, "browser")' /\ RunsRead(5, "preflight")'
  BY <1>1, <1>3 DEF Pieces, RunsRead
<1>7. StatusesRead'
  BY <1>1, <1>2, <1>3, <1>5 DEF Pieces, StatusesRead, Since, StatusesSince
<1>8. ASSUME NEW i, NEW p \in Projects, NEW old,
             NewestAt(seen, i, old, world.deployments[p], as_of)
      PROVE  NewestAt(seen, i, old, world'.deployments[p], as_of)
  <2>1. DeploymentsSince(world.deployments[p], world'.deployments[p], as_of)
    BY <1>2 DEF Since
  <2>2. \A q \in world.deployments[p] : \E r \in world'.deployments[p] :
            r.id = q.id /\ r.created = q.created
    BY <2>1 DEF DeploymentsSince
  <2> QED
    BY <1>8, <2>2 DEF NewestAt
<1>9. /\ DeploymentRead(8, "api", then)' /\ DeploymentRead(10, "pwa", then)'
      /\ DeploymentRead(12, "api", confirmed)' /\ DeploymentRead(14, "pwa", confirmed)'
  BY <1>1, <1>3, <1>8 DEF Pieces, DeploymentRead, Projects
<1>10. MainRead'
  BY <1>1, <1>2, <1>3 DEF Pieces, MainRead, Since, MainSince
<1>11. Pieces'
  BY <1>1, <1>3, <1>6, <1>7, <1>9, <1>10 DEF Pieces
<1>12. Since(then, world', as_of)
  BY <1>2, <1>3, SinceGoesOn DEF Begun
<1>13. 12 =< Len(seen) => Sound(confirmed, clock) /\ Since(confirmed, world', as_of)
  BY <1>2, <1>3, SinceGoesOn DEF Begun
<1>14. events \in Nat
  BY <1>3 DEF Clocks
<1>15. Begun'
  BY <1>1, <1>2, <1>3, <1>12, <1>13, <1>14 DEF Begun
<1> QED
  BY <1>1, <1>4, <1>11, <1>15 DEF Inv, PassHeld, QuietWorldPasses

\* A repository as it can be at a time is one as it can be later.
LEMMA SoundLater ==
    ASSUME NEW w, NEW t \in Nat, NEW u \in Nat, t =< u, Sound(w, t)
    PROVE  Sound(w, u)
<1>1. w \in WorldType
  BY DEF Sound
<1>2. \A c \in StatusType : c.created \in Nat
  BY DEF StatusType
<1>3. \A d \in DeploymentType : d.created \in Nat /\ d.at \in Nat
  BY DEF DeploymentType
<1>4. \A r \in RunType : r.created \in Nat /\ r.updated \in Nat
  BY DEF RunType
<1>5. \A c \in w.statuses : c.created =< u
  BY <1>1, <1>2 DEF Sound, WorldType
<1>6. \A p \in Projects : \A d \in w.deployments[p] : d.created =< u /\ d.at =< u
  BY <1>1, <1>3 DEF Sound, WorldType
<1>7. \A k \in Workflows : \A r \in w.runs[k] : r.created =< u /\ r.updated =< u
  <2> SUFFICES ASSUME NEW k \in Workflows, NEW r \in w.runs[k]
               PROVE  r.created =< u /\ r.updated =< u
    OBVIOUS
  <2>1. r \in RunType
    BY <1>1 DEF WorldType
  <2>2. r.created =< t /\ r.updated =< t
    BY DEF Sound
  <2> QED
    BY <1>4, <2>1, <2>2
<1> QED
  BY <1>5, <1>6, <1>7 DEF Sound

\* What was read is what it was.
LEMMA PiecesStay ==
    ASSUME Inv, UNCHANGED <<world, asked, as_of, seen, then, confirmed>>,
           clock' \in Nat, clock =< clock'
    PROVE  Pieces'
<1>1. Pieces /\ clock \in Nat
  BY DEF Inv, Clocks
<1>2. ASSUME NEW i, NEW k, RunsRead(i, k) PROVE RunsRead(i, k)'
  <2>1. \A r \in RunType : r.created \in Nat
    BY DEF RunType
  <2>2. ASSUME i =< Len(seen), NEW r \in seen[i].runs PROVE r.created =< clock'
    <3>1. r \in RunType /\ r.created =< clock
      BY <1>2, <2>2 DEF RunsRead
    <3> QED
      BY <1>1, <2>1, <3>1
  <2> QED
    BY <1>2, <2>2 DEF RunsRead
<1>3. StatusesRead'
  <2>1. UNCHANGED Candidate
    BY DEF Candidate
  <2> QED
    BY <1>1, <2>1 DEF Pieces, StatusesRead
<1>4. /\ DeploymentRead(8, "api", then)' /\ DeploymentRead(10, "pwa", then)'
      /\ DeploymentRead(12, "api", confirmed)' /\ DeploymentRead(14, "pwa", confirmed)'
  BY <1>1 DEF Pieces, DeploymentRead
<1>5. MainRead'
  BY <1>1 DEF Pieces, MainRead
<1> QED
  BY <1>1, <1>2, <1>3, <1>4, <1>5 DEF Pieces

LEMMA BegunStays ==
    ASSUME Inv, check # "idle", UNCHANGED <<events, world, asked, as_of, seen, then, confirmed>>,
           clock' \in Nat, clock =< clock'
    PROVE  Begun'
<1>1. Begun /\ clock \in Nat
  BY DEF Inv, Clocks
<1>2. \A i : QuietPiece(i)' = QuietPiece(i)
  BY DEF QuietPiece, Candidate
<1> QED
  BY <1>1, <1>2, SoundLater DEF Begun

\* Time passes.
LEMMA TickKeeps == ASSUME Inv, Tick PROVE Inv'
<1>1. /\ check = "reading" /\ clock' = clock + 1
      /\ UNCHANGED <<events, world, check, asked, as_of, collected_at, seen, then, confirmed>>
  BY DEF Tick
<1>2. clock \in Nat /\ Clocks
  BY DEF Inv, Clocks
<1>3. clock' \in Nat /\ clock =< clock'
  BY <1>1, <1>2
<1>4. Clocks'
  BY <1>1, <1>2, <1>3, SoundLater DEF Clocks
<1>5. Pieces' /\ Begun'
  BY <1>1, <1>3, PiecesStay, BegunStays
<1> QED
  BY <1>1, <1>4, <1>5 DEF Inv, PassHeld, QuietWorldPasses

\* The collector looks at the clock.
LEMMA BeginKeeps == ASSUME Inv, Begin PROVE Inv'
<1>1. /\ check = "idle" /\ check' = "reading" /\ as_of' = clock /\ clock' = clock + 1
      /\ then' = world /\ UNCHANGED <<events, world, collected_at, seen, confirmed>>
      /\ asked'.validator \in {world.main, Local}
  BY DEF Begin
<1>2. /\ seen = <<>> /\ events = 0 /\ clock \in Nat /\ Sound(world, clock)
  BY <1>1 DEF Inv, Clocks
<1>3. Sound(world, clock')
  BY <1>1, <1>2, SoundLater
<1>4. Clocks'
  BY <1>1, <1>2, <1>3 DEF Clocks
<1>5. seen' \in Seq({}) /\ Len(seen') = 0
  BY <1>1, <1>2
<1>6. Pieces'
  BY <1>5 DEF Pieces, RunsRead, StatusesRead, DeploymentRead, NewestAt, MainRead
<1>7. Begun'
  BY <1>1, <1>2, <1>5, SinceItself DEF Begun
<1> QED
  BY <1>1, <1>4, <1>6, <1>7 DEF Inv, PassHeld, QuietWorldPasses

\* What is read, in this order.
LEMMA ReadsAre ==
    /\ Len(Reads) = 16
    /\ Reads[1] = <<"main">>
    /\ Reads[2] = <<"runs", "ci">> /\ Reads[3] = <<"runs", "api_role">>
    /\ Reads[4] = <<"runs", "browser">> /\ Reads[5] = <<"runs", "preflight">>
    /\ Reads[6] = <<"jobs">> /\ Reads[7] = <<"statuses">>
    /\ Reads[8] = <<"deployment", "api">> /\ Reads[9] = <<"settled", "api">>
    /\ Reads[10] = <<"deployment", "pwa">> /\ Reads[11] = <<"settled", "pwa">>
    /\ Reads[12] = <<"deployment", "api">> /\ Reads[13] = <<"settled", "api">>
    /\ Reads[14] = <<"deployment", "pwa">> /\ Reads[15] = <<"settled", "pwa">>
    /\ Reads[16] = <<"main">>
  BY DEF Reads, Production

LEMMA LenSeen == ASSUME Inv PROVE Len(seen) \in Nat
<1>1. PICK T : seen \in Seq(T)
  BY Zenon DEF Inv, Pieces
<1> QED
  BY <1>1

LEMMA ReadFailsKeeps == ASSUME Inv, ReadFails PROVE Inv'
<1>1. /\ check = "reading" /\ check' = "error" /\ Len(seen) < Len(Reads)
      /\ UNCHANGED <<clock, events, world, asked, as_of, collected_at, seen, then, confirmed>>
  BY DEF ReadFails
<1>2. clock \in Nat /\ Clocks'
  BY <1>1 DEF Inv, Clocks
<1>3. Pieces' /\ Begun'
  BY <1>1, <1>2, PiecesStay, BegunStays
<1>4. Len(seen) # Len(Reads)
  <2>1. PICK m \in Nat : m = Len(seen)
    BY LenSeen
  <2>2. m < 16
    BY <1>1, <2>1, ReadsAre
  <2>3. m # 16
    BY <2>2
  <2> QED
    BY <2>1, <2>3, ReadsAre, Zenon
<1>5. PassHeld' /\ QuietWorldPasses'
  BY <1>1, <1>4 DEF PassHeld, QuietWorldPasses
<1> QED
  BY <1>1, <1>2, <1>3, <1>5 DEF Inv

-----------------------------------------------------------------------------
(* The collector reads on.                                                 *)

LEMMA PieceIs ==
    /\ Piece(<<"main">>) = world.main
    /\ \A k : Piece(<<"runs", k>>) = [active |-> k \in world.active, runs |-> world.runs[k]]
    /\ Piece(<<"jobs">>) = Gate(world, seen[2].runs, Candidate)
    /\ Piece(<<"statuses">>) = StatusesOf(world, Candidate)
    /\ \A p : Piece(<<"deployment", p>>) = Newest(world, p)
    /\ \A p : Piece(<<"settled", p>>) =
          LET read == seen[Len(seen)]
          IN  IF read = <<>> THEN <<>> ELSE CHOOSE d \in world.deployments[p] : d.id = read.id
  BY DEF Piece

\* One more piece.
LEMMA OneMore ==
    ASSUME Inv, ReadNext
    PROVE  \E n \in 1..16 :
               /\ Len(seen) = n - 1 /\ Len(seen') = n
               /\ \E T : seen' \in Seq(T)
               /\ \A i \in 1..n-1 : seen'[i] = seen[i]
               /\ seen'[n] = Piece(Reads[n])
               /\ confirmed' = IF n = 12 THEN world ELSE confirmed
<1>1. PICK m \in Nat : m = Len(seen)
  BY LenSeen
<1> DEFINE x == Piece(Reads[m + 1])
<1>2. m < 16
  <2>1. Len(seen) < Len(Reads)
    BY DEF ReadNext
  <2> QED
    BY <1>1, <2>1, ReadsAre
<1>3. seen' = Append(seen, x) /\ confirmed' = IF m = 11 THEN world ELSE confirmed
  BY <1>1 DEF ReadNext
<1>4. PICK T : seen \in Seq(T)
  BY Zenon DEF Inv, Pieces
<1> HIDE DEF x
<1>5. seen \in Seq(T \cup {x})
  BY <1>4
<1>6. /\ seen' \in Seq(T \cup {x}) /\ Len(seen') = m + 1
      /\ \A i \in 1..m : seen'[i] = seen[i]
      /\ seen'[m + 1] = x
  BY <1>1, <1>3, <1>5
<1>7. PICK n \in 1..16 : n = m + 1 /\ m = n - 1
  BY <1>2
<1>8. confirmed' = IF n = 12 THEN world ELSE confirmed
  BY <1>3, <1>7
<1>9. /\ Len(seen) = n - 1 /\ Len(seen') = n
      /\ \A i \in 1..n-1 : seen'[i] = seen[i]
      /\ seen'[n] = Piece(Reads[n])
  BY <1>1, <1>6, <1>7, Zenon DEF x
<1> QED
  BY <1>6, <1>8, <1>9, Zenon

\* The newest deployment of a sound repository.
LEMMA NewestFound ==
    ASSUME NEW w, NEW t \in Nat, Sound(w, t), NEW p \in Projects, w.deployments[p] # {}
    PROVE  /\ Newest(w, p) \in w.deployments[p]
           /\ Dominates(Newest(w, p), w.deployments[p])
<1>1. w \in WorldType /\ Numbered(w.deployments[p])
  BY DEF Sound
<1>2. \A d \in DeploymentType : d.created \in Nat
  BY DEF DeploymentType
<1>3. \A d \in w.deployments[p] : d.created \in Nat /\ d.created =< t
  BY <1>1, <1>2 DEF Sound, WorldType
<1>4. /\ Latest(w.deployments[p]) \in w.deployments[p]
      /\ Dominates(Latest(w.deployments[p]), w.deployments[p])
  BY <1>1, <1>3, LatestFound
<1> QED
  BY <1>4 DEF Newest

LEMMA DeploymentsRead ==
    ASSUME Inv, check = "reading", ReadNext, NEW p \in Projects, NEW i \in 8..14,
           p = IF i = 8 \/ i = 12 THEN "api" ELSE "pwa", i \in {8, 10, 12, 14},
           NEW old, DeploymentsSince(old, world.deployments[p], as_of),
           i =< Len(seen) => NewestAt(seen, i, old, world.deployments[p], as_of)
    PROVE  NewestAt(seen', i, old, world.deployments[p], as_of)
<1> DEFINE D == world.deployments[p]
<1>0. Reads[i] = <<"deployment", p>> /\ Reads[i + 1] = <<"settled", p>>
  BY ReadsAre
<1>1. PICK n \in 1..16 :
         /\ Len(seen) = n - 1 /\ Len(seen') = n
         /\ \A j \in 1..n-1 : seen'[j] = seen[j]
         /\ seen'[n] = Piece(Reads[n])
  BY OneMore
<1>2. Sound(world, clock) /\ clock \in Nat /\ world \in WorldType
  BY ClockPast
<1>3. \A d \in D : d.id \in Nat /\ d.created \in Nat
  BY <1>2 DEF WorldType, DeploymentType
<1>4. \A c, d \in D : c.id = d.id => c = d
  BY <1>2 DEF Sound, Numbered
<1>5. CASE n < i
  BY <1>1, <1>5 DEF NewestAt
<1>6. CASE n = i
  <2>1. seen'[i] = Newest(world, p)
    <3>1. seen'[i] = Piece(<<"deployment", p>>)
      BY <1>0, <1>1, <1>6, Zenon
    <3> QED
      BY <3>1, PieceIs
  <2>2. CASE D = {}
    BY <1>1, <1>6, <2>1, <2>2 DEF NewestAt, Newest
  <2>3. CASE D # {}
    <3>1. seen'[i] \in D /\ Dominates(seen'[i], D)
      BY <1>2, <2>1, <2>3, NewestFound
    <3>2. Dominates(seen'[i], old)
      BY <3>1 DEF Dominates, Newer, DeploymentsSince
    <3> HIDE DEF D
    <3> QED
      BY <1>1, <1>3, <1>6, <3>1, <3>2 DEF NewestAt, D
  <2> QED
    BY <2>2, <2>3
<1>7. CASE n = i + 1
  <2>1. seen'[i] = seen[i] /\ i =< Len(seen) /\ NewestAt(seen, i, old, D, as_of)
    BY <1>1, <1>7
  <2>2. seen'[i + 1] = IF seen[i] = <<>> THEN <<>> ELSE CHOOSE d \in D : d.id = seen[i].id
    <3>1. seen'[i + 1] = Piece(<<"settled", p>>)
      BY <1>0, <1>1, <1>7, Zenon
    <3>2. n - 1 = i
      BY <1>7
    <3>3. Len(seen) = i
      BY <1>1, <3>2, Zenon
    <3> QED
      BY <3>1, <3>3, PieceIs
  <2>3. CASE seen[i] = <<>>
    BY <1>1, <1>7, <2>1, <2>2, <2>3 DEF NewestAt
  <2>4. CASE seen[i] # <<>>
    <3>1. PICK q \in D : q.id = seen[i].id /\ q.created = seen[i].created
      BY <2>1, <2>4 DEF NewestAt
    <3>2. seen'[i + 1] = q
      BY <1>4, <2>2, <2>4, <3>1
    <3>3. (q \in old \/ q.at > as_of) /\ q.at \in Nat
      BY <1>2 DEF DeploymentsSince, WorldType, DeploymentType
    <3> HIDE DEF D
    <3> QED
      BY <1>1, <1>7, <2>1, <2>4, <3>1, <3>2, <3>3 DEF NewestAt, D
  <2> QED
    BY <2>3, <2>4
<1>8. CASE n > i + 1
  <2>1. /\ i \in 1..n-1 /\ i + 1 \in 1..n-1
        /\ i =< n - 1 /\ i + 1 =< n - 1
    BY <1>8
  <2>2. /\ seen'[i] = seen[i] /\ seen'[i + 1] = seen[i + 1]
        /\ i =< Len(seen) /\ i + 1 =< Len(seen)
    BY <1>1, <2>1, Zenon
  <2>3. NewestAt(seen, i, old, D, as_of)
    BY <2>2
  <2> QED
    BY <2>2, <2>3 DEF NewestAt
<1> QED
  BY <1>1, <1>5, <1>6, <1>7, <1>8

LEMMA RunsReadNext ==
    ASSUME Inv, check = "reading", ReadNext, NEW k \in Workflows, NEW i \in 2..5,
           Reads[i] = <<"runs", k>>, RunsRead(i, k)
    PROVE  RunsRead(i, k)'
<1>1. PICK n \in 1..16 :
         /\ Len(seen) = n - 1 /\ Len(seen') = n
         /\ \A j \in 1..n-1 : seen'[j] = seen[j]
         /\ seen'[n] = Piece(Reads[n])
  BY OneMore
<1>2. UNCHANGED <<clock, as_of, then>>
  BY DEF ReadNext
<1>3. CASE n < i
  BY <1>1, <1>3 DEF RunsRead
<1>4. CASE n = i
  <2>1. /\ seen'[i].active = (k \in world.active)
        /\ seen'[i].runs = world.runs[k]
    <3> DEFINE a == k \in world.active
    <3>1. seen'[i] = Piece(<<"runs", k>>)
      BY <1>1, <1>4, Zenon
    <3>2. seen'[i] = [active |-> a, runs |-> world.runs[k]]
      BY <3>1, PieceIs, Zenon
    <3> HIDE DEF a
    <3>3. seen'[i].active = a /\ seen'[i].runs = world.runs[k]
      BY <3>2
    <3> QED
      BY <3>3, Zenon DEF a
  <2>2. /\ Sound(world, clock) /\ world \in WorldType /\ Since(then, world, as_of)
    BY ClockPast DEF Inv, Begun
  <2>3. /\ world.runs[k] \subseteq RunType /\ Numbered(world.runs[k])
        /\ \A r \in world.runs[k] : r.created =< clock
        /\ RunsSince(then.runs[k], world.runs[k], as_of)
        /\ world.active = then.active
    BY <2>2 DEF Sound, WorldType, Since
  <2> QED
    BY <1>2, <2>1, <2>3 DEF RunsRead
<1>5. CASE n > i
  <2>1. i \in 1..n-1 /\ i =< n - 1
    BY <1>5
  <2>2. seen'[i] = seen[i] /\ i =< Len(seen)
    BY <1>1, <2>1, Zenon
  <2> QED
    BY <1>2, <2>2 DEF RunsRead
<1> QED
  BY <1>1, <1>3, <1>4, <1>5

\* The candidate is known once main was read.
LEMMA CandidateStays ==
    ASSUME Inv, ReadNext, 1 =< Len(seen)
    PROVE  Candidate' = Candidate
<1>1. PICK n \in 1..16 :
         /\ Len(seen) = n - 1 /\ \A j \in 1..n-1 : seen'[j] = seen[j]
  BY OneMore
<1>2. 1 \in 1..n-1
  BY <1>1
<1>3. seen'[1] = seen[1] /\ asked' = asked
  BY <1>1, <1>2 DEF ReadNext
<1> QED
  BY <1>3 DEF Candidate

LEMMA StatusesReadNext == ASSUME Inv, check = "reading", ReadNext PROVE StatusesRead'
<1>1. PICK n \in 1..16 :
         /\ Len(seen) = n - 1 /\ Len(seen') = n
         /\ \A j \in 1..n-1 : seen'[j] = seen[j]
         /\ seen'[n] = Piece(Reads[n])
  BY OneMore
<1>2. UNCHANGED <<as_of, then, world>>
  BY DEF ReadNext
<1>3. CASE n < 7
  BY <1>1, <1>3 DEF StatusesRead
<1>4. CASE n = 7
  <2>1. seen'[7] = StatusesOf(world, Candidate)
    BY <1>1, <1>4, PieceIs, ReadsAre
  <2>2. Candidate' = Candidate
    BY <1>1, <1>4, CandidateStays
  <2>3. StatusesSince(then.statuses, world.statuses, as_of)
    BY DEF Inv, Begun, Since
  <2>4. StatusesSince(StatusesOf(then, Candidate), StatusesOf(world, Candidate), as_of)
    BY <2>3 DEF StatusesSince, StatusesOf
  <2>5. StatusesOf(then, Candidate)' = StatusesOf(then, Candidate)
    BY <1>2, <2>2 DEF StatusesOf
  <2>6. StatusesOf(world, Candidate) \subseteq world.statuses
    BY DEF StatusesOf
  <2> QED
    BY <1>2, <2>1, <2>4, <2>5, <2>6 DEF StatusesRead
<1>5. CASE n > 7
  <2>1. 7 \in 1..n-1 /\ 1 =< n - 1 /\ 7 =< n - 1
    BY <1>5
  <2>2. seen'[7] = seen[7] /\ 1 =< Len(seen) /\ 7 =< Len(seen)
    BY <1>1, <2>1, Zenon
  <2>3. Candidate' = Candidate
    BY <2>2, CandidateStays
  <2>4. StatusesOf(then, Candidate)' = StatusesOf(then, Candidate)
    BY <1>2, <2>3 DEF StatusesOf
  <2>5. StatusesRead
    BY DEF Inv, Pieces
  <2> QED
    BY <1>2, <2>2, <2>4, <2>5 DEF StatusesRead
<1> QED
  BY <1>1, <1>3, <1>4, <1>5

LEMMA MainReadNext == ASSUME Inv, check = "reading", ReadNext PROVE MainRead'
<1>1. PICK n \in 1..16 :
         /\ Len(seen) = n - 1 /\ Len(seen') = n
         /\ \A j \in 1..n-1 : seen'[j] = seen[j]
         /\ seen'[n] = Piece(Reads[n])
         /\ confirmed' = IF n = 12 THEN world ELSE confirmed
  BY OneMore
<1>2. world' = world /\ MainRead
  BY DEF ReadNext, Inv, Pieces
<1>3. world.main \in Shas /\ world.main \notin world.past
  BY ClockPast DEF Sound, WorldType
<1>4. CASE n = 1
  <2>1. seen'[1] = world.main
    BY <1>1, <1>4, PieceIs, ReadsAre
  <2> QED
    BY <1>1, <1>2, <1>3, <1>4, <2>1 DEF MainRead
<1>5. CASE n > 1
  <2>1. 1 \in 1..n-1 /\ 1 =< n - 1
    BY <1>5
  <2>2. seen'[1] = seen[1] /\ 1 =< Len(seen)
    BY <1>1, <2>1, Zenon
  <2>3. seen[1] \in Shas /\ seen[1] \in world.past \cup {world.main}
    BY <1>2, <2>2 DEF MainRead
  <2>4. CASE n < 12
    BY <1>1, <1>2, <2>2, <2>3, <2>4 DEF MainRead
  <2>5. CASE n = 12
    BY <1>1, <1>2, <2>2, <2>3, <2>5 DEF MainRead
  <2>6. CASE n > 12
    <3>1. confirmed' = confirmed /\ 12 =< n - 1
      BY <1>1, <2>6
    <3>2. 12 =< Len(seen)
      BY <1>1, <3>1, Zenon
    <3>3. confirmed.main = seen[1] \/ seen[1] \in world.past
      BY <1>2, <3>2 DEF MainRead
    <3>4. n = 16 => seen'[16] = world.main
      BY <1>1, PieceIs, ReadsAre
    <3>5. 16 =< Len(seen') => n = 16
      BY <1>1
    <3> QED
      BY <1>2, <1>3, <2>2, <2>3, <3>1, <3>3, <3>4, <3>5 DEF MainRead
  <2> QED
    BY <2>4, <2>5, <2>6
<1> QED
  BY <1>4, <1>5

\* The newest deployment, read again by its id.
LEMMA SettledFound ==
    ASSUME NEW w, NEW t \in Nat, Sound(w, t), NEW p \in Projects,
           NEW read, read = Newest(w, p)
    PROVE  read = IF read = <<>> THEN <<>> ELSE CHOOSE d \in w.deployments[p] : d.id = read.id
<1>1. CASE w.deployments[p] = {}
  BY <1>1 DEF Newest
<1>2. CASE w.deployments[p] # {}
  <2>1. read \in w.deployments[p]
    BY <1>2, NewestFound
  <2>2. \A c, d \in w.deployments[p] : c.id = d.id => c = d
    BY DEF Sound, Numbered
  <2> QED
    BY <2>1, <2>2
<1> QED
  BY <1>1, <1>2

LEMMA QuietReadNext ==
    ASSUME Inv, check = "reading", ReadNext, events = 0
    PROVE  \A i \in 1..Len(seen') : seen'[i] = QuietPiece(i)'
<1>1. PICK n \in 1..16 :
         /\ Len(seen) = n - 1 /\ Len(seen') = n
         /\ \A j \in 1..n-1 : seen'[j] = seen[j]
         /\ seen'[n] = Piece(Reads[n])
  BY OneMore
<1>2. /\ world = then /\ then' = then
      /\ \A i \in 1..n-1 : seen[i] = QuietPiece(i)
  BY <1>1 DEF ReadNext, Inv, Begun
<1>3. n > 1 => Candidate' = Candidate
  <2>1. n > 1 => 1 =< n - 1
    OBVIOUS
  <2> QED
    BY <1>1, <2>1, CandidateStays
<1>4. n > 1 => \A i : QuietPiece(i)' = QuietPiece(i)
  <2> SUFFICES ASSUME n > 1, NEW i PROVE QuietPiece(i)' = QuietPiece(i)
    OBVIOUS
  <2>1. Candidate' = Candidate /\ then' = then
    BY <1>2, <1>3
  <2> QED
    BY <2>1, Zenon DEF QuietPiece
<1>5. \A i \in 1..n-1 : seen'[i] = QuietPiece(i)'
  <2>1. \A i \in 1..n-1 : n > 1
    OBVIOUS
  <2> QED
    BY <1>1, <1>2, <1>4, <2>1
<1>6. Sound(then, as_of) /\ as_of \in Nat
  BY DEF Inv, Clocks, Begun
<1>7. seen'[n] = QuietPiece(n)'
  <2>1. CASE n \in {1, 16}
    <3>1. seen'[n] = then.main
      <4>1. Reads[n] = <<"main">>
        BY <2>1, ReadsAre
      <4> QED
        BY <1>1, <1>2, <4>1, PieceIs, Zenon
    <3>2. QuietPiece(n)' = then.main
      BY <1>2, <2>1 DEF QuietPiece
    <3> QED
      BY <3>1, <3>2
  <2>2. CASE n \in 2..5
    <3>1. QuietPiece(n) = [active |-> Reads[n][2] \in then.active, runs |-> then.runs[Reads[n][2]]]
      BY <2>2 DEF QuietPiece
    <3>2. Reads[n] = <<"runs", Reads[n][2]>>
      BY <2>2, ReadsAre
    <3>3. seen'[n] = Piece(<<"runs", Reads[n][2]>>)
      BY <1>1, <3>2, Zenon
    <3>4. seen'[n] = QuietPiece(n)
      BY <1>2, <3>1, <3>3, PieceIs, Zenon
    <3> QED
      BY <1>4, <2>2, <3>4
  <2>3. CASE n = 6
    <3>1. QuietPiece(6) = Gate(then, then.runs["ci"], Candidate)
      BY DEF QuietPiece
    <3>2. seen[2].runs = then.runs["ci"]
      <4>1. seen[2] = QuietPiece(2)
        BY <1>2, <2>3
      <4>2. QuietPiece(2) = [active |-> Reads[2][2] \in then.active, runs |-> then.runs[Reads[2][2]]]
        BY DEF QuietPiece
      <4>3. Reads[2][2] = "ci"
        BY ReadsAre
      <4> QED
        BY <4>1, <4>2, <4>3
    <3>3. seen'[6] = Gate(world, seen[2].runs, Candidate)
      BY <1>1, <2>3, PieceIs, ReadsAre
    <3>4. seen'[6] = QuietPiece(6)
      BY <1>2, <3>1, <3>2, <3>3
    <3> QED
      BY <1>4, <2>3, <3>4
  <2>4. CASE n = 7
    <3>1. QuietPiece(7) = StatusesOf(then, Candidate)
      BY DEF QuietPiece
    <3>2. seen'[7] = StatusesOf(world, Candidate)
      BY <1>1, <2>4, PieceIs, ReadsAre
    <3> QED
      BY <1>2, <1>4, <2>4, <3>1, <3>2
  <2>5. ASSUME NEW p \in Projects, NEW m \in {8, 10, 12, 14}, n = m,
               QuietPiece(m) = Newest(then, p), Reads[m] = <<"deployment", p>>
        PROVE  seen'[n] = QuietPiece(n)'
    <3>1. seen'[n] = Piece(<<"deployment", p>>)
      BY <1>1, <2>5, Zenon
    <3>2. seen'[n] = Newest(then, p)
      BY <1>2, <3>1, PieceIs, Zenon
    <3> QED
      BY <1>4, <2>5, <3>2
  <2>6. ASSUME NEW p \in Projects, NEW m \in {8, 10, 12, 14}, n = m + 1,
               QuietPiece(m) = Newest(then, p), QuietPiece(m + 1) = Newest(then, p),
               Reads[m + 1] = <<"settled", p>>
        PROVE  seen'[n] = QuietPiece(n)'
    <3>1. m \in 1..n-1 /\ n - 1 = m
      BY <2>6
    <3>2. seen[m] = Newest(then, p)
      BY <1>2, <2>6, <3>1, Zenon
    <3>3. Len(seen) = m
      BY <1>1, <3>1, Zenon
    <3>4. seen'[n] = Piece(<<"settled", p>>)
      BY <1>1, <2>6, Zenon
    <3>5. seen'[n] = IF seen[m] = <<>> THEN <<>> ELSE CHOOSE d \in then.deployments[p] : d.id = seen[m].id
      BY <1>2, <3>3, <3>4, PieceIs
    <3>6. seen'[n] = Newest(then, p)
      BY <1>6, <3>2, <3>5, SettledFound
    <3> QED
      BY <1>4, <2>6, <3>6
  <2>7. "api" \in Projects /\ "pwa" \in Projects
    BY DEF Projects
  <2>8. /\ QuietPiece(8) = Newest(then, "api") /\ QuietPiece(9) = Newest(then, "api")
        /\ QuietPiece(10) = Newest(then, "pwa") /\ QuietPiece(11) = Newest(then, "pwa")
        /\ QuietPiece(12) = Newest(then, "api") /\ QuietPiece(13) = Newest(then, "api")
        /\ QuietPiece(14) = Newest(then, "pwa") /\ QuietPiece(15) = Newest(then, "pwa")
    BY DEF QuietPiece
  <2>9. CASE n \in {8, 9}
    BY <2>5, <2>6, <2>7, <2>8, <2>9, ReadsAre
  <2>10. CASE n \in {10, 11}
    BY <2>5, <2>6, <2>7, <2>8, <2>10, ReadsAre
  <2>11. CASE n \in {12, 13}
    BY <2>5, <2>6, <2>7, <2>8, <2>11, ReadsAre
  <2>12. CASE n \in {14, 15}
    BY <2>5, <2>6, <2>7, <2>8, <2>12, ReadsAre
  <2> QED
    BY <2>1, <2>2, <2>3, <2>4, <2>9, <2>10, <2>11, <2>12
<1>8. \A i \in 1..n : i \in 1..n-1 \/ i = n
  OBVIOUS
<1> QED
  BY <1>1, <1>5, <1>7, <1>8

LEMMA ReadNextKeeps == ASSUME Inv, ReadNext PROVE Inv'
<1>1. PICK n \in 1..16 :
         /\ Len(seen) = n - 1 /\ Len(seen') = n
         /\ \E T : seen' \in Seq(T)
         /\ confirmed' = IF n = 12 THEN world ELSE confirmed
  BY OneMore
<1>2. /\ check = "reading" /\ UNCHANGED <<clock, events, world, check, asked, as_of, collected_at, then>>
  BY DEF ReadNext
<1>3. Clocks /\ Pieces /\ Begun
  BY <1>2 DEF Inv
<1>4. Clocks'
  BY <1>2, <1>3 DEF Clocks
<1>5. /\ RunsRead(2, "ci")' /\ RunsRead(3, "api_role")'
      /\ RunsRead(4, "browser")' /\ RunsRead(5, "preflight")'
  BY <1>2, <1>3, RunsReadNext, ReadsAre DEF Pieces, Workflows
<1>6. /\ DeploymentRead(8, "api", then)' /\ DeploymentRead(10, "pwa", then)'
      /\ DeploymentRead(12, "api", confirmed)' /\ DeploymentRead(14, "pwa", confirmed)'
  <2>1. \A p \in Projects : DeploymentsSince(then.deployments[p], world.deployments[p], as_of)
    BY <1>3 DEF Begun, Since
  <2>2. \A p \in Projects : DeploymentsSince(world.deployments[p], world.deployments[p], as_of)
    BY SinceItself DEF Since
  <2>3. 12 =< Len(seen) => \A p \in Projects :
            DeploymentsSince(confirmed.deployments[p], world.deployments[p], as_of)
    BY <1>3 DEF Begun, Since
  <2>4. "api" \in Projects /\ "pwa" \in Projects
    BY DEF Projects
  <2>5. DeploymentRead(8, "api", then)' /\ DeploymentRead(10, "pwa", then)'
    <3>1. NewestAt(seen', 8, then.deployments["api"], world.deployments["api"], as_of)
      BY <1>2, <1>3, <2>1, <2>4, DeploymentsRead DEF Pieces, DeploymentRead
    <3>2. NewestAt(seen', 10, then.deployments["pwa"], world.deployments["pwa"], as_of)
      BY <1>2, <1>3, <2>1, <2>4, DeploymentsRead DEF Pieces, DeploymentRead
    <3> QED
      BY <1>2, <3>1, <3>2 DEF DeploymentRead
  <2>6. CASE n < 12
    <3>1. ~(12 =< n) /\ ~(13 =< n) /\ ~(14 =< n) /\ ~(15 =< n)
      BY <2>6
    <3>2. ~(12 =< Len(seen')) /\ ~(12 + 1 =< Len(seen')) /\ ~(14 =< Len(seen')) /\ ~(14 + 1 =< Len(seen'))
      BY <1>1, <3>1
    <3> QED
      BY <2>5, <3>2 DEF DeploymentRead, NewestAt
  <2>7. CASE n = 12
    <3>1. ~(12 =< n - 1) /\ ~(14 =< n - 1)
      BY <2>7
    <3>2. ~(12 =< Len(seen)) /\ ~(14 =< Len(seen))
      BY <1>1, <3>1, Zenon
    <3>3. NewestAt(seen', 12, world.deployments["api"], world.deployments["api"], as_of)
      BY <1>2, <2>2, <2>4, <3>2, DeploymentsRead
    <3>4. NewestAt(seen', 14, world.deployments["pwa"], world.deployments["pwa"], as_of)
      BY <1>2, <2>2, <2>4, <3>2, DeploymentsRead
    <3> QED
      BY <1>1, <1>2, <2>5, <2>7, <3>3, <3>4 DEF DeploymentRead
  <2>8. CASE n > 12
    <3>1. 12 =< n - 1 /\ confirmed' = confirmed
      BY <1>1, <2>8
    <3>2. 12 =< Len(seen)
      BY <1>1, <3>1, Zenon
    <3>3. NewestAt(seen', 12, confirmed.deployments["api"], world.deployments["api"], as_of)
      BY <1>2, <1>3, <2>3, <2>4, <3>2, DeploymentsRead DEF Pieces, DeploymentRead
    <3>4. NewestAt(seen', 14, confirmed.deployments["pwa"], world.deployments["pwa"], as_of)
      BY <1>2, <1>3, <2>3, <2>4, <3>2, DeploymentsRead DEF Pieces, DeploymentRead
    <3> QED
      BY <1>2, <2>5, <3>1, <3>3, <3>4 DEF DeploymentRead
  <2> QED
    BY <2>5, <2>6, <2>7, <2>8
<1>7. Pieces'
  <2>1. Len(seen') =< 16
    BY <1>1
  <2> QED
    BY <1>1, <1>2, <1>5, <1>6, <2>1, StatusesReadNext, MainReadNext DEF Pieces
<1>8. 12 =< Len(seen') => Sound(confirmed', clock) /\ Since(confirmed', world, as_of)
  <2>1. CASE n < 12
    BY <1>1, <2>1
  <2>2. CASE n = 12
    BY <1>1, <1>3, <2>2, SinceItself DEF Clocks
  <2>3. CASE n > 12
    <3>1. 12 =< n - 1 /\ confirmed' = confirmed
      BY <1>1, <2>3
    <3>2. 12 =< Len(seen)
      BY <1>1, <3>1, Zenon
    <3> QED
      BY <1>3, <3>1, <3>2 DEF Begun
  <2> QED
    BY <2>1, <2>2, <2>3
<1>9. Begun'
  BY <1>2, <1>3, <1>8, QuietReadNext DEF Begun
<1> QED
  BY <1>2, <1>4, <1>7, <1>9 DEF Inv, PassHeld, QuietWorldPasses

-----------------------------------------------------------------------------
(* The verdict.                                                            *)

Exact(runs, sha, event, mode) == {r \in runs : r.sha = sha /\ r.event = event /\ r.mode = mode}

\* A selected run that is not later than t was selected at t.
LEMMA SameRun ==
    ASSUME NEW old, old \subseteq RunType, Numbered(old),
           NEW new, new \subseteq RunType, Numbered(new),
           NEW time \in Nat, \A r \in new : r.created =< time,
           NEW t \in Nat, RunsSince(old, new, t), NEW sha, NEW event, NEW mode,
           Exact(new, sha, event, mode) # {},
           Latest(Exact(new, sha, event, mode)).updated =< t
    PROVE  /\ Exact(old, sha, event, mode) # {}
           /\ Latest(Exact(old, sha, event, mode)) = Latest(Exact(new, sha, event, mode))
           /\ Latest(Exact(old, sha, event, mode)) \in Exact(old, sha, event, mode)
<1> DEFINE E == Exact(new, sha, event, mode)
           F == Exact(old, sha, event, mode)
           r == Latest(E)
<1>1. \A q \in RunType : q.created \in Nat /\ q.updated \in Nat /\ q.id \in Nat
  BY DEF RunType
<1>2. E \subseteq new /\ F \subseteq old
  BY DEF Exact
<1>3. \A q \in E : q.created \in Nat /\ q.created =< time
  BY <1>1, <1>2
<1>4. r \in E /\ Dominates(r, E)
  <2>1. E # {}
    OBVIOUS
  <2> HIDE DEF E
  <2>2. Latest(E) \in E /\ Dominates(Latest(E), E)
    BY <1>2, <1>3, <2>1, LatestFound
  <2> QED
    BY <2>2, Zenon
<1>5. r \in RunType /\ ~(r.updated > t) /\ r \in new
  BY <1>1, <1>2, <1>4
<1>6. r \in F
  <2>1. r \in old
    BY <1>5 DEF RunsSince
  <2> QED
    BY <1>4, <2>1 DEF Exact
<1>7. ASSUME NEW j \in F PROVE Newer(r, j)
  <2>1. PICK q \in new : /\ q.id = j.id /\ q.created = j.created
                         /\ q.sha = j.sha /\ q.event = j.event /\ q.mode = j.mode
    BY <1>2 DEF RunsSince
  <2>2. q \in E
    BY <2>1 DEF Exact
  <2> HIDE DEF E, F, r
  <2> QED
    BY <1>4, <2>1, <2>2 DEF Dominates, Newer
<1>8. \A i, j \in F : i.id = j.id => i = j
  BY <1>2 DEF Numbered
<1>9. \A i \in F : i.id \in Nat /\ i.created \in Nat
  BY <1>1, <1>2
<1>10. Latest(F) = r
  <2>1. Dominates(r, F)
    BY <1>7 DEF Dominates
  <2> HIDE DEF E, F, r
  <2> QED
    BY <1>6, <1>8, <1>9, <2>1, LatestIs
<1> QED
  BY <1>6, <1>10

OfProject(statuses, p) == {c \in statuses : c.project = p}

LEMMA SameStatus ==
    ASSUME NEW all, all \subseteq StatusType, Numbered(all),
           NEW time \in Nat, \A c \in all : c.created =< time,
           NEW old, NEW new, new \subseteq all, NEW t \in Nat, StatusesSince(old, new, t),
           NEW p, OfProject(new, p) # {},
           Latest(OfProject(new, p)).created =< t
    PROVE  /\ OfProject(old, p) # {}
           /\ Latest(OfProject(old, p)) = Latest(OfProject(new, p))
<1> DEFINE E == OfProject(new, p)
           F == OfProject(old, p)
           r == Latest(E)
<1>1. \A c \in StatusType : c.created \in Nat /\ c.id \in Nat
  BY DEF StatusType
<1>2. E \subseteq all /\ F \subseteq E
  BY DEF StatusesSince, OfProject
<1>3. \A c \in E : c.created \in Nat /\ c.created =< time /\ c.id \in Nat
  BY <1>1, <1>2
<1>4. r \in E /\ Dominates(r, E)
  <2>1. E # {}
    OBVIOUS
  <2> HIDE DEF E
  <2>2. Latest(E) \in E /\ Dominates(Latest(E), E)
    BY <1>2, <1>3, <2>1, LatestFound
  <2> QED
    BY <2>2, Zenon
<1>5. r.created \in Nat /\ ~(r.created > t)
  BY <1>3, <1>4
<1>6. r \in F
  BY <1>4, <1>5 DEF StatusesSince, OfProject
<1>7. \A i, j \in F : i.id = j.id => i = j
  BY <1>2 DEF Numbered
<1>8. \A i \in F : i.id \in Nat /\ i.created \in Nat
  BY <1>2, <1>3
<1>9. Dominates(r, F)
  BY <1>2, <1>4 DEF Dominates
<1>10. Latest(F) = r
  <2> HIDE DEF E, F, r
  <2> QED
    BY <1>6, <1>7, <1>8, <1>9, LatestIs
<1> QED
  BY <1>6, <1>10

\* What was read again was the newest deployment of the older list.
LEMMA SameDeployment ==
    ASSUME NEW D, D \subseteq DeploymentType, Numbered(D), NEW read, NEW d,
           d.id = read.id, d.created = read.created, Dominates(read, D),
           as_of \in Nat, d.at \in Nat, d.at =< as_of, d \in D \/ d.at > as_of
    PROVE  D # {} /\ Latest(D) = d
<1>1. d \in D
  OBVIOUS
<1>2. Dominates(d, D)
  BY DEF Dominates, Newer
<1>3. \A c \in DeploymentType : c.id \in Nat /\ c.created \in Nat
  BY DEF DeploymentType
<1>4. /\ \A c \in D : c.id \in Nat /\ c.created \in Nat
      /\ \A b, c \in D : b.id = c.id => b = c
  BY <1>3 DEF Numbered
<1>5. Latest(D) = d
  BY <1>1, <1>2, <1>4, LatestIs
<1> QED
  BY <1>1, <1>5

\* The five selections.
LEMMA SelectedIs ==
    ASSUME NEW k \in Selected
    PROVE  \/ k[1] = "ci" /\ k[2] = ""
           \/ k[1] = "api_role" /\ k[2] = ""
           \/ k[1] = "browser" /\ k[2] = "applied-or-skipped"
           \/ k[1] = "browser" /\ k[2] = "skipped"
           \/ k[1] = "preflight" /\ k[2] = ""
<1>1. \/ k = <<"ci", "">> \/ k = <<"api_role", "">> \/ k = <<"preflight", "">>
      \/ k = <<"browser", "applied-or-skipped">> \/ k = <<"browser", "skipped">>
  BY Zenon DEF Selected
<1>2. \A a, b : k = <<a, b>> => k[1] = a /\ k[2] = b
  OBVIOUS
<1> QED
  BY <1>1, <1>2, Zenon

\* What is selected is there and not of the future.
LEMMA SelectedAre ==
    ASSUME NEW s, Verdict(s)
    PROVE  /\ \A k \in Selected : /\ ExactRuns(s, k[1], k[2]) # {}
                                  /\ Run(s, k[1], k[2]).updated =< s.as_of
           /\ \A p \in Projects : /\ {c \in s.statuses : c.project = p} # {}
                                  /\ Status(s, p).created =< s.as_of
                                  /\ s.deployments[p] # <<>> /\ s.deployments[p].at =< s.as_of
<1>1. \A k \in Selected : ExactRuns(s, k[1], k[2]) # {}
  <2>1. /\ ExactRuns(s, "ci", "") # {} /\ ExactRuns(s, "api_role", "") # {}
        /\ ExactRuns(s, "browser", "applied-or-skipped") # {}
        /\ ExactRuns(s, "browser", "skipped") # {}
        /\ ExactRuns(s, "preflight", "") # {}
    BY DEF Verdict, MainCI, ApiRole, BrowserPair, Preflight, Succeeded
  <2>2. ASSUME NEW k \in Selected PROVE ExactRuns(s, k[1], k[2]) # {}
    BY <2>1, SelectedIs, Zenon
  <2> QED
    BY <2>2
<1>2. \A p \in Projects : {c \in s.statuses : c.project = p} # {} /\ s.deployments[p] # <<>>
  BY DEF Verdict, CommitStatus, ProductionDeployment
<1> QED
  BY <1>1, <1>2 DEF Verdict, NoFuture

\* The verdict is the same of a snapshot in which the same is selected.
LEMMA VerdictMoves ==
    ASSUME NEW s, NEW o, Verdict(s),
           o.candidate = s.candidate, o.validator = s.validator, o.as_of = s.as_of,
           CurrentMain(o), o.active = Workflows, o.gate = "success", Preflight(o),
           \A k \in Selected : ExactRuns(o, k[1], k[2]) # {} /\ Run(o, k[1], k[2]) = Run(s, k[1], k[2]),
           \A p \in Projects :
               /\ {c \in o.statuses : c.project = p} # {} /\ Status(o, p) = Status(s, p)
               /\ o.deployments[p] = s.deployments[p]
    PROVE  Verdict(o)
<1>1. /\ <<"ci", "">> \in Selected /\ <<"api_role", "">> \in Selected
      /\ <<"browser", "applied-or-skipped">> \in Selected /\ <<"browser", "skipped">> \in Selected
  BY DEF Selected
<1>2. /\ ExactRuns(o, "ci", "") # {} /\ Run(o, "ci", "") = Run(s, "ci", "")
      /\ ExactRuns(o, "api_role", "") # {} /\ Run(o, "api_role", "") = Run(s, "api_role", "")
      /\ ExactRuns(o, "browser", "applied-or-skipped") # {}
      /\ Run(o, "browser", "applied-or-skipped") = Run(s, "browser", "applied-or-skipped")
      /\ ExactRuns(o, "browser", "skipped") # {}
      /\ Run(o, "browser", "skipped") = Run(s, "browser", "skipped")
  BY <1>1
<1>3. "api" \in Projects /\ "pwa" \in Projects
  BY DEF Projects
<1>4. ReadyAt(o) = ReadyAt(s)
  BY <1>3 DEF ReadyAt
<1>5. MainCI(o) /\ ApiRole(o)
  BY <1>2, <1>3 DEF Verdict, MainCI, ApiRole, Succeeded
<1>6. BrowserPair(o)
  BY <1>2, <1>3, <1>4 DEF Verdict, BrowserPair, Succeeded
<1>7. \A p \in Projects : CommitStatus(o, p) /\ ProductionDeployment(o, p)
  BY DEF Verdict, CommitStatus, ProductionDeployment
<1>8. NoFuture(o)
  <2>1. \A k \in Selected : Run(o, k[1], k[2]).updated =< o.as_of
    BY SelectedAre
  <2>2. \A p \in Projects :
            /\ Status(o, p).created =< o.as_of
            /\ o.deployments[p] # <<>> => o.deployments[p].created =< o.as_of /\ o.deployments[p].at =< o.as_of
    BY DEF Verdict, CommitStatus, NoFuture
  <2> QED
    BY <2>1, <2>2 DEF NoFuture
<1> QED
  BY <1>5, <1>6, <1>7, <1>8 DEF Verdict

\* What was collected, piece by piece,
LEMMA CollectedIs ==
    /\ Collected.candidate = Candidate /\ Collected.validator = asked.validator
    /\ Collected.as_of = as_of /\ Collected.collected_at = clock
    /\ Collected.initial_main = seen[1] /\ Collected.current_main = seen[16]
    /\ Collected.gate = seen[6] /\ Collected.statuses = seen[7]
    /\ Collected.deployments["api"] = seen[9] /\ Collected.deployments["pwa"] = seen[11]
    /\ Collected.runs["ci"] = seen[2].runs /\ Collected.runs["api_role"] = seen[3].runs
    /\ Collected.runs["browser"] = seen[4].runs /\ Collected.runs["preflight"] = seen[5].runs
    /\ Collected.active = Workflows <=>
          seen[2].active /\ seen[3].active /\ seen[4].active /\ seen[5].active
<1>1. /\ Reads[2][2] = "ci" /\ Reads[3][2] = "api_role"
      /\ Reads[4][2] = "browser" /\ Reads[5][2] = "preflight"
  BY ReadsAre
<1>2. \A i : i \in 2..5 <=> i \in {2, 3, 4, 5}
  OBVIOUS
<1>3. /\ (CHOOSE i \in 2..5 : Reads[i][2] = "ci") = 2
      /\ (CHOOSE i \in 2..5 : Reads[i][2] = "api_role") = 3
      /\ (CHOOSE i \in 2..5 : Reads[i][2] = "browser") = 4
      /\ (CHOOSE i \in 2..5 : Reads[i][2] = "preflight") = 5
  BY <1>1, <1>2
<1>4. /\ Collected.runs["ci"] = seen[2].runs /\ Collected.runs["api_role"] = seen[3].runs
      /\ Collected.runs["browser"] = seen[4].runs /\ Collected.runs["preflight"] = seen[5].runs
  BY <1>3 DEF Collected, Workflows
<1>5. Collected.active = {w \in Workflows : \E i \in 2..5 : Reads[i][2] = w /\ seen[i].active}
  BY DEF Collected
<1>6. Collected.active = Workflows <=>
          seen[2].active /\ seen[3].active /\ seen[4].active /\ seen[5].active
  <2>1. /\ "ci" \in Collected.active <=> seen[2].active
        /\ "api_role" \in Collected.active <=> seen[3].active
        /\ "browser" \in Collected.active <=> seen[4].active
        /\ "preflight" \in Collected.active <=> seen[5].active
    BY <1>1, <1>2, <1>5 DEF Workflows
  <2>2. Collected.active \subseteq Workflows
    BY <1>5
  <2> QED
    BY <2>1, <2>2 DEF Workflows
<1> QED
  BY <1>4, <1>6 DEF Collected

\* and in one instant.
LEMMA SnapshotIs ==
    ASSUME NEW w, NEW sha, NEW t, NEW o, o = SnapshotOf(w, sha, t)
    PROVE  /\ o.candidate = sha /\ o.validator = asked.validator
           /\ o.as_of = t /\ o.collected_at = t
           /\ o.initial_main = w.main /\ o.current_main = w.main
           /\ o.active = w.active /\ o.runs = w.runs
           /\ o.gate = Gate(w, w.runs["ci"], sha) /\ o.statuses = StatusesOf(w, sha)
           /\ \A p \in Projects : o.deployments[p] = Newest(w, p)
  BY DEF SnapshotOf

\* Each run that a passing collection selects was selected at as_of.
LEMMA RunsHeld ==
    ASSUME Inv, check = "reading", Len(seen) = 16, NEW s, s = Collected, Verdict(s),
           NEW o, o = SnapshotOf(then, Candidate, as_of), NEW k \in Selected
    PROVE  /\ ExactRuns(o, k[1], k[2]) # {}
           /\ Run(o, k[1], k[2]) = Run(s, k[1], k[2])
           /\ Run(o, k[1], k[2]) \in ExactRuns(o, k[1], k[2])
<1> DEFINE w == k[1]
           old == then.runs[w]
           new == s.runs[w]
<1>1. w \in {"ci", "api_role", "browser", "preflight"} /\ w \in Workflows
  BY SelectedIs DEF Workflows
<1>2. Clocks /\ Pieces /\ Begun
  BY DEF Inv
<1>3. 2 =< Len(seen) /\ 3 =< Len(seen) /\ 4 =< Len(seen) /\ 5 =< Len(seen)
  OBVIOUS
<1>4. /\ new \subseteq RunType /\ Numbered(new)
      /\ \A r \in new : r.created =< clock
      /\ RunsSince(old, new, as_of)
  <2>1. CASE w = "ci"
    BY <1>2, <1>3, <2>1, CollectedIs DEF Pieces, RunsRead
  <2>2. CASE w = "api_role"
    BY <1>2, <1>3, <2>2, CollectedIs DEF Pieces, RunsRead
  <2>3. CASE w = "browser"
    BY <1>2, <1>3, <2>3, CollectedIs DEF Pieces, RunsRead
  <2>4. CASE w = "preflight"
    BY <1>2, <1>3, <2>4, CollectedIs DEF Pieces, RunsRead
  <2> QED
    BY <1>1, <2>1, <2>2, <2>3, <2>4
<1>5. old \subseteq RunType /\ Numbered(old)
  BY <1>1, <1>2 DEF Begun, Sound, WorldType
<1>6. /\ s.candidate = Candidate /\ s.as_of = as_of
      /\ o.candidate = Candidate /\ o.runs = then.runs
  BY CollectedIs, SnapshotIs
<1> DEFINE E(r) == Exact(r, Candidate, Event(w), k[2])
<1>7. ExactRuns(s, w, k[2]) = E(new) /\ ExactRuns(o, w, k[2]) = E(old)
  BY <1>6 DEF ExactRuns, Exact
<1>8. E(new) # {} /\ Latest(E(new)).updated =< as_of
  BY <1>6, <1>7, SelectedAre DEF Run
<1>9. clock \in Nat /\ as_of \in Nat
  BY <1>2 DEF Clocks
<1> HIDE DEF old, new
<1>10. /\ E(old) # {} /\ Latest(E(old)) = Latest(E(new))
       /\ Latest(E(old)) \in E(old)
  BY <1>4, <1>5, <1>8, <1>9, SameRun
<1> QED
  BY <1>7, <1>10 DEF Run

\* Each commit status too,
LEMMA StatusesHeld ==
    ASSUME Inv, check = "reading", Len(seen) = 16, NEW s, s = Collected, Verdict(s),
           NEW o, o = SnapshotOf(then, Candidate, as_of), NEW p \in Projects
    PROVE  {c \in o.statuses : c.project = p} # {} /\ Status(o, p) = Status(s, p)
<1>1. Clocks /\ Pieces /\ Begun
  BY DEF Inv
<1>2. 7 =< Len(seen)
  OBVIOUS
<1>3. /\ s.statuses = seen[7] /\ s.as_of = as_of
      /\ o.statuses = StatusesOf(then, Candidate)
  BY CollectedIs, SnapshotIs
<1>4. /\ s.statuses \subseteq world.statuses
      /\ StatusesSince(o.statuses, s.statuses, as_of)
  BY <1>1, <1>2, <1>3 DEF Pieces, StatusesRead
<1>5. /\ world.statuses \subseteq StatusType /\ Numbered(world.statuses)
      /\ \A c \in world.statuses : c.created =< clock
      /\ clock \in Nat /\ as_of \in Nat
  BY <1>1 DEF Clocks, Sound, WorldType
<1>6. OfProject(s.statuses, p) # {} /\ Latest(OfProject(s.statuses, p)).created =< as_of
  BY <1>3, SelectedAre DEF Status, OfProject
<1>7. /\ OfProject(o.statuses, p) # {}
      /\ Latest(OfProject(o.statuses, p)) = Latest(OfProject(s.statuses, p))
  BY <1>4, <1>5, <1>6, SameStatus
<1> QED
  BY <1>7 DEF Status, OfProject

\* and each deployment, which is still the newest when it is read again.
LEMMA DeploymentsHeld ==
    ASSUME Inv, check = "reading", Len(seen) = 16, NEW s, s = Collected, Verdict(s),
           DeploymentsStable, NEW p \in Projects
    PROVE  Newest(then, p) = s.deployments[p] /\ Newest(confirmed, p) = s.deployments[p]
<1>1. Clocks /\ Pieces /\ Begun
  BY DEF Inv
<1>2. /\ 12 =< Len(seen)
      /\ 8 =< Len(seen) /\ 9 =< Len(seen) /\ 9 = 8 + 1
      /\ 10 =< Len(seen) /\ 11 =< Len(seen) /\ 11 = 10 + 1
      /\ 13 =< Len(seen) /\ 13 = 12 + 1
      /\ 14 =< Len(seen) /\ 15 =< Len(seen) /\ 15 = 14 + 1
  OBVIOUS
<1>3. /\ Sound(then, as_of) /\ Sound(confirmed, clock)
      /\ clock \in Nat /\ as_of \in Nat
  BY <1>1, <1>2 DEF Clocks, Begun
<1>4. seen[13] = seen[9] /\ seen[15] = seen[11]
  BY DEF DeploymentsStable
<1> DEFINE d == s.deployments[p]
<1>5. d # <<>> /\ d.at =< as_of
  BY SelectedAre, CollectedIs
<1>8. /\ NewestAt(seen, 8, then.deployments["api"], world.deployments["api"], as_of)
      /\ NewestAt(seen, 10, then.deployments["pwa"], world.deployments["pwa"], as_of)
      /\ NewestAt(seen, 12, confirmed.deployments["api"], world.deployments["api"], as_of)
      /\ NewestAt(seen, 14, confirmed.deployments["pwa"], world.deployments["pwa"], as_of)
  BY <1>1 DEF Pieces, DeploymentRead
<1>6. CASE p = "api"
  <2>1. d = seen[9]
    BY <1>6, CollectedIs
  <2>2. Newest(then, p) = seen[9]
    <3> DEFINE D == then.deployments[p]
    <3>1. d = seen[9]
      BY <2>1
    <3>2. /\ d.id = seen[8].id /\ d.created = seen[8].created
          /\ Dominates(seen[8], D) /\ d.at \in Nat /\ (d \in D \/ d.at > as_of)
      BY <1>2, <1>5, <1>6, <1>8, <3>1 DEF NewestAt
    <3>3. D \subseteq DeploymentType /\ Numbered(D)
      BY <1>3 DEF Sound, WorldType
    <3>4. D # {} /\ Latest(D) = d
      <4> HIDE DEF D, d
      <4> QED
        BY <1>3, <1>5, <3>2, <3>3, SameDeployment
    <3> QED
      BY <3>1, <3>4 DEF Newest
  <2>3. Newest(confirmed, p) = seen[13]
    <3> DEFINE D == confirmed.deployments[p]
    <3>1. d = seen[13]
      BY <1>4, <2>1
    <3>2. /\ d.id = seen[12].id /\ d.created = seen[12].created
          /\ Dominates(seen[12], D) /\ d.at \in Nat /\ (d \in D \/ d.at > as_of)
      BY <1>2, <1>5, <1>6, <1>8, <3>1 DEF NewestAt
    <3>3. D \subseteq DeploymentType /\ Numbered(D)
      BY <1>3 DEF Sound, WorldType
    <3>4. D # {} /\ Latest(D) = d
      <4> HIDE DEF D, d
      <4> QED
        BY <1>3, <1>5, <3>2, <3>3, SameDeployment
    <3> QED
      BY <3>1, <3>4 DEF Newest
  <2> QED
    BY <1>4, <2>1, <2>2, <2>3
<1>7. CASE p = "pwa"
  <2>1. d = seen[11]
    BY <1>7, CollectedIs
  <2>2. Newest(then, p) = seen[11]
    <3> DEFINE D == then.deployments[p]
    <3>1. d = seen[11]
      BY <2>1
    <3>2. /\ d.id = seen[10].id /\ d.created = seen[10].created
          /\ Dominates(seen[10], D) /\ d.at \in Nat /\ (d \in D \/ d.at > as_of)
      BY <1>2, <1>5, <1>7, <1>8, <3>1 DEF NewestAt
    <3>3. D \subseteq DeploymentType /\ Numbered(D)
      BY <1>3 DEF Sound, WorldType
    <3>4. D # {} /\ Latest(D) = d
      <4> HIDE DEF D, d
      <4> QED
        BY <1>3, <1>5, <3>2, <3>3, SameDeployment
    <3> QED
      BY <3>1, <3>4 DEF Newest
  <2>3. Newest(confirmed, p) = seen[15]
    <3> DEFINE D == confirmed.deployments[p]
    <3>1. d = seen[15]
      BY <1>4, <2>1
    <3>2. /\ d.id = seen[14].id /\ d.created = seen[14].created
          /\ Dominates(seen[14], D) /\ d.at \in Nat /\ (d \in D \/ d.at > as_of)
      BY <1>2, <1>5, <1>7, <1>8, <3>1 DEF NewestAt
    <3>3. D \subseteq DeploymentType /\ Numbered(D)
      BY <1>3 DEF Sound, WorldType
    <3>4. D # {} /\ Latest(D) = d
      <4> HIDE DEF D, d
      <4> QED
        BY <1>3, <1>5, <3>2, <3>3, SameDeployment
    <3> QED
      BY <3>1, <3>4 DEF Newest
  <2> QED
    BY <1>4, <2>1, <2>2, <2>3
<1> QED
  BY <1>6, <1>7 DEF Projects

\* The gate among the jobs of the CI run that was selected at as_of.
LEMMA GateHeld ==
    ASSUME NEW w, NEW t, Sound(w, t), NEW sha, NEW o, o.candidate = sha, o.runs = w.runs,
           Run(o, "ci", "") \in ExactRuns(o, "ci", ""), Run(o, "ci", "").state = "success"
    PROVE  Gate(w, w.runs["ci"], sha) = "success"
<1> DEFINE all == w.runs["ci"]
           runs == {r \in all : r.sha = sha /\ r.event = "push"}
           x == Run(o, "ci", "")
<1>1. "ci" \in Workflows /\ Modes("ci") = {""} /\ Event("ci") = "push"
  BY DEF Workflows, Modes, Event
<1>2. /\ \A r \in all : r.mode = ""
      /\ \A q, r \in all : q.id = r.id => q = r
      /\ \A r \in all : r.state = "success" => r.gate = "success"
  BY <1>1 DEF Sound, Numbered
<1>3. runs = ExactRuns(o, "ci", "")
  BY <1>1, <1>2 DEF ExactRuns
<1>4. runs # {} /\ Latest(runs) = x /\ x \in all
  BY <1>3 DEF Run
<1>5. (CHOOSE r \in all : r.id = x.id) = x
  BY <1>2, <1>4
<1> HIDE DEF x, runs
<1>6. Gate(w, all, sha) = (CHOOSE r \in all : r.id = x.id).gate
  BY <1>4 DEF Gate, runs
<1> QED
  BY <1>2, <1>4, <1>5, <1>6 DEF x

\* What passes held at as_of.
LEMMA VerdictHeld ==
    ASSUME Inv, check = "reading", Len(seen) = 16, DeploymentsStable, Verdict(Collected)
    PROVE  /\ Verdict(SnapshotOf(then, Candidate, as_of))
           /\ confirmed.main = Candidate
           /\ \A p \in Projects : Newest(confirmed, p) = Newest(then, p)
<1> DEFINE s == Collected
           o == SnapshotOf(then, Candidate, as_of)
<1>1. Clocks /\ Pieces /\ Begun
  BY DEF Inv
<1>2. /\ 1 =< Len(seen) /\ 2 =< Len(seen) /\ 3 =< Len(seen)
      /\ 4 =< Len(seen) /\ 5 =< Len(seen) /\ 16 =< Len(seen)
  OBVIOUS
<1> HIDE DEF s, o
<1>3. /\ s.candidate = Candidate /\ s.validator = asked.validator /\ s.as_of = as_of
      /\ s.initial_main = seen[1] /\ s.current_main = seen[16]
  BY CollectedIs DEF s
<1>4. /\ o.candidate = Candidate /\ o.validator = asked.validator /\ o.as_of = as_of
      /\ o.collected_at = as_of /\ o.runs = then.runs
      /\ o.initial_main = then.main /\ o.current_main = then.main
      /\ o.active = then.active /\ o.gate = Gate(then, then.runs["ci"], Candidate)
      /\ \A p \in Projects : o.deployments[p] = Newest(then, p)
  BY SnapshotIs DEF o
<1>5. Verdict(s)
  BY DEF s
<1>6. seen[1] = Candidate /\ seen[16] = Candidate /\ asked.validator = Candidate
  BY <1>3, <1>5 DEF Verdict, CurrentMain
<1>7. confirmed.main = Candidate /\ Candidate \in Shas
  BY <1>1, <1>2, <1>6 DEF Pieces, MainRead
<1>8. CurrentMain(o)
  BY <1>1, <1>4, <1>6, <1>7, EvidenceAssumption DEF Begun, CurrentMain
<1>9. o.active = Workflows
  <2>1. seen[2].active /\ seen[3].active /\ seen[4].active /\ seen[5].active
    BY <1>5, CollectedIs DEF Verdict, s
  <2>2. /\ "ci" \in then.active /\ "api_role" \in then.active
        /\ "browser" \in then.active /\ "preflight" \in then.active
    BY <1>1, <1>2, <2>1 DEF Pieces, RunsRead
  <2>3. then.active \subseteq Workflows
    BY <1>1 DEF Begun, Sound, WorldType
  <2> QED
    BY <1>4, <2>2, <2>3 DEF Workflows
<1>10. \A k \in Selected : /\ ExactRuns(o, k[1], k[2]) # {}
                           /\ Run(o, k[1], k[2]) = Run(s, k[1], k[2])
                           /\ Run(o, k[1], k[2]) \in ExactRuns(o, k[1], k[2])
  BY <1>5, RunsHeld DEF s, o
<1>11. \A p \in Projects :
           /\ {c \in o.statuses : c.project = p} # {} /\ Status(o, p) = Status(s, p)
           /\ Newest(then, p) = s.deployments[p] /\ Newest(confirmed, p) = s.deployments[p]
  BY <1>5, StatusesHeld, DeploymentsHeld DEF s, o
<1>12. /\ Run(o, "ci", "") \in ExactRuns(o, "ci", "")
       /\ Run(o, "ci", "") = Run(s, "ci", "")
       /\ ExactRuns(o, "preflight", "") # {}
       /\ Run(o, "preflight", "") = Run(s, "preflight", "")
       /\ Run(o, "preflight", "") \in ExactRuns(o, "preflight", "")
       /\ Run(s, "preflight", "").updated =< as_of
  <2>1. <<"ci", "">> \in Selected /\ <<"preflight", "">> \in Selected
    BY DEF Selected
  <2>2. \A k \in Selected : Run(s, k[1], k[2]).updated =< as_of
    BY <1>3, <1>5, SelectedAre
  <2> QED
    BY <1>10, <2>1, <2>2
<1>13. o.gate = "success"
  <2>1. Run(o, "ci", "").state = "success"
    BY <1>5, <1>12 DEF Verdict, MainCI, Succeeded
  <2>2. Sound(then, as_of)
    BY <1>1 DEF Begun
  <2>3. Gate(then, then.runs["ci"], Candidate) = "success"
    BY <1>4, <1>12, <2>1, <2>2, GateHeld
  <2> QED
    BY <1>4, <2>3
<1>14. Preflight(o)
  <2> DEFINE u == Run(s, "preflight", "").updated
  <2>1. u \in Nat
    <3>1. Run(o, "preflight", "") \in then.runs["preflight"]
      BY <1>4, <1>12 DEF ExactRuns
    <3>2. then.runs["preflight"] \subseteq RunType
      BY <1>1 DEF Begun, Sound, WorldType, Workflows
    <3> QED
      BY <1>12, <3>1, <3>2 DEF RunType
  <2>2. Run(s, "preflight", "").state = "success" /\ s.collected_at - u =< MAX_PREFLIGHT_AGE
    BY <1>5 DEF Verdict, Preflight, Succeeded
  <2>3. s.collected_at = clock
    BY CollectedIs DEF s
  <2>4. clock \in Nat /\ as_of \in Nat /\ as_of < clock /\ u =< as_of
    BY <1>1, <1>12 DEF Clocks
  <2>5. 0 =< as_of - u /\ as_of - u =< MAX_PREFLIGHT_AGE
    <3>1. clock - u =< MAX_PREFLIGHT_AGE
      BY <2>2, <2>3, Zenon
    <3> HIDE DEF u
    <3> QED
      BY <2>1, <2>4, <3>1, EvidenceAssumption
  <2> QED
    BY <1>4, <1>12, <2>2, <2>5 DEF Preflight, Succeeded
<1>15. Verdict(o)
  BY <1>3, <1>4, <1>5, <1>8, <1>9, <1>10, <1>11, <1>13, <1>14, VerdictMoves
<1> QED
  BY <1>7, <1>11, <1>15 DEF o

\* Nothing has happened if nothing is to be seen.
LEMMA NothingHappened ==
    ASSUME Inv, check = "reading", Len(seen) = 16, world = then
    PROVE  \A i \in 1..16 : seen[i] = QuietPiece(i)
<1>1. Clocks /\ Begun
  BY DEF Inv
<1>2. Sound(then, as_of) /\ as_of \in Nat
  BY <1>1 DEF Begun, Clocks
<1>3. ~Touched(then, then, as_of)
  <2>1. ASSUME NEW k \in Workflows, NEW r \in then.runs[k] PROVE ~(r.updated > as_of)
    <3>1. r \in RunType /\ r.updated =< as_of
      BY <1>2 DEF Sound, WorldType
    <3>2. r.updated \in Nat
      BY <3>1 DEF RunType
    <3> QED
      BY <1>2, <3>1, <3>2
  <2>2. ASSUME NEW p \in Projects, NEW d \in then.deployments[p] PROVE ~(d.at > as_of)
    <3>1. d \in DeploymentType /\ d.at =< as_of
      BY <1>2 DEF Sound, WorldType
    <3> QED
      BY <1>2, <3>1 DEF DeploymentType
  <2> QED
    BY <2>1, <2>2 DEF Touched
<1>4. events = 0
  <2>1. ~(events > 0)
    BY <1>1, <1>3, Zenon DEF Begun
  <2> QED
    BY <1>1, <2>1 DEF Clocks
<1> QED
  BY <1>1, <1>4 DEF Begun

\* In a repository that did not change only time can have been the matter.
LEMMA QuietHeld ==
    ASSUME Inv, check = "reading", Len(seen) = 16, world = then,
           NEW o, o = SnapshotOf(then, Candidate, as_of), Verdict(o),
           ~DeploymentsStable \/ ~Verdict(Collected)
    PROVE  clock - Run(o, "preflight", "").updated > MAX_PREFLIGHT_AGE
<1> DEFINE s == Collected
<1>1. Clocks /\ Begun
  BY DEF Inv
<1>2. \A i \in 1..16 : seen[i] = QuietPiece(i)
  BY NothingHappened
<1>3. /\ seen[1] = then.main /\ seen[16] = then.main
      /\ seen[2] = [active |-> Reads[2][2] \in then.active, runs |-> then.runs[Reads[2][2]]]
      /\ seen[3] = [active |-> Reads[3][2] \in then.active, runs |-> then.runs[Reads[3][2]]]
      /\ seen[4] = [active |-> Reads[4][2] \in then.active, runs |-> then.runs[Reads[4][2]]]
      /\ seen[5] = [active |-> Reads[5][2] \in then.active, runs |-> then.runs[Reads[5][2]]]
      /\ seen[6] = Gate(then, then.runs["ci"], Candidate)
      /\ seen[7] = StatusesOf(then, Candidate)
      /\ seen[9] = Newest(then, "api") /\ seen[13] = Newest(then, "api")
      /\ seen[11] = Newest(then, "pwa") /\ seen[15] = Newest(then, "pwa")
  BY <1>2 DEF QuietPiece
<1>4. /\ Reads[2][2] = "ci" /\ Reads[3][2] = "api_role"
      /\ Reads[4][2] = "browser" /\ Reads[5][2] = "preflight"
  BY ReadsAre
<1>5. /\ seen[2].runs = then.runs["ci"] /\ seen[3].runs = then.runs["api_role"]
      /\ seen[4].runs = then.runs["browser"] /\ seen[5].runs = then.runs["preflight"]
  BY <1>3, <1>4
<1> HIDE DEF s
<1>6. /\ o.candidate = Candidate /\ o.validator = asked.validator /\ o.as_of = as_of
      /\ o.initial_main = then.main /\ o.current_main = then.main
      /\ o.active = then.active /\ o.runs = then.runs
      /\ o.gate = Gate(then, then.runs["ci"], Candidate)
      /\ o.statuses = StatusesOf(then, Candidate)
      /\ \A p \in Projects : o.deployments[p] = Newest(then, p)
  BY SnapshotIs
<1>7. /\ s.candidate = Candidate /\ s.validator = asked.validator /\ s.as_of = as_of
      /\ s.collected_at = clock
      /\ s.initial_main = then.main /\ s.current_main = then.main
      /\ s.gate = Gate(then, then.runs["ci"], Candidate)
      /\ s.statuses = StatusesOf(then, Candidate)
      /\ s.deployments["api"] = Newest(then, "api") /\ s.deployments["pwa"] = Newest(then, "pwa")
      /\ s.runs["ci"] = then.runs["ci"] /\ s.runs["api_role"] = then.runs["api_role"]
      /\ s.runs["browser"] = then.runs["browser"] /\ s.runs["preflight"] = then.runs["preflight"]
  BY <1>3, <1>5, CollectedIs DEF s
<1>8. s.active = Workflows
  <2>1. then.active = Workflows
    BY <1>6 DEF Verdict
  <2> DEFINE a(i) == Reads[i][2] \in then.active
  <2>2. a(2) /\ a(3) /\ a(4) /\ a(5)
    BY <1>4, <2>1 DEF Workflows
  <2>3. /\ seen[2] = [active |-> a(2), runs |-> then.runs[Reads[2][2]]]
        /\ seen[3] = [active |-> a(3), runs |-> then.runs[Reads[3][2]]]
        /\ seen[4] = [active |-> a(4), runs |-> then.runs[Reads[4][2]]]
        /\ seen[5] = [active |-> a(5), runs |-> then.runs[Reads[5][2]]]
    BY <1>3, Zenon
  <2> HIDE DEF a
  <2>4. seen[2].active /\ seen[3].active /\ seen[4].active /\ seen[5].active
    BY <2>2, <2>3
  <2> QED
    BY <2>4, CollectedIs DEF s
<1>9. ~Verdict(s)
  <2>1. DeploymentsStable
    BY <1>3 DEF DeploymentsStable
  <2> QED
    BY <2>1 DEF s
<1>10. \A k \in Selected : ExactRuns(s, k[1], k[2]) = ExactRuns(o, k[1], k[2])
  <2> TAKE k \in Selected
  <2>1. s.runs[k[1]] = o.runs[k[1]]
    BY <1>6, <1>7, SelectedIs, Zenon
  <2> QED
    BY <1>6, <1>7, <2>1 DEF ExactRuns
<1>11. \A k \in Selected : ExactRuns(s, k[1], k[2]) # {} /\ Run(s, k[1], k[2]) = Run(o, k[1], k[2])
  BY <1>10, SelectedAre DEF Run
<1>12. \A p \in Projects :
           /\ {c \in s.statuses : c.project = p} # {} /\ Status(s, p) = Status(o, p)
           /\ s.deployments[p] = o.deployments[p]
  <2>1. s.statuses = o.statuses
    BY <1>6, <1>7
  <2>2. \A p \in Projects : s.deployments[p] = o.deployments[p]
    BY <1>6, <1>7 DEF Projects
  <2>3. \A p \in Projects : {c \in s.statuses : c.project = p} # {}
    BY <2>1, SelectedAre
  <2>4. \A p \in Projects : Status(s, p) = Status(o, p)
    BY <2>1 DEF Status
  <2> QED
    BY <2>2, <2>3, <2>4
<1>13. CurrentMain(s) /\ s.gate = "success"
  BY <1>6, <1>7 DEF Verdict, CurrentMain, MainCI
<1>14. ~Preflight(s)
  BY <1>6, <1>7, <1>8, <1>9, <1>11, <1>12, <1>13, VerdictMoves
<1> DEFINE u == Run(o, "preflight", "").updated
<1>15. /\ ExactRuns(s, "preflight", "") # {}
       /\ Run(s, "preflight", "") = Run(o, "preflight", "")
       /\ u =< as_of
  <2>1. <<"preflight", "">> \in Selected
    BY DEF Selected
  <2>2. \A k \in Selected : Run(o, k[1], k[2]).updated =< as_of
    BY <1>6, SelectedAre
  <2> QED
    BY <1>11, <2>1, <2>2
<1>16. Run(s, "preflight", "").state = "success"
  BY <1>15 DEF Verdict, Preflight, Succeeded
<1>17. ~(0 =< clock - u /\ clock - u =< MAX_PREFLIGHT_AGE)
  BY <1>7, <1>14, <1>15, <1>16 DEF Preflight, Succeeded
<1>18. u \in Nat
  <2>1. then.runs["preflight"] \subseteq RunType /\ Numbered(then.runs["preflight"])
    BY <1>1 DEF Begun, Sound, WorldType, Workflows
  <2>2. \A r \in then.runs["preflight"] : r.created =< as_of
    BY <1>1 DEF Begun, Sound, Workflows
  <2>3. /\ ExactRuns(o, "preflight", "") \subseteq then.runs["preflight"]
        /\ ExactRuns(o, "preflight", "") # {}
    BY <1>6 DEF ExactRuns, Verdict, Preflight, Succeeded
  <2>4. \A r \in RunType : r.created \in Nat /\ r.updated \in Nat
    BY DEF RunType
  <2>5. as_of \in Nat
    BY <1>1 DEF Clocks
  <2>6. Latest(ExactRuns(o, "preflight", "")) \in ExactRuns(o, "preflight", "")
    BY <2>1, <2>2, <2>3, <2>4, <2>5, LatestFound
  <2> QED
    BY <2>1, <2>3, <2>4, <2>6 DEF Run
<1> HIDE DEF u
<1>19. clock - u > MAX_PREFLIGHT_AGE
  <2>1. clock \in Nat /\ as_of \in Nat /\ as_of < clock
    BY <1>1 DEF Clocks
  <2>2. 0 =< clock - u /\ clock - u \in Int
    <3>1. u =< as_of
      BY <1>15
    <3>2. \A c, t, v \in Nat : t < c /\ v =< t => 0 =< c - v /\ c - v \in Int
      OBVIOUS
    <3> QED
      BY <1>18, <2>1, <3>1, <3>2
  <2>3. ~(clock - u =< MAX_PREFLIGHT_AGE)
    BY <1>17, <2>2
  <2> QED
    BY <2>2, <2>3, EvidenceAssumption
<1> QED
  BY <1>19 DEF u

LEMMA ValidateKeeps == ASSUME Inv, Validate PROVE Inv'
<1>1. /\ check = "reading" /\ collected_at' = clock /\ Len(seen) = 16
      /\ check' = IF ~DeploymentsStable THEN "error"
                  ELSE IF Verdict(Collected) THEN "PASS" ELSE "BLOCKED"
      /\ UNCHANGED <<clock, events, world, asked, as_of, seen, then, confirmed>>
  BY ReadsAre DEF Validate
<1>2. clock \in Nat /\ Clocks
  BY DEF Inv, Clocks
<1>3. Clocks'
  BY <1>1, <1>2 DEF Clocks
<1>4. Pieces' /\ Begun'
  BY <1>1, <1>2, PiecesStay, BegunStays
<1> DEFINE o == SnapshotOf(then, Candidate, as_of)
<1>5. Candidate' = Candidate /\ o' = o
  BY <1>1 DEF Candidate, SnapshotOf, Newest, Gate, StatusesOf
<1>6. PassHeld'
  <2>1. ASSUME check' = "PASS" PROVE DeploymentsStable /\ Verdict(Collected)
    BY <1>1, <2>1
  <2>2. ASSUME check' = "PASS"
        PROVE  /\ Verdict(o) /\ confirmed.main = Candidate
               /\ \A p \in Projects : Newest(confirmed, p) = Newest(then, p)
    BY <1>1, <2>1, <2>2, VerdictHeld
  <2>3. \A p : Newest(confirmed, p)' = Newest(confirmed, p) /\ Newest(then, p)' = Newest(then, p)
    BY <1>1 DEF Newest
  <2>4. Verdict(o)' <=> Verdict(o)
    BY <1>5 DEF Verdict
  <2> QED
    BY <1>1, <1>5, <2>2, <2>3, <2>4 DEF PassHeld
<1>7. QuietWorldPasses'
  BY <1>1, <1>5, QuietHeld DEF QuietWorldPasses
<1> QED
  BY <1>3, <1>4, <1>6, <1>7 DEF Inv

-----------------------------------------------------------------------------
(* The theorems.                                                           *)

LEMMA InitHolds == Init => Inv
<1> SUFFICES ASSUME Init PROVE Inv
  OBVIOUS
<1>1. /\ clock = Start /\ events = 0 /\ world \in Worlds /\ check = "idle"
      /\ as_of = 0 /\ seen = <<>>
  BY DEF Init
<1>2. Clocks
  BY <1>1, EvidenceAssumption, WorldsAssumption DEF Clocks
<1>3. seen \in Seq({}) /\ Len(seen) = 0
  BY <1>1
<1>4. Pieces
  BY <1>3 DEF Pieces, RunsRead, StatusesRead, DeploymentRead, NewestAt, MainRead
<1> QED
  BY <1>1, <1>2, <1>4 DEF Inv, PassHeld, QuietWorldPasses

LEMMA StepHolds == Inv /\ [Next]_evars => Inv'
<1> SUFFICES ASSUME Inv, [Next]_evars PROVE Inv'
  OBVIOUS
<1>1. CASE Begin
  BY <1>1, BeginKeeps
<1>2. CASE ReadNext
  BY <1>2, ReadNextKeeps
<1>3. CASE Validate
  BY <1>3, ValidateKeeps
<1>4. CASE ReadFails
  BY <1>4, ReadFailsKeeps
<1>5. CASE NewRun
  BY <1>5, NewRunMoves, ChangeKeeps DEF NewRun
<1>6. CASE ReRun
  BY <1>6, ReRunMoves, ChangeKeeps DEF ReRun
<1>7. CASE FinishRun
  BY <1>7, FinishRunMoves, ChangeKeeps DEF FinishRun
<1>8. CASE Deploy
  BY <1>8, DeployMoves, ChangeKeeps DEF Deploy
<1>9. CASE SettleDeployment
  BY <1>9, SettleDeploymentMoves, ChangeKeeps DEF SettleDeployment
<1>10. CASE Push
  BY <1>10, PushMoves, ChangeKeeps DEF Push
<1>11. CASE Tick
  BY <1>11, TickKeeps
<1>12. CASE UNCHANGED evars
  <2>1. UNCHANGED <<clock, events, world, check, asked, as_of, collected_at, seen, then, confirmed>>
    BY <1>12 DEF evars
  <2>2. clock \in Nat /\ Clocks /\ Clocks'
    BY <2>1 DEF Inv, Clocks
  <2>3. Pieces' /\ (check # "idle" => Begun')
    BY <2>1, <2>2, PiecesStay, BegunStays
  <2> DEFINE o == SnapshotOf(then, Candidate, as_of)
  <2>4. Candidate' = Candidate /\ o' = o
    BY <2>1 DEF Candidate, SnapshotOf, Newest, Gate, StatusesOf
  <2>5. /\ Verdict(o)' <=> Verdict(o)
        /\ \A p : Newest(confirmed, p)' = Newest(confirmed, p) /\ Newest(then, p)' = Newest(then, p)
        /\ Run(o, "preflight", "")' = Run(o, "preflight", "")
    BY <2>1, <2>4 DEF Verdict, Newest, Run
  <2>6. PassHeld' /\ QuietWorldPasses'
    BY <2>1, <2>4, <2>5 DEF Inv, PassHeld, QuietWorldPasses
  <2> QED
    BY <2>1, <2>2, <2>3, <2>6 DEF Inv
<1> QED
  BY <1>1, <1>2, <1>3, <1>4, <1>5, <1>6, <1>7, <1>8, <1>9, <1>10, <1>11, <1>12 DEF Next

\* Every piece that was read is the repository of as_of, or what is new in it is
\* dated after as_of (collect_snapshot).
THEOREM Inductive == Spec => []Inv
<1> QED
  BY InitHolds, StepHolds, PTL DEF Spec

\* A PASS of validate_snapshot held at as_of, however many runs, deployments and
\* pushes there were while collect_snapshot read the pieces.
THEOREM PassesHeld == Spec => []PassHeld
<1>1. Inv => PassHeld
  BY DEF Inv
<1> QED
  BY <1>1, Inductive, PTL

\* validate_snapshot does not block the release of a repository that did not change
\* while collect_snapshot read it, unless the preflight got too old.
THEOREM QuietWorldIsNotBlocked == Spec => []QuietWorldPasses
<1>1. Inv => QuietWorldPasses
  BY DEF Inv
<1> QED
  BY <1>1, Inductive, PTL
=============================================================================
