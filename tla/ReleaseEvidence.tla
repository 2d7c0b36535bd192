--------------------------- MODULE ReleaseEvidence ---------------------------
(***************************************************************************)
(* funhouse-release-evidence check (funhouse_pipeline/release_evidence):   *)
(* the collector reads the state of a repository piece by piece while it   *)
(* changes, and the validator decides PASS or BLOCKED from the pieces.     *)
(*                                                                         *)
(* GitHub and Vercel are external: a run is created, finished and run      *)
(* again (which keeps its id and created_at), a deployment is created and  *)
(* then succeeds or fails, main moves on to another commit.  A tick is the *)
(* resolution of their time stamps; the tick in which as_of is taken ends  *)
(* with it.                                                                *)
(***************************************************************************)
EXTENDS Integers, Sequences, FiniteSets

CONSTANTS
    Shas,          \* commits
    Local,         \* GITHUB_SHA of a collector outside the workflow
    Asks,          \* how it is called: [candidate, workflow]
    Worlds,        \* states of the repository when the collector starts
    Start,         \* and the time of it
    MaxTime,       \* bound on the clock
    MaxEvents,     \* bound on changes of the repository
    MAX_PREFLIGHT_AGE

ASSUME EvidenceAssumption ==
    /\ Local \notin Shas
    /\ Start \in Nat
    /\ MaxTime \in Nat
    /\ MAX_PREFLIGHT_AGE \in Nat

VARIABLES
    clock,
    events,        \* number of changes so far
    world,         \* [main, past, active, runs, statuses, deployments]
    check,         \* the collector: "idle", "reading", or the exit: "PASS", "BLOCKED", "error"
    asked,         \* --candidate-sha and GITHUB_SHA: [candidate, validator]
    as_of,
    collected_at,
    seen,          \* what was read so far
    then,          \* the world at as_of
    confirmed      \* the world when the deployments were read again

evars == <<clock, events, world, check, asked, as_of, collected_at, seen, then, confirmed>>

Default == ""      \* no --candidate-sha
Workflows == {"ci", "api_role", "browser", "preflight"}
Projects == {"api", "pwa"}
Event(w) == IF w = "ci" THEN "push" ELSE "workflow_dispatch"
Modes(w) == IF w = "browser" THEN {"applied-or-skipped", "skipped"} ELSE {""}

States == {"pending", "running", "success", "failure"}

RunType ==
    [id : Nat, sha : Shas, event : {"push", "workflow_dispatch", "other"},
     mode : {"", "applied-or-skipped", "skipped"},
     created : Nat, started : Nat, updated : Nat, state : States, gate : States]

StatusType == [id : Nat, project : Projects, sha : Shas, created : Nat, state : States]

DeploymentType == [id : Nat, sha : Shas, created : Nat, state : States, at : Nat]

WorldType ==
    [main : Shas, past : SUBSET Shas, active : SUBSET Workflows,
     runs : [Workflows -> SUBSET RunType], statuses : SUBSET StatusType,
     deployments : [Projects -> SUBSET DeploymentType]]

\* The server counts what it creates.
Numbered(items) ==
    /\ IsFiniteSet(items)
    /\ \A i \in items : i.id \in 1..Cardinality(items)
    /\ \A i, j \in items : i.id = j.id => i = j

\* A repository as it can be at a time: nothing in it is of a later time, main is
\* not where it was before, and the five-session gate is a job of its CI run.
Sound(w, time) ==
    /\ w \in WorldType
    /\ w.main \notin w.past
    /\ Numbered(w.statuses)
    /\ \A c \in w.statuses : c.created =< time
    /\ \A p \in Projects :
          /\ Numbered(w.deployments[p])
          /\ \A d \in w.deployments[p] : d.created =< time /\ d.at =< time
    /\ \A k \in Workflows :
          /\ Numbered(w.runs[k])
          /\ \A r \in w.runs[k] : r.mode \in Modes(k) /\ r.created =< time /\ r.updated =< time
    /\ \A r \in w.runs["ci"] : r.state = "success" => r.gate = "success"

ASSUME WorldsAssumption == \A w \in Worlds : Sound(w, Start)

\* max by (created_at, id)
Latest(items) ==
    CHOOSE i \in items : \A j \in items :
        i.created > j.created \/ (i.created = j.created /\ i.id >= j.id)

-----------------------------------------------------------------------------
(* validate_snapshot.  A snapshot s is a record of what was collected.     *)

\* _is_exact_run; mode is what the title of a browser run says.
ExactRuns(s, w, mode) ==
    {r \in s.runs[w] : r.sha = s.candidate /\ r.event = Event(w) /\ r.mode = mode}

Run(s, w, mode) == Latest(ExactRuns(s, w, mode))
Succeeded(s, w, mode) == ExactRuns(s, w, mode) # {} /\ Run(s, w, mode).state = "success"

CurrentMain(s) == s.initial_main = s.candidate /\ s.current_main = s.candidate

\* The newest push run, and the five-session gate among its jobs.
MainCI(s) == Succeeded(s, "ci", "") /\ s.gate = "success"

Status(s, p) == Latest({c \in s.statuses : c.project = p})

CommitStatus(s, p) ==
    {c \in s.statuses : c.project = p} # {} /\ Status(s, p).state = "success"

ProductionDeployment(s, p) ==
    /\ s.deployments[p] # <<>>
    /\ s.deployments[p].sha = s.candidate
    /\ s.deployments[p].state = "success"

Later(a, b) == IF a > b THEN a ELSE b
ReadyAt(s) == Later(s.deployments["api"].at, s.deployments["pwa"].at)

\* _select_role_run
ApiRole(s) ==
    /\ Succeeded(s, "api_role", "")
    /\ s.deployments["api"] # <<>>
    /\ Run(s, "api_role", "").started >= s.deployments["api"].at

\* _select_browser_chain
BrowserPair(s) ==
    /\ Succeeded(s, "browser", "applied-or-skipped")
    /\ Succeeded(s, "browser", "skipped")
    /\ Succeeded(s, "api_role", "")
    /\ \A p \in Projects : s.deployments[p] # <<>> /\ s.deployments[p].state = "success"
    /\ LET first == Run(s, "browser", "applied-or-skipped")
           replay == Run(s, "browser", "skipped")
       IN  /\ first.started >= Later(Run(s, "api_role", "").updated, ReadyAt(s))
           /\ replay.started >= first.updated

\* _select_preflight, by the time the collection finished
Preflight(s) ==
    /\ Succeeded(s, "preflight", "")
    /\ LET age == s.collected_at - Run(s, "preflight", "").updated
       IN  0 =< age /\ age =< MAX_PREFLIGHT_AGE

\* The runs of each workflow and mode that the checks select.
Selected ==
    {<<"ci", "">>, <<"api_role", "">>, <<"preflight", "">>,
     <<"browser", "applied-or-skipped">>, <<"browser", "skipped">>}

\* A plausible bug: a run is dated by its start.
NoFutureStart(s) ==
    /\ \A k \in Selected : ExactRuns(s, k[1], k[2]) # {} => Run(s, k[1], k[2]).started =< s.as_of
    /\ \A p \in Projects :
          /\ {c \in s.statuses : c.project = p} # {} => Status(s, p).created =< s.as_of
          /\ s.deployments[p] # <<>> => s.deployments[p].created =< s.as_of /\ s.deployments[p].at =< s.as_of

\* _future_evidence: nothing that was selected is later than as_of.
NoFuture(s) ==
    /\ \A k \in Selected : ExactRuns(s, k[1], k[2]) # {} => Run(s, k[1], k[2]).updated =< s.as_of
    /\ \A p \in Projects :
          /\ {c \in s.statuses : c.project = p} # {} => Status(s, p).created =< s.as_of
          /\ s.deployments[p] # <<>> => s.deployments[p].created =< s.as_of /\ s.deployments[p].at =< s.as_of

\* Every check passes.
Verdict(s) ==
    /\ s.validator = s.candidate
    /\ CurrentMain(s)
    /\ s.active = Workflows
    /\ MainCI(s)
    /\ \A p \in Projects : CommitStatus(s, p) /\ ProductionDeployment(s, p)
    /\ ApiRole(s)
    /\ BrowserPair(s)
    /\ Preflight(s)
    /\ NoFuture(s)

-----------------------------------------------------------------------------
(* The pieces as the server has them.                                      *)

Candidate == IF asked.candidate # Default THEN asked.candidate ELSE seen[1]

\* The gate among the jobs that w has for the newest CI run of a commit in a list.
Gate(w, listed, sha) ==
    LET runs == {r \in listed : r.sha = sha /\ r.event = "push"}
    IN  IF runs = {} THEN "" ELSE (CHOOSE r \in w.runs["ci"] : r.id = Latest(runs).id).gate

StatusesOf(w, sha) == {c \in w.statuses : c.sha = sha}

Newest(w, p) == IF w.deployments[p] = {} THEN <<>> ELSE Latest(w.deployments[p])

\* Everything read in one instant.
SnapshotOf(w, candidate, time) ==
    [candidate |-> candidate, validator |-> asked.validator, as_of |-> time, collected_at |-> time,
     initial_main |-> w.main, current_main |-> w.main, active |-> w.active, runs |-> w.runs,
     gate |-> Gate(w, w.runs["ci"], candidate), statuses |-> StatusesOf(w, candidate),
     deployments |-> [p \in Projects |-> Newest(w, p)]]

-----------------------------------------------------------------------------
(* collect_snapshot.                                                       *)

\* The newest deployment of an environment and then its newest status, twice.
Production ==
    << <<"deployment", "api">>, <<"settled", "api">>, <<"deployment", "pwa">>, <<"settled", "pwa">> >>

Reads ==
    << <<"main">>, <<"runs", "ci">>, <<"runs", "api_role">>, <<"runs", "browser">>, <<"runs", "preflight">>,
       <<"jobs">>, <<"statuses">> >>
    \o Production \o Production \o << <<"main">> >>

Begin ==
    /\ check = "idle"
    /\ \E a \in Asks :
          asked' = [candidate |-> a.candidate, validator |-> IF a.workflow THEN world.main ELSE Local]
    /\ check' = "reading"
    /\ as_of' = clock
    /\ clock' = clock + 1
    /\ then' = world
    /\ UNCHANGED <<events, world, collected_at, seen, confirmed>>

\* The answer to one request.
Piece(k) ==
    CASE k[1] = "main" -> world.main
      [] k[1] = "runs" -> [active |-> k[2] \in world.active, runs |-> world.runs[k[2]]]
      [] k[1] = "jobs" -> Gate(world, seen[2].runs, Candidate)
      [] k[1] = "statuses" -> StatusesOf(world, Candidate)
      [] k[1] = "deployment" -> Newest(world, k[2])
      [] k[1] = "settled" ->
            LET read == seen[Len(seen)]
            IN  IF read = <<>> THEN <<>> ELSE CHOOSE d \in world.deployments[k[2]] : d.id = read.id

ReadNext ==
    /\ check = "reading"
    /\ Len(seen) < Len(Reads)
    /\ seen' = Append(seen, Piece(Reads[Len(seen) + 1]))
    /\ confirmed' = IF Len(seen) = 11 THEN world ELSE confirmed
    /\ UNCHANGED <<clock, events, world, check, asked, as_of, collected_at, then>>

Collected ==
    [candidate |-> Candidate, validator |-> asked.validator, as_of |-> as_of, collected_at |-> clock,
     initial_main |-> seen[1], current_main |-> seen[16],
     active |-> {w \in Workflows : \E i \in 2..5 : Reads[i][2] = w /\ seen[i].active},
     runs |-> [w \in Workflows |-> seen[CHOOSE i \in 2..5 : Reads[i][2] = w].runs],
     gate |-> seen[6], statuses |-> seen[7], deployments |-> [api |-> seen[9], pwa |-> seen[11]]]

\* A plausible bug: the deployments are compared in another order.
DeploymentsStableCrossed == seen[13] = seen[11] /\ seen[15] = seen[9]

DeploymentsStable == seen[13] = seen[9] /\ seen[15] = seen[11]

\* The second reading of the deployments is compared, the rest validated.
Validate ==
    /\ check = "reading"
    /\ Len(seen) = Len(Reads)
    /\ collected_at' = clock
    /\ check' = IF ~DeploymentsStable THEN "error"
                ELSE IF Verdict(Collected) THEN "PASS" ELSE "BLOCKED"
    /\ UNCHANGED <<clock, events, world, asked, as_of, seen, then, confirmed>>

\* GitHubAPIError: exit 2.
ReadFails ==
    /\ check = "reading"
    /\ Len(seen) < Len(Reads)
    /\ check' = "error"
    /\ UNCHANGED <<clock, events, world, asked, as_of, collected_at, seen, then, confirmed>>

-----------------------------------------------------------------------------
(* The repository changes.  What happened before as_of is in Worlds.       *)

Change ==
    /\ check = "reading"
    /\ events < MaxEvents
    /\ events' = events + 1
    /\ UNCHANGED <<clock, check, asked, as_of, collected_at, seen, then, confirmed>>

NewRun ==
    /\ Change
    /\ \E w \in Workflows : \E m \in Modes(w) :
          world' = [world EXCEPT !.runs[w] = @ \cup
              {[id |-> Cardinality(@) + 1, sha |-> world.main, event |-> Event(w), mode |-> m,
                created |-> clock, started |-> clock, updated |-> clock,
                state |-> "running", gate |-> "running"]}]

\* A run starts again; id and created_at stay.
ReRun ==
    /\ Change
    /\ \E w \in Workflows : \E r \in world.runs[w] :
          /\ r.state # "running"
          /\ world' = [world EXCEPT !.runs[w] = (@ \ {r}) \cup
                {[r EXCEPT !.state = "running", !.gate = "running", !.started = clock, !.updated = clock]}]

FinishRun ==
    /\ Change
    /\ \E w \in Workflows : \E r \in world.runs[w] : \E state \in {"success", "failure"} :
          /\ r.state = "running"
          /\ world' = [world EXCEPT !.runs[w] = (@ \ {r}) \cup
                {[r EXCEPT !.state = state, !.gate = state, !.updated = clock]}]

Deploy ==
    /\ Change
    /\ \E p \in Projects :
          world' = [world EXCEPT !.deployments[p] = @ \cup
              {[id |-> Cardinality(@) + 1, sha |-> world.main, created |-> clock,
                state |-> "pending", at |-> clock]}]

SettleDeployment ==
    /\ Change
    /\ \E p \in Projects : \E d \in world.deployments[p] : \E state \in {"success", "failure"} :
          /\ d.state = "pending"
          /\ world' = [world EXCEPT
                !.deployments[p] = (@ \ {d}) \cup {[d EXCEPT !.state = state, !.at = clock]},
                !.statuses = @ \cup {[id |-> Cardinality(@) + 1, project |-> p, sha |-> d.sha,
                                      created |-> clock, state |-> state]}]

\* A commit that was not on main before.
Push ==
    /\ Change
    /\ \E sha \in Shas \ {world.main} :
          /\ sha \notin world.past
          /\ world' = [world EXCEPT !.main = sha, !.past = @ \cup {world.main}]

Tick ==
    /\ check = "reading"
    /\ clock < MaxTime
    /\ clock' = clock + 1
    /\ UNCHANGED <<events, world, check, asked, as_of, collected_at, seen, then, confirmed>>

-----------------------------------------------------------------------------
Init ==
    /\ clock = Start
    /\ events = 0
    /\ world \in Worlds
    /\ check = "idle"
    /\ asked = [candidate |-> Default, validator |-> Local]
    /\ as_of = 0
    /\ collected_at = 0
    /\ seen = <<>>
    /\ then = world
    /\ confirmed = world

Next ==
    \/ Begin \/ ReadNext \/ Validate \/ ReadFails
    \/ NewRun \/ ReRun \/ FinishRun \/ Deploy \/ SettleDeployment \/ Push
    \/ Tick

Spec == Init /\ [][Next]_evars

-----------------------------------------------------------------------------
\* What is read piece by piece is as good as one look: when the verdict is PASS,
\* every check also passes on the state that the repository had at as_of,
\* whatever was run, run again, deployed or pushed since, and production and main
\* were still the same when they were read again (validate_snapshot, the two
\* readings of collect_snapshot).
PassHeld ==
    check = "PASS" =>
        /\ Verdict(SnapshotOf(then, Candidate, as_of))
        /\ confirmed.main = Candidate
        /\ \A p \in Projects : Newest(confirmed, p) = Newest(then, p)

\* No needless BLOCKED: if nothing changed since as_of and every check passed at
\* that time, the verdict is PASS unless the preflight got too old meanwhile.
QuietWorldPasses ==
    /\ check \in {"BLOCKED", "error"}
    /\ Len(seen) = Len(Reads)
    /\ world = then
    /\ Verdict(SnapshotOf(then, Candidate, as_of))
    => collected_at - Run(SnapshotOf(then, Candidate, as_of), "preflight", "").updated > MAX_PREFLIGHT_AGE
=============================================================================
