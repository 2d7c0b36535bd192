------------------------- MODULE MCReleaseEvidence -------------------------
(***************************************************************************)
(* A repository in which every check passes, each with nothing to spare,   *)
(* and the ones that differ from it in one respect.                        *)
(***************************************************************************)
EXTENDS ReleaseEvidence

R(id, sha, event, mode, started, updated, state) ==
    [id |-> id, sha |-> sha, event |-> event, mode |-> mode, created |-> started,
     started |-> started, updated |-> updated, state |-> state, gate |-> state]

Dispatch == "workflow_dispatch"

S(id, project, created, state) ==
    [id |-> id, project |-> project, sha |-> "c", created |-> created, state |-> state]

D(id, sha, created, state, at) ==
    [id |-> id, sha |-> sha, created |-> created, state |-> state, at |-> at]

First(started, updated, state) == R(1, "c", Dispatch, "applied-or-skipped", started, updated, state)
Replay(started, updated, state) == R(2, "c", Dispatch, "skipped", started, updated, state)

Good ==
    [main |-> "c", past |-> {"b"}, active |-> Workflows,
     runs |-> [ci |-> {R(1, "b", "push", "", 0, 1, "success"), R(2, "c", "push", "", 1, 2, "success")},
               api_role |-> {R(1, "c", Dispatch, "", 2, 4, "success")},
               browser |-> {First(4, 5, "success"), Replay(5, 6, "success")},
               preflight |-> {R(1, "c", Dispatch, "", 3, 4, "success")}],
     statuses |-> {S(1, "api", 2, "success"), S(2, "pwa", 3, "success")},
     deployments |-> [api |-> {D(1, "b", 0, "success", 1), D(2, "c", 1, "success", 2)},
                      pwa |-> {D(1, "c", 1, "success", 3)}]]

MCAsks ==
    {[candidate |-> Default, workflow |-> TRUE], [candidate |-> "c", workflow |-> TRUE],
     [candidate |-> Default, workflow |-> FALSE]}

MCWorlds ==
    {Good,
     [Good EXCEPT !.runs.browser = {First(4, 5, "success"), Replay(5, 6, "running")}],
     [Good EXCEPT !.runs.browser = {First(3, 5, "success"), Replay(5, 6, "success")}],
     [Good EXCEPT !.runs.browser = {First(4, 6, "success"), Replay(5, 6, "success")}],
     [Good EXCEPT !.runs.api_role = @ \cup {R(2, "c", Dispatch, "", 5, 6, "failure")}],
     [Good EXCEPT !.deployments.pwa = @ \cup {D(2, "c", 5, "pending", 5)}],
     [Good EXCEPT !.active = @ \ {"browser"}]}
=============================================================================
