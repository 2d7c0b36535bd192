------------------------ MODULE MCEntitlementEngine ------------------------
(***************************************************************************)
(* A small instance: one weekly membership that is half used, one          *)
(* unlimited product, two ids for new entitlements, and calls on both      *)
(* sides of the Monday boundary.  A day has two ticks and the location is  *)
(* one tick ahead of UTC, so the local date differs from the UTC date.     *)
(***************************************************************************)
EXTENDS EntitlementEngine, TLC

CONSTANTS member, open, fresh1, fresh2, k1, k2, k3, k4, k5, r1, r2, r3

MCEntIds == {member, open, fresh1, fresh2}
MCClientIds == {k1, k2, k3, k4, k5}
MCRequests == {r1, r2, r3}
MCSymmetry == Permutations(MCRequests) \cup Permutations({fresh1, fresh2})
MCProducts == {"weekly", "passes", "unlimited"}

NoRule ==
    [hours_per_week |-> None, hours |-> None, units |-> None,
     sessions |-> None, reset |-> None]

MCRulesOf ==
    ("weekly" :> [NoRule EXCEPT !.hours_per_week = 1, !.reset = "monday"]) @@
    ("passes" :> [NoRule EXCEPT !.sessions = 1]) @@
    ("unlimited" :> NoRule)

Row(product, units) ==
    [status |-> "active", product |-> product, units |-> units,
     from |-> 0, client |-> None]

MCInitialRows ==
    (member :> Row("weekly", 50)) @@ (open :> Row("unlimited", None))
    @@ (fresh1 :> None) @@ (fresh2 :> None)

\* Thursday noon of the first week was drawn by an old revision of the API.
Thursday == 6
Sunday == 12
Monday == 13    \* Sunday in UTC, Monday at the location

MCLegacyReceipts ==
    {[by |-> None, record |-> member, action |-> "update", client |-> None,
      ts |-> Thursday, legacy |-> TRUE]}

Draw(client, ent, amount, now) ==
    [op |-> "draw", client |-> client, now |-> now, ent |-> ent, amount |-> amount]

Create(client, product, now) ==
    [op |-> "create", client |-> client, now |-> now, product |-> product]

MCCalls ==
    {Draw(k1, member, 30, Sunday), Draw(k2, member, 40, Monday),
     Draw(k3, member, 10, Thursday), Draw(None, member, 20, Sunday),
     Draw(k4, open, 5, Sunday), Draw(None, open, 0, Sunday),
     Draw(None, fresh1, 1, Monday), Draw(None, fresh2, 1, Monday),
     Create(k5, "passes", Sunday), Create(None, "weekly", Sunday)}
=============================================================================
