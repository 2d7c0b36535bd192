-------------------------- MODULE MCSessionService --------------------------
(***************************************************************************)
(* Two locations, a player with and one without a school, a weekly         *)
(* subscription that has ended and holds units for one of two draws, one   *)
(* that is ending, an unlimited pass and a device that moves.              *)
(* The requests: a paid session with a draw, a draw for the same units by  *)
(* the founder whose payment names no known product, a facilitator's       *)
(* lesson under another school and under his own, and a payment.           *)
(***************************************************************************)
EXTENDS SessionService

NoRule == [hours_per_week |-> None, hours |-> None, units |-> None, sessions |-> None, reset |-> None]

MCPlayer ==
    [thabo |-> [location |-> "Smithfield", school |-> "North", active |-> TRUE],
     lindi |-> [location |-> "Durban", school |-> None, active |-> TRUE]]

MCProduct ==
    [weekly |-> [type |-> "subscription", rules |-> [NoRule EXCEPT !.sessions = 3, !.reset = "thursday"]],
     pass |-> [type |-> "once_off_pass", rules |-> NoRule],
     game |-> [type |-> "pay_per_use", rules |-> NoRule]]

G(player, product, location, to, units) ==
    [player |-> player, product |-> product, location |-> location, status |-> "active",
     to |-> to, from |-> 3, units |-> units]

MCGrant ==
    [member |-> G("thabo", "weekly", "Smithfield", 9, 2),
     term |-> G("lindi", "weekly", "Durban", 10, 3),
     visit |-> G("lindi", "pass", "Durban", 9, None)]

MCLastEntry == [tablet |-> [Smithfield |-> 4, Durban |-> None]]
MCVisits == {<<"tablet", "Durban", 10>>}

Facilitator == [role |-> "facilitator", location |-> "Smithfield", school |-> "North"]

C(op, by, player, type, school, started, payment, draw) ==
    [op |-> op, by |-> by, player |-> player, type |-> type, school |-> school,
     started |-> started, payment |-> payment, draw |-> draw]

Pay(product, cents) == [product |-> product, cents |-> cents]
Units(ent, amount) == [ent |-> ent, amount |-> amount]

MCCall ==
    [r1 |-> C("session", Manager("Smithfield"), "thabo", "lounge", None, None,
              Pay("weekly", 10), Units("member", 2)),
     r2 |-> C("session", Founder, "thabo", "kit", None, None, Pay("gone", 20), Units("member", 1)),
     r3 |-> C("session", Facilitator, "thabo", "lesson", "South", None, None, None),
     r4 |-> C("session", Facilitator, "thabo", "lesson", None, 2, None, None),
     r5 |-> C("payment", Founder, "lindi", None, None, None, Pay("game", 5), None)]
=============================================================================
