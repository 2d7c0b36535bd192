--------------------------- MODULE MCSyncService ---------------------------
(***************************************************************************)
(* Two locations, one school.  bob is a lounge customer of location A, kim *)
(* a pupil of the school, ann is not registered; bob2 has the name of bob  *)
(* and a birth date.  Four callers send batches that meet on the session   *)
(* keys s1 and s2 and on the attendance key att.                           *)
(***************************************************************************)
EXTENDS SyncService, TLC

CONSTANTS A, B, academy, other, bob, bob2, kim, ann, local, s1, s2, att, pay, d1, d2, d3

MCDeliveries == {d1, d2, d3}
MCSymmetry == Permutations(MCDeliveries)
MCDedupKeys == {bob, bob2, kim, ann}
MCNameOf == (bob :> "bob") @@ (bob2 :> "bob") @@ (kim :> "kim") @@ (ann :> "ann")
MCNaturalKeys == {s1, s2, att, pay}

MCInitialPlayers ==
    (bob :> [loc |-> A, school |-> None, grade |-> None]) @@ (bob2 :> None)
    @@ (kim :> [loc |-> A, school |-> academy, grade |-> None]) @@ (ann :> None)

Founder == [role |-> "founder", loc |-> None, school |-> None]
Manager(loc) == [role |-> "manager", loc |-> loc, school |-> None]
Facilitator == [role |-> "facilitator", loc |-> A, school |-> academy]

Action(client, ts, entity) ==
    [client |-> client, ts |-> ts, entity |-> entity, player |-> None, key |-> None,
     loc |-> None, school |-> None, grade |-> None, session |-> None,
     valid |-> TRUE, lesson |-> FALSE, value |-> client, reference |-> Omitted]

Player(client, key) == [Action(client, 1, "player") EXCEPT !.key = key, !.grade = "7"]

Consent(client, player) == [Action(client, 1, "consent") EXCEPT !.player = player]

Session(client, ts, player, key, reference) ==
    [Action(client, ts, "session") EXCEPT
       !.player = player, !.key = key, !.lesson = TRUE, !.reference = reference]

Attendance(client, ts, player, session) ==
    [Action(client, ts, "attendance") EXCEPT
       !.player = player, !.key = att, !.session = session]

Payment(client, valid) ==
    [Action(client, 1, "payment") EXCEPT !.player = bob, !.key = pay, !.valid = valid]

Batch(scope, actions) == [scope |-> scope, actions |-> actions]

MCBatches ==
    { Batch(Manager(A), <<Player(1, ann), Session(2, 1, bob, s1, "ref")>>),
      Batch(Manager(A), <<Session(3, 2, bob, s1, Omitted), Consent(4, bob),
                          Player(5, bob2)>>),
      Batch(Founder, <<Session(6, 2, bob, s1, None), Payment(7, TRUE),
                       Payment(8, FALSE)>>),
      Batch(Facilitator, <<Session(9, 2, kim, s2, Omitted),
                           Attendance(10, 1, kim, s2),
                           [Session(11, 3, kim, s2, Omitted) EXCEPT !.school = other],
                           Consent(12, kim)>>),
      Batch(Manager(A), <<[Session(13, 1, kim, s2, Omitted) EXCEPT !.school = other],
                          [Player(14, ann) EXCEPT !.school = academy]>>),
      Batch(Manager(B), <<Player(15, bob), Consent(16, bob), Consent(17, local)>>) }
=============================================================================
