-------------------------- MODULE MCPlayerRegistry --------------------------
(***************************************************************************)
(* Two requests for the same child, sent to two locations and with two     *)
(* schools, and one for a child of the same name without birth date.       *)
(***************************************************************************)
EXTENDS PlayerRegistry

F(role, scope, location, birth, school, cs) ==
    [role |-> role, scope |-> scope, location |-> location, name |-> "thabo m",
     birth |-> birth, school |-> school, consents |-> cs]

MCForm ==
    [r1 |-> F("manager", "Smithfield", None, "2010", "North", <<"data", "photo">>),
     r2 |-> F("founder", None, "Durban", "2010", "South", <<"data">>),
     r3 |-> F("manager", "Smithfield", None, None, None, <<"data">>)]
=============================================================================
