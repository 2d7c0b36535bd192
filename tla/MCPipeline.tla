----------------------------- MODULE MCPipeline -----------------------------
(***************************************************************************)
(* A pay card and a photo with the same file name, a lesson document and a *)
(* file of an unsupported type.  The card can be read in several ways: a   *)
(* player and a payment by a bare first name, the player without birth     *)
(* date, a payment with low confidence and a player without a name, or     *)
(* nothing.  The photo names sessions of a known school, of an unknown one *)
(* and of an unknown type.                                                 *)
(***************************************************************************)
EXTENDS Pipeline

Card == <<"cards", "1", "image">>
Photo == <<"photos", "1", "image">>
Week == <<"lessons", "week", "docx">>
Notes == <<"lessons", "notes", "other">>

Thabo == <<"thabo", "m">>
Birth == <<2010, 5, 6>>
Monday == <<2024, 1, 8>>

Rec(table, name, date, amount, confidence, what, lesson) ==
    [table |-> table, name |-> name, date |-> date, amount |-> amount,
     confidence |-> confidence, what |-> what, lesson |-> lesson]

Player(birth, school) == Rec("players", Thabo, birth, Absent, 90, school, Blank)
Payment(name, amount, confidence) ==
    Rec("payments", name, Monday, amount, confidence, Blank, Blank)

MCSource == <<Card, Notes, Photo, Week>>

MCReadings ==
    Card  :> {<<>>,
              <<Player(Birth, "North"), Payment(<<"thabo", "">>, <<"bare", 500000>>, 90)>>,
              <<Player(Absent, "South"), Payment(Thabo, <<"R", 5000>>, 40),
                Rec("players", Absent, Birth, Absent, 90, "North", Blank)>>} @@
    Photo :> {<<Rec("sessions", Thabo, Monday, Absent, 90, "kit", "North"),
                Rec("sessions", Thabo, Monday, Absent, 90, "lounge", "South"),
                Rec("sessions", Thabo, Monday, Absent, 90, "chess", Blank)>>}

\* A lesson whose title is given after its first measurement.
MCDocuments ==
    Week :> <<[kind |-> "lesson", value |-> Blank],
              [kind |-> "metric",
               parts |-> <<Thabo, [exact |-> "quiz_score", words |-> {"quiz"}], "7", Monday>>],
              [kind |-> "title", value |-> "Solar"]>>

Cmd(run, stage, resume, seed, bucket) ==
    [run |-> run, stage |-> stage, resume |-> resume, seed |-> seed, bucket |-> bucket]

MCCommands ==
    {Cmd("r1", "all", FALSE, TRUE, TRUE), Cmd("r1", "all", TRUE, TRUE, TRUE),
     Cmd("r2", "load", FALSE, FALSE, FALSE), Cmd("r1", "archive", FALSE, TRUE, FALSE)}

MCPrices == {5000, 10000}
MCToday == <<2024, 3, 1>>
\* The player that the card names, or a namesake when it gives no birth date.
MCApiPlayers == {<<"players", Thabo, Birth>>}
=============================================================================
