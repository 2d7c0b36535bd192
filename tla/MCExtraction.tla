---------------------------- MODULE MCExtraction ----------------------------
(***************************************************************************)
(* Documents of up to five blocks, answers of up to three candidates,      *)
(* dates around the boundaries of the rules, amounts with and without R.   *)
(***************************************************************************)
EXTENDS Extraction

Label(exact, words) == [exact |-> exact, words |-> words, person |-> FALSE]
Person == [exact |-> "student", words |-> {}, person |-> TRUE]

MCBlocks ==
    {[kind |-> "text"],
     [kind |-> "lesson", value |-> "Solar"], [kind |-> "lesson", value |-> Blank],
     [kind |-> "title", value |-> "Wind"], [kind |-> "title", value |-> Blank],
     [kind |-> "metric", parts |-> <<<<"ann", "b">>, Label("quiz", {"quiz", "notes"}), "7">>],
     [kind |-> "metric", parts |-> <<<<"ann", "b">>, Label("mood", {}), "7">>],
     [kind |-> "table", header |-> <<Person, Label("typing_wpm", {"wpm"}), Label("mood", {})>>,
      rows |-> <<<<<<"bob", "">>, "30", "1">>, <<Absent, "31", "2">>, <<<<"cat", "">>, Blank>>>>]}

MCItems ==
    {[map |-> FALSE, table |-> "players", confidence |-> <<90>>],
     [map |-> TRUE, table |-> "pets", confidence |-> <<90>>],
     [map |-> TRUE, table |-> "payments", confidence |-> <<>>],
     [map |-> TRUE, table |-> "payments", confidence |-> <<90>>],
     [map |-> TRUE, table |-> "players", confidence |-> <<150>>],
     [map |-> TRUE, table |-> "players", confidence |-> <<-5>>]}

MCDates ==
    {<<y, m, d>> : y \in {1899, 1900, 1922, 1923, 1924, 2020, 2021, 2024, 2025},
                   m \in {1, 2, 3, 4, 12, 13}, d \in {1, 28, 29, 30, 31}}

MCAmounts ==
    {Absent, <<"text">>}
    \cup ({"R", "bare"} \X {0, 100, 3000, 3050, 5000, 10000, 300000, 500000, 500050, 1000000})

MCPrices == {3000, 5000, 10000, 500000}
MCToday == <<2024, 2, 29>>
=============================================================================
