-------------------------- MODULE LessonDocument --------------------------
(***************************************************************************)
(* The text parser for lesson documents                                    *)
(* (funhouse_pipeline/extract/lessons.py).  A document is a sequence of    *)
(* blocks in document order:                                               *)
(*   [kind |-> "empty"]  [kind |-> "text"]   a paragraph that is no marker *)
(*   [kind |-> "lesson" | "title" | "topic" | "phenomenon", value]         *)
(*   [kind |-> "metric", parts]              player, label, value and date *)
(*   [kind |-> "table", header, rows]                                      *)
(* A metric label is [exact, words]: the label with underscores, and the   *)
(* keywords it contains.                                                   *)
(***************************************************************************)
EXTENDS Validator, SequencesExt

\* The elements of s that are in S, in their order: SelectSeq, which the provers
\* do not read.
Only(s, S) ==
    LET kept[n \in 0..Len(s)] ==
            IF n = 0 THEN <<>>
            ELSE IF s[n] \in S THEN Append(kept[n - 1], s[n]) ELSE kept[n - 1]
    IN  kept[Len(s)]

IsSequence(s) == s \in Seq(ToSet(s))

\* What python-docx and the patterns make of a paragraph or a table.
IsBlock(b) ==
    /\ b.kind \in {"empty", "text", "lesson", "title", "topic", "phenomenon", "metric", "table"}
    /\ b.kind = "table" => IsSequence(b.header) /\ IsSequence(b.rows)

ALLOWED_METRIC_TYPES ==
    {"typing_wpm", "typing_accuracy", "homework_done", "quiz_score", "observation"}

KEYWORDS == <<<<"wpm", "typing_wpm">>, <<"words per minute", "typing_wpm">>,
              <<"accuracy", "typing_accuracy">>, <<"homework", "homework_done">>,
              <<"quiz", "quiz_score">>, <<"observation", "observation">>,
              <<"notes", "observation">>>>

\* _normalize_metric_type: the exact name, else the first keyword.
NormalizeMetricType(label) ==
    LET hits == {i \in 1..Len(KEYWORDS) : KEYWORDS[i][1] \in label.words}
    IN  IF label.exact \in ALLOWED_METRIC_TYPES THEN label.exact
        ELSE IF hits = {} THEN Blank ELSE KEYWORDS[Min(hits)][2]

Metric(player, type, value, date) ==
    [player |-> player, type |-> type, value |-> value, date |-> date]

\* _parse_metric_line: no metric, or one.
ParseMetricLine(parts) ==
    IF Len(parts) < 3 \/ parts[1] = Absent \/ parts[3] = Blank
       \/ NormalizeMetricType(parts[2]) = Blank
    THEN <<>>
    ELSE <<Metric(parts[1], NormalizeMetricType(parts[2]), parts[3],
                  IF Len(parts) >= 4 THEN parts[4] ELSE Absent)>>

\* One row of a metric table: the filled cells under the columns that name a metric.
RowMetrics(header, row) ==
    LET columns == Only([i \in 1..Len(header) - 1 |-> i + 1],
                        {i \in 1..Len(header) : /\ NormalizeMetricType(header[i]) # Blank
                                                /\ i <= Len(row)
                                                /\ row[i] # Blank})
    IN  IF row[1] = Absent THEN <<>>
        ELSE [n \in 1..Len(columns) |->
                Metric(row[1], NormalizeMetricType(header[columns[n]]), row[columns[n]], Absent)]

\* _extract_table_metrics: nothing unless the first header names a person.
ExtractTableMetrics(table) ==
    IF table.header = <<>> \/ ~table.header[1].person THEN <<>>
    ELSE FlattenSeq([i \in 1..Len(table.rows) |-> RowMetrics(table.header, table.rows[i])])

-----------------------------------------------------------------------------
\* _LessonBuilder
LessonBuilder(title) ==
    [title |-> title, topic |-> Blank, phenomenon |-> Blank, content |-> 0, metrics |-> <<>>]

\* The lesson being read: the last one, or the preamble before any marker.
Current(st) == IF st.lessons = <<>> THEN st.preamble ELSE Last(st.lessons)

Amend(st, lesson) ==
    IF st.lessons = <<>> THEN [st EXCEPT !.preamble = lesson]
    ELSE [st EXCEPT !.lessons[Len(st.lessons)] = lesson]

AddMetrics(st, metrics) == Amend(st, [Current(st) EXCEPT !.metrics = @ \o metrics])

\* A plausible bug: the tables, which python-docx lists apart from the
\* paragraphs, all go to the first lesson.
AddTableToFirst(st, table) ==
    IF st.lessons = <<>> THEN AddMetrics(st, ExtractTableMetrics(table))
    ELSE [st EXCEPT !.lessons[1].metrics = @ \o ExtractTableMetrics(table)]

\* _iter_block_items keeps the document order: a table belongs where it stands.
AddTable(st, table) == AddMetrics(st, ExtractTableMetrics(table))

\* The body of parse_lesson_document's loop.
ReadBlock(st, block, default) ==
    LET now == Current(st)
    IN  CASE block.kind = "empty"  -> st
          [] block.kind = "text"   -> Amend(st, [now EXCEPT !.content = @ + 1])
          [] block.kind = "table"  -> AddTable(st, block)
          [] block.kind = "metric" -> AddMetrics(st, ParseMetricLine(block.parts))
          [] block.kind = "lesson" ->
               [st EXCEPT !.lessons =
                   Append(@, LessonBuilder(IF block.value = Blank THEN default ELSE block.value))]
          [] block.kind = "title"  ->
               Amend(st, [now EXCEPT !.title = IF block.value = Blank THEN @ ELSE block.value])
          [] block.kind \in {"topic", "phenomenon"} ->
               Amend(st, [now EXCEPT ![block.kind] = block.value])

\* parse_lesson_document: without a LESSON marker the document is one lesson.
ParseLessonDocument(doc, default) ==
    LET read[n \in 0..Len(doc)] ==
            IF n = 0 THEN [lessons |-> <<>>, preamble |-> LessonBuilder(default)]
            ELSE ReadBlock(read[n - 1], doc[n], default)
        end == read[Len(doc)]
    IN  IF end.lessons = <<>> THEN <<end.preamble>> ELSE end.lessons

MetricRecord(m, title) ==
    [table |-> "student_metrics", name |-> m.player, date |-> m.date, amount |-> Absent,
     confidence |-> 100, what |-> <<m.type, m.value>>, lesson |-> title]

\* _lesson_records_for_file: each lesson, then the metrics taken in it.
LessonRecords(doc, default) ==
    LET lessons == ParseLessonDocument(doc, default)
    IN  FlattenSeq([n \in 1..Len(lessons) |->
            <<[table |-> "lessons", name |-> Absent, date |-> Absent, amount |-> Absent,
               confidence |-> 100, what |-> lessons[n].title, lesson |-> Blank]>>
            \o [i \in 1..Len(lessons[n].metrics) |->
                  MetricRecord(lessons[n].metrics[i], lessons[n].title)]])
=============================================================================
