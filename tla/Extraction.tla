---------------------------- MODULE Extraction ----------------------------
(***************************************************************************)
(* The pure functions between a source and the database, checked against   *)
(* reference definitions on every bounded input: the lesson parser, the    *)
(* reader of model output, the date and amount rules.  The input is a      *)
(* lesson document or a model answer that grows block by block, or one     *)
(* date or amount.                                                         *)
(***************************************************************************)
EXTENDS LessonDocument

CONSTANTS
    Blocks,     \* the blocks a document may consist of
    MaxBlocks,
    Items,      \* the candidates a model answer may list
    MaxItems,
    Dates,
    Amounts

\* The forms that LessonDocument, ModelOutput and Validator give to confidences, dates and amounts.
ASSUME InputsAssumption ==
    /\ \A b \in Blocks : IsBlock(b)
    /\ \A item \in Items : item.confidence = <<>> \/ item.confidence[1] \in Int
    /\ Dates \subseteq Int \X Int \X Int
    /\ Amounts \subseteq {Absent, <<"text">>} \cup ({"R", "bare"} \X Int)

MO == INSTANCE ModelOutput

VARIABLE input   \* <<what, value>>

Default == "file"

\* The forms of an answer that list no candidates.
Unlisted == {"empty", "broken", "scalar", "records_scalar"}

InitInput ==
    input \in {<<"document", <<>>>>}
             \cup {<<"answer", [form |-> f, items |-> <<>>]>> : f \in Unlisted \cup {"list", "records"}}
             \cup {<<"date", d>> : d \in Dates}
             \cup {<<"amount", a>> : a \in Amounts}

GrowDocument ==
    /\ input[1] = "document"
    /\ Len(input[2]) < MaxBlocks
    /\ \E b \in Blocks : input' = <<"document", Append(input[2], b)>>

GrowAnswer ==
    /\ input[1] = "answer"
    /\ input[2].form \notin Unlisted
    /\ Len(input[2].items) < MaxItems
    /\ \E item \in Items : input' = <<"answer", [input[2] EXCEPT !.items = Append(@, item)]>>

GrowInput == GrowDocument \/ GrowAnswer

InputSpec == InitInput /\ [][GrowInput]_input

-----------------------------------------------------------------------------
(* Reference: a document cut at its LESSON markers *)

Marks(doc) == {i \in 1..Len(doc) : doc[i].kind = "lesson"}

\* Where the n-th lesson starts; a document without a marker is one lesson.
Start(doc, n) ==
    IF Marks(doc) = {} THEN 1
    ELSE CHOOSE i \in Marks(doc) : Cardinality({j \in Marks(doc) : j <= i}) = n

Section(doc, n) ==
    LET later == {i \in Marks(doc) : i > Start(doc, n)}
    IN  SubSeq(doc, Start(doc, n), IF later = {} THEN Len(doc) ELSE Min(later) - 1)

BlockMetrics(b) ==
    CASE b.kind = "table"  -> ExtractTableMetrics(b)
      [] b.kind = "metric" -> ParseMetricLine(b.parts)
      [] OTHER -> <<>>

\* The blocks that name the lesson; the last one does.
Named(sec) == {i \in 1..Len(sec) : sec[i].kind \in {"lesson", "title"} /\ sec[i].value # Blank}

SectionTitle(sec) == IF Named(sec) = {} THEN Default ELSE sec[Max(Named(sec))].value

SectionRecords(sec) ==
    LET metrics == FlattenSeq([i \in 1..Len(sec) |-> BlockMetrics(sec[i])])
    IN  <<<<"lessons", SectionTitle(sec)>>>>
        \o [i \in 1..Len(metrics) |-> <<metrics[i].player, metrics[i].type, SectionTitle(sec)>>]

\* The records of a document are those of its sections one after the other: each
\* measurement is recorded under the lesson it stands in, by the title that
\* lesson has in the end, right after that lesson's record; what stands before
\* the first marker of several lessons is left out (parse_lesson_document,
\* _iter_block_items, _lesson_records_for_file).
MetricsStayInTheirLesson ==
    input[1] = "document" =>
        LET doc  == input[2]
            recs == LessonRecords(doc, Default)
            n    == IF Marks(doc) = {} THEN 1 ELSE Cardinality(Marks(doc))
        IN  FlattenSeq([i \in 1..n |-> SectionRecords(Section(doc, i))])
            = [i \in 1..Len(recs) |->
                 IF recs[i].table = "lessons" THEN <<"lessons", recs[i].what>>
                 ELSE <<recs[i].name, recs[i].what[1], recs[i].lesson>>]

\* No answer is dropped silently: each candidate gives one record, an answer that
\* lists none in a readable form gives a malformed one, and what is malformed is
\* caught by the threshold of Validate.  Confidence is a share, whatever the model
\* says, and only a number it gave lifts it over one half (parse_item_content,
\* _coerce_confidence).
NoAnswerDropped ==
    input[1] = "answer" =>
        LET recs == MO!ParseItemContent(input[2])
        IN  /\ input[2].form \in Unlisted => Len(recs) = 1 /\ recs[1].malformed
            /\ input[2].form \notin Unlisted => Len(recs) = Len(input[2].items)
            /\ \A i \in 1..Len(recs) :
                  /\ recs[i].malformed /\ Threshold > 0 => recs[i].confidence < Threshold
                  /\ recs[i].confidence \in 0..100
                  /\ recs[i].confidence > 50 =>
                        input[2].items[i].confidence # <<>> /\ input[2].items[i].confidence[1] > 50

DateRuleHolds(d) ==
    LET anniversary(n) == <<d[1] + n, d[2], d[3]>>
    IN  /\ ~DateIsImpossible(d, TRUE) <=>
              /\ IsCalendarDate(d)
              /\ d[1] >= 1900
              /\ ~Before(Today, anniversary(3))
              /\ Before(Today, anniversary(101))
        /\ ~DateIsImpossible(d, FALSE) <=>
              IsCalendarDate(d) /\ d[1] >= 1900 /\ ~Before(Today, d)

AmountRuleHolds(a) ==
    LET cents == AmountToCents(a)
    IN  /\ ~AmountHasNoTier(a) => cents \in Prices
        /\ cents # NoCents /\ a[1] = "R" => cents = a[2]
        /\ cents # NoCents => cents = a[2] \/ cents * 100 = a[2]

\* A birth date passes from the third birthday until the day before the hundred
\* and first, any other date from 1900 until today, and only days of the calendar
\* do.  An amount that passes is loaded at a list price, one written with R as
\* written, and a bare number never as something it cannot mean (_age_years,
\* _date_is_impossible, _amount_has_no_tier against amount_to_cents).
RulesMeetReference ==
    /\ input[1] = "date" => DateRuleHolds(input[2])
    /\ input[1] = "amount" => AmountRuleHolds(input[2])
=============================================================================
