---------------------------- MODULE ModelOutput ----------------------------
(***************************************************************************)
(* Reading the answer of the language model for one image                  *)
(* (funhouse_pipeline/extract/records.py).  An answer is [form, items]:    *)
(*   form   "empty", "broken" (no JSON), "scalar", "list", "object",       *)
(*          "records" ({"records": [...]}), "records_scalar"               *)
(*   items  the candidates: [map, table, confidence], confidence in        *)
(*          percent, or <<>> where it is missing, a Boolean, text or not    *)
(*          finite                                                         *)
(* A parsed record is [table, confidence, malformed].                      *)
(***************************************************************************)
EXTENDS Integers, Sequences

TARGET_TABLES == {"players", "sessions", "payments", "lessons", "student_metrics"}

DEFAULT_CONFIDENCE == 50
MALFORMED_CONFIDENCE == 0

\* _malformed: the content is kept, in the table for malformed output.
Malformed == [table |-> "players", confidence |-> MALFORMED_CONFIDENCE, malformed |-> TRUE]

\* _clamp
Clamp(c) == IF c < 0 THEN 0 ELSE IF c > 100 THEN 100 ELSE c

\* _coerce_confidence and its default: <<>> where there is no finite number.
CoerceConfidence(c) == IF c = <<>> THEN DEFAULT_CONFIDENCE ELSE Clamp(c[1])

\* _normalize_record
NormalizeRecord(item) ==
    IF ~item.map \/ item.table \notin TARGET_TABLES THEN Malformed
    ELSE [table |-> item.table, confidence |-> CoerceConfidence(item.confidence), malformed |-> FALSE]

\* A plausible bug: an answer that is no list of records is passed over.
ParseItemContentLenient(answer) ==
    IF answer.form \in {"list", "object", "records"}
    THEN [i \in 1..Len(answer.items) |-> NormalizeRecord(answer.items[i])]
    ELSE <<>>

\* parse_item_content
ParseItemContent(answer) ==
    IF answer.form \in {"list", "object", "records"}
    THEN [i \in 1..Len(answer.items) |-> NormalizeRecord(answer.items[i])]
    ELSE <<Malformed>>
=============================================================================
