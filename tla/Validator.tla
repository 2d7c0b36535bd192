----------------------------- MODULE Validator -----------------------------
(***************************************************************************)
(* The deterministic rules a record passes on its way from Extract to      *)
(* Load: funhouse_pipeline/validate/validator.py, and the amount           *)
(* conversion of funhouse_pipeline/load/loader.py that must agree with it. *)
(*                                                                         *)
(* A date is <<year, month, day>>, which need not exist in the calendar    *)
(* (text that is no date at all is such a triple too), or Absent.  An      *)
(* amount is <<"R", n>> or <<"bare", n>>, n in hundredths of the number    *)
(* written, <<"text">> where no number can be read, or Absent.  Names are  *)
(* normalised already: <<first, last>>, last = "" for a bare first name.   *)
(***************************************************************************)
EXTENDS Integers, FiniteSets, FiniteSetsExt, Sequences

CONSTANTS
    Prices,      \* the positive prices of products and tiers, in cents
    Threshold,   \* confidence_threshold, in percent
    Today        \* reference_date

ASSUME PricesAssumption ==
    /\ Prices \subseteq Nat \ {0}
    /\ Threshold \in 0..100
    /\ Today \in Int \X Int \X Int

Absent == <<>>
Blank == ""
NoCents == -1

MIN_PLAUSIBLE_YEAR == 1900
MIN_AGE == 3
MAX_AGE == 100

LeapYear(y) == y % 4 = 0 /\ (y % 100 # 0 \/ y % 400 = 0)

DaysInMonth(y, m) ==
    CASE m \in {4, 6, 9, 11} -> 30
      [] m = 2 -> IF LeapYear(y) THEN 29 ELSE 28
      [] OTHER -> 31

\* What datetime.fromisoformat accepts.
IsCalendarDate(d) ==
    /\ d[1] \in 1..9999
    /\ d[2] \in 1..12
    /\ d[3] \in 1..DaysInMonth(d[1], d[2])

Before(a, b) ==
    \/ a[1] < b[1]
    \/ a[1] = b[1] /\ a[2] < b[2]
    \/ a[1] = b[1] /\ a[2] = b[2] /\ a[3] < b[3]

\* A plausible bug: the years are subtracted and the birthday is ignored.
AgeYearsByCalendar(birth, ref) == ref[1] - birth[1]

\* _age_years
AgeYears(birth, ref) ==
    LET hadBirthday == ref[2] > birth[2] \/ (ref[2] = birth[2] /\ ref[3] >= birth[3])
    IN  ref[1] - birth[1] - (IF hadBirthday THEN 0 ELSE 1)

\* _date_is_impossible
DateIsImpossible(d, isBirth) ==
    /\ d # Absent
    /\ \/ ~IsCalendarDate(d)
       \/ Before(Today, d)
       \/ d[1] < MIN_PLAUSIBLE_YEAR
       \/ isBirth /\ AgeYears(d, Today) \notin MIN_AGE..MAX_AGE

-----------------------------------------------------------------------------
\* _amount_candidates_cents: a bare whole number may be Rands or cents.
AmountCandidates(a) ==
    IF Len(a) < 2 THEN {}
    ELSE {a[2]} \cup (IF a[1] = "bare" /\ a[2] % 100 = 0 THEN {a[2] \div 100} ELSE {})

\* _amount_has_no_tier
AmountHasNoTier(a) == AmountCandidates(a) \cap Prices = {}

\* amount_to_cents without the look at the known prices, a plausible bug.
AmountToCentsRandOnly(a) == IF AmountCandidates(a) = {} THEN NoCents ELSE a[2]

\* amount_to_cents: the smallest candidate that is a price, else Rands.
AmountToCents(a) ==
    IF AmountCandidates(a) = {} THEN NoCents
    ELSE IF AmountCandidates(a) \cap Prices # {} THEN Min(AmountCandidates(a) \cap Prices)
    ELSE a[2]

-----------------------------------------------------------------------------
\* validate: every rule the record breaks; none makes it clean.  With no known
\* name the name rule is off.  A lesson names nobody and has no date.
Reasons(r, known) ==
    LET named == r.table # "lessons" /\ r.name # Absent
    IN  (IF r.confidence < Threshold THEN {"LOW_CONFIDENCE"} ELSE {})
        \cup (IF r.table # "lessons" /\ DateIsImpossible(r.date, r.table = "players")
              THEN {"IMPOSSIBLE_DATE"} ELSE {})
        \cup (IF known # {} /\ named /\ r.name \notin known THEN {"UNKNOWN_NAME"} ELSE {})
        \cup (IF r.table = "payments" /\ AmountHasNoTier(r.amount)
              THEN {"AMOUNT_NO_TIER"} ELSE {})

Clean(r, known) == Reasons(r, known) = {}
=============================================================================
