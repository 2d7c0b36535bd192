---------------------------- MODULE ProductRules ----------------------------
(***************************************************************************)
(* The pure derivations of funhouse_api/entitlements/engine.py: what a     *)
(* product's rules say about the allowance and the weekly period.          *)
(*                                                                         *)
(* An instant is a number of ticks of the UTC clock.  A calendar date is a *)
(* day number; day 0 is a Monday, so date.weekday() is the remainder by 7. *)
(* A rules mapping is a record whose fields are None where the JSON key is *)
(* absent.                                                                 *)
(***************************************************************************)
EXTENDS Integers

CONSTANTS
    None,         \* an absent JSON key, SQL NULL, Python None
    TicksPerDay,  \* length of a day in ticks
    UtcOffset     \* the location's timezone, ticks ahead of UTC

ASSUME ClockAssumption ==
    /\ TicksPerDay \in Nat \ {0}
    /\ UtcOffset \in Nat
    /\ None \notin Int
    /\ None \notin STRING

MinutesPerHour == 60

\* date.weekday() of each name that engine.py recognises.
Weekdays ==
    [monday |-> 0, tuesday |-> 1, wednesday |-> 2, thursday |-> 3,
     friday |-> 4, saturday |-> 5, sunday |-> 6]

RulesType ==
    [hours_per_week : Nat \cup {None}, hours : Nat \cup {None},
     units : Nat \cup {None}, sessions : Nat \cup {None},
     reset : STRING \cup {None}]

\* Hours become minutes, counts are taken verbatim, and a product with
\* neither is unlimited (None).
AllowanceUnits(rules) ==
    IF rules.hours_per_week # None THEN rules.hours_per_week * MinutesPerHour
    ELSE IF rules.hours # None THEN rules.hours * MinutesPerHour
    ELSE IF rules.units # None THEN rules.units
    ELSE rules.sessions

IsRecurring(rules) == rules.reset # None \/ rules.hours_per_week # None

\* An absent or unrecognised weekday name anchors the week on Monday.
ResetWeekday(rules) ==
    IF rules.reset \in DOMAIN Weekdays THEN Weekdays[rules.reset]
                                       ELSE Weekdays["monday"]

LocalDate(now) == (now + UtcOffset) \div TicksPerDay

\* The latest day, on or before the local date of now, that falls on the
\* anchor weekday.
PeriodStart(rules, now) ==
    LET today == LocalDate(now)
    IN  today - (((today % 7) - ResetWeekday(rules)) % 7)

\* valid_from and remaining_units of a new entitlement.  derive_window also
\* computes valid_to, which no operation of the engine reads.
DeriveWindow(rules, now) ==
    [units |-> AllowanceUnits(rules),
     from  |-> IF IsRecurring(rules) THEN PeriodStart(rules, now)
                                     ELSE LocalDate(now)]

\* Mutant: the units left over roll into the new period.
ResetWithRollover(units, from, rules, now) ==
    IF IsRecurring(rules) /\ from # None /\ PeriodStart(rules, now) > from
    THEN [units |-> IF units = None THEN None ELSE units + AllowanceUnits(rules),
          from  |-> PeriodStart(rules, now)]
    ELSE [units |-> units, from |-> from]

\* Mutant: any other period resets, an earlier one too.
ResetOnAnyPeriod(units, from, rules, now) ==
    IF IsRecurring(rules) /\ from # None /\ PeriodStart(rules, now) # from
    THEN [units |-> AllowanceUnits(rules), from |-> PeriodStart(rules, now)]
    ELSE [units |-> units, from |-> from]

\* What reset_if_new_period returns for a row holding these units since
\* this valid_from: a later period restores the allowance, and what was
\* left of the earlier one is discarded.  A row without a valid_from is not
\* reset.
ResetIfNewPeriod(units, from, rules, now) ==
    IF IsRecurring(rules) /\ from # None /\ PeriodStart(rules, now) > from
    THEN [units |-> AllowanceUnits(rules), from |-> PeriodStart(rules, now)]
    ELSE [units |-> units, from |-> from]
=============================================================================
