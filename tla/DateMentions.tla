---------------------------- MODULE DateMentions ----------------------------
(***************************************************************************)
(* Dates in a caller's words: what PreOrchestratorGuard.normalize makes of *)
(* them (voice/pre_orchestrator.py), which dates the tools read from them  *)
(* (business/executor.py) and what the guard against repeated writes       *)
(* compares (voice/idempotency.py); and the digits of a spoken code        *)
(* (business/verification.py).                                             *)
(*                                                                         *)
(* 29 February is left out of the calendar.                                *)
(***************************************************************************)
EXTENDS Integers, Sequences

DaysIn(m) == CASE m = 2 -> 28 [] m \in {4, 6, 9, 11} -> 30 [] OTHER -> 31

Dates == {t \in [y : Nat, m : 1 .. 12, d : 1 .. 31] : t.d <= DaysIn(t.m)}

Before(s, t) ==
    \/ s.y < t.y
    \/ s.y = t.y /\ s.m < t.m
    \/ s.y = t.y /\ s.m = t.m /\ s.d < t.d

NextDay(t) ==
    CASE t.d < DaysIn(t.m) -> [t EXCEPT !.d = @ + 1]
      [] t.d = DaysIn(t.m) /\ t.m < 12 -> [y |-> t.y, m |-> t.m + 1, d |-> 1]
      [] OTHER -> [y |-> t.y + 1, m |-> 1, d |-> 1]

(* Mutation: a day that has passed this year is left there.                *)
NextOccurrenceThisYear(m, d, today) == [y |-> today.y, m |-> m, d |-> d]

(* replace_month_day: this year, or next year where that has passed.       *)
NextOccurrence(m, d, today) ==
    LET candidate == [y |-> today.y, m |-> m, d |-> d]
    IN  IF Before(candidate, today) THEN [candidate EXCEPT !.y = @ + 1] ELSE candidate

-----------------------------------------------------------------------------
(* How a date is said: "August 25", "August 25, 2026", "25 August",        *)
(* "25 August 2026", 2026-08-25, 25/08/2026 or 08/25/2026, 25-08-2026,     *)
(* "tomorrow", or not at all.  A suffix is the th of 25th.  "garbled" is   *)
(* what a failed normalisation leaves, d the number after the month there. *)
Forms == {"month_day", "month_day_year", "day_month", "day_month_year",
          "iso", "slash", "hyphen", "tomorrow", "none", "garbled"}

Mentions == [form : Forms, y : Nat, m : 1 .. 31, d : 1 .. 31, suffixed : BOOLEAN]

DateOf(mention) == [y |-> mention.y, m |-> mention.m, d |-> mention.d]

WithYear(t) == [form |-> "month_day_year", y |-> t.y, m |-> t.m, d |-> t.d,
                suffixed |-> FALSE]

Garbled(m, d) == [form |-> "garbled", y |-> 0, m |-> m, d |-> d, suffixed |-> FALSE]

(* MONTH_RE.sub(replace_month_day): a month and a day get their year.  The *)
(* pattern must not be followed by a year, but it can give up a digit or   *)
(* the suffix to be so: of "August 25, 2026" it takes "August 2", of       *)
(* "25 August 2026" it takes "August 20", and a year goes in between.      *)
Resolved(mention, today) ==
    CASE mention.form = "month_day" -> WithYear(NextOccurrence(mention.m, mention.d, today))
      [] mention.form = "month_day_year" /\ mention.suffixed -> Garbled(mention.m, mention.d)
      [] mention.form = "month_day_year" /\ ~mention.suffixed /\ mention.d >= 10 ->
            Garbled(mention.m, mention.d \div 10)
      [] mention.form = "day_month_year" -> Garbled(mention.m, mention.y \div 100)
      [] mention.form = "garbled" /\ mention.d >= 10 -> Garbled(mention.m, mention.d \div 10)
      [] OTHER -> mention

-----------------------------------------------------------------------------
BothReadings(mention) ==
    {t \in {DateOf(mention), [y |-> mention.y, m |-> mention.d, d |-> mention.m]} : t \in Dates}

(* Mutation: 08/25/2026 and 25/08/2026 are read with the day first only.   *)
ReadingsDayFirst(mention) ==
    CASE mention.form \in {"month_day_year", "day_month_year"} /\ ~mention.suffixed ->
            {DateOf(mention)}
      [] mention.form \in {"iso", "hyphen", "slash"} -> {DateOf(mention)}
      [] OTHER -> {}

(* _extract_dates                                                          *)
Readings(mention) ==
    CASE mention.form \in {"month_day_year", "day_month_year"} /\ ~mention.suffixed ->
            {DateOf(mention)}
      [] mention.form \in {"iso", "hyphen"} -> {DateOf(mention)}
      [] mention.form = "slash" -> BothReadings(mention)
      [] OTHER -> {}

(* What a caller who says this on a day may mean; a day without a year is  *)
(* the next such day.                                                      *)
Coming(m, d, on) ==
    {t \in {[y |-> year, m |-> m, d |-> d] : year \in {on.y, on.y + 1}} :
        /\ ~Before(t, on)
        /\ t.y > on.y => Before([t EXCEPT !.y = on.y], on)}

Meant(mention, on) ==
    CASE mention.form \in {"month_day", "day_month"} -> Coming(mention.m, mention.d, on)
      [] mention.form \in {"month_day_year", "day_month_year", "iso", "hyphen"} ->
            {DateOf(mention)}
      [] mention.form = "slash" -> BothReadings(mention)
      [] mention.form = "tomorrow" -> {NextDay(on)}
      [] OTHER -> {}

(* _date_token: the characters of the date, where one of the patterns      *)
(* finds any; of a garbled one the month and the number after it.          *)
DateToken(mention) ==
    IF mention.form \in {"iso", "slash", "month_day_year", "garbled"}
    THEN [form |-> IF mention.form = "garbled" THEN "month_day_year" ELSE mention.form,
          y |-> mention.y, m |-> mention.m, d |-> mention.d]
    ELSE [form |-> "none", y |-> 0, m |-> 1, d |-> 1]

-----------------------------------------------------------------------------
(* What the recogniser makes of a spoken number: its digits, or an amount  *)
(* with a point before the last two.                                       *)
(* _extract_four_digits: <<>> where there are not four.  Of an amount with *)
(* two places before the point, smart_format is taken to have dropped a    *)
(* leading zero, and to have put one behind the point.                     *)
FourDigits(heard) ==
    CASE Len(heard.digits) # 4 -> <<>>
      [] Len(heard.digits) = 4 /\ ~heard.money -> heard.digits
      [] Len(heard.digits) = 4 /\ heard.money ->
            <<0, heard.digits[1], heard.digits[2], heard.digits[4]>>
=============================================================================
