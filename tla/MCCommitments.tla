---------------------------- MODULE MCCommitments ----------------------------
(***************************************************************************)
(* A call on 9 August 2026, around midnight.  The caller has two accounts, *)
(* and has said one date in several forms, days before and after today,    *)
(* with one digit and with two, and pairs of texts that the guard against  *)
(* repeated writes has to tell apart.                                      *)
(***************************************************************************)
EXTENDS CommitmentsClaims

Date(year, month, day) == [y |-> year, m |-> month, d |-> day]

MCDay1 == Date(2026, 8, 9)

Mention(form, year, month, day, suffixed) ==
    [form |-> form, y |-> year, m |-> month, d |-> day, suffixed |-> suffixed]

Promise(mention, vague, sum, sumFirst) ==
    [topic |-> "promise", mention |-> mention, timed |-> FALSE, vague |-> vague, sum |-> sum,
     sumFirst |-> sumFirst]

Callback(mention, timed) ==
    [topic |-> "callback", mention |-> mention, timed |-> timed, vague |-> FALSE, sum |-> 0,
     sumFirst |-> FALSE]

(* Dates said in every form; with a day that has passed this year, one     *)
(* that is today, and one that may be read in two ways.                    *)
MCPromises ==
    {Promise(Mention("month_day", 0, 8, 5, FALSE), FALSE, 500, TRUE),
     Promise(Mention("month_day", 0, 8, 25, FALSE), FALSE, 500, FALSE),
     Promise(Mention("month_day_year", 2026, 8, 25, FALSE), FALSE, 500, TRUE),
     Promise(Mention("day_month_year", 2026, 8, 25, FALSE), FALSE, 1900, TRUE),
     Promise(Mention("month_day", 0, 8, 9, TRUE), FALSE, 500, TRUE),
     Promise(Mention("iso", 2026, 8, 25, FALSE), FALSE, 500, FALSE),
     Promise(Mention("slash", 2026, 9, 8, FALSE), FALSE, 500, TRUE),
     Promise(Mention("hyphen", 2026, 8, 25, FALSE), FALSE, 500, TRUE),
     Promise(Mention("hyphen", 2026, 9, 8, FALSE), FALSE, 500, TRUE),
     Promise(Mention("tomorrow", 0, 1, 1, FALSE), FALSE, 500, TRUE),
     Promise(Mention("iso", 2026, 8, 25, FALSE), TRUE, 500, TRUE)}

MCOthers ==
    {Callback(Mention("tomorrow", 0, 1, 1, FALSE), TRUE),
     Callback(Mention("month_day_year", 2026, 8, 25, FALSE), TRUE),
     Callback(Mention("month_day_year", 2026, 8, 21, FALSE), TRUE),
     [Promise(Mention("month_day", 0, 8, 25, FALSE), FALSE, 0, FALSE) EXCEPT !.topic = "denial"]}

MCTexts == MCPromises \cup MCOthers

(* The code as digits and as an amount, an amount in words, other digits.  *)
MCCode == <<6, 4, 2, 5>>
MCNumbers == {[digits |-> MCCode, money |-> FALSE], [digits |-> MCCode, money |-> TRUE],
              [digits |-> <<5, 0, 0>>, money |-> FALSE]}

MCCalendar == {Date(2026, 8, 5), Date(2027, 8, 5), Date(2026, 8, 9), Date(2026, 8, 10),
               Date(2026, 8, 25), Date(2026, 9, 8)}
=============================================================================
