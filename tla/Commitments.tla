----------------------------- MODULE Commitments -----------------------------
(***************************************************************************)
(* What a caller undertakes in one call: promises to pay and callbacks.    *)
(* The words go through the normalisation before the router, through the   *)
(* guard against repeated writes, and, with the arguments the router model *)
(* gives, through the tool's checks (voice/runtime.py _respond,            *)
(* business/executor.py).  A caller who is not verified is asked for a     *)
(* code, and then the request is taken up again from its start, with the   *)
(* words as they were left by the first time.                              *)
(*                                                                         *)
(* One turn at a time: what interruptions do is the subject of             *)
(* AccountTurns and VoiceSession.                                          *)
(***************************************************************************)
EXTENDS DateMentions, FiniteSets

CONSTANTS
    Texts,          \* what the caller may say, one of Wordings each
    Numbers,        \* what the caller may say while a code is awaited
    Code,           \* the digits on record
    Calendar,       \* dates the router model may come up with
    Accounts,       \* account ids it may come up with
    Own,            \* the accounts of the session's customer
    NoAccount, NoDate, NoRequest,
    Day1,           \* the day of the call
    MaxTurns,       \* bound: turns
    MaxDays,        \* bound: midnights during the call
    MaxExpiries,    \* bound: verifications and remembered writes that expire
    MaxAttempts     \* max_attempts

(* What a text is about, as candidate_key sees it; "denial" is "I am not   *)
(* ...".  A callback may name a time of the day, a text may have words     *)
(* that make it vague (VAGUE_DATE_TERMS), and an amount, before or after   *)
(* the date.                                                               *)
Wordings == [topic : {"promise", "callback", "denial"}, mention : Mentions,
             timed : BOOLEAN, vague : BOOLEAN, sum : Nat, sumFirst : BOOLEAN]

ASSUME CallAssumption ==
    /\ Texts \subseteq Wordings
    /\ \A t \in Texts : t.mention.form # "garbled"
    /\ \A t \in Texts : DateOf(t.mention) \in Dates \/ t.mention.form = "slash"
    /\ \A t \in Texts : t.mention.form = "day_month_year" => t.mention.y \in 2000 .. 2099
    /\ Numbers \subseteq [digits : Seq(0 .. 9), money : BOOLEAN]
    /\ Code \in Seq(0 .. 9) /\ Len(Code) = 4
    /\ Calendar \subseteq Dates /\ NoDate \notin Dates
    /\ Own \subseteq Accounts /\ IsFiniteSet(Own) /\ NoAccount \notin Accounts
    /\ Day1 \in Dates
    /\ MaxTurns \in Nat /\ MaxDays \in Nat /\ MaxExpiries \in Nat
    /\ MaxAttempts \in Nat \ {0}

Tools == {"record_promise_to_pay", "schedule_callback", "request_human_escalation"}
Protected == {"record_promise_to_pay", "schedule_callback"}

(* A request: its words as they were said and the day, the words now, and  *)
(* whether it was resumed after a code.                                    *)
ProperRequests == [said : Texts, on : Dates, words : Wordings, resumed : BOOLEAN]

ASSUME NoRequestAssumption == NoRequest \notin ProperRequests

VARIABLES
    today, days,    \* the calendar, and midnights so far
    stage,          \* of the turn: "idle" between turns
    turn,           \* the request in hand
    pending,        \* pending_request
    challenge, attempts, verified,
    remembered,     \* SessionWriteIdempotency._records
    rows,           \* what the tools recorded, with the request it was for
    reply,          \* what the caller was told last
    named,          \* history: the date of the model's that was refused
    heard,          \* history: the number that was taken for a code
    turns, expiries

vars == <<today, days, stage, turn, pending, challenge, attempts, verified, remembered,
          rows, reply, named, heard, turns, expiries>>

NoNumber == [digits |-> <<>>, money |-> FALSE]

TypeOK ==
    /\ today \in Dates /\ days \in 0 .. MaxDays
    /\ stage \in {"idle", "confirming", "router"}
    /\ turn \in ProperRequests \cup {NoRequest}
    /\ stage # "idle" => turn # NoRequest
    /\ pending \in ProperRequests \cup {NoRequest}
    /\ challenge = "awaiting" => pending # NoRequest
    /\ challenge \in {"none", "awaiting", "locked"}
    /\ attempts \in 0 .. MaxAttempts
    /\ challenge = "awaiting" => attempts < MaxAttempts
    /\ verified \in BOOLEAN
    /\ rows \subseteq [tool : Tools, account : Accounts \cup {NoAccount},
                       date : Dates \cup {NoDate}, request : ProperRequests]
    /\ reply \in {"none", "repeated", "code_please", "not_a_code", "wrong_code", "locked",
                  "verified", "which_account", "not_yours", "which_date", "unverified_date",
                  "recorded", "unheard", "other"}
    /\ named \in Dates \cup {NoDate}
    /\ heard \in Numbers \cup {NoNumber}
    /\ turns \in 0 .. MaxTurns /\ expiries \in 0 .. MaxExpiries

Init ==
    /\ today = Day1 /\ days = 0
    /\ stage = "idle" /\ turn = NoRequest /\ pending = NoRequest
    /\ challenge = "none" /\ attempts = 0 /\ verified = FALSE
    /\ remembered = {} /\ rows = {}
    /\ reply = "none" /\ named = NoDate /\ heard = NoNumber
    /\ turns = 0 /\ expiries = 0

clock == <<today, days>>
identity == <<challenge, attempts, verified, pending>>
memory == <<remembered, rows>>
counters == <<turns, expiries>>

-----------------------------------------------------------------------------
(* normalize: "I am not ..." becomes "You have the wrong person.", whatever*)
(* follows; dates get their year; and in a callback with a time of the day *)
(* tomorrow gets its date, after the others.                               *)
WrongPerson ==
    [topic |-> "denial",
     mention |-> [form |-> "none", y |-> 0, m |-> 1, d |-> 1, suffixed |-> FALSE],
     timed |-> FALSE, vague |-> FALSE, sum |-> 0, sumFirst |-> FALSE]

Normalized(words, now) ==
    CASE words.topic = "denial" -> WrongPerson
      [] words.topic = "callback" /\ words.timed /\ words.mention.form = "tomorrow" ->
            [words EXCEPT !.mention = WithYear(NextDay(now))]
      [] OTHER -> [words EXCEPT !.mention = Resolved(@, now)]

(* _amount: the first number in the text, which may be of the date.  Where *)
(* it is of a garbled date the key is never looked for among promises.     *)
FirstNumber(words) ==
    CASE words.sumFirst \/ words.mention.form \in {"none", "tomorrow"} -> words.sum
      [] ~words.sumFirst /\ words.mention.form = "iso" -> words.mention.y
      [] OTHER -> words.mention.d

Key(words) ==
    CASE words.topic = "promise" ->
            [topic |-> "promise", date |-> DateToken(words.mention),
             number |-> FirstNumber(words)]
      [] words.topic = "callback" ->
            [topic |-> "callback", date |-> DateToken(words.mention), number |-> 0]
      [] words.topic = "denial" ->
            [topic |-> "denial", date |-> DateToken(words.mention), number |-> 0]

(* _respond up to the router: the guard answers what it takes for a repeat.*)
Responds(request) ==
    /\ turn' = request
    /\ IF Key(request.words) \in remembered
       THEN stage' = "idle" /\ reply' = "repeated"
       ELSE stage' = "router" /\ reply' = "none"

Says(text) ==
    /\ stage = "idle" /\ challenge # "awaiting" /\ turns < MaxTurns
    /\ Responds([said |-> text, on |-> today, words |-> Normalized(text, today),
                 resumed |-> FALSE])
    /\ turns' = turns + 1
    /\ named' = NoDate /\ heard' = NoNumber
    /\ UNCHANGED <<clock, identity, memory, expiries>>

-----------------------------------------------------------------------------
(* consume_input                                                           *)
SaysNumber(number) ==
    /\ stage = "idle" /\ challenge = "awaiting" /\ turns < MaxTurns
    /\ turns' = turns + 1
    /\ heard' = number
    /\ UNCHANGED <<clock, memory, named, expiries>>

NotACode(number) ==
    /\ SaysNumber(number)
    /\ FourDigits(number) = <<>>
    /\ reply' = "not_a_code"
    /\ UNCHANGED <<stage, turn, identity>>

CodeMatches(number) ==
    /\ SaysNumber(number)
    /\ FourDigits(number) = Code
    /\ challenge' = "none" /\ attempts' = 0 /\ verified' = TRUE
    /\ stage' = "confirming" /\ reply' = "verified"
    /\ turn' = pending /\ pending' = NoRequest

(* Mutation: one attempt too many.                                         *)
CodeDiffersOnceMore(number) ==
    /\ SaysNumber(number)
    /\ FourDigits(number) \notin {<<>>, Code}
    /\ attempts' = attempts + 1
    /\ IF attempts' > MaxAttempts
       THEN challenge' = "locked" /\ pending' = NoRequest /\ reply' = "locked"
       ELSE reply' = "wrong_code" /\ UNCHANGED <<challenge, pending>>
    /\ UNCHANGED <<stage, turn, verified>>

CodeDiffers(number) ==
    /\ SaysNumber(number)
    /\ FourDigits(number) \notin {<<>>, Code}
    /\ attempts' = attempts + 1
    /\ IF attempts' >= MaxAttempts
       THEN challenge' = "locked" /\ pending' = NoRequest /\ reply' = "locked"
       ELSE reply' = "wrong_code" /\ UNCHANGED <<challenge, pending>>
    /\ UNCHANGED <<stage, turn, verified>>

(* _respond(resumed): the words are normalised a second time.              *)
Resumes ==
    /\ stage = "confirming"
    /\ Responds([said |-> turn.said, on |-> turn.on,
                 words |-> Normalized(turn.words, today), resumed |-> TRUE])
    /\ heard' = NoNumber
    /\ UNCHANGED <<clock, identity, memory, named, counters>>

-----------------------------------------------------------------------------
(* A clarification, retrieval, a failure: no tool has written.             *)
RouterAnswers ==
    /\ stage = "router"
    /\ stage' = "idle" /\ reply' = "other"
    /\ UNCHANGED <<clock, turn, identity, memory, named, heard, counters>>

Cleared(tool) == tool \notin Protected \/ (verified /\ challenge # "locked")

(* The gate of execute, and begin.                                         *)
NeedsVerification(tool) ==
    /\ stage = "router" /\ ~Cleared(tool)
    /\ stage' = "idle"
    /\ IF challenge = "locked"
       THEN reply' = "locked" /\ UNCHANGED <<challenge, pending>>
       ELSE reply' = "code_please" /\ challenge' = "awaiting" /\ pending' = turn
    /\ UNCHANGED <<clock, turn, attempts, verified, memory, named, heard, counters>>

(* _resolve_account, of what the model gave.                               *)
AccountOf(given) ==
    IF given = NoAccount
    THEN IF Cardinality(Own) = 1 THEN CHOOSE a \in Own : TRUE ELSE NoAccount
    ELSE IF given \in Own THEN given ELSE NoAccount

Vague(words) == words.vague \/ words.mention.form = "tomorrow"

(* Mutation: any date is taken where the text has one.                     *)
ValidatedUnread(words, date) ==
    date # NoDate /\ ~Vague(words) /\ Readings(words.mention) # {}

(* _validate_explicit_date: the model may not invent a date.               *)
Validated(words, date) == ~Vague(words) /\ date \in Readings(words.mention)

Refuses(answer, date) ==
    /\ stage' = "idle" /\ reply' = answer /\ named' = date
    /\ UNCHANGED <<clock, turn, identity, memory, heard, counters>>

RefusesAccount(given) ==
    /\ stage = "router" /\ Cleared("record_promise_to_pay")
    /\ AccountOf(given) = NoAccount
    /\ Refuses(IF given = NoAccount THEN "which_account" ELSE "not_yours", NoDate)

MissesDate(tool) ==
    /\ stage = "router" /\ tool \in Protected /\ Cleared(tool)
    /\ tool = "record_promise_to_pay" => \E given \in Accounts \cup {NoAccount} :
                                            AccountOf(given) # NoAccount
    /\ Refuses("which_date", NoDate)

(* Mutation: what is remembered is that the caller asked.                  *)
RefusesDateAndRemembers(date) ==
    /\ stage = "router" /\ Cleared("record_promise_to_pay")
    /\ \E given \in Accounts \cup {NoAccount} : AccountOf(given) # NoAccount
    /\ ~Validated(turn.words, date)
    /\ stage' = "idle" /\ reply' = "unverified_date" /\ named' = date
    /\ remembered' = remembered \cup {Key(turn.words)}
    /\ UNCHANGED <<clock, turn, identity, rows, heard, counters>>

RefusesDate(date) ==
    /\ stage = "router" /\ Cleared("record_promise_to_pay")
    /\ \E given \in Accounts \cup {NoAccount} : AccountOf(given) # NoAccount
    /\ ~Validated(turn.words, date)
    /\ Refuses("unverified_date", date)

-----------------------------------------------------------------------------
(* The tool's row, and remember_success unless the result came too late to *)
(* be told or a later write of the tool failed.                            *)
Records(tool, account, date) ==
    /\ stage' = "idle"
    /\ rows' = rows \cup {[tool |-> tool, account |-> account, date |-> date,
                           request |-> turn]}
    /\ \/ reply' = "recorded" /\ remembered' = remembered \cup {Key(turn.words)}
       \/ reply' = "unheard" /\ UNCHANGED remembered
    /\ UNCHANGED <<clock, turn, identity, named, heard, counters>>

RecordsPromise(given, date) ==
    /\ stage = "router" /\ Cleared("record_promise_to_pay")
    /\ AccountOf(given) # NoAccount
    /\ Validated(turn.words, date)
    /\ Records("record_promise_to_pay", AccountOf(given), date)

(* The time of a callback is the model's: only its form is checked.        *)
SchedulesCallback(date) ==
    /\ stage = "router" /\ Cleared("schedule_callback")
    /\ Records("schedule_callback", NoAccount, date)

RequestsEscalation ==
    /\ stage = "router"
    /\ Records("request_human_escalation", NoAccount, NoDate)

-----------------------------------------------------------------------------
DayPasses ==
    /\ days < MaxDays
    /\ today' = NextDay(today) /\ days' = days + 1
    /\ UNCHANGED <<stage, turn, memory, identity, reply, named, heard, counters>>

VerificationExpires ==
    /\ verified /\ expiries < MaxExpiries
    /\ verified' = FALSE
    /\ expiries' = expiries + 1
    /\ UNCHANGED <<clock, stage, turn, pending, challenge, attempts, memory, reply, named,
                   heard, turns>>

RemembranceExpires(key) ==
    /\ expiries < MaxExpiries
    /\ remembered' = remembered \ {key}
    /\ expiries' = expiries + 1
    /\ UNCHANGED <<clock, stage, turn, identity, rows, reply, named, heard, turns>>

Consumes(number) == NotACode(number) \/ CodeMatches(number) \/ CodeDiffers(number)

Next ==
    \/ \E text \in Texts : Says(text)
    \/ \E number \in Numbers : Consumes(number)
    \/ Resumes
    \/ RouterAnswers
    \/ \E tool \in Tools : NeedsVerification(tool) \/ MissesDate(tool)
    \/ \E given \in Accounts \cup {NoAccount} :
        \/ RefusesAccount(given)
        \/ \E date \in Calendar : RecordsPromise(given, date)
    \/ \E date \in Calendar : RefusesDate(date) \/ SchedulesCallback(date)
    \/ RequestsEscalation
    \/ DayPasses
    \/ VerificationExpires
    \/ \E key \in remembered : RemembranceExpires(key)

Spec == Init /\ [][Next]_vars

-----------------------------------------------------------------------------
(* A promise is on record only for a day that the caller may have meant    *)
(* when it was said, whatever date the model named, however often the      *)
(* words were normalised and whatever day it has become since (normalize,  *)
(* _validate_explicit_date), and on an account of the caller's.            *)
PromisedAsSaid ==
    \A row \in rows : row.tool = "record_promise_to_pay" =>
        /\ row.date \in Meant(row.request.said.mention, row.request.on)
        /\ row.account \in Own

(* What normalisation or the reader of dates spoils.                       *)
Spoilt(request) ==
    LET mention == request.said.mention
    IN  \/ request.said.topic = "denial"
        \/ Vague(request.said)
        \/ mention.form \in {"day_month", "day_month_year"}
        \/ mention.form = "month_day_year" /\ (mention.suffixed \/ mention.d >= 10)
        \/ mention.form = "month_day" /\ mention.d >= 10 /\ request.resumed

(* A caller who is clear is not asked again: if the model named the day    *)
(* that was meant and it is refused, the words are of a kind that          *)
(* normalisation spoils (normalize, _extract_dates); and a code is counted *)
(* as wrong only if other digits were said or it was heard as an amount    *)
(* (_extract_four_digits).                                                 *)
RefusedIsUnclear ==
    /\ reply = "unverified_date" /\ named \in Meant(turn.said.mention, turn.on) =>
         Spoilt(turn)
    /\ reply \in {"wrong_code", "locked"} => heard.digits # Code \/ heard.money

(* The date of a text survives in its key.                                 *)
Dated(request) == DateToken(request.words.mention).y # 0

(* Who is told that an action was already recorded has a row of a request  *)
(* that the guard takes for this one; and if both name a promise's day in  *)
(* a form the guard knows, it is the day meant now (check,                 *)
(* remember_success).                                                      *)
RepeatedIsOnRecord ==
    reply = "repeated" =>
        \E row \in rows :
            /\ Key(row.request.words) = Key(turn.words)
            /\ row.tool = "record_promise_to_pay" /\ Dated(turn) =>
                 row.date \in Meant(turn.said.mention, turn.on)
=============================================================================
