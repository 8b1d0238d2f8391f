-------------------------- MODULE CommitmentsProofs --------------------------
(***************************************************************************)
(* Proofs about Commitments, for any texts, numbers, calendar and accounts *)
(* and for calls of any length.                                            *)
(***************************************************************************)
EXTENDS Commitments, FiniteSetTheorems, TLAPS

(* The day after a date is a date.                                         *)
LEMMA NextDayIsADate ==
    ASSUME NEW t \in Dates
    PROVE  NextDay(t) \in Dates
<1>1. t \in [y : Nat, m : 1 .. 12, d : 1 .. 31] /\ t.d <= DaysIn(t.m)
  BY DEF Dates
<1>2. \A m \in 1 .. 12 : DaysIn(m) \in 28 .. 31
  BY DEF DaysIn
<1>3. CASE t.d < DaysIn(t.m)
  <2>1. NextDay(t) = [t EXCEPT !.d = @ + 1]
    BY <1>1, <1>2, <1>3 DEF NextDay
  <2> QED
    BY <1>1, <1>2, <1>3, <2>1 DEF Dates
<1>4. CASE t.d = DaysIn(t.m) /\ t.m < 12
  <2>1. NextDay(t) = [y |-> t.y, m |-> t.m + 1, d |-> 1]
    BY <1>1, <1>2, <1>4 DEF NextDay
  <2>2. t.m + 1 \in 1 .. 12 /\ DaysIn(t.m + 1) \in 28 .. 31
    BY <1>1, <1>2, <1>4
  <2> QED
    BY <1>1, <2>1, <2>2 DEF Dates
<1>5. CASE t.d = DaysIn(t.m) /\ t.m = 12
  <2>1. NextDay(t) = [y |-> t.y + 1, m |-> 1, d |-> 1]
    BY <1>1, <1>2, <1>5 DEF NextDay
  <2> QED
    BY <1>1, <1>2, <2>1 DEF Dates
<1> QED
  BY <1>1, <1>2, <1>3, <1>4, <1>5

(* A mention that was given its year reads as that day alone.              *)
LEMMA WithYearReads ==
    ASSUME NEW t, t \in [y : Nat, m : 1 .. 31, d : 1 .. 31]
    PROVE  WithYear(t) \in Mentions /\ Readings(WithYear(t)) = {t}
BY DEF WithYear, Mentions, Forms, Readings, DateOf

(* The next occurrence of a day is what is meant by it, and nothing else.  *)
LEMMA NextOccurrenceIsMeant ==
    ASSUME NEW m \in 1 .. 31, NEW d \in 1 .. 31, NEW on \in Dates
    PROVE  /\ NextOccurrence(m, d, on) \in [y : Nat, m : 1 .. 31, d : 1 .. 31]
           /\ Coming(m, d, on) = {NextOccurrence(m, d, on)}
<1> DEFINE this == [y |-> on.y, m |-> m, d |-> d]
           next == [y |-> on.y + 1, m |-> m, d |-> d]
<1>1. on.y \in Nat /\ on.m \in Nat /\ on.d \in Nat
  BY DEF Dates
<1>2. NextOccurrence(m, d, on) = IF Before(this, on) THEN next ELSE this
  BY DEF NextOccurrence
<1>3. ~Before(next, on) /\ [next EXCEPT !.y = on.y] = this
  BY <1>1 DEF Before
<1>4. this \in Coming(m, d, on) <=> ~Before(this, on)
  BY <1>1 DEF Coming
<1>5. next \in Coming(m, d, on) <=> Before(this, on)
  BY <1>1, <1>3 DEF Coming
<1>6. Coming(m, d, on) \subseteq {this, next}
  BY DEF Coming
<1> QED
  BY <1>1, <1>2, <1>4, <1>5, <1>6

-----------------------------------------------------------------------------
(* Once normalised, words read as days the caller may have meant, and as   *)
(* all of them where nothing of them is spoilt.  Normalising again neither *)
(* adds a year (there is no bare month and day left) nor moves tomorrow to *)
(* another day.                                                            *)
RequestInv(r) ==
    /\ r.words.mention.form \notin {"month_day", "day_month_year"}
    /\ r.words.mention.form = "month_day_year" => ~r.words.mention.suffixed
    /\ r.words.mention.form = "garbled" => r.words.mention.y = 0
    /\ r.words.topic = "callback" /\ r.words.timed => r.words.mention.form # "tomorrow"
    /\ Readings(r.words.mention) \subseteq Meant(r.said.mention, r.on)
    /\ ~Spoilt(r) =>
         /\ r.words.topic # "denial" /\ ~Vague(r.words)
         /\ r.words.mention.form = "month_day_year" => r.words.mention.d = r.said.mention.d
         /\ r.said.mention.form \in {"month_day", "month_day_year"} <=>
              r.words.mention.form = "month_day_year"
         /\ Meant(r.said.mention, r.on) \subseteq Readings(r.words.mention)

(* What Resolved returns, form by form.                                    *)
LEMMA ResolvedCases ==
    ASSUME NEW mention \in Mentions, NEW now
    PROVE  /\ mention.form = "month_day" => Resolved(mention, now) =
                WithYear(NextOccurrence(mention.m, mention.d, now))
           /\ mention.form = "month_day_year" =>
                \/ ~mention.suffixed /\ mention.d < 10 /\ Resolved(mention, now) = mention
                \/ /\ mention.suffixed \/ mention.d >= 10
                   /\ \E d \in 1 .. 31 : Resolved(mention, now) = Garbled(mention.m, d)
           /\ mention.form = "day_month_year" =>
                Resolved(mention, now) = Garbled(mention.m, mention.y \div 100)
           /\ mention.form = "garbled" =>
                \/ Resolved(mention, now) = mention
                \/ \E d \in 1 .. 31 : Resolved(mention, now) = Garbled(mention.m, d)
           /\ mention.form \in {"day_month", "iso", "slash", "hyphen", "tomorrow", "none"} =>
                Resolved(mention, now) = mention
<1>1. mention.d \in 1 .. 31 /\ mention.m \in 1 .. 31 /\ mention.y \in Nat
      /\ mention.suffixed \in BOOLEAN
  BY DEF Mentions
<1>2. mention.d >= 10 => mention.d \div 10 \in 1 .. 31
  BY <1>1
<1>3. mention.form = "month_day" => Resolved(mention, now) =
                WithYear(NextOccurrence(mention.m, mention.d, now))
  BY DEF Resolved
<1>4. ASSUME mention.form = "month_day_year"
      PROVE  \/ ~mention.suffixed /\ mention.d < 10 /\ Resolved(mention, now) = mention
             \/ /\ mention.suffixed \/ mention.d >= 10
                /\ \E d \in 1 .. 31 : Resolved(mention, now) = Garbled(mention.m, d)
  <2>1. CASE mention.suffixed
    BY <1>1, <1>4, <2>1 DEF Resolved
  <2>2. CASE ~mention.suffixed /\ mention.d >= 10
    BY <1>1, <1>2, <1>4, <2>2 DEF Resolved
  <2>3. CASE ~mention.suffixed /\ mention.d < 10
    BY <1>1, <1>4, <2>3 DEF Resolved
  <2> QED
    BY <1>1, <2>1, <2>2, <2>3
<1>5. mention.form = "day_month_year" =>
         Resolved(mention, now) = Garbled(mention.m, mention.y \div 100)
  BY DEF Resolved
<1>6. ASSUME mention.form = "garbled"
      PROVE  \/ Resolved(mention, now) = mention
             \/ \E d \in 1 .. 31 : Resolved(mention, now) = Garbled(mention.m, d)
  <2>1. CASE mention.d >= 10
    BY <1>1, <1>2, <1>6, <2>1 DEF Resolved
  <2>2. CASE mention.d < 10
    BY <1>1, <1>6, <2>2 DEF Resolved
  <2> QED
    BY <1>1, <2>1, <2>2
<1>7. mention.form \in {"day_month", "iso", "slash", "hyphen", "tomorrow", "none"} =>
         Resolved(mention, now) = mention
  BY DEF Resolved
<1> QED
  BY <1>3, <1>4, <1>5, <1>6, <1>7

(* No date is read from a garbled mention.                                 *)
LEMMA GarbledIsUnread ==
    ASSUME NEW m \in 1 .. 31, NEW d \in 1 .. 31
    PROVE  Garbled(m, d) \in Mentions /\ Readings(Garbled(m, d)) = {}
BY DEF Garbled, Mentions, Forms, Readings

(* The words of a new request, whatever it is.                             *)
LEMMA SaidOnce ==
    ASSUME NEW said \in Texts, NEW on \in Dates, NEW r,
           r = [said |-> said, on |-> on, words |-> Normalized(said, on), resumed |-> FALSE]
    PROVE  r \in ProperRequests /\ RequestInv(r)
<1> DEFINE mention == said.mention
           words == Normalized(said, on)
<1>1. said \in Wordings /\ mention \in Mentions
  BY CallAssumption DEF Wordings
<1>2. /\ mention.form # "garbled"
      /\ mention.form = "day_month_year" => mention.y \div 100 \in 1 .. 31
  <2>1. \A y \in 2000 .. 2099 : y \div 100 = 20
    OBVIOUS
  <2>2. mention.form # "garbled" /\ (mention.form = "day_month_year" => mention.y \in 2000 .. 2099)
    BY CallAssumption
  <2> QED
    BY <2>1, <2>2
<1>3. /\ r.said = said /\ r.on = on /\ r.words = words /\ r.resumed = FALSE
      /\ words \in Wordings => r \in ProperRequests
  BY DEF ProperRequests
<1>4. mention.m \in 1 .. 31 /\ mention.d \in 1 .. 31
  BY <1>1 DEF Mentions
<1>5. CASE said.topic = "denial"
  <2>3. words \in Wordings /\ words.mention.form = "none"
    BY <1>5 DEF Normalized, WrongPerson, Wordings, Mentions, Forms
  <2>4. Spoilt(r)
    BY <1>3, <1>5 DEF Spoilt
  <2>5. Readings(words.mention) = {}
    BY <2>3 DEF Readings
  <2> QED
    BY <1>3, <2>3, <2>4, <2>5 DEF RequestInv
<1>6. CASE said.topic = "callback" /\ said.timed /\ mention.form = "tomorrow"
  <2>1. words = [said EXCEPT !.mention = WithYear(NextDay(on))]
    BY <1>6 DEF Normalized
  <2>2. NextDay(on) \in [y : Nat, m : 1 .. 31, d : 1 .. 31]
    BY NextDayIsADate DEF Dates
  <2>3. words \in Wordings /\ words.mention = WithYear(NextDay(on))
    BY <1>1, <2>1, <2>2, WithYearReads DEF Wordings
  <2>4. words.mention.form = "month_day_year" /\ words.mention.suffixed = FALSE
    BY <2>3 DEF WithYear
  <2>5. Spoilt(r)
    BY <1>3, <1>6 DEF Spoilt, Vague
  <2>6. Readings(words.mention) \subseteq Meant(mention, on)
    BY <1>6, <2>2, <2>3, WithYearReads DEF Meant
  <2> QED
    BY <1>3, <2>3, <2>4, <2>5, <2>6 DEF RequestInv
<1>7. CASE said.topic # "denial" /\ ~(said.topic = "callback" /\ said.timed
                                     /\ mention.form = "tomorrow")
  <2> DEFINE now == Resolved(mention, on)
  <2>1. words = [said EXCEPT !.mention = now]
    BY <1>7 DEF Normalized
  <2>2. /\ words.mention = now /\ words.topic = said.topic /\ words.timed = said.timed
        /\ words.vague = said.vague
        /\ now \in Mentions => words \in Wordings
    BY <1>1, <2>1 DEF Wordings
  <2> HIDE DEF words, now
  <2>3. CASE mention.form = "month_day"
    <3> DEFINE next == NextOccurrence(mention.m, mention.d, on)
    <3>1. now = WithYear(next)
      BY <1>1, <2>3, ResolvedCases DEF now
    <3>2. next \in [y : Nat, m : 1 .. 31, d : 1 .. 31] /\ Coming(mention.m, mention.d, on) = {next}
      BY <1>4, NextOccurrenceIsMeant
    <3>3. Meant(mention, on) = {next}
      BY <2>3, <3>2 DEF Meant
    <3>4. now \in Mentions /\ Readings(now) = {next} /\ Meant(mention, on) = {next}
      BY <3>1, <3>2, <3>3, WithYearReads
    <3>5. now.form = "month_day_year" /\ now.suffixed = FALSE /\ now.d = mention.d
      BY <1>4, <3>1 DEF WithYear, NextOccurrence
    <3>6. ~Vague(said) => ~Vague(words)
      BY <2>2, <3>5 DEF Vague
    <3> QED
      BY <1>3, <1>7, <2>2, <2>3, <3>4, <3>5, <3>6 DEF RequestInv, Spoilt
  <2>4. CASE /\ mention.form = "month_day_year"
             /\ ~mention.suffixed /\ mention.d < 10
             /\ now = mention
    <3>1. now \in Mentions /\ Readings(now) = {DateOf(mention)} /\ Meant(mention, on) = {DateOf(mention)}
      BY <1>1, <2>4 DEF Meant, Readings
    <3>2. ~Vague(said) => ~Vague(words)
      BY <2>2, <2>4 DEF Vague
    <3> QED
      BY <1>3, <1>7, <2>2, <2>4, <3>1, <3>2 DEF RequestInv, Spoilt
  <2>5. CASE \E d \in 1 .. 31 : now = Garbled(mention.m, d) /\ Spoilt(r)
    <3>1. now \in Mentions /\ Readings(now) = {}
      BY <1>4, <2>5, GarbledIsUnread
    <3>2. now.form = "garbled" /\ now.y = 0
      BY <2>5 DEF Garbled
    <3> QED
      BY <1>3, <2>2, <2>5, <3>1, <3>2 DEF RequestInv
  <2>6. CASE /\ mention.form \in {"day_month", "iso", "slash", "hyphen", "tomorrow", "none"}
             /\ now = mention
    <3>1. mention.form # "day_month" => Readings(now) = Meant(mention, on) \/ mention.form = "tomorrow"
      BY <2>6 DEF Meant, Readings
    <3>2. mention.form \in {"day_month", "tomorrow"} => Readings(now) = {}
      BY <2>6 DEF Readings
    <3>3. mention.form \in {"day_month", "tomorrow"} => Spoilt(r)
      BY <1>3 DEF Spoilt, Vague
    <3>4. ~Vague(said) => ~Vague(words)
      BY <2>2, <2>6 DEF Vague
    <3> QED
      BY <1>1, <1>3, <1>7, <2>2, <2>6, <3>1, <3>2, <3>3, <3>4 DEF RequestInv, Spoilt
  <2>7. mention.form = "month_day_year" /\ (mention.suffixed \/ mention.d >= 10) => Spoilt(r)
    BY <1>3 DEF Spoilt
  <2>8. mention.form = "day_month_year" => Spoilt(r)
    BY <1>3 DEF Spoilt
  <2> QED
    BY <1>1, <1>2, <2>3, <2>4, <2>5, <2>6, <2>7, <2>8, ResolvedCases DEF Mentions, Forms, now
<1> QED
  BY <1>5, <1>6, <1>7

(* The words of a request that is resumed, on whatever day.                *)
LEMMA SaidAgain ==
    ASSUME NEW r \in ProperRequests, RequestInv(r), NEW now \in Dates, NEW s,
           s = [said |-> r.said, on |-> r.on, words |-> Normalized(r.words, now),
                resumed |-> TRUE]
    PROVE  s \in ProperRequests /\ RequestInv(s)
<1> DEFINE mention == r.words.mention
           words == Normalized(r.words, now)
<1>1. r.words \in Wordings /\ mention \in Mentions /\ r.said \in Texts /\ r.on \in Dates
  BY DEF ProperRequests, Wordings
<1>2. /\ s.said = r.said /\ s.on = r.on /\ s.words = words /\ s.resumed = TRUE
      /\ words \in Wordings => s \in ProperRequests
  BY <1>1 DEF ProperRequests
<1>3. mention.m \in 1 .. 31 /\ mention.d \in 1 .. 31
  BY <1>1 DEF Mentions
<1>4. Spoilt(r) => Spoilt(s)
  BY <1>2 DEF Spoilt
<1>5. CASE r.words.topic = "denial"
  <2>1. words \in Wordings /\ words.mention.form = "none"
    BY <1>5 DEF Normalized, WrongPerson, Wordings, Mentions, Forms
  <2>2. Spoilt(s)
    BY <1>4, <1>5 DEF RequestInv
  <2>3. Readings(words.mention) = {}
    BY <2>1 DEF Readings
  <2> QED
    BY <1>2, <2>1, <2>2, <2>3 DEF RequestInv
<1>6. CASE r.words.topic # "denial"
  <2> DEFINE again == Resolved(mention, now)
  <2>1. words = [r.words EXCEPT !.mention = again]
    BY <1>6 DEF Normalized, RequestInv
  <2>2. /\ words.mention = again /\ words.topic = r.words.topic /\ words.timed = r.words.timed
        /\ words.vague = r.words.vague
        /\ again \in Mentions => words \in Wordings
    BY <1>1, <2>1 DEF Wordings
  <2> HIDE DEF words, again
  <2>3. CASE again = mention
    <3>1. Vague(words) = Vague(r.words)
      BY <2>2, <2>3 DEF Vague
    <3> QED
      BY <1>1, <1>2, <1>4, <2>2, <2>3, <3>1 DEF RequestInv
  <2>4. CASE /\ mention.form = "month_day_year" /\ mention.d >= 10
             /\ \E d \in 1 .. 31 : again = Garbled(mention.m, d)
    <3>0. PICK d \in 1 .. 31 : again = Garbled(mention.m, d)
      BY <2>4
    <3>1. again \in Mentions /\ Readings(again) = {} /\ again.form = "garbled" /\ again.y = 0
      <4>1. Garbled(mention.m, d).form = "garbled" /\ Garbled(mention.m, d).y = 0
        BY DEF Garbled
      <4> QED
        BY <1>3, <3>0, <4>1, GarbledIsUnread
    <3>2. ASSUME ~Spoilt(r) PROVE Spoilt(s)
      BY <1>2, <2>4, <3>2 DEF RequestInv, Spoilt
    <3> QED
      BY <1>2, <1>4, <2>2, <3>1, <3>2 DEF RequestInv
  <2>5. CASE mention.form = "garbled" /\ \E d \in 1 .. 31 : again = Garbled(mention.m, d)
    <3>0. PICK d \in 1 .. 31 : again = Garbled(mention.m, d)
      BY <2>5
    <3>1. again \in Mentions /\ Readings(again) = {} /\ again.form = "garbled" /\ again.y = 0
      <4>1. Garbled(mention.m, d).form = "garbled" /\ Garbled(mention.m, d).y = 0
        BY DEF Garbled
      <4> QED
        BY <1>3, <3>0, <4>1, GarbledIsUnread
    <3>2. Readings(mention) = {}
      BY <2>5 DEF Readings
    <3>3. Vague(r.words) = Vague(words)
      BY <2>2, <2>5, <3>1 DEF Vague
    <3> QED
      BY <1>2, <1>4, <2>2, <2>5, <3>1, <3>2, <3>3 DEF RequestInv
  <2> QED
    BY <1>1, <2>3, <2>4, <2>5, ResolvedCases DEF RequestInv, Mentions, Forms, again
<1> QED
  BY <1>5, <1>6

-----------------------------------------------------------------------------
(* An account that is resolved is one of the customer's own.               *)
LEMMA OwnAccounts ==
    ASSUME NEW given
    PROVE  AccountOf(given) \in Own \cup {NoAccount}
<1>1. ASSUME Cardinality(Own) = 1 PROVE (CHOOSE a \in Own : TRUE) \in Own
  BY <1>1, FS_EmptySet
<1> QED
  BY <1>1 DEF AccountOf

(* The requests of the call have been normalised, a promise was validated  *)
(* against them, every remembered key is of a row, and what the caller was *)
(* told last follows from the turn.                                        *)
IInv ==
    /\ TypeOK
    /\ turn # NoRequest => RequestInv(turn)
    /\ pending # NoRequest => RequestInv(pending)
    /\ challenge # "locked" => attempts < MaxAttempts
    /\ stage = "router" => heard = NoNumber
    /\ \A row \in rows :
         /\ RequestInv(row.request)
         /\ row.tool = "record_promise_to_pay" =>
              row.account \in Own /\ row.date \in Readings(row.request.words.mention)
    /\ \A key \in remembered : \E row \in rows : Key(row.request.words) = key
    /\ reply = "unverified_date" => turn # NoRequest /\ ~Validated(turn.words, named)
    /\ reply \in {"wrong_code", "locked"} => heard.digits # Code \/ heard.money
    /\ reply = "repeated" =>
         turn # NoRequest /\ \E row \in rows : Key(row.request.words) = Key(turn.words)

(* What the constants of a call are.                                       *)
LEMMA Bounds ==
    /\ MaxTurns \in Nat /\ MaxDays \in Nat /\ MaxExpiries \in Nat /\ MaxAttempts \in Nat \ {0}
    /\ Day1 \in Dates /\ Calendar \subseteq Dates /\ Own \subseteq Accounts
    /\ NoNumber.digits # Code
BY CallAssumption DEF NoNumber

(* A call in which nothing was said yet.                                   *)
LEMMA InitEstablishes == Init => IInv
<1> SUFFICES ASSUME Init PROVE IInv
  OBVIOUS
<1>0. verified \in BOOLEAN
  BY DEF Init
<1>1. TypeOK
  BY <1>0, Bounds DEF Init, TypeOK
<1> QED
  BY <1>1, Bounds DEF Init, IInv

(* _respond up to the router, for words that are normalised.               *)
LEMMA RespondsPreserves ==
    ASSUME IInv, NEW request \in ProperRequests, RequestInv(request), Responds(request),
           UNCHANGED <<clock, identity, memory, expiries>>,
           named' \in {named, NoDate}, heard' = NoNumber, turns' \in 0 .. MaxTurns
    PROVE  IInv'
<1>1. /\ turn' = request /\ turn' # NoRequest
      /\ reply' \in {"repeated", "none"} /\ stage' \in {"idle", "router"}
      /\ reply' = "repeated" => Key(request.words) \in remembered
  BY NoRequestAssumption DEF Responds
<1>2. TypeOK'
  BY <1>1 DEF IInv, TypeOK, clock, identity, memory
<1>3. reply' = "repeated" => \E row \in rows : Key(row.request.words) = Key(request.words)
  BY <1>1 DEF IInv
<1> QED
  BY <1>1, <1>2, <1>3 DEF IInv, clock, identity, memory

(* What a caller hears who is not verified, or is misunderstood.           *)
LEMMA RefusesPreserves ==
    ASSUME IInv, stage = "router", NEW answer, NEW date \in Calendar \cup {NoDate},
           Refuses(answer, date),
           \/ answer \in {"which_account", "not_yours", "which_date"}
           \/ answer = "unverified_date" /\ ~Validated(turn.words, date)
    PROVE  IInv'
<1>1. turn # NoRequest /\ UNCHANGED <<turn, pending, rows, remembered, heard>>
  BY DEF IInv, TypeOK, Refuses, identity, memory
<1>2. TypeOK'
  BY Bounds DEF IInv, TypeOK, Refuses, clock, identity, memory, counters
<1> QED
  BY <1>1, <1>2 DEF IInv, Refuses, identity

(* A row for a day that was meant.                                         *)
LEMMA RecordsPreserves ==
    ASSUME IInv, stage = "router", NEW tool \in Tools, NEW account \in Own \cup {NoAccount},
           NEW date \in Calendar \cup {NoDate}, Records(tool, account, date),
           tool = "record_promise_to_pay" => account # NoAccount /\ Validated(turn.words, date)
    PROVE  IInv'
<1> DEFINE row == [tool |-> tool, account |-> account, date |-> date, request |-> turn]
<1>1. turn \in ProperRequests /\ RequestInv(turn) /\ UNCHANGED <<turn, pending, heard>>
  BY DEF IInv, TypeOK, Records, identity
<1>2. /\ rows' = rows \cup {row}
      /\ remembered' \subseteq remembered \cup {Key(turn.words)}
      /\ reply' \in {"recorded", "unheard"} /\ stage' = "idle"
  BY DEF Records
<1>3. TypeOK'
  BY <1>1, <1>2, Bounds
  DEF IInv, TypeOK, Records, clock, identity, counters
<1>4. tool = "record_promise_to_pay" =>
         account \in Own /\ date \in Readings(turn.words.mention)
  BY DEF Validated
<1>5. \A key \in remembered' : \E r \in rows' : Key(r.request.words) = key
  <2>1. ASSUME NEW key \in remembered PROVE \E r \in rows' : Key(r.request.words) = key
    BY <1>2 DEF IInv
  <2>2. row \in rows' /\ row.request = turn
    BY <1>2
  <2> QED
    BY <1>2, <2>1, <2>2
<1>6. UNCHANGED <<challenge, attempts>>
  BY DEF Records, identity
<1> QED
  BY <1>1, <1>2, <1>3, <1>4, <1>5, <1>6 DEF IInv

(* IInv is inductive.                                                      *)
LEMMA NextPreserves == IInv /\ [Next]_vars => IInv'
<1> SUFFICES ASSUME IInv, [Next]_vars PROVE IInv'
  OBVIOUS
<1>1. ASSUME NEW text \in Texts, Says(text) PROVE IInv'
  <2> DEFINE request == [said |-> text, on |-> today, words |-> Normalized(text, today),
                         resumed |-> FALSE]
  <2>1. today \in Dates /\ turns' \in 0 .. MaxTurns
    BY <1>1, Bounds DEF Says, IInv, TypeOK
  <2>2. request \in ProperRequests /\ RequestInv(request)
    BY <2>1, SaidOnce
  <2> QED
    BY <1>1, <2>1, <2>2, RespondsPreserves DEF Says
<1>2. ASSUME NEW number \in Numbers, NotACode(number) PROVE IInv'
  BY <1>2, Bounds
  DEF NotACode, SaysNumber, IInv, TypeOK, clock, identity, memory
<1>3. ASSUME NEW number \in Numbers, CodeMatches(number) PROVE IInv'
  <2>1. pending # NoRequest /\ turn' = pending /\ pending' = NoRequest
    BY <1>3 DEF CodeMatches, SaysNumber, IInv, TypeOK
  <2>2. TypeOK'
    BY <1>3, <2>1, Bounds
    DEF CodeMatches, SaysNumber, IInv, TypeOK, clock, memory
  <2> QED
    BY <1>3, <2>1, <2>2, Bounds DEF CodeMatches, SaysNumber, IInv, memory
<1>4. ASSUME NEW number \in Numbers, CodeDiffers(number) PROVE IInv'
  <2>1. TypeOK'
    BY <1>4, Bounds
    DEF CodeDiffers, SaysNumber, IInv, TypeOK, clock, memory
  <2>2. number.digits # Code \/ number.money
    BY <1>4, CallAssumption DEF CodeDiffers, FourDigits
  <2>3. challenge' # "locked" => attempts' < MaxAttempts
    BY <1>4, Bounds DEF CodeDiffers, SaysNumber, IInv, TypeOK
  <2> QED
    BY <1>4, <2>1, <2>2, <2>3 DEF CodeDiffers, SaysNumber, IInv, memory
<1>5. CASE Resumes
  <2> DEFINE request == [said |-> turn.said, on |-> turn.on,
                         words |-> Normalized(turn.words, today), resumed |-> TRUE]
  <2>1. turn \in ProperRequests /\ RequestInv(turn) /\ today \in Dates
    BY <1>5 DEF Resumes, IInv, TypeOK
  <2>2. request \in ProperRequests /\ RequestInv(request)
    BY <2>1, SaidAgain
  <2>3. turns' \in 0 .. MaxTurns
    BY <1>5 DEF Resumes, counters, IInv, TypeOK
  <2> QED
    BY <1>5, <2>2, <2>3, RespondsPreserves DEF Resumes, counters
<1>6. CASE RouterAnswers
  BY <1>6 DEF RouterAnswers, IInv, TypeOK, clock, identity, memory, counters
<1>7. ASSUME NEW tool \in Tools, NeedsVerification(tool) PROVE IInv'
  <2>1. /\ turn # NoRequest /\ heard = NoNumber /\ pending' \in {pending, turn}
        /\ UNCHANGED <<turn, rows, remembered, heard, named>>
        /\ reply' \in {"locked", "code_please"} /\ stage' = "idle"
    BY <1>7 DEF NeedsVerification, IInv, TypeOK, memory
  <2>2. TypeOK'
    BY <1>7, <2>1 DEF NeedsVerification, IInv, TypeOK, clock, memory, counters
  <2>3. challenge' # "locked" => attempts' < MaxAttempts
    BY <1>7 DEF NeedsVerification, IInv
  <2> QED
    BY <2>1, <2>2, <2>3, Bounds DEF IInv
<1>8. ASSUME NEW tool \in Tools, MissesDate(tool) PROVE IInv'
  BY <1>8, RefusesPreserves DEF MissesDate
<1>9. ASSUME NEW given \in Accounts \cup {NoAccount}, RefusesAccount(given) PROVE IInv'
  BY <1>9, RefusesPreserves DEF RefusesAccount
<1>10. ASSUME NEW given \in Accounts \cup {NoAccount}, NEW date \in Calendar,
              RecordsPromise(given, date)
       PROVE  IInv'
  BY <1>10, OwnAccounts, RecordsPreserves DEF RecordsPromise, Tools
<1>11. ASSUME NEW date \in Calendar, RefusesDate(date) PROVE IInv'
  BY <1>11, RefusesPreserves DEF RefusesDate
<1>12. ASSUME NEW date \in Calendar, SchedulesCallback(date) PROVE IInv'
  BY <1>12, RecordsPreserves DEF SchedulesCallback, Tools
<1>13. CASE RequestsEscalation
  BY <1>13, RecordsPreserves DEF RequestsEscalation, Tools
<1>14. CASE DayPasses
  <2>1. today' \in Dates
    BY <1>14, NextDayIsADate DEF DayPasses, IInv, TypeOK
  <2> QED
    BY <1>14, <2>1, Bounds
    DEF DayPasses, IInv, TypeOK, memory, identity, counters
<1>15. CASE VerificationExpires
  <2>0. verified' \in BOOLEAN
    BY <1>15 DEF VerificationExpires
  <2>1. TypeOK'
    BY <1>15, <2>0, Bounds DEF VerificationExpires, IInv, TypeOK, clock, memory
  <2> QED
    BY <1>15, <2>1 DEF VerificationExpires, IInv, memory
<1>16. ASSUME NEW key \in remembered, RemembranceExpires(key) PROVE IInv'
  BY <1>16, Bounds DEF RemembranceExpires, IInv, TypeOK, clock, identity
<1>17. CASE UNCHANGED vars
  BY <1>17 DEF vars, IInv, TypeOK
<1> QED
  BY <1>1, <1>2, <1>3, <1>4, <1>5, <1>6, <1>7, <1>8, <1>9, <1>10, <1>11, <1>12, <1>13, <1>14,
     <1>15, <1>16, <1>17
  DEF Next, Consumes

(* IInv holds throughout.                                                  *)
LEMMA Inductive == Spec => []IInv
BY InitEstablishes, NextPreserves, PTL DEF Spec

-----------------------------------------------------------------------------
(* Variables of Commitments stay within their types.                       *)
THEOREM TypeCorrect == Spec => []TypeOK
<1>1. IInv => TypeOK
  BY DEF IInv
<1> QED
  BY <1>1, Inductive, PTL

(* A promise is on record for a day the caller may have meant and on an    *)
(* account of the caller's (normalize, _validate_explicit_date,            *)
(* _resolve_account), in a call of any length and on any days.             *)
THEOREM PromisesAreAsSaid == Spec => []PromisedAsSaid
<1>1. IInv => PromisedAsSaid
  BY DEF IInv, RequestInv, PromisedAsSaid
<1> QED
  BY <1>1, Inductive, PTL

(* Only words that normalisation spoils have their day refused, and only   *)
(* other digits or an amount count as a wrong code (normalize,             *)
(* _extract_dates, _extract_four_digits).                                  *)
THEOREM RefusalsAreUnclear == Spec => []RefusedIsUnclear
<1>1. ASSUME IInv PROVE RefusedIsUnclear
  <2>1. ASSUME reply = "unverified_date", named \in Meant(turn.said.mention, turn.on)
        PROVE  Spoilt(turn)
    <3>1. RequestInv(turn) /\ ~Validated(turn.words, named)
      BY <1>1, <2>1 DEF IInv
    <3> QED
      BY <2>1, <3>1 DEF RequestInv, Validated
  <2> QED
    BY <1>1, <2>1 DEF IInv, RefusedIsUnclear
<1> QED
  BY <1>1, Inductive, PTL

(* Normalised words with the same dated token are read alike.              *)
LEMMA SameTokenSameReadings ==
    ASSUME NEW a \in Mentions, NEW b \in Mentions,
           DateToken(a) = DateToken(b), DateToken(a).y # 0,
           a.form = "month_day_year" => ~a.suffixed,
           b.form = "month_day_year" => ~b.suffixed,
           a.form = "garbled" => a.y = 0,
           b.form = "garbled" => b.y = 0
    PROVE  Readings(a) = Readings(b)
<1>1. /\ a.form \in {"iso", "slash", "month_day_year"} /\ b.form = a.form
      /\ a.y = b.y /\ a.m = b.m /\ a.d = b.d
  BY DEF DateToken
<1>2. DateOf(a) = DateOf(b) /\ BothReadings(a) = BothReadings(b)
  BY <1>1 DEF DateOf, BothReadings
<1> QED
  BY <1>1, <1>2 DEF Readings

(* Texts with one key have one dated token.                                *)
LEMMA SameKeySameToken ==
    ASSUME NEW a \in Wordings, NEW b \in Wordings, Key(a) = Key(b)
    PROVE  DateToken(a.mention) = DateToken(b.mention)
<1>1. a.topic \in {"promise", "callback", "denial"} /\ b.topic \in {"promise", "callback", "denial"}
  BY DEF Wordings
<1>2. Key(a).date = DateToken(a.mention)
  BY <1>1 DEF Key
<1>3. Key(b).date = DateToken(b.mention)
  BY <1>1 DEF Key
<1> QED
  BY <1>2, <1>3

(* Who hears that an action was already recorded has a row with that key,  *)
(* and for a dated text it is of the day meant now (check,                 *)
(* remember_success, candidate_key).                                       *)
THEOREM RepeatsAreOnRecord == Spec => []RepeatedIsOnRecord
<1>1. ASSUME IInv PROVE RepeatedIsOnRecord
  <2> SUFFICES ASSUME reply = "repeated" PROVE RepeatedIsOnRecord
    BY DEF RepeatedIsOnRecord
  <2>1. turn \in ProperRequests /\ RequestInv(turn)
    BY <1>1 DEF IInv, TypeOK
  <2>2. PICK row \in rows : Key(row.request.words) = Key(turn.words)
    BY <1>1 DEF IInv
  <2>3. row.request \in ProperRequests /\ RequestInv(row.request)
    BY <1>1 DEF IInv, TypeOK
  <2>4. ASSUME row.tool = "record_promise_to_pay", Dated(turn)
        PROVE  row.date \in Meant(turn.said.mention, turn.on)
    <3> DEFINE then == row.request.words
               now == turn.words
    <3>1. then \in Wordings /\ now \in Wordings /\ then.mention \in Mentions /\ now.mention \in Mentions
      BY <2>1, <2>3 DEF ProperRequests, Wordings
    <3>2. DateToken(then.mention) = DateToken(now.mention)
      BY <2>2, <3>1, SameKeySameToken
    <3>3. Readings(then.mention) = Readings(now.mention)
      BY <2>1, <2>3, <2>4, <3>1, <3>2, SameTokenSameReadings DEF RequestInv, Dated
    <3>4. row.date \in Readings(then.mention)
      BY <1>1, <2>4 DEF IInv
    <3> QED
      BY <2>1, <3>3, <3>4 DEF RequestInv
  <2> QED
    BY <2>2, <2>4 DEF RepeatedIsOnRecord
<1> QED
  BY <1>1, Inductive, PTL
-----------------------------------------------------------------------------
(* What is in the router was not remembered when it went there, and nothing*)
(* is remembered in the meantime.                                          *)
RouterIsNew == stage = "router" => Key(turn.words) \notin remembered

WritesNew ==
    stage = "router" /\ reply' \in {"recorded", "unheard"} =>
        Key(turn.words) \notin remembered

(* A tool never writes what the guard remembers as done: also a request    *)
(* that waited for a code, and was normalised again, is asked about again  *)
(* under the key of its words as they are then (check before the router,   *)
(* in _respond and in _respond(resumed)).                                  *)
THEOREM RememberedIsNotRepeated == Spec => [][WritesNew]_vars
<1>1. Init => RouterIsNew
  BY DEF Init, RouterIsNew
<1>2. ASSUME RouterIsNew, [Next]_vars PROVE RouterIsNew'
  <2>1. ASSUME NEW request, Responds(request), UNCHANGED memory PROVE RouterIsNew'
    BY <2>1 DEF Responds, memory, RouterIsNew
  <2>2. CASE \E text \in Texts : Says(text)
    BY <2>1, <2>2 DEF Says
  <2>3. CASE Resumes
    BY <2>1, <2>3 DEF Resumes
  <2>4. CASE stage' # "router"
    BY <2>4 DEF RouterIsNew
  <2>5. CASE UNCHANGED <<stage, turn>> /\ remembered' \subseteq remembered
    BY <1>2, <2>5 DEF RouterIsNew
  <2>6. CASE \E number \in Numbers : Consumes(number)
    <3>1. stage = "idle" /\ stage' \in {"idle", "confirming"}
      BY <2>6 DEF Consumes, NotACode, CodeMatches, CodeDiffers, SaysNumber
    <3> QED
      BY <2>4, <3>1
  <2>7. CASE \/ RouterAnswers \/ RequestsEscalation
             \/ \E tool \in Tools : NeedsVerification(tool) \/ MissesDate(tool)
             \/ \E given \in Accounts \cup {NoAccount} :
                  RefusesAccount(given) \/ \E date \in Calendar : RecordsPromise(given, date)
             \/ \E date \in Calendar : RefusesDate(date) \/ SchedulesCallback(date)
    BY <2>4, <2>7
    DEF RouterAnswers, RequestsEscalation, NeedsVerification, MissesDate, RefusesAccount,
        RecordsPromise, RefusesDate, SchedulesCallback, Refuses, Records
  <2>8. CASE \/ DayPasses \/ VerificationExpires \/ UNCHANGED vars
             \/ \E key \in remembered : RemembranceExpires(key)
    BY <2>5, <2>8 DEF DayPasses, VerificationExpires, RemembranceExpires, memory, vars
  <2> QED
    BY <1>2, <2>2, <2>3, <2>6, <2>7, <2>8 DEF Next
<1>3. RouterIsNew => WritesNew
  BY DEF RouterIsNew, WritesNew
<1> QED
  BY <1>1, <1>2, <1>3, PTL DEF Spec

(* A call that is locked: for good, and with nothing protected written.    *)
LockKept ==
    challenge = "locked" =>
        /\ challenge' = "locked"
        /\ \A row \in rows' \ rows : row.tool \notin Protected

(* Nothing in a call undoes the lock or gets past it: neither a request    *)
(* that was pending, nor one that was confirmed before, nor the code       *)
(* (execute's gate, begin, consume_input).                                 *)
THEOREM LockIsFinal == Spec => [][LockKept]_vars
<1>1. ASSUME [Next]_vars, challenge = "locked" PROVE LockKept
  <2> USE <1>1 DEF LockKept
  <2>1. CASE UNCHANGED <<challenge, rows>>
    BY <2>1
  <2>2. CASE (\E text \in Texts : Says(text)) \/ Resumes \/ RouterAnswers
    BY <2>1, <2>2 DEF Says, Resumes, RouterAnswers, identity, memory
  <2>3. CASE \E number \in Numbers : Consumes(number)
    BY <2>3 DEF Consumes, NotACode, CodeMatches, CodeDiffers, SaysNumber
  <2>4. CASE \E tool \in Tools : NeedsVerification(tool) \/ MissesDate(tool)
    BY <2>1, <2>4 DEF NeedsVerification, MissesDate, Refuses, identity, memory
  <2>5. CASE \/ \E given \in Accounts \cup {NoAccount} :
                  RefusesAccount(given) \/ \E date \in Calendar : RecordsPromise(given, date)
             \/ \E date \in Calendar : RefusesDate(date) \/ SchedulesCallback(date)
    BY <2>5
    DEF RefusesAccount, RecordsPromise, RefusesDate, SchedulesCallback, Cleared, Protected
  <2>6. CASE RequestsEscalation
    BY <2>6 DEF RequestsEscalation, Records, identity, Protected
  <2>7. CASE \/ DayPasses \/ VerificationExpires \/ UNCHANGED vars
             \/ \E key \in remembered : RemembranceExpires(key)
    BY <2>1, <2>7
    DEF DayPasses, VerificationExpires, RemembranceExpires, identity, memory, vars
  <2> QED
    BY <2>2, <2>3, <2>4, <2>5, <2>6, <2>7 DEF Next
<1>2. [Next]_vars => [LockKept]_vars
  BY <1>1 DEF LockKept
<1> QED
  BY <1>2, PTL DEF Spec
=============================================================================
