-------------------------------- MODULE Cron --------------------------------
(* A cron expression (scheduler/src/cron.rs) and the calendar under it       *)
(* (state/src/time.rs): five fields are parsed into sets, and next_after     *)
(* looks for the next minute in them, stepping over months, days and hours.  *)
(* Time is in minutes since 1970; the seconds of the instant that is asked   *)
(* about are dropped at once, as the code does.                              *)
EXTENDS Integers, FiniteSets, Sequences, SequencesExt

CONSTANTS
    Expressions,  \* what is written: five sequences of parts each
    Instants,     \* the minutes that next_after is asked about
    SearchYears   \* SEARCH_YEARS

VARIABLES
    text,     \* the expression as it was written
    after,    \* what is asked
    cron,     \* the expression as it was parsed
    probe,    \* where the search is
    phase     \* "parse", "refused", "search", "found" or "none"

cronVars == <<text, after, cron, probe, phase>>

-----------------------------------------------------------------------------
(* time.rs                                                                  *)

MinutesPerDay == 1440

(* Days since 1970 as a date: eras of 400 years that begin on 1 March.      *)
CivilFromDays(days) ==
    LET shifted == days + 719468
        era == shifted \div 146097
        doe == shifted - era * 146097
        yoe == (doe - doe \div 1460 + doe \div 36524 - doe \div 146096) \div 365
        doy == doe - (365 * yoe + yoe \div 4 - yoe \div 100)
        mp == (5 * doy + 2) \div 153
        month == IF mp < 10 THEN mp + 3 ELSE mp - 9
    IN  [year |-> yoe + era * 400 + (IF month <= 2 THEN 1 ELSE 0), month |-> month,
         day |-> doy - (153 * mp + 2) \div 5 + 1]

DaysFromCivil(year, month, day) ==
    LET y == IF month <= 2 THEN year - 1 ELSE year
        era == y \div 400
        yoe == y - era * 400
        mp == IF month > 2 THEN month - 3 ELSE month + 9
        doy == (153 * mp + 2) \div 5 + day - 1
    IN  era * 146097 + yoe * 365 + yoe \div 4 - yoe \div 100 + doy - 719468

DateTime(t) ==
    LET date == CivilFromDays(t \div MinutesPerDay) IN
    [year |-> date.year, month |-> date.month, day |-> date.day,
     hour |-> (t % MinutesPerDay) \div 60, minute |-> t % 60]

ToUnix(when) ==
    DaysFromCivil(when.year, when.month, when.day) * MinutesPerDay + when.hour * 60 + when.minute

Weekday(when) == (DaysFromCivil(when.year, when.month, when.day) + 4) % 7

IsLeapYear(year) == year % 4 = 0 /\ (year % 100 # 0 \/ year % 400 = 0)
DaysInMonth(year, month) ==
    IF month \in {4, 6, 9, 11} THEN 30
    ELSE IF month # 2 THEN 31 ELSE IF IsLeapYear(year) THEN 29 ELSE 28

-----------------------------------------------------------------------------
(* Parsing                                                                  *)

(* A part of a field: "*", "n" or "a-b", each perhaps with a step.          *)
Part(form, low, high, step) == [form |-> form, low |-> low, high |-> high, step |-> step]
Star == <<Part("star", 0, 0, 1)>>

Kinds ==
    [minute |-> [low |-> 0, high |-> 59], hour |-> [low |-> 0, high |-> 23],
     dom |-> [low |-> 1, high |-> 31], month |-> [low |-> 1, high |-> 12],
     dow |-> [low |-> 0, high |-> 7]]
Fields == DOMAIN Kinds

(* parse_value: a number within the field.                                  *)
InRange(n, kind) == kind.low <= n /\ n <= kind.high

(* No part, a step of zero, a value out of range, or a range that runs      *)
(* backwards.                                                               *)
PartRefused(p, kind) ==
    \/ p.step = 0
    \/ p.form # "star" /\ ~InRange(p.low, kind)
    \/ p.form = "range" /\ (~InRange(p.high, kind) \/ p.low > p.high)
Refused(written) ==
    \E f \in Fields : written[f] = <<>> \/ \E i \in DOMAIN written[f] : PartRefused(written[f][i], Kinds[f])

(* "5/15" runs from 5 to the end of the field.                              *)
Bounds(p, kind) ==
    IF p.form = "star" THEN <<kind.low, kind.high>>
    ELSE IF p.form = "range" THEN <<p.low, p.high>>
    ELSE IF p.step > 1 THEN <<p.low, kind.high>> ELSE <<p.low, p.low>>

ParseField(parts, kind) ==
    UNION {LET b == Bounds(parts[i], kind) IN
           {n \in b[1] .. b[2] : (n - b[1]) % parts[i].step = 0} : i \in DOMAIN parts}

Fold(days) == IF 7 \in days THEN (days \ {7}) \cup {0} ELSE days

Parsed(written) ==
    [sets |-> [f \in Fields |->
                IF f = "dow" THEN Fold(ParseField(written[f], Kinds[f]))
                ELSE ParseField(written[f], Kinds[f])],
     domRestricted |-> written.dom # Star, dowRestricted |-> written.dow # Star]

NoCron == [sets |-> [f \in Fields |-> {}], domRestricted |-> FALSE, dowRestricted |-> FALSE]

Init ==
    /\ text \in Expressions /\ after \in Instants
    /\ cron = NoCron /\ probe = 0 /\ phase = "parse"

Parse ==
    /\ phase = "parse"
    /\ IF Refused(text) THEN phase' = "refused" /\ UNCHANGED <<cron, probe>>
       ELSE phase' = "search" /\ cron' = Parsed(text) /\ probe' = after + 1
    /\ UNCHANGED <<text, after>>

-----------------------------------------------------------------------------
(* next_after                                                               *)

When == DateTime(probe)
Limit == after + 1 + SearchYears * 366 * MinutesPerDay

(* FieldSet::next_from, or -1.                                              *)
NextFrom(set, from) ==
    LET rest == {n \in set : n >= from} IN
    IF rest = {} THEN -1 ELSE CHOOSE n \in rest : \A k \in rest : n <= k

\* Mutant: both day fields have to match.
DayMatchesBoth(when) ==
    (cron.domRestricted => when.day \in cron.sets.dom) /\ (cron.dowRestricted => Weekday(when) \in cron.sets.dow)
(* Either day field matches when both are restricted.                       *)
DayMatches(when) ==
    LET byMonth == when.day \in cron.sets.dom
        byWeek == Weekday(when) \in cron.sets.dow
    IN  IF cron.domRestricted /\ cron.dowRestricted THEN byMonth \/ byWeek
        ELSE (cron.domRestricted => byMonth) /\ (cron.dowRestricted => byWeek)

StartOfNextMonth(when) ==
    DaysFromCivil(IF when.month = 12 THEN when.year + 1 ELSE when.year,
                  IF when.month = 12 THEN 1 ELSE when.month + 1, 1) * MinutesPerDay

StartOfNextDay(when) ==
    IF when.day < DaysInMonth(when.year, when.month)
    THEN DaysFromCivil(when.year, when.month, when.day + 1) * MinutesPerDay
    ELSE StartOfNextMonth(when)

Searching == phase = "search" /\ probe < Limit
InMonth == When.month \in cron.sets.month
Hour == NextFrom(cron.sets.hour, When.hour)

FromMinute(when, hour) == IF hour = when.hour THEN when.minute ELSE 0
Minute == NextFrom(cron.sets.minute, FromMinute(When, Hour))

MoveTo(t) == probe' = t /\ UNCHANGED <<text, after, cron, phase>>

SkipMonth == Searching /\ ~InMonth /\ MoveTo(StartOfNextMonth(When))
SkipDay == Searching /\ InMonth /\ (~DayMatches(When) \/ Hour = -1) /\ MoveTo(StartOfNextDay(When))

\* Mutant: the search goes to the end of the hour and no further.
EndOfHour(when, hour) == ToUnix([when EXCEPT !.hour = hour, !.minute = 59])
NextHour(when, hour) == ToUnix([when EXCEPT !.hour = hour, !.minute = 59]) + 1
SkipHour ==
    /\ Searching /\ InMonth /\ DayMatches(When) /\ Hour # -1 /\ Minute = -1
    /\ MoveTo(NextHour(When, Hour))

Found ==
    /\ Searching /\ InMonth /\ DayMatches(When) /\ Hour # -1 /\ Minute # -1
    /\ probe' = ToUnix([When EXCEPT !.hour = Hour, !.minute = Minute])
    /\ phase' = "found" /\ UNCHANGED <<text, after, cron>>

(* An expression that does not fire within the years that are searched.     *)
GiveUp == phase = "search" /\ probe >= Limit /\ phase' = "none" /\ UNCHANGED <<text, after, cron, probe>>

Ended == phase \in {"refused", "found", "none"} /\ UNCHANGED cronVars

SearchStep == Parse \/ SkipMonth \/ SkipDay \/ SkipHour \/ Found \/ GiveUp
Next == SearchStep \/ Ended

-----------------------------------------------------------------------------
TypeOK ==
    /\ phase \in {"parse", "refused", "search", "found", "none"}
    /\ \A f \in Fields : cron.sets[f] \subseteq Kinds[f].low .. (IF f = "dow" THEN 6 ELSE Kinds[f].high)
    /\ phase = "search" => probe > after /\ ToUnix(When) = probe

(* What the expression means, read off what was written.                    *)
Means(f, n) ==
    \E i \in DOMAIN text[f] :
        LET b == Bounds(text[f][i], Kinds[f]) IN
        b[1] <= n /\ n <= b[2] /\ (n - b[1]) % text[f][i].step = 0
MeansDay(when) ==
    LET byMonth == Means("dom", when.day)
        byWeek == Means("dow", Weekday(when)) \/ (Weekday(when) = 0 /\ Means("dow", 7))
    IN  /\ Means("month", when.month)
        /\ IF text.dom # Star /\ text.dow # Star THEN byMonth \/ byWeek
           ELSE (text.dom # Star => byMonth) /\ (text.dow # Star => byWeek)
FiresOn(day) == MeansDay(DateTime(day * MinutesPerDay))
Hours == {h \in 0 .. 23 : Means("hour", h)}
Minutes == {m \in 0 .. 59 : Means("minute", m)}

(* The search steps over no minute that the expression means, whatever it   *)
(* steps by: the rest of a month, of a day or of an hour, over the ends of  *)
(* months and years and over 29 February.                                   *)
OverNothing ==
    phase = "search" /\ probe' # probe =>
        LET firings == {h * 60 + m : h \in Hours, m \in Minutes} IN
        \A day \in probe \div MinutesPerDay .. (probe' - 1) \div MinutesPerDay : FiresOn(day) =>
            \A t \in firings : day * MinutesPerDay + t \notin probe .. probe' - 1
StepsOverNothing == [][OverNothing]_cronVars

(* Every step goes forward, so that the search ends, and where it ends with *)
(* an answer the expression means that minute.                              *)
SearchAdvances ==
    /\ Searching =>
        /\ StartOfNextMonth(When) > probe /\ StartOfNextDay(When) > probe
        /\ Hour # -1 => NextHour(When, Hour) > probe
    /\ phase = "found" =>
        FiresOn(probe \div MinutesPerDay) /\ When.hour \in Hours /\ When.minute \in Minutes /\ probe > after
=============================================================================
