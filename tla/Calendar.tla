------------------------------- MODULE Calendar -------------------------------
(***************************************************************************)
(* The economic calendar, app/scheduler/calendar.py: GET /calendar computes *)
(* the events of a window that starts today, from tables of dates and from  *)
(* rules that walk over months, weeks and years.  A day is its number since *)
(* 1 January 2025, a Wednesday; the years up to 2027 have no 29 February.   *)
(***************************************************************************)
EXTENDS Integers, Sequences, FiniteSets, SequencesExt, Lists

CONSTANTS
    FirstDay, LastDay,  \* bounds: the days on which somebody asks
    Horizons            \* "days" of the request

\* No year here is a leap year; a request asks for 1 to 60 days.
ASSUME CalAssumption ==
    /\ FirstDay \in Nat /\ LastDay \in Nat /\ LastDay + 60 < 3 * 365
    /\ Horizons \subseteq 1 .. 60

VARIABLES
    today,
    shown               \* the last answer: its first day, its days and its events

calVars == <<today, shown>>

-----------------------------------------------------------------------------
(* datetime.date                                                           *)

MonthStarts == <<0, 31, 59, 90, 120, 151, 181, 212, 243, 273, 304, 334, 365>>

Day(year, month, day) == 365 * (year - 2025) + MonthStarts[month] + day - 1
YearOf(d) == 2025 + d \div 365
MonthOf(d) == CHOOSE m \in 1 .. 12 : MonthStarts[m] <= d % 365 /\ d % 365 < MonthStarts[m + 1]
Weekday(d) == (d + 2) % 7        \* Monday is 0

DaysIn(from, end) == [i \in 1 .. end - from + 1 |-> from + i - 1]

MonthStart(d) == Day(YearOf(d), MonthOf(d), 1)

\* The first day from d on that falls on the given weekday.
FirstFrom(d, weekday) == CHOOSE e \in d .. d + 6 : Weekday(e) = weekday

-----------------------------------------------------------------------------
(* The titles of the events                                                *)

FomcDecision == "FOMC Rate Decision"
UsCpi == "US CPI"
UsPayrolls == "US Non-Farm Payrolls"
UsClaims == "US Initial Jobless Claims"
TrCpi == "Turkey CPI"
EcbDecision == "ECB Rate Decision"

-----------------------------------------------------------------------------
(* The tables: <<month, day>> of 2025 and of 2026                          *)

InYear(year, dates) == [i \in DOMAIN dates |-> Day(year, dates[i][1], dates[i][2])]

_FOMC_DATES ==
    InYear(2025, <<<<1, 29>>, <<3, 19>>, <<5, 7>>, <<6, 18>>, <<7, 30>>, <<9, 17>>, <<11, 5>>, <<12, 17>>>>)
    \o InYear(2026, <<<<1, 28>>, <<3, 18>>, <<4, 29>>, <<6, 17>>, <<7, 29>>, <<9, 16>>, <<11, 4>>, <<12, 16>>>>)

_CPI_DATES ==
    InYear(2025, <<<<1, 15>>, <<2, 12>>, <<3, 12>>, <<4, 10>>, <<5, 13>>, <<6, 11>>, <<7, 15>>,
                   <<8, 12>>, <<9, 11>>, <<10, 15>>, <<11, 13>>, <<12, 10>>>>)
    \o InYear(2026, <<<<1, 14>>, <<2, 11>>, <<3, 11>>, <<4, 14>>, <<5, 12>>, <<6, 10>>>>)

_ECB_DATES ==
    InYear(2025, <<<<1, 30>>, <<3, 6>>, <<4, 17>>, <<6, 5>>, <<7, 24>>, <<9, 11>>, <<10, 30>>, <<12, 18>>>>)
    \o InYear(2026, <<<<1, 29>>, <<3, 5>>, <<4, 16>>, <<6, 4>>>>)

-----------------------------------------------------------------------------
(* build_economic_calendar                                                 *)

\* An event is its title, its day and its minute of that day.
Event(title, d, minute) == [title |-> title, day |-> d, minute |-> minute]

Scheduled(title, dates, minute, from, end) ==
    LET due == Keep(dates, from .. end)
    IN  [i \in DOMAIN due |-> Event(title, due[i], minute)]

\* The cursors of the loop over months: the first days of the months that
\* begin by the end of the window.
\* Mutant: the cursor starts at today, not at the first day of the month, and
\* keeps its day of the month.
MonthsUntil_FromToday(from, end) ==
    LET days == DaysIn(MonthStart(from), end)
        offset == from - MonthStart(from)
    IN  Keep(days, {d \in ToSet(days) : d = MonthStart(d) /\ d + offset <= end})

MonthsUntil(from, end) ==
    LET days == DaysIn(MonthStart(from), end)
    IN  Keep(days, {d \in ToSet(days) : d = MonthStart(d)})

NonFarmPayrolls(from, end) ==
    LET months == MonthsUntil(from, end)
    IN  Scheduled(UsPayrolls, [i \in DOMAIN months |-> FirstFrom(months[i], 4)], 810, from, end)

JoblessClaims(from, end) ==
    LET days == DaysIn(from, end)
    IN  Scheduled(UsClaims, Keep(days, {d \in ToSet(days) : Weekday(d) = 3}), 810, from, end)

_second_tuesday(year, month) == FirstFrom(Day(year, month, 1), 1) + 7

\* "for year in {today.year, end.year}": a set, so a year comes once.
TurkeyCpi(from, end) ==
    LET releases(year) == [m \in 1 .. 12 |-> _second_tuesday(year, m)]
        dates == releases(YearOf(from)) \o (IF YearOf(from) = YearOf(end) THEN <<>> ELSE releases(YearOf(end)))
    IN  Scheduled(TrCpi, dates, 420, from, end)

\* The places in the order of their times; equals keep theirs (sort is stable).
Earlier(at) ==
    {pair \in (DOMAIN at) \X (DOMAIN at) :
        \/ at[pair[1]] < at[pair[2]]
        \/ at[pair[1]] = at[pair[2]] /\ pair[1] < pair[2]}

ByTime(events) ==
    LET at == [i \in DOMAIN events |-> 1440 * events[i].day + events[i].minute]
        sorted == InOrder(DOMAIN events, Earlier(at))
    IN  [k \in DOMAIN sorted |-> events[sorted[k]]]

build_economic_calendar(from, days) ==
    LET end == from + days
        events == Scheduled(FomcDecision, _FOMC_DATES, 1080, from, end)
                  \o Scheduled(UsCpi, _CPI_DATES, 810, from, end)
                  \o NonFarmPayrolls(from, end) \o JoblessClaims(from, end) \o TurkeyCpi(from, end)
                  \o Scheduled(EcbDecision, _ECB_DATES, 795, from, end)
    IN  ByTime(events)

-----------------------------------------------------------------------------

CalInit == today = FirstDay /\ shown = [from |-> FirstDay, days |-> -1, events |-> <<>>]

\* GET /calendar; the window starts today.
EconomicCalendar ==
    /\ \E days \in Horizons : shown' = [from |-> today, days |-> days, events |-> build_economic_calendar(today, days)]
    /\ UNCHANGED today

\* Somebody asks every day: what is bounded is the age of the last answer.
Midnight ==
    /\ today < LastDay /\ shown.days # -1 /\ shown.from = today
    /\ today' = today + 1
    /\ UNCHANGED shown

CalNext == EconomicCalendar \/ Midnight

CalSpec == CalInit /\ [][CalNext]_calVars

-----------------------------------------------------------------------------
(* Properties                                                              *)

\* No answer has an event twice, and the events come in the order of time.
NoEventTwice ==
    \A i \in 2 .. Len(shown.events) :
        LET before == shown.events[i - 1]
            this == shown.events[i]
        IN  /\ before.day < this.day \/ (before.day = this.day /\ before.minute <= this.minute)
            /\ \A j \in 1 .. i - 1 : shown.events[j] # this

\* Every month that lies in the window has its payrolls on its first Friday
\* and Turkey's CPI on its second Tuesday, and neither on another day.
MonthlyReleases ==
    LET On(title) == {e.day : e \in {f \in ToSet(shown.events) : f.title = title}}
    IN  \A d \in shown.from .. shown.from + shown.days :
            LET dom == d - MonthStart(d) + 1
            IN  /\ d \in On(UsPayrolls) <=> Weekday(d) = 4 /\ dom <= 7
                /\ d \in On(TrCpi) <=> Weekday(d) = 1 /\ dom \in 8 .. 14
\* From one answer to the next, on the same day or a day later and over any
\* two horizons, no event that is still ahead disappears and none turns up
\* inside what was shown already: across the ends of months and of years all
\* loops agree on the same events.  Each answer is in order and complete.
CalendarSteady ==
    [][LET ends == {shown.from + shown.days, shown'.from + shown'.days}
           Ahead(events) == {e \in ToSet(events) : e.day >= shown'.from /\ \A last \in ends : e.day <= last}
       IN  /\ Ahead(shown.events) = Ahead(shown'.events)
           /\ NoEventTwice'
           /\ MonthlyReleases']_shown
=============================================================================
