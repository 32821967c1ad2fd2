-------------------------------- MODULE Cron --------------------------------
(***************************************************************************)
(* scheduler/trigger.py: a cron expression in a zone whose clocks change,  *)
(* and the chain of fires the clock gets by asking next_after of each fire *)
(* in turn.  Trigger takes the instants an expression fires at as given;   *)
(* here they come from its fields, the calendar and the zone.              *)
(*                                                                         *)
(* Time is counted in minutes, from 0: instants in UTC, and minutes as the *)
(* wall clock shows them.  The lengths of hour, day, month and week are    *)
(* parameters, and so is the zone's offset.                                *)
(***************************************************************************)
EXTENDS Integers, Sequences, FiniteSetsExt

CONSTANTS Hour, Day, Month, Year, Week,  \* minutes, hours, days, months, weekdays
          Dates,          \* the calendar: month, day and Python's weekday of each date
          Last,           \* bound: the last instant
          Offset,         \* instant -> the zone's offset from UTC
          SearchMinutes,  \* SEARCH_LIMIT_MINUTES
          Exprs           \* the expressions a task may be declared with

Date == [month : 1..Year, day : 1..Month, weekday : 0..Week - 1]

\* A part of a field: `5` is 5-5, `*` the whole range; a step is 1 unless given.
Part == [from : Nat, to : Nat, step : Nat]
Expr == [minutes : SUBSET Part, hours : SUBSET Part, days : SUBSET Part,
         months : SUBSET Part, weekdays : SUBSET Part]

ASSUME CronAssumption ==
    /\ {Hour, Day, Month, Year, Week} \subseteq Nat \ {0}
    /\ Dates \in Seq(Date)
    /\ Last \in Nat /\ SearchMinutes \in Nat \ {0}
    /\ Offset \in [0..Last -> Int]
    /\ \A t \in 0..Last : t + Offset[t] \in 0..Len(Dates) * Day * Hour - 1
    /\ \A e \in Exprs : e \in Expr

VARIABLES
    expr,    \* the task's expression
    at,      \* the instant the clock asks about: when it started, then each fire
    shown,   \* history: what the wall clock showed at each fire
    raised   \* next_after has raised, and the clock with it

cronVars == <<expr, at, shown, raised>>

-----------------------------------------------------------------------------
\* Fields

\* The values a field names.
Values(parts) == UNION {{v \in p.from..p.to : (v - p.from) % p.step = 0} : p \in parts}

\* 7 is a second spelling of Sunday.
Weekdays(parts) == {v % Week : v \in Values(parts)}

\* _must_parse, at the declaration of the task.
Accepted(e) ==
    /\ \A field \in DOMAIN e : \A p \in e[field] : p.step >= 1
    /\ Values(e.minutes) \subseteq 0..Hour - 1
    /\ Values(e.hours) \subseteq 0..Day - 1
    /\ Values(e.days) \subseteq 1..Month
    /\ Values(e.months) \subseteq 1..Year

-----------------------------------------------------------------------------
\* The wall clock

MinuteOf(l) == l % Hour
HourOf(l)   == (l \div Hour) % Day
DateOf(l)   == Dates[(l \div Hour) \div Day + 1]

Local(t) == t + Offset[t]

\* A wall-clock minute in UTC, one that repeats taken at its second showing.
SecondShowing(l) ==
    LET shows == {t \in 0..Last : Local(t) = l}
    IN  IF shows # {} THEN Max(shows)
        ELSE l - Offset[Max({t \in 0..Last : Local(t) < l})]

\* replace(tzinfo=zone).astimezone(utc): a minute that repeats is its first
\* showing; one that does not exist keeps the offset from before the change.
ToUTC(l) ==
    LET shows == {t \in 0..Last : Local(t) = l}
    IN  IF shows # {} THEN Min(shows)
        ELSE l - Offset[Max({t \in 0..Last : Local(t) < l})]

\* _matches, the day fields always joined by "or".
MatchesEitherDay(e, l) ==
    LET date == DateOf(l)
    IN  /\ MinuteOf(l) \in Values(e.minutes) /\ HourOf(l) \in Values(e.hours)
        /\ date.month \in Values(e.months)
        /\ \/ date.day \in Values(e.days)
           \/ (date.weekday + 1) % Week \in Weekdays(e.weekdays)

\* _matches
Matches(e, l) ==
    LET date      == DateOf(l)
        onDay     == date.day \in Values(e.days)
        onWeekday == (date.weekday + 1) % Week \in Weekdays(e.weekdays)
    IN  /\ MinuteOf(l) \in Values(e.minutes) /\ HourOf(l) \in Values(e.hours)
        /\ date.month \in Values(e.months)
        /\ IF Cardinality(Values(e.days)) < Month /\ Cardinality(Weekdays(e.weekdays)) < Week
             THEN onDay \/ onWeekday
             ELSE onDay /\ onWeekday

\* The minutes the walk from an instant visits.
Walk(t) == Local(t) + 1..Local(t) + SearchMinutes

\* next_after walking in UTC and reading the wall clock at each minute.
NextInUTC(e, t) ==
    LET found == {f \in t + 1..t + SearchMinutes : f <= Last /\ Matches(e, Local(f))}
    IN  IF found = {} THEN {} ELSE {Min(found)}

\* next_after, as a set: the walk's first minute that matches and whose instant
\* is later than t; empty where the walk ends without one and it raises.
CronNextAfter(e, t) ==
    LET found == {l \in Walk(t) : Matches(e, l) /\ ToUTC(l) > t}
    IN  IF found = {} THEN {} ELSE {ToUTC(Min(found))}

-----------------------------------------------------------------------------
CronInit ==
    /\ expr \in {e \in Exprs : Accepted(e)}
    /\ at \in 0..Last
    /\ shown = {}
    /\ raised = FALSE

\* Bound: time goes on for as long as the walk.
Covered == ~raised /\ \A l \in Walk(at) : ToUTC(l) <= Last

Fires ==
    /\ Covered
    /\ \E f \in CronNextAfter(expr, at) : /\ at' = f
                                      /\ shown' = shown \cup {Local(f)}
    /\ UNCHANGED <<expr, raised>>

Raises ==
    /\ Covered
    /\ CronNextAfter(expr, at) = {}
    /\ raised' = TRUE
    /\ UNCHANGED <<expr, at, shown>>

CronNext == Fires \/ Raises

CronSpec == CronInit /\ [][CronNext]_cronVars

-----------------------------------------------------------------------------
\* Properties

\* What cron means by its fields: a day field that is the full range restricts
\* nothing, and a date is wanted by any of the fields that do restrict.
WantedDate(e, date) ==
    LET byDay     == Values(e.days) # 1..Month
        byWeekday == Weekdays(e.weekdays) # 0..Week - 1
    IN  /\ date.month \in Values(e.months)
        /\ \/ ~byDay /\ ~byWeekday
           \/ byDay /\ date.day \in Values(e.days)
           \/ byWeekday /\ (date.weekday + 1) % Week \in Weekdays(e.weekdays)

Wanted(e, l) == /\ MinuteOf(l) \in Values(e.minutes) /\ HourOf(l) \in Values(e.hours)
                /\ WantedDate(e, DateOf(l))

\* The instants at which the wall clock shows a minute for the first time.
ShowsNew(t) == \A s \in 0..t - 1 : Local(s) # Local(t)

\* The instants a reader of the expression expects: the first time the wall
\* clock shows a wanted minute.
Expected(e) == {t \in 0..Last : Wanted(e, Local(t)) /\ ShowsNew(t)}

\* "The first firing instant strictly after t": the chain of fires goes forward
\* and passes over no minute that the clock really shows, across both changes
\* of the clock; and next_after raises only with no such minute in the walk.
NoMinuteIsPassedOver ==
    [][IF raised' THEN \A t \in Expected(expr) : t > at => Local(t) \notin Walk(at)
                  ELSE at' > at /\ Expected(expr) \cap (at + 1..at' - 1) = {}]_cronVars

\* "Strict progress is what keeps the repeated hour from firing the same
\* schedule twice": no two fires show the same minute on the wall clock.
NoMinuteFiresTwice == [][at' # at => Local(at') \notin shown]_cronVars

\* A minute that the wall clock never shows.
Skipped(l) == \A t \in 0..Last : Local(t) # l

\* A fire shows a wanted minute, or stands for a wanted one that does not exist.
FiresAreWanted ==
    [][at' # at =>
          \/ Wanted(expr, Local(at'))
          \/ \E l \in Walk(at) : Skipped(l) /\ Wanted(expr, l) /\ at' = ToUTC(l)]_cronVars

-----------------------------------------------------------------------------
\* What zones are like.  The code asks nothing of a zone; what cron promises
\* can be kept only where the clocks change in one of these ways.

\* A clock that was put back is not put back behind a minute it has skipped:
\* what it shows for the first time is later than all that it has shown.
NewMinutesAreLater ==
    \A t \in 0..Last : ShowsNew(t) => \A s \in 0..t - 1 : Local(s) < Local(t)

\* The instant a skipped minute stands for shows a minute that is new.
SkippedStandForNew ==
    \A t \in 0..Last : \A l \in Walk(t) :
        Skipped(l) /\ ToUTC(l) <= Last => ShowsNew(ToUTC(l))

\* Clocks are put forward over one whole hour from begin on, at the instant t,
\* and then run steadily for as long.
SkipsTheHour(t, begin) ==
    /\ begin % Hour = 0
    /\ Local(t - 1) = begin - 1
    /\ \A s \in 0..t - 1 : Local(s) < begin
    /\ \A s \in t..Last : Local(s) >= begin + Hour
    /\ \A s \in t..t + Hour - 1 : s <= Last => Local(s) = begin + Hour + (s - t)

\* Every minute that is skipped is of such an hour.
WholeHoursAreSkipped ==
    \A t \in 0..Last : \A l \in Walk(t) :
        Skipped(l) /\ ToUTC(l) <= Last =>
            \E s \in 1..Last : LET begin == Local(s - 1) + 1
                              IN  /\ l \in begin..begin + Hour - 1
                                  /\ SkipsTheHour(s, begin)
=============================================================================
