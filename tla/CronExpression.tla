--------------------------- MODULE CronExpression ---------------------------
(***************************************************************************)
(* Cron expressions: lib/cron/parser.ts and lib/cron/next-run.ts.          *)
(*                                                                         *)
(* Time is counted in minutes from the start of `Calendar', which gives    *)
(* the month, the day of the month and the day of the week of every day,   *)
(* so months differ in length as the instance chooses.                     *)
(***************************************************************************)
EXTENDS Integers, Sequences, FiniteSetsExt

CONSTANTS
  MinutesPerHour, HoursPerDay, DaysPerWeek, DaysPerMonth, MonthsPerYear,
  Calendar,      \* the days, a sequence of [month, dayOfMonth, dayOfWeek]
  Never          \* no run within the calendar

(* Months begin with their first day. *)
ASSUME CalendarAssumption ==
  /\ {MinutesPerHour, HoursPerDay} \subseteq Nat \ {0}
  /\ Len(Calendar) \in Nat
  /\ \A d \in 1 .. Len(Calendar) - 1 :
       Calendar[d + 1].month # Calendar[d].month => Calendar[d + 1].dayOfMonth = 1

MinutesPerDay == MinutesPerHour * HoursPerDay

End == Len(Calendar) * MinutesPerDay

----------------------------------------------------------------------------
(* A term is `*', `a' or `a-b' (`form') with or without a step (0). *)

Star == [form |-> "*", a |-> 0, b |-> 0, step |-> 0]

parseTerm(term, min, max) ==
  LET lo == IF term.form = "*" THEN min ELSE term.a
      hi == CASE term.form = "*"     -> max
              [] term.form = "range" -> term.b
              [] OTHER -> IF term.step > 0 THEN max ELSE term.a
  IN  {v \in lo .. hi : term.step > 0 => (v - lo) % term.step = 0}

parseField(terms, min, max) == UNION {parseTerm(t, min, max) : t \in terms}

(* The day of the week may be written one past its range for Sunday.  A    *)
(* field other than `*' restricts the days even if it names all of them.   *)
parseCron(source) ==
  [minute     |-> parseField(source.minute, 0, MinutesPerHour - 1),
   hour       |-> parseField(source.hour, 0, HoursPerDay - 1),
   dayOfMonth |-> parseField(source.dayOfMonth, 1, DaysPerMonth),
   month      |-> parseField(source.month, 1, MonthsPerYear),
   dayOfWeek  |-> {v % DaysPerWeek : v \in parseField(source.dayOfWeek, 0, DaysPerWeek)},
   dayOfMonthRestricted |-> source.dayOfMonth # {Star},
   dayOfWeekRestricted  |-> source.dayOfWeek # {Star}]

----------------------------------------------------------------------------

DayOf(n) == Calendar[(n \div MinutesPerDay) + 1]

HourOf(n) == (n \div MinutesPerHour) % HoursPerDay

MinuteOf(n) == n % MinutesPerHour

(* Mutant: both day fields must match. *)
dayMatchesBoth(expr, day) ==
  /\ expr.dayOfMonthRestricted => day.dayOfMonth \in expr.dayOfMonth
  /\ expr.dayOfWeekRestricted => day.dayOfWeek \in expr.dayOfWeek

dayMatches(expr, day) ==
  \/ ~expr.dayOfMonthRestricted /\ ~expr.dayOfWeekRestricted
  \/ expr.dayOfMonthRestricted /\ day.dayOfMonth \in expr.dayOfMonth
  \/ expr.dayOfWeekRestricted /\ day.dayOfWeek \in expr.dayOfWeek

Midnight(n) == (n \div MinutesPerDay) * MinutesPerDay

(* Where the search goes on from an instant that fails a field. *)
NextDay(n) == Midnight(n) + MinutesPerDay

NextMonth(n) ==
  LET firsts == {m \in NextDay(n) .. End - 1 : m = Midnight(m) /\ DayOf(m).dayOfMonth = 1}
  IN  IF firsts = {} THEN End ELSE Min(firsts)

NextHour(n) == (n \div MinutesPerHour) * MinutesPerHour + MinutesPerHour

(* The jump search of nextRun, strictly after `after'. *)
nextRun(expr, after) ==
  LET search[n \in 0 .. End] ==
        IF n = End THEN Never
        ELSE IF DayOf(n).month \notin expr.month    THEN search[NextMonth(n)]
        ELSE IF ~dayMatches(expr, DayOf(n))         THEN search[NextDay(n)]
        ELSE IF HourOf(n) \notin expr.hour          THEN search[NextHour(n)]
        ELSE IF MinuteOf(n) \notin expr.minute      THEN search[n + 1]
        ELSE n
  IN  search[after + 1]

----------------------------------------------------------------------------
(* The reference: the instants an expression names, by its grammar's own   *)
(* words ("when BOTH day-of-month and day-of-week are restricted, a day    *)
(* matches if EITHER field matches", next-run.ts 9-11).                    *)

DayNamed(expr, day) ==
  \/ expr.dayOfMonthRestricted /\ day.dayOfMonth \in expr.dayOfMonth
  \/ expr.dayOfWeekRestricted /\ day.dayOfWeek \in expr.dayOfWeek
  \/ ~expr.dayOfMonthRestricted /\ ~expr.dayOfWeekRestricted

Slots(expr) ==
  {n \in 0 .. End - 1 :
     /\ MinuteOf(n) \in expr.minute
     /\ HourOf(n) \in expr.hour
     /\ DayOf(n).month \in expr.month
     /\ DayNamed(expr, DayOf(n))}
============================================================================
