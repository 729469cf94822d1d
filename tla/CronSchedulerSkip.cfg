\* A slot whose tick comes in its own minute, under either misfire policy.
SPECIFICATION FairSpec
CONSTANTS
  Schedules = {s1}
  Seeds <- MCSeeds
  Sources = {"every", "either"}
  Text <- MCText
  Classes = {"interactive", "nightly"}
  OpenAt <- MCOpenAt
  Redis = TRUE
  Ticks = {cron, operator}
  Cron = cron
  Editors = {e1}
  Horizon = 3
  MaxRollbacks = 1
  MinutesPerHour = 2
  HoursPerDay = 2
  DaysPerWeek = 2
  DaysPerMonth = 2
  MonthsPerYear = 2
  Calendar <- MCCalendar
  Never = Never
  Absent = Absent
PROPERTY
  OnTimeSlotFires
