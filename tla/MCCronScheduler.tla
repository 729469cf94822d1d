-------------------------- MODULE MCCronScheduler --------------------------
(* A small calendar and small sets of requests for TLC. *)
EXTENDS CronScheduler

(* A month of two days and one of one day. *)
MCCalendar == <<[month |-> 1, dayOfMonth |-> 1, dayOfWeek |-> 0],
                [month |-> 1, dayOfMonth |-> 2, dayOfWeek |-> 1],
                [month |-> 2, dayOfMonth |-> 1, dayOfWeek |-> 0]>>

Value(n) == [form |-> "value", a |-> n, b |-> n, step |-> 0]

EveryMinute == [minute |-> {Star}, hour |-> {Star}, dayOfMonth |-> {Star},
                month |-> {Star}, dayOfWeek |-> {Star}]

(* "1/1 0 2 1-1 2": a minute of the second day and of every Sunday in the  *)
(* first month.                                                            *)
EitherDay == [minute     |-> {[form |-> "value", a |-> 1, b |-> 1, step |-> 1]},
              hour       |-> {Value(0)},
              dayOfMonth |-> {Value(2)},
              month      |-> {[form |-> "range", a |-> 1, b |-> 1, step |-> 0]},
              dayOfWeek  |-> {Value(2)}]

MCText == [source \in Sources |-> IF source = "every" THEN EveryMinute ELSE EitherDay]

(* The window of the nightly class is closed in the second minute. *)
MCOpenAt == [c \in Classes |-> IF c = "interactive" THEN Minutes ELSE Minutes \ {2}]

MCSeeds ==
  {[s \in Schedules |-> Absent],
   [s \in Schedules |->
      [source |-> "every", enabled |-> TRUE, class |-> "nightly",
       misfire |-> "run-immediately", createdAt |-> 0, lastRunAt |-> 0]]}
============================================================================
