--------------------------- MODULE Routes_proofs ---------------------------
(***************************************************************************)
(* Proofs about the routes of the dashboard that keep their state in the   *)
(* memory of the process: recurring campaigns, for any number of           *)
(* schedules, callers of the tick and editors, every calendar, every set   *)
(* of cron sources and any number of restarts and lost updates; and replay *)
(* jobs, for any number of calls and streams, every capacity and time to   *)
(* live of the store and every way that connections break.                 *)
(***************************************************************************)
EXTENDS CronScheduler, ReplayJobs, FiniteSetTheorems, WellFoundedInduction, TLAPS

----------------------------------------------------------------------------
(* A set of numbers that is not empty has a least element. *)
LEMMA LeastElement ==
  ASSUME NEW T, T \subseteq Nat, T # {}
  PROVE  \E x \in T : \A y \in T : x <= y
<1>1. PICK x \in T : \A y \in T : ~(<<y, x>> \in OpToRel(<, Nat))
  BY NatLessThanWellFounded, WFMin
<1>2. ASSUME NEW y \in T PROVE x <= y
  <2>1. x \in Nat /\ y \in Nat
    OBVIOUS
  <2>2. ~(y < x)
    BY <1>1, <2>1 DEF OpToRel
  <2>3. QED
    BY <2>1, <2>2
<1>3. QED
  BY <1>2

----------------------------------------------------------------------------
(* The jumps of the search for the next run. *)

LEMMA BlockOf ==
  ASSUME NEW k \in Nat \ {0}, NEW q \in Nat, NEW m \in Nat, q * k <= m, m < q * k + k
  PROVE  m \div k = q
<1> DEFINE d == m \div k
           r == m % k
<1>1. d \in Nat /\ r \in 0 .. k - 1 /\ m = k * d + r
  OBVIOUS
<1> HIDE DEF d, r
<1>2. ~(d < q)
  <2> SUFFICES ASSUME d < q PROVE FALSE
    OBVIOUS
  <2>1. d + 1 <= q /\ q - (d + 1) \in Nat
    BY <1>1
  <2>2. (q - (d + 1)) * k >= 0
    BY <1>1, <2>1
  <2>3. (q - (d + 1)) * k = q * k - d * k - k
    BY <1>1
  <2>4. QED
    BY <1>1, <2>2, <2>3
<1>3. ~(q < d)
  <2> SUFFICES ASSUME q < d PROVE FALSE
    OBVIOUS
  <2>1. q + 1 <= d /\ d - (q + 1) \in Nat
    BY <1>1
  <2>2. (d - (q + 1)) * k >= 0
    BY <1>1, <2>1
  <2>3. (d - (q + 1)) * k = d * k - q * k - k
    BY <1>1
  <2>4. QED
    BY <1>1, <2>2, <2>3
<1>4. QED
  BY <1>1, <1>2, <1>3 DEF d

(* A number, the start of its block of k, and the start of the next. *)
LEMMA Blocks ==
  ASSUME NEW k \in Nat \ {0}, NEW c \in Nat, NEW n \in Nat, n < c * k
  PROVE  /\ n \div k \in 0 .. c - 1
         /\ (n \div k) * k \in Nat /\ (n \div k) * k <= n
         /\ n < (n \div k) * k + k /\ (n \div k) * k + k <= c * k
<1> DEFINE d == n \div k
           r == n % k
<1>1. d \in Nat /\ r \in 0 .. k - 1 /\ n = k * d + r
  OBVIOUS
<1> HIDE DEF d, r
<1>2. d * k \in Nat /\ d * k <= n /\ n < d * k + k
  BY <1>1
<1>3. d < c
  <2> SUFFICES ASSUME d >= c PROVE FALSE
    BY <1>1
  <2>1. (d - c) * k >= 0 /\ (d - c) * k = d * k - c * k
    BY <1>1
  <2>2. QED
    BY <1>2, <2>1
<1>4. d * k + k <= c * k
  <2>1. c - (d + 1) \in Nat
    BY <1>1, <1>3
  <2>2. (c - (d + 1)) * k >= 0 /\ (c - (d + 1)) * k = c * k - d * k - k
    BY <1>1, <2>1
  <2>3. QED
    BY <1>1, <1>2, <2>2
<1>5. QED
  BY <1>1, <1>2, <1>3, <1>4 DEF d

(* The same, with its premises as one. *)
LEMMA BlocksAre ==
  \A k, c, n :
    k \in Nat \ {0} /\ c \in Nat /\ n \in Nat /\ n < c * k =>
      /\ n \div k \in 0 .. c - 1
      /\ (n \div k) * k \in Nat /\ (n \div k) * k <= n
      /\ n < (n \div k) * k + k /\ (n \div k) * k + k <= c * k
  BY Blocks

LEMMA CalendarSize ==
  /\ MinutesPerHour \in Nat \ {0} /\ HoursPerDay \in Nat \ {0} /\ Len(Calendar) \in Nat
  /\ MinutesPerDay \in Nat \ {0} /\ End \in Nat
  /\ End = Len(Calendar) * MinutesPerDay
  /\ End = (Len(Calendar) * HoursPerDay) * MinutesPerHour
  /\ Len(Calendar) * HoursPerDay \in Nat
<1>1. MinutesPerHour \in Nat \ {0} /\ HoursPerDay \in Nat \ {0} /\ Len(Calendar) \in Nat
  BY CalendarAssumption
<1>2. MinutesPerDay \in Nat \ {0}
  BY <1>1 DEF MinutesPerDay
<1>3. End = Len(Calendar) * MinutesPerDay /\ End \in Nat
  BY <1>1, <1>2 DEF End
<1>4. End = (Len(Calendar) * HoursPerDay) * MinutesPerHour
  BY <1>1 DEF End, MinutesPerDay
<1>5. QED
  BY <1>1, <1>2, <1>3, <1>4

LEMMA HourJump ==
  ASSUME NEW n \in 0 .. End - 1
  PROVE  /\ NextHour(n) \in n + 1 .. End
         /\ \A m \in n .. NextHour(n) - 1 : HourOf(m) = HourOf(n)
<1> DEFINE k == MinutesPerHour
           q == n \div k
           c == Len(Calendar) * HoursPerDay
<1>1. k \in Nat \ {0} /\ c \in Nat /\ End = c * k /\ n \in Nat /\ n < c * k /\ End \in Nat
  BY CalendarSize
<1> HIDE DEF k, c
<1>2. /\ q \in Nat /\ q * k \in Nat /\ q * k <= n /\ n < q * k + k /\ q * k + k <= c * k
      /\ q \in 0 .. c - 1
  BY <1>1, BlocksAre
<1>3. ASSUME NEW m \in n .. q * k + k - 1
      PROVE  m \div k = q
  <2> HIDE DEF q
  <2>1. m \in Nat /\ q * k <= m /\ m < q * k + k
    BY <1>1, <1>2
  <2>2. QED
    BY <1>1, <1>2, <2>1, BlockOf
<1>4. NextHour(n) = q * k + k
  BY DEF NextHour, k
<1>5. NextHour(n) \in n + 1 .. End
  <2> HIDE DEF q
  <2> QED BY <1>1, <1>2, <1>4
<1>6. ASSUME NEW m \in n .. NextHour(n) - 1 PROVE HourOf(m) = HourOf(n)
  <2>1. m \div k = q
    <3> HIDE DEF q
    <3> QED BY <1>1, <1>2, <1>3, <1>4
  <2>2. QED
    BY <2>1 DEF HourOf, k
<1>7. QED
  BY <1>5, <1>6

LEMMA DayJump ==
  ASSUME NEW n \in 0 .. End - 1
  PROVE  /\ NextDay(n) \in n + 1 .. End
         /\ Midnight(n) \in 0 .. n /\ Midnight(n) = (n \div MinutesPerDay) * MinutesPerDay
         /\ n \div MinutesPerDay \in 0 .. Len(Calendar) - 1
         /\ \A m \in Midnight(n) .. NextDay(n) - 1 : m \div MinutesPerDay = n \div MinutesPerDay
<1> DEFINE k == MinutesPerDay
           q == n \div k
           c == Len(Calendar)
<1>1. k \in Nat \ {0} /\ c \in Nat /\ End = c * k /\ n \in Nat /\ n < c * k /\ End \in Nat
  BY CalendarSize
<1> HIDE DEF k, c
<1>2. /\ q \in Nat /\ q * k \in Nat /\ q * k <= n /\ n < q * k + k /\ q * k + k <= c * k
      /\ q \in 0 .. c - 1
  BY <1>1, BlocksAre
<1>3. ASSUME NEW m \in q * k .. q * k + k - 1
      PROVE  m \div k = q
  <2> HIDE DEF q
  <2>1. m \in Nat /\ q * k <= m /\ m < q * k + k
    BY <1>1, <1>2
  <2>2. QED
    BY <1>1, <1>2, <2>1, BlockOf
<1>4. NextDay(n) = q * k + k /\ Midnight(n) = q * k
  BY DEF NextDay, Midnight, k
<1>5. NextDay(n) \in n + 1 .. End /\ Midnight(n) \in 0 .. n
  <2> HIDE DEF q
  <2> QED BY <1>1, <1>2, <1>4
<1>6. ASSUME NEW m \in Midnight(n) .. NextDay(n) - 1 PROVE m \div k = q
  <2> HIDE DEF q
  <2> QED BY <1>1, <1>2, <1>3, <1>4
<1>7. /\ Midnight(n) = (n \div MinutesPerDay) * MinutesPerDay
      /\ n \div MinutesPerDay \in 0 .. Len(Calendar) - 1
  BY <1>2, <1>4 DEF k, c
<1>8. QED
  BY <1>5, <1>6, <1>7 DEF k

(* The least of some numbers. *)
LEMMA MinIs ==
  ASSUME NEW T, T \subseteq Nat, T # {}
  PROVE  Min(T) \in T /\ \A y \in T : Min(T) <= y
  BY LeastElement DEF Min

LEMMA MonthJump ==
  ASSUME NEW n \in 0 .. End - 1
  PROVE  /\ NextMonth(n) \in n + 1 .. End
         /\ \A m \in n .. NextMonth(n) - 1 : DayOf(m).month = DayOf(n).month
<1> DEFINE D == MinutesPerDay
           firsts == {m \in NextDay(n) .. End - 1 : m = Midnight(m) /\ DayOf(m).dayOfMonth = 1}
           T == {m \in n .. NextMonth(n) - 1 : DayOf(m).month # DayOf(n).month}
<1>1. End \in Nat /\ NextDay(n) \in n + 1 .. End /\ n \in Nat
  BY CalendarSize, DayJump
<1>2. /\ NextMonth(n) \in NextDay(n) .. End
      /\ \A m \in firsts : NextMonth(n) <= m
  <2>1. NextMonth(n) = IF firsts = {} THEN End ELSE Min(firsts)
    BY DEF NextMonth
  <2>2. firsts \subseteq Nat /\ \A m \in firsts : m \in NextDay(n) .. End - 1
    BY <1>1
  <2> HIDE DEF firsts
  <2>3. CASE firsts = {}
    BY <1>1, <2>1, <2>3
  <2>4. CASE firsts # {}
    <3>1. NextMonth(n) \in firsts /\ \A m \in firsts : NextMonth(n) <= m
      BY <2>1, <2>2, <2>4, MinIs
    <3>2. NextMonth(n) \in NextDay(n) .. End - 1
      BY <2>2, <3>1
    <3>3. QED
      BY <1>1, <3>1, <3>2
  <2>5. QED
    BY <2>3, <2>4
<1>3. NextMonth(n) \in n + 1 .. End
  BY <1>1, <1>2
<1>4. T = {}
  <2> SUFFICES ASSUME T # {} PROVE FALSE
    OBVIOUS
  <2>1. PICK x \in T : \A y \in T : x <= y
    <3>1. T \subseteq Nat
      BY <1>1
    <3>2. QED
      BY <3>1, LeastElement
  <2>2. x \in 0 .. End - 1 /\ n <= x /\ x < NextMonth(n) /\ DayOf(x).month # DayOf(n).month
    BY <1>1, <1>3
  <2> DEFINE y == Midnight(x)
  <2>3. /\ y \in 0 .. x /\ x \div D \in 0 .. Len(Calendar) - 1 /\ NextDay(x) \in x + 1 .. End
        /\ \A m \in y .. NextDay(x) - 1 : m \div D = x \div D
        /\ \A m \in Midnight(n) .. NextDay(n) - 1 : m \div D = n \div D
        /\ n \div D \in 0 .. Len(Calendar) - 1 /\ Midnight(n) \in 0 .. n
    BY <2>2, DayJump
  <2>4. y \div D = x \div D
    BY <2>2, <2>3
  <2>5. DayOf(y) = DayOf(x)
    BY <2>4 DEF DayOf
  <2>6. ~(x < NextDay(n))
    <3> SUFFICES ASSUME x < NextDay(n) PROVE FALSE
      OBVIOUS
    <3>1. x \in Midnight(n) .. NextDay(n) - 1
      BY <1>1, <2>2, <2>3
    <3>2. x \div D = n \div D
      BY <2>3, <3>1
    <3>3. QED
      BY <2>2, <3>2 DEF DayOf
  <2>7. ~(y < NextDay(n))
    <3> SUFFICES ASSUME y < NextDay(n) PROVE FALSE
      OBVIOUS
    <3>1. NextDay(n) - 1 \in y .. NextDay(x) - 1 /\ NextDay(n) - 1 \in Midnight(n) .. NextDay(n) - 1
      BY <1>1, <2>2, <2>3, <2>6
    <3>2. x \div D = n \div D
      BY <2>3, <3>1
    <3>3. QED
      BY <2>2, <3>2 DEF DayOf
  <2>8. y = x
    <3>1. y \in n .. NextMonth(n) - 1 /\ DayOf(y).month # DayOf(n).month
      BY <1>1, <1>3, <2>2, <2>3, <2>5, <2>7
    <3>2. y \in T
      BY <3>1
    <3>3. x <= y
      BY <2>1, <3>2
    <3>4. QED
      BY <2>2, <2>3, <3>3
  <2> HIDE DEF y
  <2>9. x - 1 \in 0 .. End - 1 /\ n <= x - 1 /\ DayOf(x - 1).month = DayOf(n).month
    <3>1. x - 1 \in n .. NextMonth(n) - 1 /\ x - 1 \in 0 .. End - 1 /\ ~(x <= x - 1)
      BY <1>1, <1>3, <2>2, <2>6
    <3>2. x - 1 \notin T
      BY <2>1, <3>1
    <3>3. QED
      BY <3>1, <3>2
  <2>10. (x - 1) \div D = (x \div D) - 1
    <3> DEFINE q == x \div D
    <3>1. D \in Nat \ {0} /\ x = q * D
      BY <2>2, <2>8, CalendarSize, DayJump DEF y
    <3>2. q \in Nat
      BY <2>3, CalendarSize
    <3> HIDE DEF q, D
    <3>3. q # 0
      BY <1>1, <2>2, <2>9, <3>1
    <3>4. q - 1 \in Nat /\ x - 1 \in Nat /\ (q - 1) * D = x - D /\ (q - 1) * D <= x - 1
          /\ x - 1 < (q - 1) * D + D
      BY <2>9, <3>1, <3>2, <3>3
    <3>5. (x - 1) \div D = q - 1
      BY <3>1, <3>4, BlockOf
    <3>6. QED
      BY <3>5 DEF q
  <2>11. DayOf(x).dayOfMonth = 1
    <3> DEFINE d == x \div D
    <3>1. (x - 1) \div D \in 0 .. Len(Calendar) - 1
      BY <2>9, DayJump
    <3> HIDE DEF D
    <3>2. d \in 1 .. Len(Calendar) - 1
      <4>1. d - 1 \in 0 .. Len(Calendar) - 1 /\ d \in 0 .. Len(Calendar) - 1
        BY <2>3, <2>10, <3>1
      <4> HIDE DEF d
      <4>2. QED
        BY <4>1, CalendarSize
    <3>3. DayOf(x) = Calendar[d + 1]
      BY DEF DayOf, D
    <3>4. DayOf(x - 1) = Calendar[d]
      <4>1. DayOf(x - 1) = Calendar[((x - 1) \div D) + 1]
        BY DEF DayOf, D
      <4>2. ((x - 1) \div D) + 1 = d
        <5> DEFINE e == (x - 1) \div D
        <5>1. e = d - 1
          BY <2>10
        <5> HIDE DEF e, d
        <5>2. e + 1 = d
          BY <3>2, <5>1, CalendarSize
        <5>3. QED
          BY <5>2 DEF e
      <4>3. QED
        BY <4>1, <4>2
    <3> HIDE DEF d
    <3>5. Calendar[d + 1].month # Calendar[d].month
      BY <2>2, <2>9, <3>3, <3>4
    <3>6. QED
      BY <3>2, <3>3, <3>5, CalendarAssumption
  <2>12. x \in firsts
    BY <1>1, <2>2, <2>6, <2>8, <2>11 DEF y
  <2>13. QED
    BY <1>1, <1>2, <1>3, <2>2, <2>12
<1>5. QED
  BY <1>3, <1>4

(* The minutes from n on that an expression names, and the first of them. *)
NamedFrom(expr, n) == {m \in n .. End - 1 : m \in Slots(expr)}

FirstNamed(expr, n) == IF NamedFrom(expr, n) = {} THEN Never ELSE Min(NamedFrom(expr, n))

LEMMA JumpSkips ==
  ASSUME NEW expr, NEW n \in 0 .. End - 1, NEW to \in n + 1 .. End,
         \A m \in n .. to - 1 : m \notin Slots(expr)
  PROVE  FirstNamed(expr, n) = FirstNamed(expr, to)
<1>1. End \in Nat
  BY CalendarSize
<1>2. NamedFrom(expr, n) = NamedFrom(expr, to)
  BY <1>1 DEF NamedFrom
<1>3. QED
  BY <1>2 DEF FirstNamed

(* One round of the search, which goes on in f. *)
SearchRound(f, expr, n) ==
  IF n = End THEN Never
  ELSE IF DayOf(n).month \notin expr.month    THEN f[NextMonth(n)]
  ELSE IF ~dayMatches(expr, DayOf(n))         THEN f[NextDay(n)]
  ELSE IF HourOf(n) \notin expr.hour          THEN f[NextHour(n)]
  ELSE IF MinuteOf(n) \notin expr.minute      THEN f[n + 1]
  ELSE n

(* No round skips a minute that the expression names. *)
LEMMA RoundExact ==
  ASSUME NEW expr, NEW n \in 0 .. End, NEW f,
         \A m \in n + 1 .. End : f[m] = FirstNamed(expr, m)
  PROVE  SearchRound(f, expr, n) = FirstNamed(expr, n)
<1>1. End \in Nat
  BY CalendarSize
<1>2. CASE n = End
  <2>1. NamedFrom(expr, n) = {}
    BY <1>1, <1>2 DEF NamedFrom
  <2>2. QED
    BY <1>2, <2>1 DEF SearchRound, FirstNamed
<1>3. CASE n # End
  <2>0. n \in 0 .. End - 1
    BY <1>1, <1>3
  <2>1. CASE DayOf(n).month \notin expr.month
    <3>1. /\ NextMonth(n) \in n + 1 .. End
          /\ \A m \in n .. NextMonth(n) - 1 : DayOf(m).month = DayOf(n).month
      BY <2>0, MonthJump
    <3>2. \A m \in n .. NextMonth(n) - 1 : m \notin Slots(expr)
      BY <2>1, <3>1 DEF Slots
    <3>3. SearchRound(f, expr, n) = f[NextMonth(n)]
      BY <1>3, <2>1 DEF SearchRound
    <3>4. QED
      BY <2>0, <3>1, <3>2, <3>3, JumpSkips
  <2>2. CASE DayOf(n).month \in expr.month /\ ~dayMatches(expr, DayOf(n))
    <3>1. /\ NextDay(n) \in n + 1 .. End /\ Midnight(n) \in 0 .. n
          /\ \A m \in Midnight(n) .. NextDay(n) - 1 :
               m \div MinutesPerDay = n \div MinutesPerDay
      BY <2>0, DayJump
    <3>2. \A m \in n .. NextDay(n) - 1 : DayOf(m) = DayOf(n)
      <4> SUFFICES ASSUME NEW m \in n .. NextDay(n) - 1 PROVE DayOf(m) = DayOf(n)
        OBVIOUS
      <4>1. m \in Midnight(n) .. NextDay(n) - 1
        BY <3>1
      <4>2. QED
        BY <3>1, <4>1 DEF DayOf
    <3>3. \A m \in n .. NextDay(n) - 1 : m \notin Slots(expr)
      BY <2>2, <3>2 DEF Slots, DayNamed, dayMatches
    <3>4. SearchRound(f, expr, n) = f[NextDay(n)]
      BY <1>3, <2>2 DEF SearchRound
    <3>5. QED
      BY <2>0, <3>1, <3>3, <3>4, JumpSkips
  <2>3. CASE /\ DayOf(n).month \in expr.month /\ dayMatches(expr, DayOf(n))
             /\ HourOf(n) \notin expr.hour
    <3>1. /\ NextHour(n) \in n + 1 .. End
          /\ \A m \in n .. NextHour(n) - 1 : HourOf(m) = HourOf(n)
      BY <2>0, HourJump
    <3>2. \A m \in n .. NextHour(n) - 1 : m \notin Slots(expr)
      BY <2>3, <3>1 DEF Slots
    <3>3. SearchRound(f, expr, n) = f[NextHour(n)]
      BY <1>3, <2>3 DEF SearchRound
    <3>4. QED
      BY <2>0, <3>1, <3>2, <3>3, JumpSkips
  <2>4. CASE /\ DayOf(n).month \in expr.month /\ dayMatches(expr, DayOf(n))
             /\ HourOf(n) \in expr.hour /\ MinuteOf(n) \notin expr.minute
    <3>1. n + 1 \in n + 1 .. End
      BY <1>1, <2>0
    <3>2. \A m \in n .. (n + 1) - 1 : m \notin Slots(expr)
      <4>1. n \notin Slots(expr)
        BY <2>4 DEF Slots
      <4>2. QED
        BY <2>0, <4>1
    <3>3. SearchRound(f, expr, n) = f[n + 1]
      BY <1>3, <2>4 DEF SearchRound
    <3>4. QED
      BY <2>0, <3>1, <3>2, <3>3, JumpSkips
  <2>5. CASE /\ DayOf(n).month \in expr.month /\ dayMatches(expr, DayOf(n))
             /\ HourOf(n) \in expr.hour /\ MinuteOf(n) \in expr.minute
    <3>1. SearchRound(f, expr, n) = n
      BY <1>3, <2>5 DEF SearchRound
    <3>2. n \in Slots(expr)
      BY <2>0, <2>5 DEF Slots, DayNamed, dayMatches
    <3>3. /\ n \in NamedFrom(expr, n) /\ NamedFrom(expr, n) \subseteq Nat
          /\ \A m \in NamedFrom(expr, n) : n <= m
      BY <1>1, <2>0, <3>2 DEF NamedFrom
    <3>4. Min(NamedFrom(expr, n)) \in Nat /\ Min(NamedFrom(expr, n)) = n
      <4>1. PICK T : T = NamedFrom(expr, n)
        OBVIOUS
      <4>2. /\ n \in T /\ T \subseteq Nat /\ T # {} /\ n \in Nat
            /\ \A m \in T : n <= m
        BY <2>0, <3>3, <4>1
      <4>3. Min(T) \in T /\ \A y \in T : Min(T) <= y
        BY <4>2, MinIs
      <4>4. Min(T) \in Nat /\ Min(T) <= n /\ n <= Min(T)
        BY <4>2, <4>3
      <4>5. Min(T) = n
        BY <4>2, <4>4
      <4>6. QED
        BY <4>1, <4>4, <4>5
    <3>5. QED
      BY <3>1, <3>3, <3>4 DEF FirstNamed
  <2>6. QED
    BY <2>1, <2>2, <2>3, <2>4, <2>5
<1>4. QED
  BY <1>2, <1>3

(* "Returns the first instant strictly after `after` that satisfies        *)
(* `expr`" (next-run.ts 40), for every expression and every calendar: the  *)
(* jumps of nextRun over months, days and hours skip no minute, and it     *)
(* finds none only if there is none.                                       *)
THEOREM JumpSearchIsExact ==
  ASSUME NEW expr, NEW after \in 0 .. End - 1
  PROVE  nextRun(expr, after) = FirstNamed(expr, after + 1)
<1> DEFINE search == CHOOSE f : f = [n \in 0 .. End |-> SearchRound(f, expr, n)]
           first == [n \in 0 .. End |-> FirstNamed(expr, n)]
<1>1. End \in Nat
  BY CalendarSize
<1>2. nextRun(expr, after) = search[after + 1]
  BY DEF nextRun, SearchRound
<1>3. first = [n \in 0 .. End |-> SearchRound(first, expr, n)]
  <2>1. ASSUME NEW n \in 0 .. End PROVE first[n] = SearchRound(first, expr, n)
    <3>1. \A m \in n + 1 .. End : first[m] = FirstNamed(expr, m)
      BY <1>1
    <3>2. first[n] = FirstNamed(expr, n)
      OBVIOUS
    <3> HIDE DEF first
    <3>3. QED
      BY <3>1, <3>2, RoundExact
  <2>2. QED
    BY <2>1
<1>4. search = [n \in 0 .. End |-> SearchRound(search, expr, n)]
  <2> HIDE DEF first
  <2>1. QED
    BY <1>3
<1> HIDE DEF search, first
<1>5. ASSUME NEW n \in 0 .. End PROVE search[n] = FirstNamed(expr, n)
  <2> DEFINE T == {k \in 0 .. End : search[End - k] # FirstNamed(expr, End - k)}
  <2>1. T = {}
    <3> SUFFICES ASSUME T # {} PROVE FALSE
      OBVIOUS
    <3>1. T \subseteq Nat
      BY <1>1
    <3>2. PICK k \in T : \A j \in T : k <= j
      BY <3>1, LeastElement
    <3>3. k \in 0 .. End /\ End - k \in 0 .. End
      BY <1>1
    <3>4. ASSUME NEW m \in (End - k) + 1 .. End PROVE search[m] = FirstNamed(expr, m)
      <4>1. m \in 0 .. End /\ End - m \in 0 .. End /\ ~(k <= End - m) /\ End - (End - m) = m
        BY <1>1, <3>3
      <4>2. End - m \notin T
        BY <3>2, <4>1
      <4>3. QED
        BY <4>1, <4>2
    <3>5. SearchRound(search, expr, End - k) = FirstNamed(expr, End - k)
      BY <3>3, <3>4, RoundExact
    <3>6. search[End - k] = SearchRound(search, expr, End - k)
      BY <1>4, <3>3
    <3>7. QED
      BY <3>2, <3>5, <3>6
  <2>2. End - n \in 0 .. End /\ End - (End - n) = n
    BY <1>1
  <2>3. End - n \notin T
    BY <2>1
  <2>4. QED
    BY <2>2, <2>3
<1>6. after + 1 \in 0 .. End
  BY <1>1
<1>7. QED
  BY <1>2, <1>5, <1>6

----------------------------------------------------------------------------
(* The operators of a tick. *)

(* The last of some minutes is one of them. *)
LEMMA LastMinute ==
  ASSUME NEW T, T \subseteq Minutes, T # {}
  PROVE  Max(T) \in T
<1> DEFINE left == {Horizon - m : m \in T}
<1>1. \A m \in T : m \in Nat /\ m <= Horizon
  BY CronAssumption DEF Minutes
<1>2. Horizon \in Nat
  BY CronAssumption
<1>3. left \subseteq Nat /\ left # {}
  BY <1>1, <1>2
<1>4. PICK x \in left : \A y \in left : x <= y
  <2> HIDE DEF left
  <2>1. QED
    BY <1>3, LeastElement
<1>5. PICK m \in T : x = Horizon - m
  BY <1>4
<1>6. ASSUME NEW n \in T PROVE m >= n
  <2>1. Horizon - m <= Horizon - n
    BY <1>4, <1>5, <1>6
  <2>2. QED
    BY <1>1, <1>2, <2>1
<1>7. \E y \in T : \A n \in T : y >= n
  BY <1>6
<1>8. QED
  BY <1>7 DEF Max

MaybeSchedule == Schedule \cup {Absent}

LEMMA MovedAnchor ==
  ASSUME NEW schedule \in Schedule, NEW m \in Minutes
  PROVE  /\ [schedule EXCEPT !.lastRunAt = m] \in Schedule
         /\ [schedule EXCEPT !.lastRunAt = m] # Absent
<1>1. m \in 0 .. Horizon
  BY CronAssumption DEF Minutes
<1>2. [schedule EXCEPT !.lastRunAt = m] \in Schedule
  BY <1>1 DEF Schedule
<1>3. QED
  BY <1>2, CronAssumption

LEMMA LastDue ==
  ASSUME NEW schedule, NEW now, DueTicks(schedule, now) # {}
  PROVE  Max(DueTicks(schedule, now)) \in Minutes
  BY LastMinute DEF DueTicks

LEMMA MisfireKeeps ==
  ASSUME NEW schedule \in MaybeSchedule, NEW now
  PROVE  /\ applyMisfirePolicy(schedule, now) \in MaybeSchedule
         /\ applyMisfirePolicy(schedule, now) = Absent <=> schedule = Absent
<1>1. CASE /\ schedule # Absent /\ schedule.enabled /\ schedule.misfire = "skip"
           /\ DueTicks(schedule, now) # {}
  <2>1. schedule \in Schedule
    BY <1>1 DEF MaybeSchedule
  <2>2. /\ [schedule EXCEPT !.lastRunAt = Max(DueTicks(schedule, now))] \in Schedule
        /\ [schedule EXCEPT !.lastRunAt = Max(DueTicks(schedule, now))] # Absent
    BY <1>1, <2>1, LastDue, MovedAnchor
  <2>3. QED
    BY <1>1, <2>2 DEF applyMisfirePolicy, MaybeSchedule
<1>2. CASE ~(/\ schedule # Absent /\ schedule.enabled /\ schedule.misfire = "skip"
             /\ DueTicks(schedule, now) # {})
  BY <1>2 DEF applyMisfirePolicy
<1>3. QED
  BY <1>1, <1>2

LEMMA AdvancedKeeps ==
  ASSUME NEW schedules \in [Schedules -> MaybeSchedule], NEW now
  PROVE  /\ Advanced(schedules, now) \in [Schedules -> MaybeSchedule]
         /\ \A s \in Schedules : Advanced(schedules, now)[s] = Absent <=> schedules[s] = Absent
<1>1. ASSUME NEW s \in Schedules, Due(schedules[s], now)
      PROVE  /\ [schedules[s] EXCEPT !.lastRunAt = Max(DueTicks(schedules[s], now))] \in Schedule
             /\ [schedules[s] EXCEPT !.lastRunAt = Max(DueTicks(schedules[s], now))] # Absent
             /\ schedules[s] # Absent
  <2>1. schedules[s] \in Schedule /\ DueTicks(schedules[s], now) # {} /\ schedules[s] # Absent
    BY <1>1 DEF Due, MaybeSchedule
  <2>2. QED
    BY <2>1, LastDue, MovedAnchor
<1>2. ASSUME NEW s \in Schedules
      PROVE  /\ Advanced(schedules, now)[s] \in MaybeSchedule
             /\ Advanced(schedules, now)[s] = Absent <=> schedules[s] = Absent
  <2>1. CASE Due(schedules[s], now) /\ isWindowOpen(schedules[s].class, now)
    BY <1>1, <2>1 DEF Advanced, MaybeSchedule
  <2>2. CASE ~(Due(schedules[s], now) /\ isWindowOpen(schedules[s].class, now))
    BY <2>2 DEF Advanced
  <2>3. QED
    BY <2>1, <2>2
<1>3. Advanced(schedules, now) = [s \in Schedules |-> Advanced(schedules, now)[s]]
  BY DEF Advanced
<1>4. QED
  BY <1>2, <1>3

Slot == Schedules \X Minutes

(* A run is created for a schedule that is there and a slot without one. *)
LEMMA CreatedIs ==
  ASSUME NEW schedules, NEW runs, NEW now
  PROVE  /\ Created(schedules, runs, now) \subseteq Slot \ runs
         /\ \A s \in Schedules, m \in Minutes :
              <<s, m>> \in Created(schedules, runs, now) => schedules[s] # Absent
<1>1. ASSUME NEW p \in Created(schedules, runs, now)
      PROVE  /\ p \notin runs
             /\ \E s \in Schedules : /\ Due(schedules[s], now)
                                     /\ p = <<s, Max(DueTicks(schedules[s], now))>>
  BY <1>1 DEF Created
<1>2. ASSUME NEW s \in Schedules, Due(schedules[s], now)
      PROVE  Max(DueTicks(schedules[s], now)) \in Minutes /\ schedules[s] # Absent
  BY <1>2, LastDue DEF Due
<1>3. ASSUME NEW p \in Created(schedules, runs, now) PROVE p \in Slot
  BY <1>1, <1>2 DEF Slot
<1>4. ASSUME NEW s \in Schedules, NEW m \in Minutes, <<s, m>> \in Created(schedules, runs, now)
      PROVE  schedules[s] # Absent
  <2>1. PICK r \in Schedules : /\ Due(schedules[r], now)
                               /\ <<s, m>> = <<r, Max(DueTicks(schedules[r], now))>>
    BY <1>1, <1>4
  <2>2. s = r
    BY <2>1
  <2>3. QED
    BY <1>2, <2>1, <2>2
<1>5. QED
  BY <1>1, <1>3, <1>4
----------------------------------------------------------------------------
(* States of the scheduler. *)

Outcomes == {"success", "skipped_overlap"}

LEMMA StateFields ==
  ASSUME NEW st \in State
  PROVE  /\ st.schedules \in [Schedules -> MaybeSchedule]
         /\ st.runs \subseteq Slot
         /\ st.ticks \subseteq Minutes
         /\ st.ledger \subseteq Schedules \X Minutes \X Outcomes
  BY DEF State, MaybeSchedule, Slot, Outcomes

(* The ledger matches the history, slot by slot. *)
LEMMA ConsistentIs ==
  ASSUME NEW st \in State
  PROVE  Consistent(st) <=>
           \A s \in Schedules, m \in Minutes :
             <<s, m, "success">> \in st.ledger <=> <<s, m>> \in st.runs
<1> DEFINE told == {<<l[1], l[2]>> : l \in {k \in st.ledger : k[3] = "success"}}
<1>1. st.runs \subseteq Slot /\ st.ledger \subseteq Schedules \X Minutes \X Outcomes
  BY StateFields
<1>2. told \subseteq Slot
  <2>1. ASSUME NEW x \in told PROVE x \in Slot
    <3>1. PICK l \in st.ledger : x = <<l[1], l[2]>>
      BY <2>1
    <3>2. l[1] \in Schedules /\ l[2] \in Minutes
      BY <1>1, <3>1
    <3>3. QED
      BY <3>1, <3>2 DEF Slot
  <2>2. QED
    BY <2>1
<1>3. ASSUME NEW s \in Schedules, NEW m \in Minutes
      PROVE  <<s, m>> \in told <=> <<s, m, "success">> \in st.ledger
  <2>1. ASSUME <<s, m>> \in told PROVE <<s, m, "success">> \in st.ledger
    <3>1. PICK l \in st.ledger : l[3] = "success" /\ <<s, m>> = <<l[1], l[2]>>
      BY <2>1
    <3>2. l = <<s, m, "success">>
      BY <1>1, <3>1
    <3>3. QED
      BY <3>1, <3>2
  <2>2. ASSUME <<s, m, "success">> \in st.ledger PROVE <<s, m>> \in told
    <3>1. /\ <<s, m, "success">>[1] = s /\ <<s, m, "success">>[2] = m
          /\ <<s, m, "success">>[3] = "success"
      OBVIOUS
    <3>2. QED
      BY <2>2, <3>1
  <2>3. QED
    BY <2>1, <2>2
<1> HIDE DEF told
<1>4. told = st.runs <=> \A s \in Schedules, m \in Minutes :
                            <<s, m>> \in told <=> <<s, m>> \in st.runs
  <2>1. ASSUME NEW x \in Slot PROVE \E s \in Schedules, m \in Minutes : x = <<s, m>>
    BY <2>1 DEF Slot
  <2>2. ASSUME \A s \in Schedules, m \in Minutes : <<s, m>> \in told <=> <<s, m>> \in st.runs
        PROVE  told = st.runs
    <3>1. ASSUME NEW x \in Slot PROVE x \in told <=> x \in st.runs
      <4>1. PICK s \in Schedules, m \in Minutes : x = <<s, m>>
        BY <2>1
      <4>2. <<s, m>> \in told <=> <<s, m>> \in st.runs
        BY <2>2
      <4>3. QED
        BY <4>1, <4>2
    <3>2. QED
      BY <1>1, <1>2, <3>1
  <2>3. QED
    BY <2>2
<1>5. Consistent(st) <=> told = st.runs
  BY DEF Consistent, told
<1>6. QED
  BY <1>3, <1>4, <1>5

(* A state with one schedule put in its place. *)
LEMMA PutSchedule ==
  ASSUME NEW st \in State, NEW s \in Schedules, NEW schedule \in MaybeSchedule
  PROVE  LET st2 == [st EXCEPT !.schedules[s] = schedule] IN
         /\ st2 \in State
         /\ st2.runs = st.runs /\ st2.ledger = st.ledger
         /\ st2.schedules[s] = schedule
         /\ \A r \in Schedules : r # s => st2.schedules[r] = st.schedules[r]
  BY DEF State, MaybeSchedule

LEMMA SeedIsState ==
  ASSUME seeded \in Seeds
  PROVE  /\ seed \in State /\ Consistent(seed)
         /\ seed.schedules = seeded /\ seed.runs = {}
<1>1. seeded \in [Schedules -> Schedule \cup {Absent}]
  BY CronAssumption
<1>2. seed \in State
  BY <1>1 DEF seed, State
<1>3. QED
  BY <1>1, <1>2 DEF seed, Consistent

Edited == [id : Schedules, read : State, sent : {TRUE}]

LEMMA EditKinds ==
  ASSUME TypeOK, NEW e \in Editors
  PROVE  /\ edit[e].id # Absent => edit[e] \in Edited
         /\ NoEdit.id = Absent /\ EditDone.id = Absent
         /\ NoEdit \notin Edited /\ EditDone \notin Edited
<1>1. NoEdit.id = Absent /\ EditDone.id = Absent
  BY DEF NoEdit, EditDone
<1>2. \A x \in Edited : x.id # Absent
  BY CronAssumption DEF Edited
<1>3. edit[e] \in Edited \cup {NoEdit, EditDone}
  BY DEF TypeOK, Edited
<1>4. QED
  BY <1>1, <1>2, <1>3
----------------------------------------------------------------------------
(* The steps, by what they do to the state. *)

Edits == [Editors -> Edited \cup {NoEdit, EditDone}]

TickStates == [Ticks -> [at : {"idle", "arrived", "evaluated", "done"}, now : Minutes]]

(* A tick evaluates: a run for every slot in `created' and nothing else    *)
(* that matters here.                                                      *)
Fires(created) ==
  /\ created \subseteq Slot \ state.runs
  /\ \A s \in Schedules, m \in Minutes : <<s, m>> \in created => Present(s)
  /\ state' \in State
  /\ state'.runs = state.runs \cup created
  /\ \A s \in Schedules : state'.schedules[s] = Absent <=> state.schedules[s] = Absent
  /\ \A s \in Schedules, m \in Minutes :
       <<s, m, "success">> \in state'.ledger
         <=> <<s, m, "success">> \in state.ledger \/ <<s, m>> \in created
  /\ fired' = [p \in Slot |-> IF p \in created THEN fired[p] + 1 ELSE fired[p]]

LEMMA TickOverIs ==
  ASSUME NEW t
  PROVE  TickOver(t) \in {"idle", "done"}
  BY DEF TickOver

LEMMA EvaluateIs ==
  ASSUME TypeOK, NEW t \in Ticks, Evaluate(t)
  PROVE  /\ UNCHANGED <<clock, seeded, edit, known, rollbacks>>
         /\ tick' \in TickStates /\ locks' \subseteq Minutes
         /\ UNCHANGED <<state, fired>> \/ \E created : Fires(created)
<1> DEFINE now == tick[t].now
           schedules == [s \in Schedules |-> applyMisfirePolicy(state.schedules[s], now)]
           created == Created(schedules, state.runs, now)
           deferred == Deferred(schedules, now)
<1>1. tick \in TickStates /\ now \in Minutes /\ locks \subseteq Minutes /\ state \in State
  BY DEF TypeOK, TickStates
<1>2. tick' \in TickStates /\ locks' \subseteq Minutes
  <2>1. tick' = [tick EXCEPT ![t].at = IF Redis THEN "evaluated" ELSE TickOver(t)]
    BY DEF Evaluate
  <2>2. (IF Redis THEN "evaluated" ELSE TickOver(t)) \in {"idle", "arrived", "evaluated", "done"}
    BY TickOverIs
  <2>3. tick' \in TickStates
    BY <1>1, <2>1, <2>2 DEF TickStates
  <2>4. locks' = locks \cup {now} \/ locks' = locks
    BY DEF Evaluate
  <2>5. QED
    BY <1>1, <2>3, <2>4
<1>3. UNCHANGED <<clock, seeded, edit, known, rollbacks>>
  BY DEF Evaluate
<1>4. ASSUME ~UNCHANGED <<state, fired>> PROVE Fires(created)
  <2>1. /\ state' = [schedules |-> Advanced(schedules, now),
                     runs      |-> state.runs \cup created,
                     ticks     |-> state.ticks \cup {now},
                     ledger    |-> state.ledger
                       \cup {<<r[1], r[2], "success">> : r \in created}
                       \cup {<<s, now, "skipped_overlap">> : s \in deferred}]
        /\ fired' = [p \in Schedules \X Minutes |->
                       IF p \in created THEN fired[p] + 1 ELSE fired[p]]
    BY <1>4 DEF Evaluate
  <2>2. /\ state.schedules \in [Schedules -> MaybeSchedule]
        /\ state.runs \subseteq Slot /\ state.ticks \subseteq Minutes
        /\ state.ledger \subseteq Schedules \X Minutes \X Outcomes
    BY <1>1, StateFields
  <2>3. /\ schedules \in [Schedules -> MaybeSchedule]
        /\ \A s \in Schedules : schedules[s] = Absent <=> state.schedules[s] = Absent
    BY <2>2, MisfireKeeps
  <2> HIDE DEF schedules, now
  <2>4. /\ created \subseteq Slot \ state.runs
        /\ \A s \in Schedules, m \in Minutes : <<s, m>> \in created => schedules[s] # Absent
    BY CreatedIs
  <2>5. deferred \subseteq Schedules
    BY DEF Deferred
  <2>6. /\ Advanced(schedules, now) \in [Schedules -> MaybeSchedule]
        /\ \A s \in Schedules : Advanced(schedules, now)[s] = Absent
                                  <=> state.schedules[s] = Absent
    BY <2>3, AdvancedKeeps
  <2> HIDE DEF created, deferred
  <2> DEFINE success == {<<r[1], r[2], "success">> : r \in created}
             skipped == {<<s, now, "skipped_overlap">> : s \in deferred}
  <2>7. success \subseteq Schedules \X Minutes \X Outcomes
    BY <2>4 DEF Slot, Outcomes
  <2>8. skipped \subseteq Schedules \X Minutes \X Outcomes
    BY <1>1, <2>5 DEF Outcomes
  <2>9. ASSUME NEW s \in Schedules, NEW m \in Minutes
        PROVE  /\ <<s, m, "success">> \in success <=> <<s, m>> \in created
               /\ <<s, m, "success">> \notin skipped
    <3>1. ASSUME <<s, m, "success">> \in success PROVE <<s, m>> \in created
      <4>1. PICK r \in created : <<s, m, "success">> = <<r[1], r[2], "success">>
        BY <3>1
      <4>2. r = <<s, m>>
        BY <2>4, <4>1 DEF Slot
      <4>3. QED
        BY <4>1, <4>2
    <3>2. ASSUME <<s, m>> \in created PROVE <<s, m, "success">> \in success
      <4>1. <<s, m>>[1] = s /\ <<s, m>>[2] = m
        OBVIOUS
      <4>2. QED
        BY <3>2, <4>1
    <3>3. <<s, m, "success">> \notin skipped
      OBVIOUS
    <3>4. QED
      BY <3>1, <3>2, <3>3
  <2> HIDE DEF success, skipped
  <2>10. state' = [schedules |-> Advanced(schedules, now),
                   runs      |-> state.runs \cup created,
                   ticks     |-> state.ticks \cup {now},
                   ledger    |-> state.ledger \cup success \cup skipped]
    BY <2>1 DEF success, skipped
  <2>11. state' \in State
    BY <1>1, <2>2, <2>4, <2>6, <2>7, <2>8, <2>10
       DEF State, MaybeSchedule, Slot, Outcomes
  <2>12. /\ state'.runs = state.runs \cup created
         /\ state'.schedules = Advanced(schedules, now)
         /\ state'.ledger = state.ledger \cup success \cup skipped
    BY <2>10
  <2>13. \A s \in Schedules, m \in Minutes : <<s, m>> \in created => Present(s)
    BY <2>3, <2>4 DEF Present
  <2>14. QED
    BY <2>1, <2>4, <2>6, <2>9, <2>11, <2>12, <2>13 DEF Fires, Slot
<1>5. QED
  BY <1>2, <1>3, <1>4
----------------------------------------------------------------------------
(* Nothing happens but that edits begin and end. *)
Settles ==
  /\ UNCHANGED <<seeded, state, known, fired, rollbacks>>
  /\ \A e \in Editors :
       \/ edit'[e] = edit[e]
       \/ edit'[e].id = Absent
       \/ \E s \in Schedules :
            Present(s) /\ edit'[e] = [id |-> s, read |-> state, sent |-> TRUE]

Creates(s) ==
  /\ s \notin known /\ known' = known \cup {s}
  /\ state'.runs = state.runs /\ state'.ledger = state.ledger
  /\ \A r \in Schedules : r # s => state'.schedules[r] = state.schedules[r]
  /\ UNCHANGED <<seeded, edit, fired, rollbacks>>

Deletes(s) ==
  /\ Present(s)
  /\ state'.schedules[s] = Absent
  /\ \A r \in Schedules : r # s => state'.schedules[r] = state.schedules[r]
  /\ \A r \in Schedules, m \in Minutes :
       /\ <<r, m>> \in state'.runs <=> r # s /\ <<r, m>> \in state.runs
       /\ <<r, m, "success">> \in state'.ledger
            <=> r # s /\ <<r, m, "success">> \in state.ledger
  /\ UNCHANGED <<seeded, edit, known, fired, rollbacks>>

(* An editor writes back what it read. *)
WritesBack(e) ==
  /\ edit[e].id # Absent
  /\ edit[e].read \in State
  /\ rollbacks' = IF edit[e].read = state THEN rollbacks ELSE rollbacks + 1
  /\ state'.runs = edit[e].read.runs /\ state'.ledger = edit[e].read.ledger
  /\ \A s \in Schedules :
       state'.schedules[s] = Absent <=> edit[e].read.schedules[s] = Absent
  /\ \A d \in Editors : edit'[d] = edit[d] \/ edit'[d].id = Absent
  /\ UNCHANGED <<seeded, known, fired>>

Forgets ==
  /\ rollbacks' = rollbacks + 1
  /\ state' = seed
  /\ \A e \in Editors : edit'[e].id = Absent
  /\ UNCHANGED <<seeded, known, fired>>

Steps ==
  \/ Settles
  \/ (\E created : Fires(created)) /\ UNCHANGED <<seeded, edit, known, rollbacks>>
  \/ \E s \in Schedules : Creates(s) \/ Deletes(s)
  \/ \E e \in Editors : WritesBack(e)
  \/ Forgets

LEMMA TypeIs ==
  TypeOK <=> /\ clock \in Minutes /\ seeded \in Seeds /\ state \in State
             /\ tick \in TickStates /\ locks \subseteq Minutes /\ edit \in Edits
             /\ known \subseteq Schedules /\ fired \in [Slot -> Nat]
             /\ rollbacks \in 0 .. MaxRollbacks
  BY DEF TypeOK, TickStates, Edits, Edited, Slot

LEMMA ArriveStep ==
  ASSUME TypeOK, NEW t \in Ticks, NEW now \in Minutes, Arrive(t, now)
  PROVE  TypeOK' /\ Settles
<1>1. tick \in TickStates
  BY TypeIs
<1>2. tick' \in TickStates
  BY <1>1 DEF Arrive, TickStates
<1>3. UNCHANGED <<clock, seeded, state, locks, edit, known, fired, rollbacks>>
  BY DEF Arrive
<1>4. QED
  BY <1>2, <1>3 DEF TypeOK, TickStates, Settles

LEMMA HandleStep ==
  ASSUME TypeOK, NEW t \in Ticks, Handle(t)
  PROVE  TypeOK' /\ Steps
<1>1. tick \in TickStates /\ locks \subseteq Minutes
  BY TypeIs
<1>2. CASE Refused(t) \/ Release(t)
  <2>1. tick' = [tick EXCEPT ![t].at = TickOver(t)] /\ locks' \subseteq locks
    BY <1>2 DEF Refused, Release
  <2>2. tick' \in TickStates
    BY <1>1, <2>1, TickOverIs DEF TickStates
  <2>3. UNCHANGED <<clock, seeded, state, edit, known, fired, rollbacks>>
    BY <1>2 DEF Refused, Release
  <2>4. QED
    BY <1>1, <2>1, <2>2, <2>3 DEF TypeOK, TickStates, Settles, Steps
<1>3. CASE Evaluate(t)
  <2>1. /\ UNCHANGED <<clock, seeded, edit, known, rollbacks>>
        /\ tick' \in TickStates /\ locks' \subseteq Minutes
        /\ UNCHANGED <<state, fired>> \/ \E created : Fires(created)
    BY <1>3, EvaluateIs
  <2>2. CASE UNCHANGED <<state, fired>>
    BY <2>1, <2>2 DEF TypeOK, TickStates, Settles, Steps
  <2>3. CASE \E created : Fires(created)
    <3>1. PICK created : Fires(created)
      BY <2>3
    <3>2. state' \in State
      BY <3>1 DEF Fires
    <3>3. fired \in [Slot -> Nat]
      BY TypeIs
    <3>4. fired' \in [Slot -> Nat]
      BY <3>1, <3>3 DEF Fires
    <3>5. TypeOK'
      BY <2>1, <3>2, <3>4 DEF TypeOK, TickStates, Slot
    <3>6. QED
      BY <2>1, <2>3, <3>5 DEF Steps
  <2>4. QED
    BY <2>1, <2>2, <2>3
<1>4. QED
  BY <1>2, <1>3 DEF Handle

LEMMA CreateStep ==
  ASSUME TypeOK, NEW s \in Schedules, NEW source \in Sources, NEW enabled \in BOOLEAN,
         NEW class \in Classes, NEW misfire \in Misfires,
         Create(s, source, enabled, class, misfire)
  PROVE  TypeOK' /\ Creates(s)
<1> DEFINE schedule == [source |-> source, enabled |-> enabled, class |-> class,
                        misfire |-> misfire, createdAt |-> clock, lastRunAt |-> 0]
<1>1. clock \in 0 .. Horizon /\ 0 \in 0 .. Horizon
  BY CronAssumption DEF TypeOK, Minutes
<1>2. schedule \in MaybeSchedule
  BY <1>1 DEF MaybeSchedule, Schedule
<1>3. state' = [state EXCEPT !.schedules[s] = schedule]
  BY DEF Create
<1>4. /\ s \notin known /\ known' = known \cup {s}
      /\ UNCHANGED <<clock, seeded, tick, locks, edit, fired, rollbacks>>
  BY DEF Create
<1>5. state \in State
  BY DEF TypeOK
<1> HIDE DEF schedule
<1>6. /\ state' \in State
      /\ state'.runs = state.runs /\ state'.ledger = state.ledger
      /\ \A r \in Schedules : r # s => state'.schedules[r] = state.schedules[r]
  BY <1>2, <1>3, <1>5, PutSchedule
<1>7. TypeOK'
  BY <1>4, <1>6 DEF TypeOK
<1>8. QED
  BY <1>4, <1>6, <1>7 DEF Creates

LEMMA DeleteStep ==
  ASSUME TypeOK, NEW s \in Schedules, Delete(s)
  PROVE  TypeOK' /\ Deletes(s)
<1>1. state \in State
  BY DEF TypeOK
<1>2. /\ state.schedules \in [Schedules -> MaybeSchedule]
      /\ state.runs \subseteq Slot /\ state.ticks \subseteq Minutes
      /\ state.ledger \subseteq Schedules \X Minutes \X Outcomes
  BY <1>1, StateFields
<1> DEFINE runs == {r \in state.runs : r[1] # s}
           ledger == {l \in state.ledger : l[1] # s}
<1>3. state' = [state EXCEPT !.schedules[s] = Absent, !.runs = runs, !.ledger = ledger]
  BY DEF Delete
<1>4. \A r \in Schedules, m \in Minutes :
        /\ <<r, m>> \in runs <=> r # s /\ <<r, m>> \in state.runs
        /\ <<r, m, "success">> \in ledger
             <=> r # s /\ <<r, m, "success">> \in state.ledger
  OBVIOUS
<1>5. runs \subseteq Slot /\ ledger \subseteq Schedules \X Minutes \X Outcomes
  BY <1>2
<1> HIDE DEF runs, ledger
<1>6. /\ state'.schedules = [state.schedules EXCEPT ![s] = Absent]
      /\ state'.runs = runs /\ state'.ledger = ledger
  BY <1>1, <1>3 DEF State
<1>7. state' \in State
  BY <1>1, <1>3, <1>5 DEF State, MaybeSchedule, Slot, Outcomes
<1>8. /\ state'.schedules[s] = Absent
      /\ \A r \in Schedules : r # s => state'.schedules[r] = state.schedules[r]
  BY <1>2, <1>6
<1>9. Present(s) /\ UNCHANGED <<clock, seeded, tick, locks, edit, known, fired, rollbacks>>
  BY DEF Delete
<1>10. TypeOK'
  BY <1>7, <1>9 DEF TypeOK
<1>11. QED
  BY <1>4, <1>6, <1>8, <1>9, <1>10 DEF Deletes

LEMMA EditBeginStep ==
  ASSUME TypeOK, NEW e \in Editors, NEW s \in Schedules, EditBegin(e, s)
  PROVE  TypeOK' /\ Settles
<1>1. edit \in Edits /\ state \in State
  BY TypeIs
<1> DEFINE begun == [id |-> s, read |-> state, sent |-> TRUE]
<1>2. begun \in Edited
  BY <1>1 DEF Edited
<1>3. edit' = [edit EXCEPT ![e] = begun] /\ Present(s)
  BY DEF EditBegin
<1>4. UNCHANGED <<clock, seeded, state, tick, locks, known, fired, rollbacks>>
  BY DEF EditBegin
<1>5. edit' \in Edits
  <2> HIDE DEF begun
  <2>1. QED
    BY <1>1, <1>2, <1>3 DEF Edits
<1>6. TypeOK'
  BY <1>4, <1>5 DEF TypeOK, Edits, Edited
<1>7. \A d \in Editors : edit'[d] = IF d = e THEN begun ELSE edit[d]
  <2> HIDE DEF begun
  <2>1. QED
    BY <1>1, <1>3 DEF Edits
<1>8. QED
  BY <1>3, <1>4, <1>6, <1>7 DEF Settles

LEMMA EditEnds ==
  ASSUME TypeOK, NEW e \in Editors, edit' = [edit EXCEPT ![e] = EditDone]
  PROVE  /\ edit' \in Edits
         /\ \A d \in Editors : edit'[d] = edit[d] \/ edit'[d].id = Absent
<1>1. edit \in Edits
  BY TypeIs
<1>2. EditDone.id = Absent
  BY DEF EditDone, NoEdit
<1>3. edit' \in Edits
  BY <1>1 DEF Edits
<1>4. \A d \in Editors : edit'[d] = IF d = e THEN EditDone ELSE edit[d]
  BY <1>1 DEF Edits
<1>5. QED
  BY <1>2, <1>3, <1>4

LEMMA EditRejectedStep ==
  ASSUME TypeOK, NEW e \in Editors, EditRejected(e)
  PROVE  TypeOK' /\ Settles
<1>1. /\ edit' = [edit EXCEPT ![e] = EditDone]
      /\ UNCHANGED <<clock, seeded, state, tick, locks, known, fired, rollbacks>>
  BY DEF EditRejected
<1>2. /\ edit' \in Edits
      /\ \A d \in Editors : edit'[d] = edit[d] \/ edit'[d].id = Absent
  BY <1>1, EditEnds
<1>3. TypeOK'
  BY <1>1, <1>2 DEF TypeOK, Edits, Edited
<1>4. QED
  BY <1>1, <1>2, <1>3 DEF Settles

LEMMA UpdateKeeps ==
  ASSUME NEW schedule \in Schedule, NEW source \in Sources, NEW enabled \in BOOLEAN,
         NEW class \in Classes, NEW misfire \in Misfires
  PROVE  updateSchedule(schedule, source, enabled, class, misfire) \in Schedule
<1>1. 0 \in 0 .. Horizon
  BY CronAssumption
<1>2. (IF source = schedule.source THEN schedule.lastRunAt ELSE 0) \in 0 .. Horizon
  BY <1>1 DEF Schedule
<1>3. QED
  BY <1>2 DEF updateSchedule, Schedule

LEMMA EditWritesStep ==
  ASSUME TypeOK, EditInv, NEW e \in Editors, NEW source \in Sources,
         NEW enabled \in BOOLEAN, NEW class \in Classes, NEW misfire \in Misfires,
         EditWrites(e, source, enabled, class, misfire)
  PROVE  TypeOK' /\ WritesBack(e)
<1> DEFINE read == edit[e].read
           id == edit[e].id
           schedule == updateSchedule(read.schedules[id], source, enabled, class, misfire)
<1>1. /\ id # Absent
      /\ rollbacks' = IF read = state THEN rollbacks ELSE rollbacks + 1
      /\ rollbacks' <= MaxRollbacks
      /\ state' = [read EXCEPT !.schedules[id] = schedule]
      /\ edit' = [edit EXCEPT ![e] = EditDone]
      /\ UNCHANGED <<clock, seeded, tick, locks, known, fired>>
  BY DEF EditWrites
<1>2. id \in Schedules /\ read \in State
  BY <1>1, EditKinds DEF Edited
<1>3. read.schedules[id] # Absent
  BY <1>1 DEF EditInv
<1> HIDE DEF id, read
<1>4. read.schedules[id] \in Schedule
  BY <1>2, <1>3, StateFields DEF MaybeSchedule
<1>5. schedule \in Schedule
  BY <1>4, UpdateKeeps
<1> HIDE DEF schedule
<1>6. schedule \in MaybeSchedule /\ schedule # Absent
  BY <1>5, CronAssumption DEF MaybeSchedule
<1>7. /\ state' \in State
      /\ state'.runs = read.runs /\ state'.ledger = read.ledger
      /\ state'.schedules[id] = schedule
      /\ \A r \in Schedules : r # id => state'.schedules[r] = read.schedules[r]
  BY <1>1, <1>2, <1>6, PutSchedule
<1>8. \A s \in Schedules : state'.schedules[s] = Absent <=> read.schedules[s] = Absent
  BY <1>3, <1>6, <1>7
<1>9. /\ edit' \in Edits
      /\ \A d \in Editors : edit'[d] = edit[d] \/ edit'[d].id = Absent
  BY <1>1, EditEnds
<1>10. rollbacks' \in 0 .. MaxRollbacks
  <2>1. rollbacks \in Nat /\ MaxRollbacks \in Nat
    BY CronAssumption DEF TypeOK
  <2>2. QED
    BY <1>1, <2>1
<1>11. TypeOK'
  BY <1>1, <1>7, <1>9, <1>10 DEF TypeOK, Edits, Edited
<1>12. QED
  BY <1>1, <1>2, <1>7, <1>8, <1>9, <1>11 DEF WritesBack, read, id

LEMMA RestartStep ==
  ASSUME TypeOK, Restart
  PROVE  TypeOK' /\ Forgets
<1>1. /\ rollbacks < MaxRollbacks /\ rollbacks' = rollbacks + 1
      /\ state' = seed /\ locks' = {}
      /\ UNCHANGED <<clock, seeded, known, fired>>
  BY DEF Restart
<1>2. state' \in State
  BY <1>1, SeedIsState DEF TypeOK
<1>3. tick' \in TickStates
  <2>1. tick \in TickStates
    BY TypeIs
  <2>2. ASSUME NEW t \in Ticks
        PROVE  (IF tick[t].at = "idle" THEN tick[t] ELSE [tick[t] EXCEPT !.at = TickOver(t)])
                 \in [at : {"idle", "arrived", "evaluated", "done"}, now : Minutes]
    BY <2>1, TickOverIs DEF TickStates
  <2>3. QED
    BY <2>2 DEF Restart, TickStates
<1>4. edit' = [e \in Editors |-> IF edit[e].sent THEN EditDone ELSE NoEdit]
  BY DEF Restart
<1>5. edit' \in Edits
  BY <1>4 DEF Edits
<1>6. \A e \in Editors : edit'[e].id = Absent
  <2>1. EditDone.id = Absent /\ NoEdit.id = Absent
    BY DEF EditDone, NoEdit
  <2>2. \A e \in Editors : edit'[e] = EditDone \/ edit'[e] = NoEdit
    BY <1>4
  <2>3. QED
    BY <2>1, <2>2
<1>7. rollbacks' \in 0 .. MaxRollbacks
  <2>1. rollbacks \in Nat /\ MaxRollbacks \in Nat
    BY CronAssumption DEF TypeOK
  <2>2. QED
    BY <1>1, <2>1
<1>8. TypeOK'
  BY <1>1, <1>2, <1>3, <1>5, <1>7 DEF TypeOK, Edits, Edited, TickStates
<1>9. QED
  BY <1>1, <1>6, <1>8 DEF Forgets

(* Every step keeps the types and is one of the kinds above. *)
LEMMA StepIs ==
  ASSUME TypeOK, EditInv, [Next]_vars
  PROVE  TypeOK' /\ Steps
<1>1. CASE UNCHANGED vars
  BY <1>1 DEF vars, TypeOK, Steps, Settles
<1>2. CASE Elapse
  <2>1. clock' \in Minutes
    BY <1>2, CronAssumption DEF Elapse, TypeOK, Minutes
  <2>2. UNCHANGED <<seeded, state, tick, locks, edit, known, fired, rollbacks>>
    BY <1>2 DEF Elapse
  <2>3. QED
    BY <2>1, <2>2 DEF TypeOK, Steps, Settles
<1>3. ASSUME NEW t \in Ticks, (\E now \in Minutes : Arrive(t, now)) \/ Handle(t)
      PROVE  TypeOK' /\ Steps
  BY <1>3, ArriveStep, HandleStep DEF Steps
<1>4. ASSUME NEW s \in Schedules, Delete(s) \/ \E e \in Editors : EditBegin(e, s)
      PROVE  TypeOK' /\ Steps
  BY <1>4, DeleteStep, EditBeginStep DEF Steps
<1>5. ASSUME NEW source \in Sources, NEW enabled \in BOOLEAN, NEW class \in Classes,
             NEW misfire \in Misfires,
             \/ \E s \in Schedules : Create(s, source, enabled, class, misfire)
             \/ \E e \in Editors : EditWrites(e, source, enabled, class, misfire)
      PROVE  TypeOK' /\ Steps
  BY <1>5, CreateStep, EditWritesStep DEF Steps
<1>6. ASSUME NEW e \in Editors, EditRejected(e)
      PROVE  TypeOK' /\ Steps
  BY <1>6, EditRejectedStep DEF Steps
<1>7. CASE Restart
  BY <1>7, RestartStep DEF Steps
<1>8. QED
  BY <1>1, <1>2, <1>3, <1>4, <1>5, <1>6, <1>7 DEF Next
----------------------------------------------------------------------------
(* The invariants. *)

LEMMA EditInvStep ==
  ASSUME TypeOK, EditInv, LedgerMatchesHistory, Steps
  PROVE  EditInv'
<1>1. ASSUME NEW e \in Editors, edit'[e] = edit[e] \/ edit'[e].id = Absent,
             edit'[e].id # Absent
      PROVE  /\ edit'[e].read.schedules[edit'[e].id] # Absent
             /\ Consistent(edit'[e].read)
  BY <1>1 DEF EditInv
<1>2. ASSUME NEW e \in Editors, NEW s \in Schedules, Present(s),
             edit'[e] = [id |-> s, read |-> state, sent |-> TRUE]
      PROVE  /\ edit'[e].read.schedules[edit'[e].id] # Absent
             /\ Consistent(edit'[e].read)
  <2>1. edit'[e].read = state /\ edit'[e].id = s
    BY <1>2
  <2>2. QED
    BY <1>2, <2>1 DEF Present, LedgerMatchesHistory
<1>3. ASSUME NEW e \in Editors, edit'[e].id # Absent
      PROVE  \/ edit'[e] = edit[e] \/ edit'[e].id = Absent
             \/ \E s \in Schedules :
                  Present(s) /\ edit'[e] = [id |-> s, read |-> state, sent |-> TRUE]
  BY <1>3 DEF Steps, Settles, Creates, Deletes, WritesBack, Forgets
<1>4. ASSUME NEW e \in Editors, edit'[e].id # Absent
      PROVE  /\ edit'[e].read.schedules[edit'[e].id] # Absent
             /\ Consistent(edit'[e].read)
  BY <1>1, <1>2, <1>3, <1>4
<1>5. QED
  BY <1>4 DEF EditInv, Consistent

LEMMA LedgerStep ==
  ASSUME TypeOK, TypeOK', EditInv, LedgerMatchesHistory, Steps
  PROVE  LedgerMatchesHistory'
<1> DEFINE Matches(st) == \A s \in Schedules, m \in Minutes :
             <<s, m, "success">> \in st.ledger <=> <<s, m>> \in st.runs
<1>1. state \in State /\ state' \in State
  BY DEF TypeOK
<1>2. Matches(state)
  BY <1>1, ConsistentIs DEF LedgerMatchesHistory
<1>3. Matches(state') => Consistent(state')
  BY <1>1, ConsistentIs
<1>4. LedgerMatchesHistory' <=> Consistent(state')
  BY DEF LedgerMatchesHistory, Consistent
<1>5. CASE Settles
  BY <1>2, <1>3, <1>4, <1>5 DEF Settles
<1>6. ASSUME NEW created, Fires(created) PROVE Matches(state')
  BY <1>2, <1>6 DEF Fires
<1>7. ASSUME NEW s \in Schedules, Creates(s) PROVE Matches(state')
  BY <1>2, <1>7 DEF Creates
<1>8. ASSUME NEW s \in Schedules, Deletes(s) PROVE Matches(state')
  BY <1>2, <1>8 DEF Deletes
<1>9. ASSUME NEW e \in Editors, WritesBack(e) PROVE Matches(state')
  <2>1. /\ edit[e].id # Absent /\ edit[e].read \in State
        /\ state'.runs = edit[e].read.runs /\ state'.ledger = edit[e].read.ledger
    BY <1>9 DEF WritesBack
  <2>2. Consistent(edit[e].read)
    BY <2>1 DEF EditInv
  <2>3. Matches(edit[e].read)
    BY <2>1, <2>2, ConsistentIs
  <2>4. QED
    BY <2>1, <2>3
<1>10. CASE Forgets
  <2>1. state' = seed
    BY <1>10 DEF Forgets
  <2>2. QED
    BY <1>4, <2>1, SeedIsState DEF TypeOK
<1>11. QED
  BY <1>3, <1>4, <1>5, <1>6, <1>7, <1>8, <1>9, <1>10 DEF Steps

LEMMA KnownStep ==
  ASSUME TypeOK, KnownInv, Steps
  PROVE  KnownInv'
<1>1. SUFFICES ASSUME NEW s \in Schedules, s \notin known'
               PROVE  /\ state'.schedules[s] = Absent
                      /\ seeded'[s] = Absent
                      /\ \A e \in Editors : edit'[e].id # Absent =>
                           edit'[e].read.schedules[s] = Absent
  BY DEF KnownInv
<1>2. s \notin known
  BY <1>1 DEF Steps, Settles, Creates, Deletes, WritesBack, Forgets
<1>3. /\ state.schedules[s] = Absent /\ seeded[s] = Absent
      /\ \A e \in Editors : edit[e].id # Absent => edit[e].read.schedules[s] = Absent
  BY <1>2 DEF KnownInv
<1>4. seeded' = seeded
  BY DEF Steps, Settles, Creates, Deletes, WritesBack, Forgets
<1>5. state'.schedules[s] = Absent
  <2>1. CASE Settles
    BY <1>3, <2>1 DEF Settles
  <2>2. ASSUME NEW created, Fires(created) PROVE state'.schedules[s] = Absent
    BY <1>3, <2>2 DEF Fires
  <2>3. ASSUME NEW r \in Schedules, Creates(r) PROVE state'.schedules[s] = Absent
    BY <1>1, <1>3, <2>3 DEF Creates
  <2>4. ASSUME NEW r \in Schedules, Deletes(r) PROVE state'.schedules[s] = Absent
    BY <1>3, <2>4 DEF Deletes
  <2>5. ASSUME NEW e \in Editors, WritesBack(e) PROVE state'.schedules[s] = Absent
    BY <1>3, <2>5 DEF WritesBack
  <2>6. CASE Forgets
    BY <1>3, <2>6, SeedIsState DEF Forgets, TypeOK
  <2>7. QED
    BY <2>1, <2>2, <2>3, <2>4, <2>5, <2>6 DEF Steps
<1>6. ASSUME NEW e \in Editors, edit'[e].id # Absent
      PROVE  edit'[e].read.schedules[s] = Absent
  <2>1. \/ edit'[e] = edit[e]
        \/ \E r \in Schedules : edit'[e] = [id |-> r, read |-> state, sent |-> TRUE]
    BY <1>6 DEF Steps, Settles, Creates, Deletes, WritesBack, Forgets
  <2>2. CASE edit'[e] = edit[e]
    BY <1>3, <1>6, <2>2
  <2>3. CASE \E r \in Schedules : edit'[e] = [id |-> r, read |-> state, sent |-> TRUE]
    <3>1. edit'[e].read = state
      BY <2>3
    <3>2. QED
      BY <1>3, <3>1
  <2>4. QED
    BY <2>1, <2>2, <2>3
<1>7. QED
  BY <1>3, <1>4, <1>5, <1>6

(* A slot without a run was executed once per rollback at most. *)
Spare(s, m) ==
  <<s, m>> \notin state.runs /\ (Present(s) \/ s \notin known)

LEMMA FiredStep ==
  ASSUME TypeOK, TypeOK', KnownInv, FiredInv, Steps
  PROVE  FiredInv'
<1>1. SUFFICES ASSUME NEW s \in Schedules, NEW m \in Minutes
               PROVE  /\ fired'[<<s, m>>] <= 1 + rollbacks'
                      /\ Spare(s, m)' => fired'[<<s, m>>] <= rollbacks'
  BY DEF FiredInv, Spare
<1> DEFINE p == <<s, m>>
<1>2. p \in Slot
  BY DEF Slot
<1>3. fired \in [Slot -> Nat] /\ rollbacks \in Nat
  <2>1. rollbacks \in 0 .. MaxRollbacks
    BY TypeIs
  <2>2. QED
    BY <2>1, TypeIs, CronAssumption
<1>4. fired[p] \in Nat
  BY <1>2, <1>3
<1>5. /\ fired[p] <= 1 + rollbacks
      /\ Spare(s, m) => fired[p] <= rollbacks
  BY DEF FiredInv, Spare
<1>6. s \notin known => state.schedules[s] = Absent
  BY DEF KnownInv
<1>7. CASE Settles
  <2>1. /\ UNCHANGED <<state, known, fired, rollbacks>>
        /\ Spare(s, m)' => Spare(s, m)
    BY <1>7 DEF Settles, Spare, Present
  <2>2. QED
    BY <1>5, <2>1
<1>8. ASSUME NEW created, Fires(created), UNCHANGED <<seeded, edit, known, rollbacks>>
      PROVE  /\ fired'[p] <= 1 + rollbacks'
             /\ Spare(s, m)' => fired'[p] <= rollbacks'
  <2>1. CASE p \in created
    <3>1. Spare(s, m) /\ p \in state'.runs /\ fired'[p] = fired[p] + 1
      BY <1>2, <1>8, <2>1 DEF Fires, Spare
    <3>2. ~Spare(s, m)'
      BY <3>1 DEF Spare
    <3>3. fired'[p] <= 1 + rollbacks
      BY <1>3, <1>4, <1>5, <3>1
    <3>4. QED
      BY <1>8, <3>2, <3>3
  <2>2. CASE p \notin created
    <3>1. fired'[p] = fired[p] /\ (Spare(s, m)' => Spare(s, m))
      BY <1>2, <1>8, <2>2 DEF Fires, Spare, Present
    <3>2. QED
      BY <1>5, <1>8, <3>1
  <2>3. QED
    BY <2>1, <2>2
<1>9. ASSUME NEW r \in Schedules, Creates(r)
      PROVE  /\ fired'[p] <= 1 + rollbacks'
             /\ Spare(s, m)' => fired'[p] <= rollbacks'
  <2>1. UNCHANGED <<fired, rollbacks>>
    BY <1>9 DEF Creates
  <2>2. Spare(s, m)' => Spare(s, m)
    BY <1>9 DEF Creates, Spare, Present
  <2>3. QED
    BY <1>5, <2>1, <2>2
<1>10. ASSUME NEW r \in Schedules, Deletes(r)
       PROVE  /\ fired'[p] <= 1 + rollbacks'
              /\ Spare(s, m)' => fired'[p] <= rollbacks'
  <2>1. UNCHANGED <<fired, rollbacks>>
    BY <1>10 DEF Deletes
  <2>2. Spare(s, m)' => Spare(s, m)
    BY <1>6, <1>10 DEF Deletes, Spare, Present
  <2>3. QED
    BY <1>5, <2>1, <2>2
<1>11. ASSUME NEW e \in Editors, WritesBack(e)
       PROVE  /\ fired'[p] <= 1 + rollbacks'
              /\ Spare(s, m)' => fired'[p] <= rollbacks'
  <2>1. CASE edit[e].read = state
    <3>1. UNCHANGED <<known, fired, rollbacks>>
      BY <1>11, <2>1 DEF WritesBack
    <3>2. Spare(s, m)' => Spare(s, m)
      BY <1>11, <2>1 DEF WritesBack, Spare, Present
    <3>3. QED
      BY <1>5, <3>1, <3>2
  <2>2. CASE edit[e].read # state
    <3>1. fired' = fired /\ rollbacks' = rollbacks + 1
      BY <1>11, <2>2 DEF WritesBack
    <3>2. QED
      BY <1>3, <1>4, <1>5, <3>1
  <2>3. QED
    BY <2>1, <2>2
<1>12. CASE Forgets
  <2>1. fired' = fired /\ rollbacks' = rollbacks + 1
    BY <1>12 DEF Forgets
  <2>2. QED
    BY <1>3, <1>4, <1>5, <2>1
<1>13. QED
  BY <1>7, <1>8, <1>9, <1>10, <1>11, <1>12 DEF Steps

LEMMA Initially ==
  ASSUME Init
  PROVE  TypeOK /\ EditInv /\ LedgerMatchesHistory /\ KnownInv /\ FiredInv
<1>1. /\ clock = 1 /\ seeded \in Seeds /\ state = seed
      /\ tick = [t \in Ticks |-> [at |-> "idle", now |-> 1]]
      /\ locks = {} /\ edit = [e \in Editors |-> NoEdit]
      /\ known = {s \in Schedules : seeded[s] # Absent}
      /\ fired = [p \in Slot |-> 0] /\ rollbacks = 0
  BY DEF Init, Slot
<1>2. /\ state \in State /\ Consistent(state)
      /\ state.schedules = seeded /\ state.runs = {}
  BY <1>1, SeedIsState
<1>3. 1 \in Minutes /\ 0 \in 0 .. MaxRollbacks
  BY CronAssumption DEF Minutes
<1>4. \A e \in Editors : edit[e].id = Absent
  BY <1>1 DEF NoEdit
<1>5. TypeOK
  BY <1>1, <1>2, <1>3, TypeIs DEF TickStates, Edits
<1>6. EditInv /\ KnownInv
  BY <1>1, <1>2, <1>4 DEF EditInv, KnownInv
<1>7. FiredInv
  <2>1. ASSUME NEW s \in Schedules, NEW m \in Minutes
        PROVE  fired[<<s, m>>] = 0
    BY <1>1 DEF Slot
  <2>2. rollbacks = 0 /\ 0 <= 1 + 0 /\ 0 <= 0
    BY <1>1
  <2>3. ASSUME NEW s \in Schedules, NEW m \in Minutes
        PROVE  fired[<<s, m>>] <= 1 + rollbacks /\ fired[<<s, m>>] <= rollbacks
    BY <2>1, <2>2
  <2>4. QED
    BY <2>3 DEF FiredInv
<1>8. QED
  BY <1>2, <1>5, <1>6, <1>7 DEF LedgerMatchesHistory

(* What an editor holds was a state of the scheduler, in which the edited  *)
(* schedule is there and the ledger tells the same story as the history;   *)
(* so no interleaving of ticks, edits, deletions and restarts (_store.ts,  *)
(* [id]/route.ts) leaves a state that is not of its type.                  *)
THEOREM EditsHoldStates == Spec => [](TypeOK /\ EditInv /\ LedgerMatchesHistory)
<1>1. Init => TypeOK /\ EditInv /\ LedgerMatchesHistory
  BY Initially
<1>2. TypeOK /\ EditInv /\ LedgerMatchesHistory /\ [Next]_vars
        => (TypeOK /\ EditInv /\ LedgerMatchesHistory)'
  BY StepIs, EditInvStep, LedgerStep
<1>3. QED
  BY <1>1, <1>2, PTL DEF Spec

(* The types, whatever is read, awaited and written back. *)
THEOREM TypeCorrect == Spec => []TypeOK
  BY EditsHoldStates, PTL

(* Every run of the history has its success entry in the execution ledger  *)
(* and every success entry its run (tick/route.ts, the DELETE handler of   *)
(* [id]/route.ts), although edits write back whole states they read before *)
(* they awaited.                                                           *)
THEOREM LedgerAndHistoryAgree == Spec => []LedgerMatchesHistory
  BY EditsHoldStates, PTL

(* No schedule id is handed out twice, not even through a stale edit or a  *)
(* restart, and a slot without a run was executed at most once per         *)
(* rollback.                                                               *)
THEOREM SlotsAreCounted == Spec => [](KnownInv /\ FiredInv)
<1> DEFINE Inv == TypeOK /\ EditInv /\ LedgerMatchesHistory
<1>1. Spec => []Inv
  BY EditsHoldStates
<1>2. Init => KnownInv /\ FiredInv
  BY Initially
<1>3. Inv /\ KnownInv /\ FiredInv /\ [Next]_vars => (KnownInv /\ FiredInv)'
  BY StepIs, KnownStep, FiredStep
<1>4. QED
  BY <1>1, <1>2, <1>3, PTL DEF Spec

(* One slot of one schedule is executed once, and once more for every      *)
(* restart and every edit that wrote back an older state, whatever ticks   *)
(* overlap, come late, are repeated or find no lock (tick-evaluator.ts).   *)
THEOREM RefiresAreRollbacks == Spec => []RefiresBounded
<1>1. FiredInv => RefiresBounded
  <2>1. ASSUME FiredInv, NEW p \in Schedules \X Minutes
        PROVE  fired[p] <= 1 + rollbacks
    <3>1. PICK s \in Schedules, m \in Minutes : p = <<s, m>>
      BY <2>1
    <3>2. QED
      BY <2>1, <3>1 DEF FiredInv
  <2>2. QED
    BY <2>1 DEF RefiresBounded
<1>2. QED
  BY <1>1, SlotsAreCounted, PTL
(* nextRun is exact for every expression that a schedule has: the preview  *)
(* of its next runs and the minutes in which ticks fire it agree.          *)
THEOREM SchedulesRunExactly == Spec => []NextRunExact
<1>1. ASSUME NEW source \in Sources PROVE source \in ExactSources
  <2> DEFINE expr == parseCron(Text[source])
  <2>1. ASSUME NEW n PROVE <<source, n>> \in Names <=> n \in Slots(expr)
    BY DEF Names
  <2> HIDE DEF expr
  <2>2. ASSUME NEW after \in 0 .. End - 1
        PROVE  LET later == {n \in after + 1 .. End - 1 : <<source, n>> \in Names}
               IN  nextRun(expr, after) = IF later = {} THEN Never ELSE Min(later)
    <3> DEFINE later == {n \in after + 1 .. End - 1 : <<source, n>> \in Names}
    <3>1. later = NamedFrom(expr, after + 1)
      BY <2>1 DEF NamedFrom
    <3> HIDE DEF later
    <3>2. nextRun(expr, after) = IF later = {} THEN Never ELSE Min(later)
      BY <3>1, JumpSearchIsExact DEF FirstNamed
    <3>3. QED
      BY <3>2 DEF later
  <2>3. QED
    BY <2>2 DEF ExactSources, expr
<1>2. TypeOK => NextRunExact
  <2> SUFFICES ASSUME TypeOK, NEW s \in Schedules, Present(s)
               PROVE  state.schedules[s].source \in ExactSources
    BY DEF NextRunExact
  <2>1. state.schedules[s] \in Schedule
    BY DEF TypeOK, State, Present
  <2>2. QED
    BY <1>1, <2>1 DEF Schedule
<1>3. QED
  BY <1>2, TypeCorrect, PTL
----------------------------------------------------------------------------
(* Replay jobs: what one job goes through. *)

(* A job whose log has the events 1 .. n, none trimmed. *)
Logged(job, n) == job \in Job /\ job.events = 1 .. n

LEMMA MaxOfInterval ==
  ASSUME NEW a \in Nat, NEW b \in Nat, a <= b
  PROVE  Max(a .. b) = b
<1>1. b \in a .. b /\ \A y \in a .. b : b >= y
  OBVIOUS
<1>2. \A x \in a .. b : (\A y \in a .. b : x >= y) => x = b
  BY <1>1
<1>3. QED
  BY <1>1, <1>2 DEF Max

LEMMA LoggedSeq ==
  ASSUME NEW n \in Nat, NEW job, Logged(job, n)
  PROVE  LastSeq(job) = n
<1>1. CASE n = 0
  BY <1>1 DEF Logged, LastSeq
<1>2. CASE n # 0
  <2>1. Max(1 .. n) = n /\ 1 .. n # {}
    BY <1>2, MaxOfInterval
  <2>2. QED
    BY <2>1 DEF Logged, LastSeq
<1>3. QED
  BY <1>1, <1>2

(* The log of a replay is never full. *)
LEMMA NewestAll ==
  ASSUME NEW n \in 0 .. 4
  PROVE  Newest((1 .. n) \cup {n + 1}, MaxEvents) = 1 .. n + 1
<1>1. (1 .. n) \cup {n + 1} = 1 .. n + 1
  OBVIOUS
<1>2. ASSUME NEW e \in 1 .. n + 1
      PROVE  Cardinality({f \in 1 .. n + 1 : f >= e}) <= MaxEvents
  <2>1. {f \in 1 .. n + 1 : f >= e} = e .. n + 1
    OBVIOUS
  <2>2. Cardinality(e .. n + 1) = n + 1 - e + 1
    <3>1. e \in Int /\ n + 1 \in Int /\ ~(e > n + 1)
      OBVIOUS
    <3>2. QED
      BY <3>1, FS_Interval
  <2>3. n + 1 - e + 1 <= 5 /\ MaxEvents \in Nat /\ MaxEvents >= 5
    BY ReplayAssumption
  <2> DEFINE size == Cardinality({f \in 1 .. n + 1 : f >= e})
  <2>4. size = n + 1 - e + 1
    BY <2>1, <2>2
  <2> HIDE DEF size
  <2>5. size <= MaxEvents
    BY <2>3, <2>4
  <2>6. QED
    BY <2>5 DEF size
<1>3. QED
  BY <1>1, <1>2 DEF Newest

LEMMA Appended ==
  ASSUME NEW n \in 0 .. 4, NEW job, Logged(job, n), NEW percent \in 0 .. 100
  PROVE  /\ Logged(appendJobEvent(job, percent), n + 1)
         /\ appendJobEvent(job, percent).status = job.status
         /\ appendJobEvent(job, percent).kept = job.kept
         /\ job.percent <= appendJobEvent(job, percent).percent
<1> DEFINE events == Newest(job.events \cup {LastSeq(job) + 1}, MaxEvents)
           most == IF percent < job.percent THEN job.percent ELSE percent
<1>1. events = 1 .. n + 1
  <2>1. LastSeq(job) = n /\ job.events = 1 .. n
    BY LoggedSeq DEF Logged
  <2>2. QED
    BY <2>1, NewestAll
<1>2. /\ most \in 0 .. 100 /\ 0 \in 0 .. Ttl + 1 /\ 1 .. n + 1 \in SUBSET Nat
      /\ job.percent <= most
  <2>1. job.percent \in 0 .. 100
    BY DEF Logged, Job
  <2>2. QED
    BY <2>1, ReplayAssumption
<1>3. appendJobEvent(job, percent)
        = [job EXCEPT !.age = 0, !.events = events, !.percent = most]
  BY DEF appendJobEvent
<1> HIDE DEF events, most
<1>4. QED
  BY <1>1, <1>2, <1>3 DEF Logged, Job

LEMMA Transitioned ==
  ASSUME NEW n, NEW job, Logged(job, n), NEW to \in Statuses
  PROVE  /\ Logged(transitionJob(job, to), n)
         /\ transitionJob(job, to).kept = job.kept
         /\ transitionJob(job, to).percent = job.percent
         /\ canTransitionJob(job.status, to) => transitionJob(job, to).status = to
<1>1. 0 \in 0 .. Ttl + 1
  BY ReplayAssumption
<1>2. QED
  BY <1>1 DEF transitionJob, Logged, Job

LEMMA Transitions ==
  /\ canTransitionJob("queued", "running")
  /\ \A to \in {"succeeded", "mismatch", "failed"} : canTransitionJob("running", to)
  BY DEF canTransitionJob, JOB_TRANSITIONS, Terminal

LEMMA FailedJob ==
  ASSUME NEW n \in 0 .. 4, NEW job, Logged(job, n), NEW percent \in 0 .. 100,
         NEW status \in {"mismatch", "failed"}, job.status = "running"
  PROVE  /\ Logged(Failed(job, percent, status), n + 1)
         /\ Failed(job, percent, status).kept = job.kept
         /\ Failed(job, percent, status).status = status
         /\ job.percent <= Failed(job, percent, status).percent
<1>1. status \in Statuses
  BY DEF Statuses, Terminal
<1> DEFINE a == appendJobEvent(job, percent)
<1>2. /\ Logged(a, n + 1) /\ a.status = "running" /\ a.kept = job.kept
      /\ job.percent <= a.percent
  BY Appended
<1>3. canTransitionJob(a.status, status)
  BY <1>2, Transitions
<1> HIDE DEF a
<1>4. /\ Logged(transitionJob(a, status), n + 1)
      /\ transitionJob(a, status).kept = job.kept
      /\ transitionJob(a, status).status = status
      /\ transitionJob(a, status).percent = a.percent
  BY <1>1, <1>2, <1>3, Transitioned
<1>5. QED
  BY <1>2, <1>4 DEF Failed, a

(* The same, with its premises as one. *)
LEMMA FailedEnds ==
  \A n, job, percent, status :
    /\ n \in 0 .. 4 /\ Logged(job, n) /\ percent \in 0 .. 100
    /\ status \in {"mismatch", "failed"} /\ job.status = "running"
    => /\ Logged(Failed(job, percent, status), n + 1)
       /\ Failed(job, percent, status).kept = job.kept
       /\ Failed(job, percent, status).status = status
       /\ job.percent <= Failed(job, percent, status).percent
  BY FailedJob

LEMMA SucceededJob ==
  ASSUME NEW n \in 0 .. 3, NEW job, Logged(job, n), NEW percent \in 0 .. 100,
         job.status = "running"
  PROVE  /\ Logged(Succeeded(job, percent), n + 2)
         /\ Succeeded(job, percent).kept = job.kept
         /\ Succeeded(job, percent).status = "succeeded"
         /\ job.percent <= Succeeded(job, percent).percent
<1> DEFINE a == appendJobEvent(job, percent)
           b == transitionJob(a, "succeeded")
<1>1. "succeeded" \in Statuses /\ n \in 0 .. 4 /\ n + 1 \in 0 .. 4 /\ 100 \in 0 .. 100
  BY DEF Statuses, Terminal
<1>2. /\ Logged(a, n + 1) /\ a.status = "running" /\ a.kept = job.kept
      /\ job.percent <= a.percent
  BY <1>1, Appended
<1>3. /\ Logged(b, n + 1) /\ b.status = "succeeded" /\ b.kept = job.kept
      /\ b.percent = a.percent
  BY <1>1, <1>2, Transitioned, Transitions
<1> HIDE DEF a, b
<1>4. /\ Logged(appendJobEvent(b, 100), n + 1 + 1)
      /\ appendJobEvent(b, 100).status = "succeeded" /\ appendJobEvent(b, 100).kept = job.kept
      /\ b.percent <= appendJobEvent(b, 100).percent
  BY <1>1, <1>3, Appended
<1>5. n + 1 + 1 = n + 2 /\ Succeeded(job, percent) = appendJobEvent(b, 100)
  BY DEF Succeeded, a, b
<1>6. job.percent <= appendJobEvent(b, 100).percent
  <2>1. PICK c : c = appendJobEvent(b, 100)
    OBVIOUS
  <2>2. job \in Job /\ b \in Job /\ c \in Job
    BY <1>3, <1>4, <2>1 DEF Logged
  <2>3. PICK x, y, z : x = job.percent /\ y = b.percent /\ z = c.percent
    OBVIOUS
  <2>4. x \in 0 .. 100 /\ y \in 0 .. 100 /\ z \in 0 .. 100
    BY <2>2, <2>3 DEF Job
  <2>5. x <= y /\ y <= z
    BY <1>2, <1>3, <1>4, <2>1, <2>3
  <2>6. x <= z
    BY <2>4, <2>5
  <2>7. QED
    BY <2>1, <2>3, <2>6
<1>7. QED
  BY <1>4, <1>5, <1>6
----------------------------------------------------------------------------

(* What the store does to jobs by itself: it may drop them. *)
Keeps(a, b) ==
  IF a = NoJob THEN b = NoJob
  ELSE /\ b \in Job /\ b # NoJob
       /\ b.events = a.events /\ b.status = a.status /\ b.percent = a.percent
       /\ b.kept => a.kept

Stores == [Posts -> Job \cup {NoJob}]

LEMMA KeepsItself ==
  ASSUME NEW a \in Job \cup {NoJob}
  PROVE  Keeps(a, a)
  BY DEF Keeps

LEMMA WithoutKeeps ==
  ASSUME NEW js \in Stores, NEW gone, gone \subseteq Kept(js)
  PROVE  Without(js, gone) \in Stores /\ \A p \in Posts : Keeps(js[p], Without(js, gone)[p])
<1>1. 0 \in 0 .. Ttl + 1
  BY ReplayAssumption
<1>2. ASSUME NEW p \in Posts, p \in gone
      PROVE  LET b == [js[p] EXCEPT !.kept = FALSE, !.age = 0]
             IN  b \in Job /\ Keeps(js[p], b)
  <2>1. js[p] \in Job /\ js[p] # NoJob
    BY <1>2 DEF Stores, Kept
  <2> DEFINE b == [js[p] EXCEPT !.kept = FALSE, !.age = 0]
  <2>2. /\ b \in Job /\ b.events = js[p].events /\ b.status = js[p].status /\ ~b.kept
        /\ b.percent = js[p].percent
    BY <1>1, <2>1 DEF Job
  <2> HIDE DEF b
  <2>3. b # NoJob
    BY <2>2, NoJobAssumption
  <2>4. QED
    BY <2>1, <2>2, <2>3 DEF Keeps, b
<1>3. ASSUME NEW p \in Posts
      PROVE  /\ Without(js, gone)[p] \in Job \cup {NoJob}
             /\ Keeps(js[p], Without(js, gone)[p])
  <2>1. CASE p \in gone
    BY <1>2, <2>1 DEF Without
  <2>2. CASE p \notin gone
    BY <2>2, KeepsItself DEF Without, Stores
  <2>3. QED
    BY <2>1, <2>2
<1>4. Without(js, gone) = [p \in Posts |-> Without(js, gone)[p]]
  BY DEF Without
<1>5. QED
  BY <1>3, <1>4 DEF Stores

LEMMA PruneKeeps ==
  ASSUME NEW js \in Stores
  PROVE  /\ prune(js) \in Stores /\ \A p \in Posts : Keeps(js[p], prune(js)[p])
         /\ enforceCapacity(js) \in Stores
         /\ \A p \in Posts : Keeps(js[p], enforceCapacity(js)[p])
<1>1. {p \in Kept(js) : js[p].age > Ttl} \subseteq Kept(js)
  OBVIOUS
<1>2. {p \in Kept(js) : Cardinality({q \in Kept(js) : js[q].number >= js[p].number}) > MaxJobs}
        \subseteq Kept(js)
  OBVIOUS
<1>3. prune(js) \in Stores /\ \A p \in Posts : Keeps(js[p], prune(js)[p])
  BY <1>1, WithoutKeeps DEF prune
<1>4. enforceCapacity(js) \in Stores /\ \A p \in Posts : Keeps(js[p], enforceCapacity(js)[p])
  BY <1>2, WithoutKeeps DEF enforceCapacity
<1>5. QED
  BY <1>3, <1>4

LEMMA AgingKeeps ==
  ASSUME jobs \in Stores, JobsAge
  PROVE  jobs' \in Stores /\ \A p \in Posts : Keeps(jobs[p], jobs'[p])
<1>1. ASSUME NEW p \in Posts
      PROVE  jobs'[p] \in Job \cup {NoJob} /\ Keeps(jobs[p], jobs'[p])
  <2>1. CASE p \in Kept(jobs) /\ jobs[p].age <= Ttl
    <3>1. jobs[p] \in Job /\ jobs[p] # NoJob
      BY <2>1 DEF Stores, Kept
    <3>2. jobs'[p] = [jobs[p] EXCEPT !.age = @ + 1]
      BY <2>1 DEF JobsAge
    <3>3. jobs[p].age + 1 \in 0 .. Ttl + 1
      BY <2>1, <3>1, ReplayAssumption DEF Job
    <3>4. /\ jobs'[p] \in Job /\ jobs'[p].events = jobs[p].events
          /\ jobs'[p].status = jobs[p].status /\ jobs'[p].kept = jobs[p].kept
          /\ jobs'[p].percent = jobs[p].percent
      BY <3>1, <3>2, <3>3 DEF Job
    <3>5. QED
      BY <3>1, <3>4, NoJobAssumption DEF Keeps
  <2>2. CASE ~(p \in Kept(jobs) /\ jobs[p].age <= Ttl)
    <3>1. jobs'[p] = jobs[p]
      BY <2>2 DEF JobsAge
    <3>2. QED
      BY <3>1, KeepsItself DEF Stores
  <2>3. QED
    BY <2>1, <2>2
<1>2. jobs' = [p \in Posts |-> jobs'[p]]
  BY DEF JobsAge
<1>3. QED
  BY <1>1, <1>2 DEF Stores

(* A job is sound with its handler: JobInv and RunningIsAttended, of one   *)
(* job.                                                                    *)
Sound(job, w) ==
  /\ job = NoJob => w.at \in {"idle", "done"}
  /\ job # NoJob =>
       /\ w.at # "idle"
       /\ \E n \in 1 .. 5 : /\ job.events = 1 .. n
                            /\ w.at = "bundle" => n <= 2
                            /\ w.at = "runner" => n <= 3
       /\ job.kept /\ w.at \in {"bundle", "runner"} => job.status = "running"
       /\ job.kept /\ job.status \notin Terminal =>
            w.at \in {"bundle", "runner"} \/ w.answer = "error"

LEMMA SoundParts ==
  ASSUME ReplayTypeOK
  PROVE  JobInv /\ RunningIsAttended <=> \A p \in Posts : Sound(jobs[p], post[p])
<1>1. \A p \in Posts : post[p].at \in {"idle", "bundle", "runner", "done"}
  BY DEF ReplayTypeOK, Post
<1>2. ASSUME JobInv, RunningIsAttended, NEW p \in Posts PROVE Sound(jobs[p], post[p])
  BY <1>1, <1>2 DEF JobInv, RunningIsAttended, Sound, Kept
<1>3. ASSUME \A p \in Posts : Sound(jobs[p], post[p]) PROVE JobInv /\ RunningIsAttended
  BY <1>3 DEF JobInv, RunningIsAttended, Sound, Kept
<1>4. QED
  BY <1>2, <1>3

LEMMA SoundKeeps ==
  ASSUME NEW a, NEW b, NEW w, Sound(a, w), Keeps(a, b)
  PROVE  Sound(b, w)
<1>1. CASE a = NoJob
  BY <1>1 DEF Sound, Keeps
<1>2. CASE a # NoJob
  BY <1>2 DEF Sound, Keeps
<1>3. QED
  BY <1>1, <1>2

(* A job only grows, and one that is over stays as it is. *)
Grows(a, b) ==
  /\ b \in Job /\ b # NoJob
  /\ LastSeq(a) <= LastSeq(b) /\ a.percent <= b.percent
  /\ b.kept => a.kept
  /\ a.status \in Terminal =>
       b.status = a.status /\ LastSeq(b) = LastSeq(a) /\ b.percent = a.percent

LEMMA KeepsGrows ==
  ASSUME NEW a, NEW b, a # NoJob, NEW w, Sound(a, w), Keeps(a, b)
  PROVE  Grows(a, b) /\ LastSeq(b) = LastSeq(a) /\ LastSeq(a) \in Nat
<1>1. PICK n \in 1 .. 5 : a.events = 1 .. n
  BY DEF Sound
<1>2. b.events = a.events /\ b \in Job
  BY DEF Keeps
<1>3. LastSeq(b) = n
  BY <1>1, <1>2, LoggedSeq DEF Logged
<1>4. LastSeq(a) = LastSeq(b)
  BY <1>2 DEF LastSeq
<1>5. b.percent = a.percent /\ b.percent \in 0 .. 100
  BY <1>2 DEF Keeps, Job
<1>6. QED
  BY <1>3, <1>4, <1>5 DEF Keeps, Grows

LEMMA KeepsTransitive ==
  ASSUME NEW a, NEW b, NEW c, Keeps(a, b), Keeps(b, c)
  PROVE  Keeps(a, c)
  BY DEF Keeps

(* A new job is in the store with its first event, or not kept at all. *)
LEMMA CreatesJob ==
  ASSUME ReplayTypeOK, NEW p \in Posts
  PROVE  /\ create(p) \in Stores
         /\ \A q \in Posts : q # p => Keeps(jobs[q], create(p)[q])
         /\ Logged(create(p)[p], 1) /\ create(p)[p].status = "queued" /\ create(p)[p] # NoJob
<1> DEFINE first == appendJobEvent(NewJob, 0)
           full == [prune(jobs) EXCEPT ![p] = first]
<1>1. jobs \in Stores
  BY DEF ReplayTypeOK, Stores
<1>2. Logged(NewJob, 0) /\ NewJob.status = "queued"
  <2> DEFINE made == {q \in Posts : jobs[q] # NoJob}
  <2>1. IsFiniteSet(made)
    BY ReplayAssumption, FS_Subset
  <2>2. Cardinality(made) + 1 \in Nat
    BY <2>1, FS_CardinalityType
  <2>3. 0 \in 0 .. Ttl + 1 /\ 0 \in 0 .. 100 /\ {} = 1 .. 0 /\ "queued" \in Statuses
    BY ReplayAssumption DEF Statuses
  <2>4. NewJob = [kept |-> TRUE, status |-> "queued", events |-> {}, percent |-> 0, age |-> 0,
                  number |-> Cardinality(made) + 1]
    BY DEF NewJob
  <2> HIDE DEF made
  <2>5. NewJob.events = 1 .. 0 /\ NewJob.status = "queued"
    BY <2>3, <2>4
  <2>6. NewJob \in Job
    BY <2>2, <2>3, <2>4 DEF Job
  <2>7. QED
    BY <2>5, <2>6 DEF Logged
<1>3. Logged(first, 1) /\ first.status = "queued" /\ first \in Job /\ first # NoJob
  <2>0. PICK n \in 0 .. 4 : n = 0
    OBVIOUS
  <2>1. Logged(first, n + 1) /\ first.status = "queued"
    <3>1. Logged(NewJob, n) /\ 0 \in 0 .. 100
      BY <1>2, <2>0
    <3>2. QED
      BY <1>2, <3>1, Appended
  <2>2. first \in Job
    BY <2>1 DEF Logged
  <2>3. n + 1 = 1
    BY <2>0
  <2>4. QED
    BY <2>1, <2>2, <2>3, NoJobAssumption
<1> HIDE DEF first
<1>4. prune(jobs) \in Stores /\ \A q \in Posts : Keeps(jobs[q], prune(jobs)[q])
  BY <1>1, PruneKeeps
<1>5. /\ full \in Stores /\ full[p] = first
      /\ \A q \in Posts : q # p => full[q] = prune(jobs)[q]
  BY <1>3, <1>4 DEF Stores
<1>6. create(p) = enforceCapacity(full)
  BY DEF create, first
<1> HIDE DEF full
<1>7. create(p) \in Stores /\ \A q \in Posts : Keeps(full[q], create(p)[q])
  BY <1>5, <1>6, PruneKeeps
<1>8. ASSUME NEW q \in Posts, q # p PROVE Keeps(jobs[q], create(p)[q])
  BY <1>4, <1>5, <1>7, <1>8, KeepsTransitive
<1>9. Keeps(first, create(p)[p])
  BY <1>5, <1>7
<1>10. Logged(create(p)[p], 1) /\ create(p)[p].status = "queued" /\ create(p)[p] # NoJob
  BY <1>3, <1>9 DEF Keeps, Logged
<1>11. QED
  BY <1>7, <1>8, <1>10

(* One handler moves, with its job. *)
Moved(p) ==
  /\ jobs' \in Stores /\ post' \in [Posts -> Post] /\ client' = client
  /\ \A q \in Posts : q # p => Keeps(jobs[q], jobs'[q]) /\ post'[q] = post[q]
  /\ Sound(jobs'[p], post'[p])
  /\ jobs[p] # NoJob => Grows(jobs[p], jobs'[p])

(* No handler moves, and the store may drop jobs. *)
Stored ==
  /\ jobs' \in Stores /\ post' = post
  /\ \A q \in Posts : Keeps(jobs[q], jobs'[q])

LEMMA AtWrites ==
  ASSUME NEW ps \in [Posts -> Post], NEW p \in Posts, NEW at \in {"bundle", "runner"},
         NEW new, new = [ps EXCEPT ![p].at = at]
  PROVE  /\ new \in [Posts -> Post] /\ new[p].at = at
         /\ \A q \in Posts : q # p => new[q] = ps[q]
<1>1. ps[p] \in Post
  OBVIOUS
<1>2. new[p] = [ps[p] EXCEPT !.at = at] /\ \A q \in Posts : q # p => new[q] = ps[q]
  OBVIOUS
<1>3. [ps[p] EXCEPT !.at = at] \in Post /\ [ps[p] EXCEPT !.at = at].at = at
  BY <1>1 DEF Post
<1>4. \A q \in Posts : new[q] \in Post
  BY <1>2, <1>3
<1>5. QED
  BY <1>2, <1>3, <1>4

LEMMA AnswerWrites ==
  ASSUME ReplayTypeOK, NEW p \in Posts, NEW answer \in {"conflict", "finished", "error"},
         Answer(p, answer)
  PROVE  /\ post' \in [Posts -> Post]
         /\ post'[p].at = "done" /\ post'[p].answer = answer
         /\ \A q \in Posts : q # p => post'[q] = post[q]
<1>1. post \in [Posts -> Post] /\ post' = [post EXCEPT ![p] = [at |-> "done", answer |-> answer]]
  BY DEF ReplayTypeOK, Answer
<1>2. post' \in [Posts -> Post]
  <2>1. [at |-> "done", answer |-> answer] \in Post
    BY DEF Post
  <2>2. QED
    BY <1>1, <2>1
<1>3. post'[p] = [at |-> "done", answer |-> answer]
  BY <1>1
<1>4. QED
  BY <1>1, <1>2, <1>3

(* A job as its handler leaves it. *)
LEMMA SoundLogged ==
  ASSUME NEW job, NEW w, NEW n \in 1 .. 5, Logged(job, n),
         job.kept => \/ job.status \in Terminal /\ w.at = "done"
                     \/ job.status = "running" /\ w.at \in {"bundle", "runner"},
         w.at # "idle", w.at = "bundle" => n <= 2, w.at = "runner" => n <= 3
  PROVE  Sound(job, w) /\ job # NoJob
<1>1. job # NoJob /\ job.events = 1 .. n
  BY NoJobAssumption DEF Logged
<1>2. QED
  BY <1>1 DEF Sound, Terminal

(* A handler that is at work writes on a job that the store may have       *)
(* dropped, and then it writes nothing.                                    *)
LEMMA UpdatedJob ==
  ASSUME NEW js \in Stores, NEW p \in Posts, js[p] # NoJob, NEW job \in Job
  PROVE  /\ Updated(js, p, job) \in Stores
         /\ Updated(js, p, job)[p] = IF js[p].kept THEN job ELSE js[p]
         /\ \A q \in Posts : q # p => Updated(js, p, job)[q] = js[q]
  BY DEF Updated, Stores

LEMMA StartMoves ==
  ASSUME ReplayTypeOK, JobInv, NEW p \in Posts, NEW runner \in Runners, NEW environment,
         NEW acknowledged, Start(p, runner, environment, acknowledged)
  PROVE  Moved(p)
<1> DEFINE js == create(p)
           second == appendJobEvent(js[p], 15)
           started == transitionJob(second, "running")
           third == appendJobEvent(started, 55)
<1>1. post[p].at = "idle" /\ jobs[p] = NoJob /\ post \in [Posts -> Post] /\ client' = client
  BY DEF Start, JobInv, ReplayTypeOK
<1>2. /\ js \in Stores /\ \A q \in Posts : q # p => Keeps(jobs[q], js[q])
      /\ Logged(js[p], 1) /\ js[p].status = "queued" /\ js[p] # NoJob
  BY CreatesJob
<1>3. \/ /\ jobs' = Updated(js, p, Failed(started, 45, "failed"))
         /\ Answer(p, "finished")
      \/ /\ jobs' = Updated(js, p, Succeeded(third, 85))
         /\ Answer(p, "finished")
      \/ /\ jobs' = Updated(js, p, started)
         /\ post' = [post EXCEPT ![p].at = "bundle"]
  BY DEF Start
<1> HIDE DEF js
<1>4. PICK one \in 0 .. 4, two \in 0 .. 3 : one = 1 /\ two = 2
  OBVIOUS
<1>5. Logged(second, 2) /\ second.status = "queued" /\ second.kept = js[p].kept
  <2>1. Logged(js[p], one) /\ 15 \in 0 .. 100 /\ one + 1 = 2
    BY <1>2, <1>4
  <2>2. Logged(second, one + 1) /\ second.status = js[p].status /\ second.kept = js[p].kept
    BY <2>1, Appended
  <2>3. QED
    BY <1>2, <2>1, <2>2
<1> HIDE DEF second
<1>6. Logged(started, 2) /\ started.status = "running" /\ started.kept = js[p].kept
  <2>1. "running" \in Statuses
    BY DEF Statuses
  <2>2. QED
    BY <1>5, <2>1, Transitioned, Transitions
<1> HIDE DEF started
<1>7. Logged(started, two) /\ two \in 0 .. 4 /\ two + 1 = 3 /\ 2 \in 1 .. 5 /\ 3 \in 1 .. 5
  BY <1>4, <1>6
<1>8. Logged(third, 3) /\ third.status = "running" /\ third.kept = js[p].kept
  <2>1. 55 \in 0 .. 100
    OBVIOUS
  <2>2. Logged(third, two + 1) /\ third.status = started.status /\ third.kept = started.kept
    BY <1>7, <2>1, Appended
  <2>3. QED
    BY <1>6, <1>7, <2>2
<1> HIDE DEF third
<1>9. ASSUME NEW job, NEW n \in 1 .. 5, Logged(job, n), job.kept = js[p].kept,
             jobs' = Updated(js, p, job),
             \/ job.status \in Terminal /\ Answer(p, "finished")
             \/ job.status = "running" /\ n <= 2 /\ post' = [post EXCEPT ![p].at = "bundle"]
      PROVE  Moved(p)
  <2>1. job \in Job
    BY <1>9 DEF Logged
  <2>2. /\ jobs' \in Stores
        /\ jobs'[p] = IF js[p].kept THEN job ELSE js[p]
        /\ \A q \in Posts : q # p => Keeps(jobs[q], jobs'[q])
    BY <1>2, <1>9, <2>1, UpdatedJob
  <2>3. /\ post' \in [Posts -> Post] /\ \A q \in Posts : q # p => post'[q] = post[q]
        /\ \/ job.status \in Terminal /\ post'[p].at = "done"
           \/ job.status = "running" /\ n <= 2 /\ post'[p].at = "bundle"
    <3>1. CASE job.status \in Terminal /\ Answer(p, "finished")
      BY <3>1, AnswerWrites
    <3>2. CASE job.status = "running" /\ n <= 2 /\ post' = [post EXCEPT ![p].at = "bundle"]
      BY <1>1, <3>2, AtWrites
    <3>3. QED
      BY <1>9, <3>1, <3>2
  <2>4. Sound(jobs'[p], post'[p])
    <3>1. CASE js[p].kept
      <4>1. jobs'[p] = job
        BY <2>2, <3>1
      <4>2. post'[p].at \in {"done", "bundle"}
        BY <2>3
      <4>3. Sound(job, post'[p])
        BY <1>9, <2>3, <4>2, SoundLogged
      <4>4. QED
        BY <4>1, <4>3
    <3>2. CASE ~js[p].kept
      <4>1. jobs'[p] = js[p]
        BY <2>2, <3>2
      <4>2. 1 \in 1 .. 5 /\ 1 <= 2 /\ 1 <= 3 /\ post'[p].at # "idle"
        BY <2>3
      <4>3. Sound(js[p], post'[p])
        BY <1>2, <3>2, <4>2, SoundLogged
      <4>4. QED
        BY <4>1, <4>3
    <3>3. QED
      BY <3>1, <3>2
  <2>5. QED
    BY <1>1, <2>2, <2>3, <2>4 DEF Moved
<1>10. CASE jobs' = Updated(js, p, Failed(started, 45, "failed")) /\ Answer(p, "finished")
  <2> DEFINE job == Failed(started, 45, "failed")
  <2>1. 45 \in 0 .. 100 /\ "failed" \in Terminal
    BY DEF Terminal
  <2>2. Logged(job, two + 1) /\ job.kept = started.kept /\ job.status = "failed"
    BY <1>6, <1>7, <2>1, FailedJob
  <2> HIDE DEF job
  <2>3. Logged(job, 3) /\ job.kept = js[p].kept /\ job.status \in Terminal
    BY <1>6, <1>7, <2>1, <2>2
  <2>4. QED
    BY <1>7, <1>9, <1>10, <2>3 DEF job
<1>11. CASE jobs' = Updated(js, p, Succeeded(third, 85)) /\ Answer(p, "finished")
  <2> DEFINE job == Succeeded(third, 85)
  <2>1. 85 \in 0 .. 100 /\ "succeeded" \in Terminal
    BY DEF Terminal
  <2>2. PICK n \in 0 .. 3 : n = 3
    OBVIOUS
  <2>3. Logged(job, n + 2) /\ job.kept = third.kept /\ job.status = "succeeded"
    <3>1. Logged(third, n) /\ third.status = "running"
      BY <1>8, <2>2
    <3>2. QED
      BY <2>1, <3>1, SucceededJob
  <2> HIDE DEF job
  <2>4. Logged(job, 5) /\ job.kept = js[p].kept /\ job.status \in Terminal /\ 5 \in 1 .. 5
    <3>1. n + 2 = 5
      BY <2>2
    <3>2. QED
      BY <1>8, <2>1, <2>3, <3>1
  <2>5. QED
    BY <1>9, <1>11, <2>4 DEF job
<1>12. CASE jobs' = Updated(js, p, started) /\ post' = [post EXCEPT ![p].at = "bundle"]
  BY <1>6, <1>7, <1>9, <1>12
<1>13. QED
  BY <1>3, <1>10, <1>11, <1>12

(* A handler at work, whatever it writes. *)
LEMMA WorkMoves ==
  ASSUME ReplayTypeOK, NEW p \in Posts, jobs[p] # NoJob, client' = client,
         NEW n \in 1 .. 5, Logged(jobs[p], n), jobs[p].kept => jobs[p].status = "running",
         NEW m \in 1 .. 5, n <= m, NEW job, Logged(job, m), job.kept = jobs[p].kept,
         jobs[p].percent <= job.percent,
         jobs' = Updated(jobs, p, job),
         post' \in [Posts -> Post], \A q \in Posts : q # p => post'[q] = post[q],
         post'[p].at \in {"runner", "done"}, post'[p].at = "runner" => m <= 3,
         job.kept => \/ job.status \in Terminal /\ post'[p].at = "done"
                     \/ job.status = "running" /\ post'[p].at = "runner"
  PROVE  Moved(p)
<1>1. jobs \in Stores /\ job \in Job /\ job # NoJob
  BY NoJobAssumption DEF ReplayTypeOK, Stores, Logged
<1>2. /\ jobs' \in Stores
      /\ jobs'[p] = IF jobs[p].kept THEN job ELSE jobs[p]
      /\ \A q \in Posts : q # p => jobs'[q] = jobs[q]
  BY <1>1, UpdatedJob
<1>3. \A q \in Posts : q # p => Keeps(jobs[q], jobs'[q])
  BY <1>1, <1>2, KeepsItself DEF Stores
<1>4. LastSeq(jobs[p]) = n /\ LastSeq(job) = m
  BY LoggedSeq
<1>5. CASE jobs[p].kept
  <2>1. jobs'[p] = job
    BY <1>2, <1>5
  <2>2. Sound(job, post'[p])
    BY <1>5, SoundLogged
  <2>3. Grows(jobs[p], job)
    BY <1>1, <1>4, <1>5 DEF Grows, Terminal
  <2>4. QED
    BY <1>2, <1>3, <2>1, <2>2, <2>3 DEF Moved
<1>6. CASE ~jobs[p].kept
  <2>1. jobs'[p] = jobs[p]
    BY <1>2, <1>6
  <2>2. Sound(jobs[p], post'[p])
    <3>1. post'[p].at = "runner" => n <= 3
      OBVIOUS
    <3>2. post'[p].at # "idle" /\ post'[p].at # "bundle"
      OBVIOUS
    <3>3. QED
      BY <1>6, <3>1, <3>2, SoundLogged
  <2>3. Grows(jobs[p], jobs[p])
    <3>1. jobs[p] \in Job
      BY DEF Logged
    <3>2. jobs[p].percent \in 0 .. 100
      BY <3>1 DEF Job
    <3>3. QED
      BY <1>4, <3>1, <3>2 DEF Grows
  <2>4. QED
    BY <1>2, <1>3, <2>1, <2>2, <2>3 DEF Moved
<1>7. QED
  BY <1>5, <1>6

(* What is made of the job of a handler at work. *)
LEMMA AtWork ==
  ASSUME ReplayTypeOK, JobInv, NEW p \in Posts, post[p].at \in {"bundle", "runner"}
  PROVE  /\ jobs[p] # NoJob
         /\ jobs[p].kept => jobs[p].status = "running"
         /\ \E n \in 1 .. 3 : Logged(jobs[p], n) /\ (post[p].at = "bundle" => n <= 2)
<1>1. jobs[p] # NoJob /\ jobs[p] \in Job
  BY DEF JobInv, ReplayTypeOK
<1>2. PICK n \in 1 .. 5 : /\ jobs[p].events = 1 .. n
                          /\ post[p].at = "bundle" => n <= 2
                          /\ post[p].at = "runner" => n <= 3
  BY <1>1 DEF JobInv
<1>3. n \in 1 .. 3
  BY <1>2
<1>4. QED
  BY <1>1, <1>2, <1>3 DEF JobInv, Kept, Logged

LEMMA WriteBundleMoves ==
  ASSUME ReplayTypeOK, JobInv, NEW p \in Posts, WriteBundle(p)
  PROVE  Moved(p)
<1> DEFINE job == appendJobEvent(jobs[p], 40)
<1>1. /\ post[p].at = "bundle" /\ client' = client
      /\ jobs' = Updated(jobs, p, job) /\ post' = [post EXCEPT ![p].at = "runner"]
      /\ post \in [Posts -> Post]
  BY DEF WriteBundle, ReplayTypeOK
<1>2. PICK n \in 1 .. 3 : Logged(jobs[p], n) /\ n <= 2
  BY <1>1, AtWork
<1>3. jobs[p] # NoJob /\ (jobs[p].kept => jobs[p].status = "running")
  BY <1>1, AtWork
<1>4. n \in 0 .. 4 /\ n \in 1 .. 5 /\ n + 1 \in 1 .. 5 /\ n <= n + 1 /\ n + 1 <= 3
      /\ 40 \in 0 .. 100
  BY <1>2
<1>5. /\ Logged(job, n + 1) /\ job.status = jobs[p].status /\ job.kept = jobs[p].kept
      /\ jobs[p].percent <= job.percent
  BY <1>2, <1>4, Appended
<1> HIDE DEF job
<1>6. /\ post' \in [Posts -> Post] /\ post'[p].at = "runner"
      /\ \A q \in Posts : q # p => post'[q] = post[q]
  BY <1>1, AtWrites
<1>7. job.kept => job.status = "running" /\ post'[p].at = "runner"
  BY <1>3, <1>5, <1>6
<1>8. QED
  BY <1>1, <1>2, <1>3, <1>4, <1>5, <1>6, <1>7, WorkMoves

LEMMA RunnerEndsMoves ==
  ASSUME ReplayTypeOK, JobInv, NEW p \in Posts,
         NEW outcome \in {"succeeded", "mismatch", "failed"}, RunnerEnds(p, outcome)
  PROVE  Moved(p)
<1> DEFINE job == IF outcome = "succeeded" THEN Succeeded(jobs[p], 90)
                  ELSE Failed(jobs[p], 85, outcome)
<1>1. /\ post[p].at = "runner" /\ client' = client
      /\ jobs' = Updated(jobs, p, job) /\ Answer(p, "finished")
  BY DEF RunnerEnds
<1>2. PICK n \in 1 .. 3 : Logged(jobs[p], n)
  BY <1>1, AtWork
<1>3. jobs[p] # NoJob /\ (jobs[p].kept => jobs[p].status = "running")
  BY <1>1, AtWork
<1>4. /\ post' \in [Posts -> Post] /\ post'[p].at = "done"
      /\ \A q \in Posts : q # p => post'[q] = post[q]
  BY <1>1, AnswerWrites
<1>5. /\ n \in 0 .. 4 /\ n \in 0 .. 3 /\ n \in 1 .. 5 /\ n + 1 \in 1 .. 5 /\ n + 2 \in 1 .. 5
      /\ n <= n + 1 /\ n <= n + 2 /\ 85 \in 0 .. 100 /\ 90 \in 0 .. 100
  BY <1>2
<1>6. CASE jobs[p].kept
  <2>1. jobs[p].status = "running"
    BY <1>3, <1>6
  <2>2. PICK m \in 1 .. 5 : n <= m /\ Logged(job, m) /\ job.kept = jobs[p].kept
                            /\ job.status \in Terminal /\ jobs[p].percent <= job.percent
    <3>1. CASE outcome = "succeeded"
      <4>1. /\ Logged(Succeeded(jobs[p], 90), n + 2)
            /\ Succeeded(jobs[p], 90).kept = jobs[p].kept
            /\ Succeeded(jobs[p], 90).status = "succeeded"
            /\ jobs[p].percent <= Succeeded(jobs[p], 90).percent
        BY <1>2, <1>5, <2>1, SucceededJob
      <4>2. QED
        BY <1>5, <3>1, <4>1 DEF Terminal
    <3>2. CASE outcome # "succeeded"
      <4>1. /\ Logged(Failed(jobs[p], 85, outcome), n + 1)
            /\ Failed(jobs[p], 85, outcome).kept = jobs[p].kept
            /\ Failed(jobs[p], 85, outcome).status = outcome
            /\ jobs[p].percent <= Failed(jobs[p], 85, outcome).percent
        <5>1. outcome \in {"mismatch", "failed"}
          BY <3>2
        <5>2. n \in 0 .. 4 /\ Logged(jobs[p], n) /\ 85 \in 0 .. 100 /\ jobs[p].status = "running"
          BY <1>2, <1>5, <2>1
        <5>3. QED
          BY <5>1, <5>2, FailedEnds
      <4>2. QED
        BY <1>5, <3>2, <4>1 DEF Terminal
    <3>3. QED
      BY <3>1, <3>2
  <2> HIDE DEF job
  <2>3. QED
    BY <1>1, <1>2, <1>3, <1>4, <1>5, <2>2, WorkMoves
<1>7. CASE ~jobs[p].kept
  <2>1. jobs' = jobs /\ Updated(jobs, p, jobs[p]) = jobs
    BY <1>1, <1>7 DEF Updated
  <2>2. jobs[p].percent <= jobs[p].percent
    <3>1. jobs[p] \in Job
      BY <1>2 DEF Logged
    <3>2. jobs[p].percent \in 0 .. 100
      BY <3>1 DEF Job
    <3>3. QED
      BY <3>2
  <2>3. QED
    BY <1>1, <1>2, <1>3, <1>4, <1>5, <1>7, <2>1, <2>2, WorkMoves
<1>8. QED
  BY <1>6, <1>7

(* A refusal has no job, and a failed write leaves its job as it is. *)
LEMMA EndsMoves ==
  ASSUME ReplayTypeOK, JobInv, RunningIsAttended, NEW p \in Posts, NEW environment,
         Refuse(p, environment) \/ WriteBundleThrows(p)
  PROVE  Moved(p)
<1>1. jobs \in Stores /\ jobs' = jobs /\ client' = client
  BY DEF Refuse, WriteBundleThrows, ReplayTypeOK, Stores
<1>2. PICK answer \in {"conflict", "error"} :
        /\ Answer(p, answer)
        /\ answer = "conflict" => post[p].at = "idle"
        /\ answer = "error" => post[p].at = "bundle"
  BY DEF Refuse, WriteBundleThrows
<1>3. /\ post' \in [Posts -> Post] /\ post'[p].at = "done" /\ post'[p].answer = answer
      /\ \A q \in Posts : q # p => post'[q] = post[q]
  BY <1>2, AnswerWrites
<1>4. \A q \in Posts : Keeps(jobs[q], jobs'[q])
  BY <1>1, KeepsItself DEF Stores
<1>5. Sound(jobs[p], post[p])
  BY SoundParts
<1>6. Sound(jobs[p], post'[p])
  <2>1. CASE answer = "conflict"
    <3>1. jobs[p] = NoJob
      BY <1>2, <2>1 DEF JobInv
    <3>2. QED
      BY <1>3, <3>1 DEF Sound
  <2>2. CASE answer = "error"
    <3>1. jobs[p] # NoJob
      BY <1>2, <2>2 DEF JobInv
    <3>2. QED
      BY <1>3, <1>5, <2>2, <3>1 DEF Sound
  <2>3. QED
    BY <2>1, <2>2
<1>7. jobs[p] # NoJob => Grows(jobs[p], jobs'[p])
  BY <1>4, <1>5, KeepsGrows
<1>8. QED
  BY <1>1, <1>3, <1>4, <1>6, <1>7 DEF Moved

LEMMA StoredSteps ==
  ASSUME ReplayTypeOK,
         \/ Read \/ JobsAge \/ UNCHANGED replayVars
         \/ \E c \in Clients : (\E j \in Posts : Open(c, j)) \/ Poll(c) \/ Break(c)
  PROVE  Stored
<1>1. jobs \in Stores
  BY DEF ReplayTypeOK, Stores
<1>2. CASE jobs' = prune(jobs) /\ post' = post
  BY <1>1, <1>2, PruneKeeps DEF Stored
<1>3. CASE jobs' = jobs /\ post' = post
  BY <1>1, <1>3, KeepsItself DEF Stored, Stores
<1>4. CASE JobsAge
  <2>1. post' = post
    BY <1>4 DEF JobsAge
  <2>2. QED
    BY <1>1, <1>4, <2>1, AgingKeeps DEF Stored
<1>5. QED
  BY <1>2, <1>3, <1>4 DEF Read, Open, Poll, Break, replayVars

(* Every step leaves every job sound, and jobs grow. *)
LEMMA JobsStep ==
  ASSUME ReplayTypeOK, JobInv, RunningIsAttended, [ReplayNext]_replayVars
  PROVE  /\ jobs' \in Stores /\ post' \in [Posts -> Post]
         /\ \A p \in Posts : Sound(jobs'[p], post'[p])
         /\ \A p \in Posts : jobs[p] # NoJob => Grows(jobs[p], jobs'[p])
<1>1. \A p \in Posts : Sound(jobs[p], post[p])
  BY SoundParts
<1>2. post \in [Posts -> Post]
  BY DEF ReplayTypeOK
<1>3. CASE Stored
  BY <1>1, <1>2, <1>3, SoundKeeps, KeepsGrows DEF Stored
<1>4. ASSUME NEW p \in Posts, Moved(p)
      PROVE  /\ jobs' \in Stores /\ post' \in [Posts -> Post]
             /\ \A q \in Posts : Sound(jobs'[q], post'[q])
             /\ \A q \in Posts : jobs[q] # NoJob => Grows(jobs[q], jobs'[q])
  <2>1. ASSUME NEW q \in Posts
        PROVE  /\ Sound(jobs'[q], post'[q])
               /\ jobs[q] # NoJob => Grows(jobs[q], jobs'[q])
    <3>1. CASE q = p
      BY <1>4, <3>1 DEF Moved
    <3>2. CASE q # p
      <4>1. Keeps(jobs[q], jobs'[q]) /\ post'[q] = post[q]
        BY <1>4, <3>2 DEF Moved
      <4>2. QED
        BY <1>1, <4>1, SoundKeeps, KeepsGrows
    <3>3. QED
      BY <3>1, <3>2
  <2>2. QED
    BY <1>4, <2>1 DEF Moved
<1>5. Stored \/ \E p \in Posts : Moved(p)
  <2>1. ASSUME NEW p \in Posts, Settle(p) PROVE Moved(p)
    BY <2>1, WriteBundleMoves, EndsMoves, RunnerEndsMoves DEF Settle
  <2>2. ASSUME NEW p \in Posts, NEW environment \in Environments, Refuse(p, environment)
        PROVE  Moved(p)
    BY <2>2, EndsMoves
  <2>3. ASSUME NEW p \in Posts, NEW environment \in Environments, NEW runner \in Runners,
               NEW acknowledged \in BOOLEAN, Start(p, runner, environment, acknowledged)
        PROVE  Moved(p)
    BY <2>3, StartMoves
  <2>4. QED
    BY <2>1, <2>2, <2>3, StoredSteps DEF ReplayNext
<1>6. QED
  BY <1>3, <1>4, <1>5
----------------------------------------------------------------------------
(* Streams. *)

(* StreamInv and DoneIsComplete, of one client. *)
Follows(s, js) ==
  /\ s.frames = s.last
  /\ s.conn = "open" => s.cursor = s.last
  /\ s.job = NoJob => s.conn = "none" /\ s.last = 0 /\ s.told = "nothing"
  /\ s.job # NoJob => js[s.job] # NoJob /\ s.last <= LastSeq(js[s.job])
  /\ s.told # "nothing" =>
       /\ s.conn = "closed" /\ s.told \in Terminal
       /\ js[s.job].status = s.told /\ s.last = LastSeq(js[s.job])
  /\ s.conn = "closed" => s.told # "nothing" \/ ~js[s.job].kept

LEMMA FollowsParts ==
  StreamInv /\ DoneIsComplete <=> \A c \in Clients : Follows(client[c], jobs)
  BY DEF StreamInv, DoneIsComplete, Follows

LEMMA ClientFields ==
  ASSUME NEW s \in Client
  PROVE  /\ s.conn \in {"none", "open", "closed"} /\ s.job \in Posts \cup {NoJob}
         /\ s.opens \in Nat /\ s.cursor \in Nat /\ s.last \in Nat /\ s.frames \in Nat
  BY DEF Client

(* A client that does nothing is still behind a job that grew. *)
LEMMA FollowsGrows ==
  ASSUME NEW s \in Client, NEW old, NEW new, Follows(s, old),
         s.job # NoJob => Grows(old[s.job], new[s.job]) /\ LastSeq(old[s.job]) \in Nat
                          /\ LastSeq(new[s.job]) \in Nat
  PROVE  Follows(s, new)
<1>1. CASE s.job = NoJob
  BY <1>1 DEF Follows
<1>2. CASE s.job # NoJob
  <2>1. /\ new[s.job] # NoJob /\ LastSeq(old[s.job]) <= LastSeq(new[s.job])
        /\ new[s.job].kept => old[s.job].kept
        /\ old[s.job].status \in Terminal =>
             new[s.job].status = old[s.job].status /\ LastSeq(new[s.job]) = LastSeq(old[s.job])
        /\ LastSeq(old[s.job]) \in Nat /\ LastSeq(new[s.job]) \in Nat /\ s.last \in Nat
    BY <1>2, ClientFields DEF Grows
  <2>2. s.last <= LastSeq(new[s.job])
    BY <1>2, <2>1 DEF Follows
  <2>3. QED
    BY <1>2, <2>1, <2>2 DEF Follows
<1>3. QED
  BY <1>1, <1>2

(* The events after a cursor of a log that was not trimmed. *)
LEMMA EventsAfter ==
  ASSUME NEW n \in Nat, NEW job, Logged(job, n), NEW seq \in Nat, seq <= n
  PROVE  /\ eventsAfter(job, seq) = seq + 1 .. n
         /\ eventsAfter(job, seq) = {} <=> seq = n
         /\ seq # n => Max(eventsAfter(job, seq)) = n
         /\ Cardinality(eventsAfter(job, seq)) = n - seq
<1>1. eventsAfter(job, seq) = seq + 1 .. n
  BY DEF eventsAfter, Logged
<1>2. seq + 1 .. n = {} <=> seq = n
  OBVIOUS
<1>3. seq # n => Max(seq + 1 .. n) = n
  BY MaxOfInterval
<1>4. Cardinality(seq + 1 .. n) = n - seq
  <2>1. seq + 1 \in Int /\ n \in Int
    OBVIOUS
  <2>2. Cardinality(seq + 1 .. n) = IF seq + 1 > n THEN 0 ELSE n - (seq + 1) + 1
    BY <2>1, FS_Interval
  <2>3. QED
    BY <2>2
<1>5. QED
  BY <1>1, <1>2, <1>3, <1>4

(* The same, with its premises as one. *)
LEMMA EventsPending ==
  \A n, job, seq :
    n \in Nat /\ Logged(job, n) /\ seq \in Nat /\ seq <= n =>
      /\ eventsAfter(job, seq) = seq + 1 .. n
      /\ eventsAfter(job, seq) = {} <=> seq = n
      /\ seq # n => Max(eventsAfter(job, seq)) = n
      /\ Cardinality(eventsAfter(job, seq)) = n - seq
  BY EventsAfter

(* What a stream is sent: all that its job has. *)
LEMMA ServedFollows ==
  ASSUME NEW s \in Client, s.job \in Posts, NEW js, js[s.job] # NoJob,
         NEW n \in Nat, Logged(js[s.job], n),
         s.frames = s.last, s.cursor = s.last, s.last <= n, s.told = "nothing"
  PROVE  Served(s, js) \in Client /\ Follows(Served(s, js), js)
<1>1. s.job # NoJob /\ s.last \in Nat /\ s.opens \in Nat /\ LastSeq(js[s.job]) = n
  BY ReplayAssumption, ClientFields, LoggedSeq
<1>2. CASE ~js[s.job].kept
  <2> DEFINE t == [s EXCEPT !.conn = "closed"]
  <2>1. Served(s, js) = t
    BY <1>2 DEF Served, closed
  <2>2. /\ t \in Client /\ t.frames = t.last /\ t.conn = "closed" /\ t.job = s.job
        /\ t.last = s.last /\ t.told = "nothing"
    BY DEF Client
  <2> HIDE DEF t
  <2>3. Follows(t, js)
    BY <1>1, <1>2, <2>2 DEF Follows
  <2>4. QED
    BY <2>1, <2>2, <2>3
<1>3. CASE js[s.job].kept
  <2> DEFINE job == js[s.job]
             events == eventsAfter(job, s.cursor)
             seq == IF events = {} THEN s.cursor ELSE Max(events)
             frames == s.frames + Cardinality(events)
             told == IF job.status \in Terminal THEN job.status ELSE s.told
             conn == IF job.status \in Terminal THEN "closed" ELSE "open"
             t == [s EXCEPT !.cursor = seq, !.last = seq, !.frames = frames,
                            !.told = told, !.conn = conn]
  <2>1. Served(s, js) = t
    BY <1>1, <1>3 DEF Served, flush
  <2>2. seq = n /\ frames = n
    <3>1. /\ events = {} <=> s.cursor = n
          /\ s.cursor # n => Max(events) = n
          /\ Cardinality(events) = n - s.cursor
      <4>1. n \in Nat /\ Logged(job, n) /\ s.cursor \in Nat /\ s.cursor <= n
        BY <1>1
      <4> HIDE DEF job
      <4>2. QED
        BY <4>1, EventsPending
    <3> HIDE DEF events
    <3>2. QED
      BY <1>1, <3>1
  <2>3. /\ told \in Statuses \cup {"nothing"} /\ conn \in {"open", "closed"}
        /\ told # "nothing" => conn = "closed" /\ told \in Terminal /\ job.status = told
        /\ conn = "closed" => told # "nothing"
    <3>1. job.status \in Statuses
      BY DEF Logged, Job
    <3>2. QED
      BY <3>1 DEF Terminal
  <2> HIDE DEF seq, frames, told, conn
  <2>4. t \in Client
    BY <2>2, <2>3 DEF Client
  <2>5. /\ t.frames = n /\ t.last = n /\ t.cursor = n /\ t.job = s.job
        /\ t.told = told /\ t.conn = conn
    BY <2>2 DEF Client
  <2> HIDE DEF t
  <2>6. Follows(t, js)
    BY <1>1, <2>3, <2>5 DEF Follows
  <2>7. QED
    BY <2>1, <2>4, <2>6
<1>4. QED
  BY <1>2, <1>3

(* A connection that breaks delivers the first of its events. *)
LEMMA BrokenFollows ==
  ASSUME NEW s \in Client, NEW js, Follows(s, js), s.conn = "open",
         NEW n \in Nat, Logged(js[s.job], n),
         NEW pending, pending \in {eventsAfter(js[s.job], s.cursor), {}},
         NEW seq \in pending \cup {s.last},
         NEW sent \in SUBSET pending, \A e \in pending : e \in sent <=> e <= seq,
         NEW t, t = [s EXCEPT !.conn = "none", !.last = seq,
                              !.frames = @ + Cardinality(sent)]
  PROVE  t \in Client /\ Follows(t, js)
<1>1. /\ s.job # NoJob /\ js[s.job] # NoJob /\ s.cursor = s.last /\ s.frames = s.last
      /\ s.last \in Nat /\ s.last <= n /\ LastSeq(js[s.job]) = n /\ s.told = "nothing"
  BY ClientFields, LoggedSeq DEF Follows
<1>2. eventsAfter(js[s.job], s.cursor) = s.last + 1 .. n
  BY <1>1, EventsAfter
<1>3. seq \in s.last .. n
  BY <1>1, <1>2
<1>4. sent = s.last + 1 .. seq
  <2>1. CASE pending = {}
    BY <1>1, <2>1
  <2>2. CASE pending = s.last + 1 .. n
    <3>1. \A e \in s.last + 1 .. seq : e \in pending /\ e \in sent
      BY <1>1, <1>3, <2>2
    <3>2. \A e \in sent : e \in s.last + 1 .. seq
      BY <1>1, <1>3, <2>2
    <3>3. QED
      BY <3>1, <3>2
  <2>3. QED
    BY <1>2, <2>1, <2>2
<1>5. Cardinality(s.last + 1 .. seq) = seq - s.last
  <2>1. s.last + 1 \in Int /\ seq \in Int
    BY <1>1, <1>3
  <2>2. Cardinality(s.last + 1 .. seq)
          = IF s.last + 1 > seq THEN 0 ELSE seq - (s.last + 1) + 1
    BY <2>1, FS_Interval
  <2>3. QED
    BY <1>1, <1>3, <2>2
<1> DEFINE frames == s.frames + Cardinality(sent)
<1>6. frames = seq /\ seq \in Nat
  <2>1. Cardinality(sent) = seq - s.last
    BY <1>4, <1>5
  <2>2. QED
    BY <1>1, <1>3, <2>1
<1>7. t = [s EXCEPT !.conn = "none", !.last = seq, !.frames = frames]
  OBVIOUS
<1> HIDE DEF frames
<1>8. /\ t \in Client /\ t.conn = "none" /\ t.last = seq /\ t.frames = seq
      /\ t.job = s.job /\ t.told = "nothing"
  BY <1>1, <1>6, <1>7 DEF Client
<1>9. QED
  BY <1>1, <1>3, <1>8 DEF Follows

LEMMA SoundSeq ==
  ASSUME NEW job \in Job, NEW w, job # NoJob, Sound(job, w)
  PROVE  \E n \in Nat : Logged(job, n) /\ LastSeq(job) = n
<1>1. PICK n \in 1 .. 5 : job.events = 1 .. n
  BY DEF Sound
<1>2. n \in Nat /\ Logged(job, n)
  BY <1>1 DEF Logged
<1>3. QED
  BY <1>2, LoggedSeq

LEMMA OpenFollows ==
  ASSUME NEW s \in Client, NEW j \in Posts, NEW js, Follows(s, js), s.conn = "none",
         s.job \in {NoJob, j}, js[j] # NoJob, NEW n \in Nat, Logged(js[j], n),
         NEW c, NEW after, after = (IF c \in Resuming THEN s.last ELSE 0),
         NEW fresh, fresh = [s EXCEPT !.job = j, !.opens = @ + 1, !.cursor = after,
                                      !.last = after,
                                      !.frames = IF c \in Resuming THEN @ ELSE 0]
  PROVE  Served(fresh, js) \in Client /\ Follows(Served(fresh, js), js)
<1>1. LastSeq(js[j]) = n /\ j # NoJob /\ s.last \in Nat /\ s.opens \in Nat
  BY LoggedSeq, ClientFields, ReplayAssumption
<1>2. s.told = "nothing" /\ s.frames = s.last /\ s.last <= n
  <2>1. CASE s.job = NoJob
    BY <1>1, <2>1 DEF Follows
  <2>2. CASE s.job = j
    BY <1>1, <2>2 DEF Follows
  <2>3. QED
    BY <2>1, <2>2 DEF Follows
<1>3. after \in Nat /\ after <= n /\ (IF c \in Resuming THEN s.frames ELSE 0) = after
  BY <1>1, <1>2
<1>4. s.opens + 1 \in Nat
  BY <1>1
<1>5. fresh = [s EXCEPT !.job = j, !.opens = s.opens + 1, !.cursor = after, !.last = after,
                        !.frames = after]
  BY <1>3
<1>6. fresh \in Client
  BY <1>3, <1>4, <1>5 DEF Client
<1>7. /\ fresh.job = j /\ fresh.cursor = after /\ fresh.last = after
      /\ fresh.frames = after /\ fresh.told = "nothing"
  BY <1>2, <1>5 DEF Client
<1>8. QED
  BY <1>3, <1>6, <1>7, ServedFollows

(* Every step leaves every client where StreamInv and DoneIsComplete say. *)
LEMMA ClientsStep ==
  ASSUME ReplayTypeOK, JobInv, RunningIsAttended, StreamInv, DoneIsComplete,
         [ReplayNext]_replayVars
  PROVE  client' \in [Clients -> Client] /\ \A c \in Clients : Follows(client'[c], jobs')
<1>1. /\ jobs' \in Stores
      /\ \A p \in Posts : jobs[p] # NoJob => Grows(jobs[p], jobs'[p])
      /\ \A p \in Posts : Sound(jobs'[p], post'[p])
  BY JobsStep
<1>2. /\ client \in [Clients -> Client] /\ jobs \in Stores
      /\ \A p \in Posts : Sound(jobs[p], post[p])
      /\ \A c \in Clients : Follows(client[c], jobs)
  BY SoundParts, FollowsParts DEF ReplayTypeOK, Stores
<1>3. ASSUME NEW p \in Posts, jobs[p] # NoJob
      PROVE  /\ jobs'[p] # NoJob /\ LastSeq(jobs[p]) \in Nat /\ LastSeq(jobs'[p]) \in Nat
             /\ \E n \in Nat : Logged(jobs'[p], n)
             /\ \E n \in Nat : Logged(jobs[p], n)
  <2>1. jobs'[p] # NoJob /\ jobs'[p] \in Job
    BY <1>1, <1>3 DEF Grows
  <2>2. jobs[p] \in Job
    BY <1>2, <1>3 DEF Stores
  <2>3. \E n \in Nat : Logged(jobs[p], n) /\ LastSeq(jobs[p]) = n
    BY <1>2, <1>3, <2>2, SoundSeq
  <2>4. \E n \in Nat : Logged(jobs'[p], n) /\ LastSeq(jobs'[p]) = n
    BY <1>1, <2>1, SoundSeq
  <2>5. QED
    BY <2>1, <2>3, <2>4
<1>4. ASSUME NEW c \in Clients
      PROVE  /\ Follows(client[c], jobs')
             /\ client[c].job # NoJob => client[c].job \in Posts /\ jobs[client[c].job] # NoJob
  <2>1. client[c] \in Client /\ Follows(client[c], jobs)
    BY <1>2
  <2>2. client[c].job # NoJob => client[c].job \in Posts /\ jobs[client[c].job] # NoJob
    BY <2>1, ClientFields DEF Follows
  <2>3. client[c].job # NoJob =>
          /\ Grows(jobs[client[c].job], jobs'[client[c].job])
          /\ LastSeq(jobs[client[c].job]) \in Nat /\ LastSeq(jobs'[client[c].job]) \in Nat
    BY <1>1, <1>3, <2>2
  <2>4. QED
    BY <2>1, <2>2, <2>3, FollowsGrows
<1>5. CASE client' = client
  BY <1>2, <1>4, <1>5
<1>6. ASSUME NEW c \in Clients, NEW t, t \in Client, Follows(t, jobs'),
             client' = [client EXCEPT ![c] = t]
      PROVE  client' \in [Clients -> Client] /\ \A d \in Clients : Follows(client'[d], jobs')
  <2>1. client' \in [Clients -> Client]
    BY <1>2, <1>6
  <2>2. ASSUME NEW d \in Clients PROVE Follows(client'[d], jobs')
    <3>1. CASE d = c
      BY <1>2, <1>6, <3>1
    <3>2. CASE d # c
      <4>1. client'[d] = client[d]
        BY <1>2, <1>6, <3>2
      <4>2. QED
        BY <1>4, <4>1
    <3>3. QED
      BY <3>1, <3>2
  <2>3. QED
    BY <2>1, <2>2
<1>7. ASSUME NEW c \in Clients, NEW j \in Posts, Open(c, j)
      PROVE  \E t \in Client : Follows(t, jobs') /\ client' = [client EXCEPT ![c] = t]
  <2> DEFINE s == client[c]
             after == IF c \in Resuming THEN s.last ELSE 0
             fresh == [s EXCEPT !.job = j, !.opens = @ + 1, !.cursor = after, !.last = after,
                                !.frames = IF c \in Resuming THEN @ ELSE 0]
  <2>1. /\ s.conn = "none" /\ s.job \in {NoJob, j} /\ jobs[j] # NoJob
        /\ client' = [client EXCEPT ![c] = Served(fresh, jobs')]
    BY <1>7 DEF Open
  <2>2. PICK n \in Nat : Logged(jobs'[j], n)
    BY <1>3, <2>1
  <2>3. jobs'[j] # NoJob /\ s \in Client /\ Follows(s, jobs')
    BY <1>2, <1>3, <1>4, <2>1
  <2>4. Served(fresh, jobs') \in Client /\ Follows(Served(fresh, jobs'), jobs')
    <3>1. PICK a : a = after
      OBVIOUS
    <3>2. PICK f : f = fresh
      OBVIOUS
    <3>3. /\ a = (IF c \in Resuming THEN s.last ELSE 0)
          /\ f = [s EXCEPT !.job = j, !.opens = @ + 1, !.cursor = a, !.last = a,
                           !.frames = IF c \in Resuming THEN @ ELSE 0]
      BY <3>1, <3>2
    <3> HIDE DEF fresh, after, s
    <3>4. Served(f, jobs') \in Client /\ Follows(Served(f, jobs'), jobs')
      BY <2>1, <2>2, <2>3, <3>3, OpenFollows
    <3>5. QED
      BY <3>2, <3>4
  <2>5. QED
    BY <2>1, <2>4
<1>8. ASSUME NEW c \in Clients, Poll(c)
      PROVE  \E t \in Client : Follows(t, jobs') /\ client' = [client EXCEPT ![c] = t]
  <2> DEFINE s == client[c]
  <2>1. s.conn = "open" /\ client' = [client EXCEPT ![c] = Served(s, jobs')]
    BY <1>8 DEF Poll
  <2>2. s \in Client /\ Follows(s, jobs')
    BY <1>2, <1>4
  <2>3. s.job # NoJob
    BY <2>1, <2>2 DEF Follows
  <2>4. s.job \in Posts /\ jobs[s.job] # NoJob
    BY <1>4, <2>3
  <2>5. PICK n \in Nat : Logged(jobs'[s.job], n)
    BY <1>3, <2>4
  <2>6. LastSeq(jobs'[s.job]) = n
    BY <2>5, LoggedSeq
  <2>7. /\ jobs'[s.job] # NoJob /\ s.frames = s.last /\ s.cursor = s.last
        /\ s.last <= n /\ s.told = "nothing"
    BY <2>1, <2>2, <2>3, <2>6 DEF Follows
  <2> HIDE DEF s
  <2>8. Served(s, jobs') \in Client /\ Follows(Served(s, jobs'), jobs')
    BY <2>2, <2>4, <2>5, <2>7, ServedFollows
  <2>9. QED
    BY <2>1, <2>8 DEF s
<1>9. ASSUME NEW c \in Clients, Break(c)
      PROVE  \E t \in Client : Follows(t, jobs') /\ client' = [client EXCEPT ![c] = t]
  <2> DEFINE s == client[c]
             pending == IF s.job \in Kept(jobs) THEN eventsAfter(jobs[s.job], s.cursor)
                        ELSE {}
  <2>1. s.conn = "open" /\ jobs' = jobs
    BY <1>9 DEF Break
  <2>2. PICK seq \in pending \cup {s.last} :
          client' = [client EXCEPT ![c] =
            [s EXCEPT !.conn = "none", !.last = seq,
                      !.frames = @ + Cardinality({e \in pending : e <= seq})]]
    BY <1>9 DEF Break
  <2>3. s \in Client /\ Follows(s, jobs')
    BY <1>2, <1>4
  <2>4. s.job \in Posts /\ jobs[s.job] # NoJob
    <3>1. s.job # NoJob
      BY <2>1, <2>3 DEF Follows
    <3>2. QED
      BY <1>4, <3>1
  <2>5. PICK n \in Nat : Logged(jobs'[s.job], n)
    BY <1>3, <2>4
  <2>6. pending \in {eventsAfter(jobs'[s.job], s.cursor), {}}
    BY <2>1
  <2>7. PICK sent : sent = {e \in pending : e <= seq}
    OBVIOUS
  <2>8. PICK t : t = [s EXCEPT !.conn = "none", !.last = seq,
                               !.frames = @ + Cardinality(sent)]
    OBVIOUS
  <2>9. t \in Client /\ Follows(t, jobs')
    <3>1. s.conn = "open" /\ seq \in pending \cup {s.last}
      BY <2>1, <2>2
    <3>2. sent \in SUBSET pending /\ \A e \in pending : e \in sent <=> e <= seq
      BY <2>7
    <3> HIDE DEF s, pending
    <3>3. QED
      BY <2>3, <2>5, <2>6, <2>8, <3>1, <3>2, BrokenFollows
  <2>10. QED
    BY <2>2, <2>7, <2>8, <2>9
<1>10. \/ client' = client
       \/ \E c \in Clients : (\E j \in Posts : Open(c, j)) \/ Poll(c) \/ Break(c)
  BY DEF ReplayNext, replayVars, Refuse, Start, Settle, WriteBundle, WriteBundleThrows,
         RunnerEnds, Read, JobsAge
<1>11. QED
  BY <1>5, <1>6, <1>7, <1>8, <1>9, <1>10

LEMMA ReplayInitially ==
  ReplayInit => ReplayTypeOK /\ JobInv /\ RunningIsAttended /\ StreamInv /\ DoneIsComplete
<1> SUFFICES ASSUME ReplayInit
             PROVE  ReplayTypeOK /\ JobInv /\ RunningIsAttended /\ StreamInv /\ DoneIsComplete
  OBVIOUS
<1>1. /\ jobs \in [Posts -> Job \cup {NoJob}] /\ post \in [Posts -> Post]
      /\ \A p \in Posts : jobs[p] = NoJob /\ post[p].at = "idle"
  BY DEF ReplayInit, Post
<1>2. client \in [Clients -> Client]
  BY DEF ReplayInit, Client
<1>3. \A p \in Posts : Sound(jobs[p], post[p])
  BY <1>1 DEF Sound
<1>4. \A c \in Clients : Follows(client[c], jobs)
  <2>1. \A c \in Clients :
          /\ client[c].frames = client[c].last /\ client[c].last = 0
          /\ client[c].conn = "none" /\ client[c].job = NoJob /\ client[c].told = "nothing"
    BY DEF ReplayInit
  <2>2. QED
    BY <2>1 DEF Follows
<1>5. ReplayTypeOK
  BY <1>1, <1>2 DEF ReplayTypeOK
<1>6. QED
  BY <1>3, <1>4, <1>5, SoundParts, FollowsParts

(* JobInv and StreamInv are what makes the properties of replay jobs and   *)
(* of their streams inductive: every step of a handler, of the store, of a *)
(* stream or of the clock keeps all of them.                               *)
THEOREM ReplaysKeep ==
  ReplaySpec => [](ReplayTypeOK /\ JobInv /\ RunningIsAttended /\ StreamInv /\ DoneIsComplete)
<1> DEFINE Inv == ReplayTypeOK /\ JobInv /\ RunningIsAttended /\ StreamInv /\ DoneIsComplete
<1>1. ReplayInit => Inv
  BY ReplayInitially
<1>2. Inv /\ [ReplayNext]_replayVars => Inv'
  <2> SUFFICES ASSUME ReplayTypeOK, JobInv, RunningIsAttended, StreamInv, DoneIsComplete,
                      [ReplayNext]_replayVars
               PROVE  Inv'
    OBVIOUS
  <2>1. /\ jobs' \in Stores /\ post' \in [Posts -> Post]
        /\ \A p \in Posts : Sound(jobs'[p], post'[p])
    BY JobsStep
  <2>2. client' \in [Clients -> Client] /\ \A c \in Clients : Follows(client'[c], jobs')
    BY ClientsStep
  <2>3. ReplayTypeOK'
    BY <2>1, <2>2 DEF ReplayTypeOK, Stores
  <2>4. \A p \in Posts : post'[p].at \in {"idle", "bundle", "runner", "done"}
    BY <2>1 DEF Post
  <2>5. JobInv' /\ RunningIsAttended'
    BY <2>1, <2>4 DEF JobInv, RunningIsAttended, Sound, Kept
  <2>6. StreamInv' /\ DoneIsComplete'
    BY <2>2 DEF StreamInv, DoneIsComplete, Follows
  <2>7. QED
    BY <2>3, <2>5, <2>6
<1>3. QED
  BY <1>1, <1>2, PTL DEF ReplaySpec

(* The store, the handlers and the streams keep their types. *)
THEOREM ReplayTypeCorrect == ReplaySpec => []ReplayTypeOK
  BY ReplaysKeep, PTL

(* A job of the store that is not over has a handler at work on it, or one *)
(* that answered 500.                                                      *)
THEOREM RunningJobsAttended == ReplaySpec => []RunningIsAttended
  BY ReplaysKeep, PTL

(* Who is told that a job is over has all of its events and its final      *)
(* status, and no stream of a job that is in the store ends without that.  *)
THEOREM DoneFramesComplete == ReplaySpec => []DoneIsComplete
  BY ReplaysKeep, PTL

(* A client that reconnects with its last sequence number has every event  *)
(* up to it, once.                                                         *)
THEOREM ResumesExactly == ReplaySpec => []ResumeExact
<1>1. StreamInv => ResumeExact
  BY ReplayAssumption DEF StreamInv, ResumeExact
<1>2. QED
  BY <1>1, ReplaysKeep, PTL

JobsOnlyGrow == \A p \in Posts : jobs[p] # NoJob => Grows(jobs[p], jobs'[p])

(* Every step leaves every job with its sequence numbers and its progress  *)
(* not smaller, and a job that is over with its status, last event and     *)
(* progress ("can never make the progress bar regress", job-state.ts       *)
(* 138-139); a job the store dropped does not return.                      *)
THEOREM JobsNeverGoBack == ReplaySpec => [][JobsOnlyGrow]_replayVars
<1>1. /\ ReplayTypeOK /\ JobInv /\ RunningIsAttended /\ StreamInv /\ DoneIsComplete
      /\ [ReplayNext]_replayVars
      => [JobsOnlyGrow]_replayVars
  BY JobsStep DEF JobsOnlyGrow
<1>2. QED
  BY <1>1, ReplaysKeep, PTL DEF ReplaySpec
============================================================================
