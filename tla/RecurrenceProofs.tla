-------------------------- MODULE RecurrenceProofs --------------------------
(***************************************************************************)
(* What the search for the next occurrence guarantees for every zone,      *)
(* rule, length of the day and moment: there is one, it is later, on one   *)
(* of its days, the nearest, on a new date, and on the list of its day;    *)
(* with the exceptions Recurrence names, around a change of the clock.     *)
(***************************************************************************)
EXTENDS Recurrence, TLAPS

\* The remainder of a wall clock is a time of the day.
LEMMA TimeOfDay ==
    ASSUME NEW w \in Int, NEW D \in Nat \ {0}
    PROVE  /\ w % D \in 0..D - 1
           /\ w \div D \in Int
           /\ w = D * (w \div D) + (w % D)
  OBVIOUS

\* A later day begins at least a day later.
LEMMA LaterDay ==
    ASSUME NEW D \in Nat, NEW a \in Int, NEW b \in Int, a < b
    PROVE  D * a + D <= D * b
<1>1. b - a - 1 \in Nat
  OBVIOUS
<1>2. D * (b - a - 1) >= 0
  BY <1>1
<1>3. D * (b - a - 1) = D * b - D * a - D
  OBVIOUS
<1> QED
  BY <1>2, <1>3

\* Quotients are unique.
LEMMA UniqueQuotient ==
    ASSUME NEW D \in Nat \ {0}, NEW p \in Int, NEW q \in Int,
           NEW r \in 0..D - 1, NEW s \in 0..D - 1, D * p + r = D * q + s
    PROVE  p = q
<1>1. ASSUME p < q PROVE FALSE
  <2>1. D * p + D <= D * q
    BY <1>1, LaterDay
  <2>2. D * p \in Int /\ D * q \in Int
    OBVIOUS
  <2> QED
    BY <2>1, <2>2
<1>2. ASSUME q < p PROVE FALSE
  <2>1. D * q + D <= D * p
    BY <1>2, LaterDay
  <2>2. D * p \in Int /\ D * q \in Int
    OBVIOUS
  <2> QED
    BY <2>1, <2>2
<1> QED
  BY <1>1, <1>2

\* A wall clock later than that of the moment becomes a later instant, unless
\* the moment is in the second pass of an hour and the instant in the first.
LEMMA LaterOnTheWall ==
    ASSUME NEW z \in Zones, NEW u \in Nat, NEW w \in Int, NEW fold \in BOOLEAN,
           w > Wall(z, u), fold => SecondPass(z, u)
    PROVE  /\ ToUtc(z, w, fold) \in Nat
           /\ \/ ToUtc(z, w, fold) > u
              \/ SecondPass(z, u) /\ ToUtc(z, w, fold) < z.at
<1>1. z.before \in Nat /\ z.after \in Nat /\ z.at \in Nat /\ z.before <= z.at
  BY RecurrenceAssumption
<1>2. CASE u < z.at
  <2>1. ~fold
    BY <1>1, <1>2 DEF SecondPass
  <2>2. w > u + z.before
    BY <1>2 DEF Wall
  <2> QED
    BY <1>1, <1>2, <2>1, <2>2 DEF ToUtc
<1>3. CASE u >= z.at
  <2>1. w > u + z.after
    BY <1>1, <1>3 DEF Wall
  <2>2. w - z.after > u /\ w - z.after >= z.at
    BY <1>1, <1>3, <2>1
  <2>3. CASE w - z.before >= z.at \/ fold
    <3>1. ToUtc(z, w, fold) = w - z.after
      BY <1>1, <2>2, <2>3 DEF ToUtc
    <3> QED
      BY <1>1, <2>2, <3>1
  <2>4. CASE w - z.before < z.at /\ ~fold
    <3>1. ToUtc(z, w, fold) = w - z.before
      BY <1>1, <2>2, <2>4 DEF ToUtc
    <3>2. u + z.after - z.before < z.at
      BY <1>1, <2>1, <2>4
    <3>3. w - z.before >= 0
      BY <1>1, <1>3, <2>1
    <3> QED
      BY <1>1, <1>3, <2>4, <3>1, <3>2, <3>3 DEF SecondPass
  <2> QED
    BY <1>1, <2>3, <2>4
<1> QED
  BY <1>1, <1>2, <1>3

\* The rule's time on the day k days from a wall clock: its date, and that it
\* is later if the day is.
LEMMA DaysAhead ==
    ASSUME NEW w \in Int, NEW k \in Nat, NEW time \in 0..Day - 1
    PROVE  /\ AtTime(w + k * Day, time) \in Int
           /\ AtTime(w + k * Day, time) = Day * ((w \div Day) + k) + time
           /\ AtTime(w + k * Day, time) \div Day = (w \div Day) + k
           /\ k > 0 => AtTime(w + k * Day, time) > w
<1> DEFINE q == w \div Day
           r == w % Day
<1>1. Day \in Nat \ {0}
  BY RecurrenceAssumption
<1>2. r \in 0..Day - 1 /\ q \in Int /\ w = Day * q + r
  BY <1>1, TimeOfDay
<1> HIDE DEF q, r
<1>3. k * Day \in Int /\ w + k * Day \in Int
  BY <1>1
<1>4. Day * (q + k) + r = w + k * Day
  BY <1>1, <1>2
<1> DEFINE v == w + k * Day
<1>5. v % Day \in 0..Day - 1 /\ v \div Day \in Int /\ v = Day * (v \div Day) + (v % Day)
  BY <1>1, <1>3, TimeOfDay
<1>6. v \div Day = q + k
  <2>1. q + k \in Int
    BY <1>2
  <2> QED
    BY <1>1, <1>2, <1>4, <1>5, <2>1, UniqueQuotient
<1> DEFINE c == AtTime(v, time)
<1>7. c = Day * (q + k) + time
  <2>1. c = v - (v % Day) + time
    BY DEF AtTime
  <2>2. Day * (v \div Day) = Day * (q + k)
    BY <1>6
  <2> DEFINE x == Day * (q + k)
  <2>3. x \in Int
    BY <1>1, <1>2
  <2>4. v = x + (v % Day)
    BY <1>5, <2>2
  <2> HIDE DEF x, v
  <2> QED
    BY <1>1, <1>5, <2>1, <2>3, <2>4 DEF x
<1>8. Day * (q + k) \in Int
  BY <1>1, <1>2
<1>9. c \in Int
  BY <1>1, <1>7, <1>8
<1>10. c \div Day = q + k
  <2>1. c % Day \in 0..Day - 1 /\ c \div Day \in Int /\ c = Day * (c \div Day) + (c % Day)
    BY <1>1, <1>9, TimeOfDay
  <2>2. q + k \in Int
    BY <1>2
  <2> QED
    BY <1>1, <1>7, <2>1, <2>2, UniqueQuotient
<1>11. k > 0 => c > w
  <2> SUFFICES ASSUME k > 0 PROVE c > w
    OBVIOUS
  <2>1. Day * (q + k) = Day * q + Day + Day * (k - 1)
    BY <1>1, <1>2
  <2>2. Day * (k - 1) >= 0 /\ Day * (k - 1) \in Int /\ Day * q \in Int
    BY <1>1, <1>2
  <2> QED
    BY <1>1, <1>2, <1>7, <2>1, <2>2
<1> QED
  BY <1>7, <1>9, <1>10, <1>11 DEF q

\* The wall clock of a moment.
LEMMA WallIsClock ==
    ASSUME NEW z \in Zones, NEW u \in Nat
    PROVE  Wall(z, u) \in Nat /\ SecondPass(z, u) \in BOOLEAN
  BY RecurrenceAssumption DEF Wall, SecondPass

\* What the next occurrence must be.
Later(z, u, next) ==
    /\ next \in Nat
    /\ next > u \/ (SecondPass(z, u) /\ next < z.at)

\* A daily reminder: later today, or tomorrow (recurrence.py:42-46).
LEMMA DailyIsLater ==
    ASSUME NEW z \in Zones, NEW u \in Nat, NEW time \in 0..Day - 1
    PROVE  Later(z, u, NextDaily(z, time, u))
<1> DEFINE w == Wall(z, u)
           today == AtTime(w, time)
<1>1. w \in Int /\ SecondPass(z, u) \in BOOLEAN
  BY WallIsClock
<1>2. Day \in Nat \ {0}
  BY RecurrenceAssumption
<1>3. today \in Int /\ today + Day > w
  <2>1. w % Day \in 0..Day - 1
    BY <1>1, <1>2, TimeOfDay
  <2> QED
    BY <1>1, <1>2, <2>1 DEF AtTime
<1>4. CASE today > w
  <2>1. NextDaily(z, time, u) = ToUtc(z, today, SecondPass(z, u))
    BY <1>4 DEF NextDaily
  <2> QED
    BY <1>1, <1>3, <1>4, <2>1, LaterOnTheWall DEF Later
<1>5. CASE ~(today > w)
  <2>1. NextDaily(z, time, u) = ToUtc(z, today + Day, FALSE)
    BY <1>5 DEF NextDaily
  <2>2. today + Day \in Int
    BY <1>2, <1>3
  <2> QED
    BY <1>1, <1>3, <2>1, <2>2, LaterOnTheWall DEF Later
<1> QED
  BY <1>4, <1>5

\* A weekly one: on its day of this week, or seven days on (recurrence.py:56-68).
LEMMA WeeklyIsLater ==
    ASSUME NEW z \in Zones, NEW u \in Nat, NEW time \in 0..Day - 1, NEW weekday \in 0..6
    PROVE  Later(z, u, NextWeekly(z, time, weekday, u))
<1> DEFINE w == Wall(z, u)
           days == (weekday - Weekday(w)) % 7
           candidate == AtTime(w + days * Day, time)
<1>1. w \in Int
  BY WallIsClock
<1>2. Day \in Nat \ {0}
  BY RecurrenceAssumption
<1>3. days \in Nat
  <2>1. w \div Day \in Int
    BY <1>1, <1>2, TimeOfDay
  <2>2. Weekday(w) \in Int
    BY <2>1 DEF Weekday
  <2> QED
    BY <2>2
<1> HIDE DEF days
<1>4. candidate \in Int /\ (days > 0 => candidate > w)
  BY <1>1, <1>3, DaysAhead
<1>5. candidate + 7 * Day > w
  <2>1. CASE days = 0
    <3>1. w % Day \in 0..Day - 1
      BY <1>1, <1>2, TimeOfDay
    <3>2. candidate = w - (w % Day) + time
      BY <1>1, <1>2, <2>1 DEF AtTime
    <3> QED
      BY <1>1, <1>2, <3>1, <3>2
  <2>2. CASE days > 0
    BY <1>1, <1>2, <1>4, <2>2
  <2> QED
    BY <1>3, <2>1, <2>2
<1> DEFINE chosen == IF candidate > w THEN candidate ELSE candidate + 7 * Day
<1>6. chosen \in Int /\ chosen > w
  BY <1>1, <1>2, <1>4, <1>5
<1>7. NextWeekly(z, time, weekday, u) = ToUtc(z, chosen, FALSE)
  BY DEF NextWeekly, days
<1> QED
  BY <1>6, <1>7, LaterOnTheWall DEF Later

\* Of the days that qualify there is a nearest one.
LEMMA FirstDay ==
    ASSUME NEW S \in SUBSET Ahead, S # {}
    PROVE  \E i \in S : \A j \in S : i <= j
<1> DEFINE From(n) == \A j \in S : n <= j
<1> SUFFICES ASSUME \A i \in S : ~From(i) PROVE FALSE
  OBVIOUS
<1>1. S \subseteq 0..7
  BY DEF Ahead
<1>2. From(0)
  BY <1>1
<1>3. \A n \in 0..7 : From(n) => From(n + 1)
  BY <1>1
<1>4. From(8)
  <2> HIDE DEF From
  <2>1. From(1) /\ (From(1) => From(2)) /\ (From(2) => From(3)) /\ (From(3) => From(4))
    BY <1>2, <1>3
  <2>2. (From(4) => From(5)) /\ (From(5) => From(6)) /\ (From(6) => From(7)) /\ (From(7) => From(8))
    BY <1>3
  <2> QED
    BY <2>1, <2>2
<1>5. PICK j \in S : TRUE
  OBVIOUS
<1>6. 8 <= j
  BY <1>4
<1>7. j \in 0..7
  BY <1>1
<1> QED
  BY <1>6, <1>7

\* Among any three days in a row there is a working day: the search of
\* recurrence.py:49 ends with a candidate.
LEMMA WeekdayIsLater ==
    ASSUME NEW z \in Zones, NEW u \in Nat, NEW time \in 0..Day - 1
    PROVE  Later(z, u, NextWeekday(z, time, u))
<1> DEFINE w == Wall(z, u)
           q == w \div Day
           candidate(k) == AtTime(w + k * Day, time)
           found == {k \in Ahead : IsWorkday(Weekday(candidate(k))) /\ candidate(k) > w}
<1>1. w \in Int
  BY WallIsClock
<1>2. q \in Int
  BY <1>1, RecurrenceAssumption, TimeOfDay
<1>3. ASSUME NEW k \in 1..3, (q + k) % 7 < 5
      PROVE  k \in found
  <2>1. k \in Nat /\ k > 0 /\ k \in Ahead
    BY DEF Ahead
  <2>2. candidate(k) \div Day = q + k /\ candidate(k) > w
    BY <1>1, <2>1, DaysAhead
  <2> QED
    BY <1>3, <2>1, <2>2 DEF Weekday, IsWorkday
<1>4. (q + 1) % 7 < 5 \/ (q + 2) % 7 < 5 \/ (q + 3) % 7 < 5
  <2> HIDE DEF q
  <2> QED
    BY <1>2
<1>5. found # {}
  BY <1>3, <1>4
<1>6. \E i \in found : \A j \in found : i <= j
  <2>1. found \in SUBSET Ahead
    OBVIOUS
  <2> HIDE DEF found
  <2> QED
    BY <1>5, <2>1, FirstDay
<1> DEFINE first == CHOOSE i \in found : \A j \in found : i <= j
<1>7. first \in found
  <2> HIDE DEF found
  <2> QED
    BY <1>6
<1>8. candidate(first) > w /\ candidate(first) \in Int
  <2>1. candidate(first) > w /\ first \in Ahead
    BY <1>7
  <2> HIDE DEF first
  <2>2. first \in Nat
    BY <2>1 DEF Ahead
  <2> QED
    BY <1>1, <2>1, <2>2, DaysAhead
<1>9. NextWeekday(z, time, u) = ToUtc(z, candidate(first), FALSE)
  BY <1>5 DEF NextWeekday
<1> QED
  BY <1>8, <1>9, LaterOnTheWall DEF Later

\* Whatever the rule.
LEMMA NextIsLater ==
    ASSUME NEW z \in Zones, NEW r \in Rules, NEW u \in Nat
    PROVE  Later(z, u, NextOccurrence(z, r, u))
<1>1. r.kind \in Kinds /\ r.time \in 0..Day - 1 /\ r.weekday \in 0..6
  BY RecurrenceAssumption
<1>2. CASE r.kind = "daily"
  BY <1>1, <1>2, DailyIsLater DEF NextOccurrence
<1>3. CASE r.kind = "weekday"
  BY <1>1, <1>3, WeekdayIsLater DEF NextOccurrence
<1>4. CASE r.kind = "weekly"
  BY <1>1, <1>4, WeeklyIsLater DEF NextOccurrence
<1> QED
  BY <1>1, <1>2, <1>3, <1>4 DEF Kinds

\* The time of a row is always the one computed from the last moment.
IInv ==
    /\ zone \in Zones
    /\ rule \in Rules
    /\ now \in Nat
    /\ due = NextOccurrence(zone, rule, now)

\* It holds at the start, every step keeps it, and so it always holds.
LEMMA InitIInv == Init => IInv
  BY RecurrenceAssumption DEF Init, IInv

LEMMA NextIInv == IInv /\ [Next]_vars => IInv'
<1> SUFFICES ASSUME IInv, [Next]_vars PROVE IInv'
  OBVIOUS
<1>1. ASSUME NEW delay \in Delays, Serve(delay) PROVE IInv'
  <2>1. due \in Nat
    BY NextIsLater DEF IInv, Later
  <2>2. now' \in Nat
    BY <1>1, <2>1, RecurrenceAssumption DEF Serve
  <2> QED
    BY <1>1, <2>2 DEF IInv, Serve
<1>2. CASE Rest \/ UNCHANGED vars
  BY <1>2 DEF IInv, Rest, vars
<1> QED
  BY <1>1, <1>2 DEF Next

LEMMA Reachable == Spec => []IInv
  BY InitIInv, NextIInv, PTL DEF Spec

\* There always is a next occurrence (recurrence.py:49-54), whatever the zone,
\* the rule, the length of the day and the moment.
THEOREM AlwaysAnother == Spec => []TypeOK
<1>1. IInv => TypeOK
  BY NextIsLater DEF IInv, Later, TypeOK
<1> QED
  BY <1>1, Reachable, PTL

\* It is later than the moment it was computed from, unless that moment lies in
\* the second pass of a repeated hour (recurrence.py:44, 52, 66).
THEOREM AlwaysLater == Spec => []StrictlyLater
<1>1. IInv => StrictlyLater
  BY NextIsLater DEF IInv, Later, StrictlyLater
<1> QED
  BY <1>1, Reachable, PTL

-----------------------------------------------------------------------------
(* Which occurrence it is: the first date that fits.                       *)

\* A date of the rule, and the rule's wall clock on a date.
Fits(r, d) ==
    CASE r.kind = "daily" -> TRUE
      [] r.kind = "weekday" -> d % 7 < 5
      [] r.kind = "weekly" -> d % 7 = r.weekday
Clock(r, d) == Day * d + r.time

LEMMA ClockOfRule ==
    ASSUME NEW r \in Rules, NEW d \in Int
    PROVE  Clock(r, d) \in Int /\ Clock(r, d) = d * Day + r.time
<1>1. r.time \in Int /\ Day \in Nat
  BY RecurrenceAssumption
<1>2. Day * d = d * Day /\ Day * d \in Int
  BY <1>1
<1> QED
  BY <1>1, <1>2 DEF Clock

\* A rule's wall clock that is still to come is today's or a later day's.
LEMMA ToCome ==
    ASSUME NEW r \in Rules, NEW w \in Int, NEW e \in Int, Clock(r, e) > w
    PROVE  w \div Day \in Int /\ e >= w \div Day
<1> DEFINE q == w \div Day
<1>1. Day \in Nat \ {0} /\ r.time \in 0..Day - 1
  BY RecurrenceAssumption
<1>2. w % Day \in 0..Day - 1 /\ q \in Int /\ w = Day * q + (w % Day)
  BY <1>1, TimeOfDay
<1> HIDE DEF q
<1>3. ASSUME e < q PROVE FALSE
  <2>1. Day * e + Day <= Day * q
    BY <1>1, <1>2, <1>3, LaterDay
  <2>2. Day * e \in Int /\ Day * q \in Int
    BY <1>1, <1>2
  <2> QED
    BY <1>1, <1>2, <2>1, <2>2 DEF Clock
<1> QED
  BY <1>2, <1>3 DEF q

\* d is the first date of rule r whose wall clock is later than w, at most
\* seven days ahead.
IsNearest(r, w, d) ==
    /\ d \in Int /\ Fits(r, d) /\ Clock(r, d) > w
    /\ w \div Day <= d /\ d <= (w \div Day) + 7
    /\ \A e \in Int : Fits(r, e) /\ Clock(r, e) > w => d <= e

\* The next occurrence is the instant of the nearest date; the fold is kept
\* only from a moment in the second pass.
IsNext(z, r, u, d, fold) ==
    /\ fold \in BOOLEAN /\ (fold => SecondPass(z, u))
    /\ IsNearest(r, Wall(z, u), d)
    /\ NextOccurrence(z, r, u) = ToUtc(z, Clock(r, d), fold)

LEMMA DailyIsNext ==
    ASSUME NEW z \in Zones, NEW u \in Nat, NEW r \in Rules, r.kind = "daily"
    PROVE  \E d \in Int, fold \in BOOLEAN : IsNext(z, r, u, d, fold)
<1> DEFINE w == Wall(z, u)
           q == w \div Day
<1>1. /\ w \in Int /\ SecondPass(z, u) \in BOOLEAN /\ r.time \in 0..Day - 1
      /\ Day \in Nat \ {0}
  BY WallIsClock, RecurrenceAssumption
<1>2. q \in Int /\ AtTime(w, r.time) = Clock(r, q)
  <2>1. w % Day \in 0..Day - 1 /\ q \in Int /\ w = Day * q + (w % Day)
    BY <1>1, TimeOfDay
  <2> DEFINE x == Day * q
             rest == w % Day
  <2>2. x \in Int
    BY <1>1, <2>1
  <2>3. AtTime(w, r.time) = w - rest + r.time /\ Clock(r, q) = x + r.time
    BY DEF AtTime, Clock
  <2>4. w = x + rest /\ rest \in Int
    BY <2>1
  <2> HIDE DEF x, rest
  <2>5. w - rest + r.time = x + r.time
    BY <1>1, <2>2, <2>4
  <2> QED
    BY <2>1, <2>3, <2>5
<1>3. NextOccurrence(z, r, u) = NextDaily(z, r.time, u)
  BY DEF NextOccurrence
<1>4. \A d : Fits(r, d)
  BY DEF Fits
<1>5. \A e \in Int : Clock(r, e) > w => e >= q
  BY <1>1, ToCome
<1>6. CASE Clock(r, q) > w
  <2>1. NextDaily(z, r.time, u) = ToUtc(z, Clock(r, q), SecondPass(z, u))
    BY <1>2, <1>6 DEF NextDaily
  <2>2. IsNearest(r, w, q)
    <3> HIDE DEF q, w
    <3> QED
      BY <1>2, <1>4, <1>5, <1>6 DEF IsNearest, q
  <2>3. IsNext(z, r, u, q, SecondPass(z, u))
    BY <1>1, <1>3, <2>1, <2>2 DEF IsNext
  <2> QED
    BY <1>1, <1>2, <2>3
<1>7. CASE ~(Clock(r, q) > w)
  <2>1. AtTime(w, r.time) + Day = Clock(r, q + 1)
    <3>1. Day * (q + 1) = Day * q + Day /\ Day * q \in Int
      BY <1>1, <1>2
    <3> QED
      BY <1>1, <1>2, <3>1 DEF Clock
  <2>2. NextDaily(z, r.time, u) = ToUtc(z, Clock(r, q + 1), FALSE)
    BY <1>2, <1>7, <2>1 DEF NextDaily
  <2>3. Clock(r, q + 1) > w
    <3>1. w % Day \in 0..Day - 1 /\ AtTime(w, r.time) = w - (w % Day) + r.time
      BY <1>1, TimeOfDay DEF AtTime
    <3> QED
      BY <1>1, <2>1, <3>1
  <2>4. \A e \in Int : Clock(r, e) > w => q + 1 <= e
    <3> HIDE DEF q, w
    <3>1. \A e \in Int : Clock(r, e) > w => e >= q /\ e # q
      BY <1>5, <1>7
    <3> QED
      BY <1>2, <3>1
  <2>5. IsNearest(r, w, q + 1)
    <3> HIDE DEF q, w
    <3> QED
      BY <1>2, <1>4, <2>3, <2>4 DEF IsNearest, q
  <2>6. IsNext(z, r, u, q + 1, FALSE)
    BY <1>3, <2>2, <2>5 DEF IsNext
  <2>7. q + 1 \in Int
    BY <1>2
  <2> QED
    BY <2>6, <2>7
<1> QED
  BY <1>6, <1>7

\* Days of the week: how far ahead the next one of its name is.
LEMMA DaysOfWeek ==
    ASSUME NEW q \in Int, NEW n \in 0..6
    PROVE  LET days == (n - (q % 7)) % 7
           IN  /\ days \in 0..6
               /\ (q + days) % 7 = n /\ (q + days + 7) % 7 = n
  OBVIOUS

LEMMA NoneBetween ==
    ASSUME NEW q \in Int, NEW n \in 0..6, NEW e \in Int, e >= q, e % 7 = n
    PROVE  LET days == (n - (q % 7)) % 7
           IN  e = q + days \/ e >= q + days + 7
  OBVIOUS

LEMMA WeeklyIsNext ==
    ASSUME NEW z \in Zones, NEW u \in Nat, NEW r \in Rules, r.kind = "weekly"
    PROVE  \E d \in Int, fold \in BOOLEAN : IsNext(z, r, u, d, fold)
<1> DEFINE w == Wall(z, u)
           q == w \div Day
           days == (r.weekday - (q % 7)) % 7
<1>1. /\ w \in Int /\ r.time \in 0..Day - 1 /\ r.weekday \in 0..6
      /\ Day \in Nat \ {0}
  BY WallIsClock, RecurrenceAssumption
<1>2. q \in Int
  BY <1>1, TimeOfDay
<1>3. days \in 0..6 /\ (q + days) % 7 = r.weekday /\ (q + days + 7) % 7 = r.weekday
  <2> HIDE DEF q
  <2> QED
    BY <1>1, <1>2, DaysOfWeek
<1>4. ASSUME NEW e \in Int, e >= q, e % 7 = r.weekday
      PROVE  e = q + days \/ e >= q + days + 7
  <2> HIDE DEF q
  <2> QED
    BY <1>1, <1>2, <1>4, NoneBetween
<1>5. AtTime(w + days * Day, r.time) = Clock(r, q + days)
  <2> HIDE DEF days
  <2>1. days \in Nat
    BY <1>3
  <2> QED
    BY <1>1, <2>1, DaysAhead DEF Clock
<1>6. \A e \in Int : Fits(r, e) /\ Clock(r, e) > w => e >= q /\ e % 7 = r.weekday
  <2> HIDE DEF w
  <2> QED
    BY <1>1, ToCome DEF Fits
<1>7. NextOccurrence(z, r, u) = NextWeekly(z, r.time, r.weekday, u)
  BY DEF NextOccurrence
<1>8. Weekday(w) = q % 7
  BY DEF Weekday
<1>9. CASE Clock(r, q + days) > w
  <2>1. NextWeekly(z, r.time, r.weekday, u) = ToUtc(z, Clock(r, q + days), FALSE)
    <3>1. (r.weekday - Weekday(w)) % 7 = days
      BY <1>8
    <3> HIDE DEF days, w, q
    <3> QED
      BY <1>5, <1>9, <3>1 DEF NextWeekly, w
  <2>2. IsNearest(r, w, q + days)
    <3> HIDE DEF w, days
    <3>1. q + days \in Int /\ q <= q + days /\ q + days <= q + 7
      BY <1>2, <1>3
    <3>2. Fits(r, q + days)
      BY <1>3 DEF Fits
    <3>3. \A e \in Int : Fits(r, e) /\ Clock(r, e) > w => q + days <= e
      BY <1>2, <1>3, <1>4, <1>6
    <3> QED
      BY <1>9, <3>1, <3>2, <3>3 DEF IsNearest
  <2>3. IsNext(z, r, u, q + days, FALSE)
    BY <1>7, <2>1, <2>2 DEF IsNext
  <2> QED
    BY <2>2, <2>3 DEF IsNearest
<1>10. CASE ~(Clock(r, q + days) > w)
  <2> DEFINE d == q + days + 7
  <2>0. d \in Int /\ q + days \in Int
    BY <1>2, <1>3
  <2>1. Clock(r, q + days) + 7 * Day = Clock(r, d)
    <3> DEFINE a == q + days
    <3>1. Day * (a + 7) = Day * a + 7 * Day /\ Day * a \in Int
      <4>1. a \in Int
        BY <2>0
      <4> HIDE DEF a
      <4> QED
        BY <1>1, <4>1
    <3>2. d = a + 7
      OBVIOUS
    <3> HIDE DEF a, d
    <3>3. Clock(r, a) + 7 * Day = Clock(r, d)
      BY <1>1, <3>1, <3>2 DEF Clock
    <3> QED
      BY <3>3 DEF a
  <2>2. NextWeekly(z, r.time, r.weekday, u) = ToUtc(z, Clock(r, d), FALSE)
    <3>1. (r.weekday - Weekday(w)) % 7 = days
      BY <1>8
    <3> HIDE DEF days, w, q, d
    <3> QED
      BY <1>5, <1>10, <2>1, <3>1 DEF NextWeekly, w
  <2>3. days = 0
    <3>1. days > 0 => AtTime(w + days * Day, r.time) > w
      <4> HIDE DEF days
      <4>1. days \in Nat
        BY <1>3
      <4> QED
        BY <1>1, <4>1, DaysAhead
    <3> HIDE DEF days
    <3> QED
      BY <1>3, <1>5, <1>10, <3>1
  <2>4. Clock(r, d) > w
    <3>1. w % Day \in 0..Day - 1 /\ w = Day * q + (w % Day) /\ Day * q \in Int
      <4>1. w % Day \in 0..Day - 1 /\ w = Day * q + (w % Day)
        BY <1>1, TimeOfDay
      <4> HIDE DEF q
      <4>2. Day * q \in Int
        BY <1>1, <1>2
      <4> QED
        BY <4>1, <4>2
    <3>2. Clock(r, d) = Day * q + r.time + 7 * Day
      <4>1. Day * (q + days) = Day * q
        BY <1>2, <2>3
      <4> HIDE DEF days, d
      <4> QED
        BY <2>1, <4>1 DEF Clock
    <3> HIDE DEF q, d, w
    <3> QED
      BY <1>1, <3>1, <3>2
  <2>5. \A e \in Int : Fits(r, e) /\ Clock(r, e) > w => d <= e
    <3> HIDE DEF w, days, q
    <3>1. \A e \in Int : Clock(r, e) > w => e # q + days
      BY <1>10
    <3> QED
      BY <1>2, <1>3, <1>4, <1>6, <3>1
  <2>6. IsNearest(r, w, d)
    <3>1. q <= d /\ d <= q + 7
      BY <1>2, <2>3
    <3>2. Fits(r, d)
      BY <1>3 DEF Fits
    <3> HIDE DEF d, w
    <3> QED
      BY <2>0, <2>4, <2>5, <3>1, <3>2 DEF IsNearest
  <2>7. IsNext(z, r, u, d, FALSE)
    BY <1>7, <2>2, <2>6 DEF IsNext
  <2> QED
    BY <2>0, <2>7
<1> QED
  BY <1>9, <1>10
LEMMA WeekdayIsNext ==
    ASSUME NEW z \in Zones, NEW u \in Nat, NEW r \in Rules, r.kind = "weekday"
    PROVE  \E d \in Int, fold \in BOOLEAN : IsNext(z, r, u, d, fold)
<1> DEFINE w == Wall(z, u)
           q == w \div Day
           candidate(k) == AtTime(w + k * Day, r.time)
           found == {k \in Ahead : IsWorkday(Weekday(candidate(k))) /\ candidate(k) > w}
<1>1. /\ w \in Int /\ r.time \in 0..Day - 1 /\ Day \in Nat \ {0}
  BY WallIsClock, RecurrenceAssumption
<1>2. q \in Int
  BY <1>1, TimeOfDay
<1>3. ASSUME NEW k \in Ahead
      PROVE  /\ candidate(k) = Clock(r, q + k)
             /\ k \in found <=> Fits(r, q + k) /\ Clock(r, q + k) > w
             /\ k > 0 => Clock(r, q + k) > w
  <2>1. k \in Nat
    BY DEF Ahead
  <2>2. /\ candidate(k) = Clock(r, q + k)
        /\ candidate(k) \div Day = q + k
        /\ k > 0 => candidate(k) > w
    BY <1>1, <2>1, DaysAhead DEF Clock
  <2>3. IsWorkday(Weekday(candidate(k))) <=> Fits(r, q + k)
    BY <2>2 DEF IsWorkday, Weekday, Fits
  <2> HIDE DEF q, w
  <2> QED
    BY <2>2, <2>3
<1>4. found # {}
  <2>1. (q + 1) % 7 < 5 \/ (q + 2) % 7 < 5 \/ (q + 3) % 7 < 5
    <3> HIDE DEF q
    <3> QED
      BY <1>2
  <2>2. \A k \in 1..3 : k \in Ahead
    BY DEF Ahead
  <2> HIDE DEF q, w, found, candidate
  <2> QED
    BY <1>3, <2>1, <2>2 DEF Fits
<1>5. \E i \in found : \A j \in found : i <= j
  <2>1. found \in SUBSET Ahead
    OBVIOUS
  <2> HIDE DEF found
  <2> QED
    BY <1>4, <2>1, FirstDay
<1> DEFINE first == CHOOSE i \in found : \A j \in found : i <= j
<1>6. first \in found /\ \A j \in found : first <= j
  <2> HIDE DEF found
  <2> QED
    BY <1>5
<1>7. NextOccurrence(z, r, u) = ToUtc(z, candidate(first), FALSE)
  BY <1>4 DEF NextOccurrence, NextWeekday
<1>8. first \in Ahead
  BY <1>6
<1> HIDE DEF first
<1>9. first \in 0..7 /\ candidate(first) = Clock(r, q + first)
  BY <1>3, <1>8 DEF Ahead
<1>10. \A e \in Int : Fits(r, e) /\ Clock(r, e) > w => q + first <= e
  <2> SUFFICES ASSUME NEW e \in Int, Fits(r, e), Clock(r, e) > w
               PROVE  q + first <= e
    OBVIOUS
  <2>1. e >= q
    BY <1>1, ToCome
  <2>2. CASE e - q \in Ahead
    <3>1. q + (e - q) = e
      BY <1>2
    <3>2. e - q \in found
      <4> HIDE DEF found, q, w, candidate
      <4> QED
        BY <1>3, <2>2, <3>1
    <3>3. first <= e - q
      BY <1>6, <3>2
    <3> HIDE DEF found, q, w, candidate
    <3> QED
      BY <1>2, <1>9, <3>3
  <2>3. CASE e - q \notin Ahead
    <3> HIDE DEF found, q, w, candidate
    <3> QED
      BY <1>2, <1>9, <2>1, <2>3 DEF Ahead
  <2> QED
    BY <2>2, <2>3
<1>11. IsNearest(r, w, q + first)
  <2>1. Fits(r, q + first) /\ Clock(r, q + first) > w
    <3> HIDE DEF found, q, w, candidate
    <3> QED
      BY <1>3, <1>6, <1>8
  <2>2. q + first \in Int /\ q <= q + first /\ q + first <= q + 7
    <3> HIDE DEF found, q, w, candidate
    <3> QED
      BY <1>2, <1>9
  <2> HIDE DEF found, w, candidate
  <2> QED
    BY <1>10, <2>1, <2>2 DEF IsNearest
<1>12. IsNext(z, r, u, q + first, FALSE)
  BY <1>7, <1>9, <1>11 DEF IsNext
<1> QED
  BY <1>11, <1>12 DEF IsNearest

LEMMA NextIsNearest ==
    ASSUME NEW z \in Zones, NEW u \in Nat, NEW r \in Rules
    PROVE  \E d \in Int, fold \in BOOLEAN : IsNext(z, r, u, d, fold)
<1>1. r.kind \in Kinds
  BY RecurrenceAssumption
<1> QED
  BY <1>1, DailyIsNext, WeeklyIsNext, WeekdayIsNext DEF Kinds
\* The properties speak of the rule in force.
LEMMA RightDates ==
    ASSUME rule \in Rules, NEW d \in Int
    PROVE  /\ RightDate(d) <=> Fits(rule, d)
           /\ First(d) = ToUtc(zone, Clock(rule, d), FALSE)
           /\ HasTheTime(d) <=> Wall(zone, First(d)) = Clock(rule, d)
           /\ \A fold \in BOOLEAN : ToUtc(zone, Clock(rule, d), fold) \in On(d)
<1>1. d * Day + rule.time = Clock(rule, d)
  BY ClockOfRule
<1> QED
  BY <1>1 DEF RightDate, Fits, First, HasTheTime, On

\* The next occurrence of a row falls on one of its rule's days and has its
\* rule's time, whatever the zone, the rule and the moment, in a repeated or
\* skipped hour too (recurrence.py:43-68).
THEOREM OccursOnItsDay == Spec => []OnItsDay
<1>1. IInv => OnItsDay
  <2> SUFFICES ASSUME IInv PROVE OnItsDay
    OBVIOUS
  <2>1. PICK d \in Int, fold \in BOOLEAN : IsNext(zone, rule, now, d, fold)
    BY NextIsNearest DEF IInv
  <2> DEFINE w == Wall(zone, now)
  <2>2. Date(now) \in Int /\ Date(now) = w \div Day
    <3>1. w \in Int /\ Day \in Nat \ {0}
      BY WallIsClock, RecurrenceAssumption DEF IInv
    <3> QED
      BY <3>1, TimeOfDay DEF Date
  <2>3. Fits(rule, d) /\ Date(now) <= d /\ d <= Date(now) + 7
    BY <2>1, <2>2 DEF IsNext, IsNearest
  <2>4. d \in Dates
    BY <2>2, <2>3 DEF Dates
  <2>5. due = ToUtc(zone, Clock(rule, d), fold)
    BY <2>1 DEF IInv, IsNext
  <2> QED
    BY <2>3, <2>4, <2>5, RightDates DEF IInv, OnItsDay
<1> QED
  BY <1>1, Reachable, PTL

\* c is an instant's wall clock, later than the moment u; v is c or at least a
\* day earlier.  Then v is no later an instant.
LEMMA EarlierIsEarlier ==
    ASSUME NEW z \in Zones, NEW u \in Nat, NEW c \in Int, NEW v \in Int,
           NEW fold \in BOOLEAN, fold => SecondPass(z, u),
           Wall(z, ToUtc(z, c, FALSE)) = c, u < ToUtc(z, c, FALSE),
           c > Wall(z, u) => v = c \/ v + Day <= c
    PROVE  ~(ToUtc(z, c, FALSE) < ToUtc(z, v, fold))
<1> DEFINE b == z.before
           a == z.after
           t == z.at
<1>1. b \in Nat /\ a \in Nat /\ t \in Nat /\ b <= t /\ a <= b + Day /\ Day \in Nat
  BY RecurrenceAssumption
<1>2. c > Wall(z, u)
  BY <1>1 DEF Wall, ToUtc
<1>3. v = c \/ v + Day <= c
  BY <1>2
<1>4. CASE fold
  <2>1. u >= t /\ u + a - b < t
    BY <1>4 DEF SecondPass
  <2>2. ToUtc(z, c, FALSE) = c - a /\ c - a > u
    BY <1>1, <2>1 DEF ToUtc
  <2> DEFINE result == ToUtc(z, v, fold)
  <2>3. result = v - a \/ (result = v - b /\ v - b < t)
    BY <1>1, <1>4 DEF ToUtc
  <2> HIDE DEF result, a, b, t
  <2>4. result <= c - a
    BY <1>1, <1>3, <2>1, <2>2, <2>3
  <2>5. result \in Int /\ c - a \in Int
    BY <1>1, <2>3
  <2>6. ~(c - a < result)
    BY <2>4, <2>5
  <2> QED
    BY <2>2, <2>6 DEF result
<1>5. CASE ~fold
  BY <1>1, <1>3, <1>5 DEF ToUtc, Wall
<1> QED
  BY <1>4, <1>5

\* Between a moment and the next occurrence computed from it lies no other
\* occurrence of the rule (the nearest of the days looked at, recurrence.py:49,
\* 59), provided no clock is set forward by more than a day.
THEOREM NoneIsSkipped == Spec => []NothingSkipped
<1>1. IInv => NothingSkipped
  <2> SUFFICES ASSUME IInv, NEW e \in Dates, RightDate(e), HasTheTime(e),
                      now < First(e)
               PROVE  ~(First(e) < due)
    BY DEF NothingSkipped
  <2> DEFINE w == Wall(zone, now)
  <2>0. w \in Int /\ Day \in Nat \ {0}
    BY WallIsClock, RecurrenceAssumption DEF IInv
  <2>1. e \in Int
    <3>1. Date(now) \in Int
      BY <2>0, TimeOfDay DEF Date
    <3> QED
      BY <3>1 DEF Dates
  <2>2. /\ Fits(rule, e) /\ First(e) = ToUtc(zone, Clock(rule, e), FALSE)
        /\ Wall(zone, First(e)) = Clock(rule, e)
    BY <2>1, RightDates DEF IInv
  <2>3. PICK d \in Int, fold \in BOOLEAN : IsNext(zone, rule, now, d, fold)
    BY NextIsNearest DEF IInv
  <2>4. Clock(rule, d) \in Int /\ Clock(rule, e) \in Int
    BY <2>1, ClockOfRule DEF IInv
  <2>5. Clock(rule, e) > w => Clock(rule, d) = Clock(rule, e)
                              \/ Clock(rule, d) + Day <= Clock(rule, e)
    <3> SUFFICES ASSUME Clock(rule, e) > w, d # e
                 PROVE  Clock(rule, d) + Day <= Clock(rule, e)
      OBVIOUS
    <3>1. d < e
      BY <2>1, <2>2, <2>3 DEF IsNext, IsNearest
    <3>2. Day * d + Day <= Day * e
      BY <2>0, <2>1, <3>1, LaterDay
    <3>3. Day * d \in Int /\ Day * e \in Int /\ rule.time \in Int
      BY <2>0, <2>1, RecurrenceAssumption DEF IInv
    <3> QED
      BY <2>0, <3>2, <3>3 DEF Clock
  <2>6. due = ToUtc(zone, Clock(rule, d), fold) /\ (fold => SecondPass(zone, now))
    BY <2>3 DEF IInv, IsNext
  <2> QED
    BY <2>2, <2>4, <2>5, <2>6, EarlierIsEarlier DEF IInv
<1> QED
  BY <1>1, Reachable, PTL

\* A row that is served rings again on a later date of its wall clock, however
\* late it is served; the exceptions are the second pass of a repeated hour and
\* a time that slipped past midnight (recurrence.py:44, 50, 60).
THEOREM RingsOncePerDay == Spec => OncePerDay
<1>1. IInv /\ [Next]_vars =>
        [\/ Date(due') > Date(due)
         \/ SecondPass(zone, now') \/ SlippedPastMidnight]_vars
  <2> SUFFICES ASSUME IInv, [Next]_vars, vars' # vars,
                      ~SecondPass(zone, now'), ~SlippedPastMidnight
               PROVE  Date(due') > Date(due)
    BY DEF vars
  <2>1. PICK delay \in Delays : Serve(delay)
    BY DEF Next, Rest
  <2>2. IInv' /\ zone' = zone /\ rule' = rule /\ delay \in Nat
    BY <2>1, NextIInv, RecurrenceAssumption DEF Serve
  <2>3. due \in Nat /\ due' \in Nat /\ now' \in Nat
    BY <2>2, NextIsLater DEF IInv, Later
  <2>4. PICK d \in Int, fold \in BOOLEAN : IsNext(zone, rule, now', d, fold)
    BY <2>2, NextIsNearest DEF IInv
  <2> DEFINE c == Clock(rule, d)
             w == Wall(zone, due)
             v == Wall(zone, due')
  <2>5. c \in Int /\ w \in Int /\ v \in Int /\ Day \in Nat \ {0} /\ rule.time \in Int
    BY <2>2, <2>3, ClockOfRule, WallIsClock, RecurrenceAssumption DEF IInv
  <2>6. ~fold /\ c > Wall(zone, now') /\ due' = ToUtc(zone, c, FALSE)
    BY <2>2, <2>4 DEF IsNext, IsNearest, IInv
  <2>7. w <= Wall(zone, now') /\ v >= c
    <3>1. zone.before \in Nat /\ zone.after \in Nat /\ zone.at \in Nat
      BY RecurrenceAssumption DEF IInv
    <3>2. now' = due + delay
      BY <2>1 DEF Serve
    <3>3. w <= Wall(zone, now')
      BY <2>2, <2>3, <3>1, <3>2 DEF Wall, SecondPass
    <3>4. v >= c
      BY <2>5, <2>6, <3>1 DEF Wall, ToUtc
    <3> QED
      BY <3>3, <3>4
  <2>8. c > w
    <3>1. Wall(zone, now') \in Int
      BY <2>2, <2>3, WallIsClock DEF IInv
    <3> QED
      BY <2>5, <2>6, <2>7, <3>1
  <2>9. /\ w % Day \in 0..Day - 1 /\ w \div Day \in Int
        /\ w = Day * (w \div Day) + (w % Day)
        /\ v % Day \in 0..Day - 1 /\ v \div Day \in Int
        /\ v = Day * (v \div Day) + (v % Day)
    BY <2>5, TimeOfDay
  <2>10. w % Day >= rule.time
    <3> DEFINE rest == w % Day
    <3>1. ~(rest < rule.time)
      BY DEF SlippedPastMidnight
    <3>2. rest \in Int
      BY <2>5, <2>9
    <3> HIDE DEF rest
    <3>3. rest >= rule.time
      BY <2>5, <3>1, <3>2
    <3> QED
      BY <3>3 DEF rest
  <2>11. Date(due) = w \div Day /\ Date(due') = v \div Day
    BY <2>2 DEF Date
  <2>12. d > w \div Day
    <3> DEFINE q == w \div Day
    <3> SUFFICES ASSUME ~(d > q) PROVE FALSE
      OBVIOUS
    <3>1. Day * d <= Day * q
      <4>1. d = q \/ d < q
        BY <2>9
      <4> HIDE DEF q
      <4>2. q \in Int
        BY <2>9 DEF q
      <4>3. Day * d \in Int /\ Day * q \in Int
        BY <2>5, <4>2
      <4>4. CASE d < q
        <5>1. Day * d + Day <= Day * q
          BY <2>5, <4>2, <4>4, LaterDay
        <5> QED
          BY <2>5, <4>3, <5>1
      <4> QED
        BY <4>1, <4>3, <4>4
    <3>2. Day * d \in Int /\ Day * q \in Int
      <4>1. q \in Int
        BY <2>9
      <4> HIDE DEF q
      <4> QED
        BY <2>5, <4>1
    <3> DEFINE x == Day * q
               y == Day * d
               rest == w % Day
    <3>3. w = x + rest /\ rest >= rule.time /\ c = y + rule.time /\ y <= x
          /\ x \in Int /\ y \in Int /\ rest \in Int
      BY <2>9, <2>10, <3>1, <3>2 DEF Clock
    <3> HIDE DEF x, y, rest, w, c
    <3> QED
      BY <2>5, <2>8, <3>3
  <2>13. v \div Day >= d
    <3> DEFINE q == v \div Day
    <3> SUFFICES ASSUME q < d PROVE FALSE
      BY <2>9
    <3>1. Day * q + Day <= Day * d
      <4>1. q \in Int
        BY <2>9
      <4> HIDE DEF q
      <4> QED
        BY <2>5, <4>1, LaterDay
    <3>2. Day * d \in Int /\ Day * q \in Int
      <4>1. q \in Int
        BY <2>9
      <4> HIDE DEF q
      <4> QED
        BY <2>5, <4>1
    <3>3. rule.time >= 0
      BY RecurrenceAssumption DEF IInv
    <3> DEFINE x == Day * q
               y == Day * d
               rest == v % Day
    <3>4. v = x + rest /\ rest <= Day - 1 /\ c = y + rule.time /\ x + Day <= y
          /\ x \in Int /\ y \in Int /\ rest \in Int
      BY <2>5, <2>9, <3>1, <3>2 DEF Clock
    <3> HIDE DEF x, y, rest, v, c
    <3> QED
      BY <2>5, <2>7, <3>3, <3>4
  <2> HIDE DEF w, v
  <2> QED
    BY <2>9, <2>11, <2>12, <2>13
<1> QED
  BY <1>1, Reachable, PTL DEF Spec, OncePerDay
\* Midnights m and m + Day enclose the moments u and v, and the change does not
\* lie on the wrong one: then so do the bounds of the day asked for at u.
LEMMA DayEncloses ==
    ASSUME NEW z \in Zones, NEW u \in Nat, NEW v \in Nat, u <= v, NEW m \in Int,
           m <= Wall(z, u), m <= Wall(z, v), Wall(z, v) < m + Day,
           ~(z.at + z.before < m /\ m < z.at + z.after),
           ~(z.at + z.after < m + Day /\ m + Day < z.at + z.before)
    PROVE  /\ ToUtc(z, m, SecondPass(z, u)) <= v
           /\ v < ToUtc(z, m + Day, FALSE)
<1>1. /\ z.before \in Nat /\ z.after \in Nat /\ z.at \in Nat /\ Day \in Nat \ {0}
      /\ SecondPass(z, u) \in BOOLEAN
  BY RecurrenceAssumption DEF SecondPass
<1>2. v < ToUtc(z, m + Day, FALSE)
  BY <1>1 DEF Wall, ToUtc
<1>3. CASE SecondPass(z, u)
  <2>1. u >= z.at /\ u + z.after - z.before < z.at
    BY <1>3 DEF SecondPass
  <2> QED
    BY <1>1, <1>2, <1>3, <2>1 DEF Wall, ToUtc
<1>4. CASE ~SecondPass(z, u)
  BY <1>1, <1>2, <1>4 DEF Wall, ToUtc
<1> QED
  BY <1>3, <1>4

\* Whenever today's list is asked for on the date of the next occurrence, the
\* occurrence lies within the bounds of that day (assistant_features.py:54-60,
\* service.py:115), on a day of 23 or 25 hours too.
THEOREM TodayIsComplete == Spec => []TodayShowsIt
<1>1. IInv => TodayShowsIt
  <2> SUFFICES ASSUME IInv, NEW u \in now..due, Date(u) = Date(due),
                      ~SkipsMidnight(Date(due)), ~RepeatsMidnight(Date(due) + 1)
               PROVE  DayStart(zone, u) <= due /\ due < DayEnd(zone, u)
    BY DEF TodayShowsIt
  <2>1. due \in Nat /\ u \in Nat /\ u <= due /\ zone \in Zones
    BY NextIsLater DEF IInv, Later
  <2> DEFINE w == Wall(zone, u)
             v == Wall(zone, due)
             e == Date(due)
             m == Day * e
  <2>2. w \in Int /\ v \in Int /\ Day \in Nat \ {0}
    BY <2>1, WallIsClock, RecurrenceAssumption
  <2>3. /\ w % Day \in 0..Day - 1 /\ w = Day * (w \div Day) + (w % Day)
        /\ v % Day \in 0..Day - 1 /\ v = Day * (v \div Day) + (v % Day)
        /\ v \div Day \in Int
    BY <2>2, TimeOfDay
  <2>4. w \div Day = e /\ v \div Day = e /\ e \in Int
    BY <2>3 DEF Date
  <2>5. w = m + (w % Day) /\ v = m + (v % Day)
    BY <2>3, <2>4
  <2>6. m \in Int /\ e * Day = m /\ (e + 1) * Day = m + Day
    <3> HIDE DEF e
    <3> QED
      BY <2>2, <2>4
  <2>7. AtTime(w, 0) = m
    <3> DEFINE rest == w % Day
    <3>1. AtTime(w, 0) = w - rest + 0 /\ w = m + rest /\ rest \in Int
      BY <2>3, <2>5 DEF AtTime
    <3> HIDE DEF rest, m, w
    <3> QED
      BY <2>2, <2>6, <3>1
  <2>8. m <= w /\ m <= v /\ v < m + Day
    <3> DEFINE rw == w % Day
               rv == v % Day
    <3>1. rw \in 0..Day - 1 /\ rv \in 0..Day - 1 /\ w = m + rw /\ v = m + rv
      BY <2>3, <2>5
    <3> HIDE DEF rw, rv, w, v, m
    <3> QED
      BY <2>2, <2>6, <3>1
  <2>9. /\ ~(zone.at + zone.before < m /\ m < zone.at + zone.after)
        /\ ~(zone.at + zone.after < m + Day /\ m + Day < zone.at + zone.before)
    BY <2>6 DEF SkipsMidnight, RepeatsMidnight
  <2>10. /\ ToUtc(zone, m, SecondPass(zone, u)) <= due
         /\ due < ToUtc(zone, m + Day, FALSE)
    <3> HIDE DEF m
    <3> QED
      BY <2>1, <2>6, <2>8, <2>9, DayEncloses
  <2> QED
    BY <2>7, <2>10 DEF DayStart, DayEnd
<1> QED
  BY <1>1, Reachable, PTL
=============================================================================
