----------------------------- MODULE Recurrence -----------------------------
(***************************************************************************)
(* The next occurrence of a recurring reminder (recurrence.py), on a local *)
(* clock that is set forward or back once, and the bounds of "today"       *)
(* (assistant_features.py).                                                *)
(*                                                                         *)
(* A local time is what Python's aware datetime holds: a wall clock and a  *)
(* fold bit that tells the second pass of a repeated hour from the first.  *)
(* Two local times are compared by their wall clocks alone; replace keeps  *)
(* the fold; adding a timedelta moves the wall clock and clears the fold.  *)
(***************************************************************************)
EXTENDS Integers

CONSTANTS
    Day,       \* length of a day on the wall clock, in ticks
    Zones,     \* offsets from UTC before and after the instant of a change;
               \* no clock is set forward by more than a day
    Rules,     \* recurrence_type, hour_local, recurrence_day_of_week
    Starts,    \* instants at which a reminder may be created
    Delays,    \* how long after its time a reminder is delivered or acknowledged
    MaxTime    \* bound: no occurrence is served after this

Kinds == {"daily", "weekday", "weekly"}

ASSUME RecurrenceAssumption ==
    /\ Day \in Nat \ {0}
    /\ Zones \subseteq [before : Nat, after : Nat, at : Nat]
    /\ \A z \in Zones : z.before <= z.at /\ z.after <= z.before + Day
    /\ Rules \subseteq [kind : Kinds, time : 0..Day - 1, weekday : 0..6]
    /\ Starts \subseteq Nat /\ Delays \subseteq Nat /\ MaxTime \in Nat

VARIABLES
    zone,   \* the reminder's time zone
    rule,   \* its recurrence
    now,    \* the instant the next occurrence was computed from, in UTC
    due     \* next_run_at_utc, None if there is none
vars == <<zone, rule, now, due>>

-----------------------------------------------------------------------------
(* Local time.                                                             *)

None == -1

\* astimezone of an instant: the wall clock, and whether it shows this hour
\* for the second time.
Wall(z, u) == IF u < z.at THEN u + z.before ELSE u + z.after
SecondPass(z, u) == u >= z.at /\ u + z.after - z.before < z.at

\* astimezone(UTC) of a wall clock and a fold.  A wall clock that the change
\* repeats or skips is read with the offset before it, or after it if fold.
ToUtc(z, w, fold) ==
    LET first == w - z.before
        second == w - z.after
    IN  IF first < z.at /\ second < z.at THEN first
        ELSE IF first >= z.at /\ second >= z.at THEN second
        ELSE IF fold THEN second ELSE first

AtTime(w, time) == w - (w % Day) + time
Weekday(w) == (w \div Day) % 7

-----------------------------------------------------------------------------
(* compute_next_occurrence_utc.                                            *)

\* Mutant: an occurrence at this very moment counts as the next.
NextDailyNotAfter(z, time, u) ==
    LET w == Wall(z, u)
        today == AtTime(w, time)
    IN  IF today >= w THEN ToUtc(z, today, SecondPass(z, u))
        ELSE ToUtc(z, today + Day, FALSE)

NextDaily(z, time, u) ==
    LET w == Wall(z, u)
        today == AtTime(w, time)
    IN  IF today > w THEN ToUtc(z, today, SecondPass(z, u))
        ELSE ToUtc(z, today + Day, FALSE)

\* Mutant: the week has six of them.
IsSixDayWorkday(d) == d < 6

IsWorkday(d) == d < 5

\* Mutant: only today and tomorrow.
AheadTwo == 0..1

\* The days looked at, counted from today.
Ahead == 0..7

NextWeekday(z, time, u) ==
    LET w == Wall(z, u)
        candidate(k) == AtTime(w + k * Day, time)
        found == {k \in Ahead : IsWorkday(Weekday(candidate(k)))
                                /\ candidate(k) > w}
    IN  IF found = {} THEN None
        ELSE LET k == CHOOSE i \in found : \A j \in found : i <= j
             IN  ToUtc(z, candidate(k), FALSE)

\* Mutant: never today.
NextWeeklyNotToday(z, time, weekday, u) ==
    LET w == Wall(z, u)
        days == (weekday - Weekday(w)) % 7
    IN  ToUtc(z, AtTime(w + (IF days = 0 THEN 7 ELSE days) * Day, time), FALSE)

NextWeekly(z, time, weekday, u) ==
    LET w == Wall(z, u)
        days == (weekday - Weekday(w)) % 7
        candidate == AtTime(w + days * Day, time)
    IN  ToUtc(z, IF candidate > w THEN candidate ELSE candidate + 7 * Day, FALSE)

NextOccurrence(z, r, u) ==
    CASE r.kind = "daily" -> NextDaily(z, r.time, u)
      [] r.kind = "weekday" -> NextWeekday(z, r.time, u)
      [] r.kind = "weekly" -> NextWeekly(z, r.time, r.weekday, u)

-----------------------------------------------------------------------------
(* local_day_bounds_utc: the day that list_today_reminders shows.          *)

DayStart(z, u) == ToUtc(z, AtTime(Wall(z, u), 0), SecondPass(z, u))
\* Mutant: a day is added to the instant and not to the wall clock.
DayEndInUtc(z, u) == DayStart(z, u) + Day
DayEnd(z, u) == ToUtc(z, AtTime(Wall(z, u), 0) + Day, FALSE)

-----------------------------------------------------------------------------
Init ==
    /\ zone \in Zones
    /\ rule \in Rules
    /\ now \in Starts
    /\ due = NextOccurrence(zone, rule, now)

\* The reminder is delivered, or a wake-up acknowledged, some time after it
\* was due; the next occurrence is computed from that moment.
Serve(delay) ==
    /\ due # None /\ due > now
    /\ due <= MaxTime
    /\ now' = due + delay
    /\ due' = NextOccurrence(zone, rule, now')
    /\ UNCHANGED <<zone, rule>>

\* Beyond the bound, or never: a job whose time has passed is dropped.
Rest == (due = None \/ due <= now \/ due > MaxTime) /\ UNCHANGED vars

Next == (\E delay \in Delays : Serve(delay)) \/ Rest

Spec == Init /\ [][Next]_vars

-----------------------------------------------------------------------------
(* What the occurrences of a rule are, said by date and not by search.     *)

Date(u) == Wall(zone, u) \div Day

RightDate(d) ==
    CASE rule.kind = "daily" -> TRUE
      [] rule.kind = "weekday" -> d % 7 < 5
      [] rule.kind = "weekly" -> d % 7 = rule.weekday

\* The instants at which date d has the rule's time of the day.
On(d) == {ToUtc(zone, d * Day + rule.time, fold) : fold \in BOOLEAN}
First(d) == ToUtc(zone, d * Day + rule.time, FALSE)

HasTheTime(d) == Wall(zone, First(d)) = d * Day + rule.time

\* The change lies on both sides of the midnight that begins date d.
SkipsMidnight(d) ==
    zone.at + zone.before < d * Day /\ d * Day < zone.at + zone.after
RepeatsMidnight(d) ==
    zone.at + zone.after < d * Day /\ d * Day < zone.at + zone.before

\* Dates around the interval from now to due.
Dates == Date(now) - 1..Date(now) + 9

-----------------------------------------------------------------------------
(* Properties.                                                             *)

\* There is a next occurrence: the search over eight days never fails
\* (recurrence.py:49-54).
TypeOK ==
    /\ zone \in Zones
    /\ rule \in Rules
    /\ now \in Nat
    /\ due \in Nat

\* The next occurrence is later than the moment it was computed from, which
\* every job relies on (scheduler.py:44).  The exception: in the second pass of
\* a repeated hour, adding days clears the fold (recurrence.py:45, 50, 60), and
\* an occurrence later in that hour is taken in its first pass, long gone.
StrictlyLater ==
    \/ due > now
    \/ SecondPass(zone, now) /\ due < zone.at

\* It has the rule's time of the day on one of the rule's days, or is what
\* Python makes of that time where the change skips it.
OnItsDay == \E d \in Dates : RightDate(d) /\ due \in On(d)

\* No day is passed over: between the moment and the next occurrence lies no
\* other occurrence (the search of recurrence.py:49 and the modulus of
\* recurrence.py:59 find the nearest).  A date on which the clock jumps over
\* the rule's time may be passed over, by a moment right after the jump.
NothingSkipped ==
    \A d \in Dates :
        RightDate(d) /\ HasTheTime(d) => ~(now < First(d) /\ First(d) < due)

\* The change skips the rule's time and the one it becomes is past midnight.
SlippedPastMidnight == Wall(zone, due) % Day < rule.time

\* A reminder that is served rings again on a later date than it did, unless it
\* is served in the second pass of a repeated hour or had slipped past midnight
\* to a date that has an occurrence of its own.
OncePerDay ==
    [][\/ Date(due') > Date(due)
       \/ SecondPass(zone, now') \/ SlippedPastMidnight]_vars

\* What is still due today is on today's list, whenever it is asked for
\* (service.py:115): the occurrence lies between the bounds of the local day,
\* also on a day of 23 or 25 hours.  The exception is a change that skips the
\* midnight before it, or repeats the one after it, with time on both sides.
TodayShowsIt ==
    \A u \in now..due :
        /\ Date(u) = Date(due)
        /\ ~SkipsMidnight(Date(due)) /\ ~RepeatsMidnight(Date(due) + 1)
        => DayStart(zone, u) <= due /\ due < DayEnd(zone, u)
=============================================================================
