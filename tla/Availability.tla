---------------------------- MODULE Availability ----------------------------
(***************************************************************************)
(* Opening hours (engine/availability.ts) and what the preflight analysis  *)
(* (engine/preflight.ts) computes from them.                               *)
(*                                                                         *)
(* A moment is a number of slots; a day has SlotsPerDay of them and a week *)
(* DaysPerWeek days.  Moments are those of the configured time zone: its   *)
(* offset is constant here.  A period closes on the next day when it does  *)
(* not close after it opens. The hours of an exception are Null where it   *)
(* does not name any.                                                      *)
(***************************************************************************)
EXTENDS Integers, FiniteSets

CONSTANTS Null, DaysPerWeek, SlotsPerDay

ASSUME CalendarAssumption == DaysPerWeek \in Nat \ {0} /\ SlotsPerDay \in Nat \ {0}

ASSUME NullIsNoMoment == Null \notin Int

Slots == 0..(SlotsPerDay - 1)

Weekdays == 0..(DaysPerWeek - 1)

Hours == [opensAt : Slots, closesAt : Slots]

Date(moment) == moment \div SlotsPerDay

Slot(moment) == moment % SlotsPerDay

DayOfWeek(date) == date % DaysPerWeek

Least(S) == CHOOSE x \in S : \A y \in S : x <= y

-----------------------------------------------------------------------------
(* What the validation of a configuration demands of opening hours.        *)

Overnight(period) == period.closesAt <= period.opensAt

Covers(period) ==
  IF Overnight(period)
  THEN {t \in Slots : t >= period.opensAt \/ t < period.closesAt}
       \union (IF period.opensAt = period.closesAt THEN Slots ELSE {})
  ELSE {t \in Slots : period.opensAt <= t /\ t < period.closesAt}

ValidHours(hours) ==
  \A p, q \in hours : p # q => Covers(p) \intersect Covers(q) = {}

ValidWeekly(weekly) ==
  \A day \in Weekdays :
    /\ ValidHours(weekly[day])
    /\ \A p \in weekly[day], q \in weekly[DayOfWeek(day + 1)] :
         Overnight(p) => q.opensAt >= p.closesAt

Exceptions == [closed : BOOLEAN, hours : {Null} \union SUBSET Hours]

ValidAvailability(av) ==
  \/ av = Null
  \/ /\ av.weekly \in [Weekdays -> SUBSET Hours] /\ ValidWeekly(av.weekly)
     /\ DOMAIN av.exceptions \subseteq Nat
     /\ \A date \in DOMAIN av.exceptions : av.exceptions[date] \in Exceptions
     /\ \A date \in DOMAIN av.exceptions :
          LET hours == av.exceptions[date].hours IN hours # Null => ValidHours(hours)

-----------------------------------------------------------------------------
(* evaluateSpotAvailability                                                *)

HasException(av, date) == date \in DOMAIN av.exceptions

ClosedOn(av, date) == HasException(av, date) /\ av.exceptions[date].closed

NamesHours(av, date) == HasException(av, date) /\ av.exceptions[date].hours # Null

HoursForDate(av, date) ==
  IF ClosedOn(av, date) THEN {}
  ELSE IF NamesHours(av, date) THEN av.exceptions[date].hours
  ELSE av.weekly[DayOfWeek(date)]

ContainsTime(hours, t) ==
  \E p \in hours : t >= p.opensAt /\ (Overnight(p) \/ t < p.closesAt)

(* A period of the day before reaches into this one, unless an exception   *)
(* names hours of its own for this day.                                    *)
OvernightOpen(av, date, t) ==
  /\ ~NamesHours(av, date)
  /\ \E p \in HoursForDate(av, date - 1) : Overnight(p) /\ t < p.closesAt

SpotOpen(av, now) ==
  IF av = Null THEN TRUE
  ELSE /\ ~ClosedOn(av, Date(now))
       /\ \/ ContainsTime(HoursForDate(av, Date(now)), Slot(now))
          \/ OvernightOpen(av, Date(now), Slot(now))

(* Mutant: the same weekday of the next week is not looked at.             *)
MutantWeekFrom(date) == date..(date + DaysPerWeek - 1)

(* The days findNextOpening looks at: a week from today on, and a week     *)
(* from every later exception on.                                          *)
WeekFrom(date) == date..(date + DaysPerWeek)

DatesToTry(av, today) ==
  WeekFrom(today)
  \union UNION {WeekFrom(date) : date \in {d \in DOMAIN av.exceptions : d >= today}}

OpeningsOn(av, date, now) ==
  {p.opensAt : p \in {q \in HoursForDate(av, date) :
                        ~(date = Date(now) /\ q.opensAt <= Slot(now))}}

(* The next opening announced for a closed spot, Null if there is none.    *)
NextOpening(av, now) ==
  LET dates == {d \in DatesToTry(av, Date(now)) : OpeningsOn(av, d, now) # {}}
  IN IF dates = {} THEN Null
     ELSE LET date == Least(dates)
          IN date * SlotsPerDay + Least(OpeningsOn(av, date, now))

(* evaluateRallyAvailability: period is [startsAt, endsAt], each may be Null. *)
RallyOpen(period, now) ==
  /\ period.startsAt # Null => now >= period.startsAt
  /\ period.endsAt # Null => now < period.endsAt

-----------------------------------------------------------------------------
(* hasOpeningDuring of the preflight analysis.                             *)

OpensAtMoment(date, p) == date * SlotsPerDay + p.opensAt

(* A period that runs into the next day is cut at midnight when there is   *)
(* any exception for that day.                                             *)
ClosesAtMoment(av, date, p) ==
  IF ~Overnight(p) THEN date * SlotsPerDay + p.closesAt
  ELSE IF HasException(av, date + 1) THEN (date + 1) * SlotsPerDay
  ELSE (date + 1) * SlotsPerDay + p.closesAt

(* Mutant: the day before the first one is not looked at.                  *)
MutantDaysDuring(start, end) == Date(start)..Date(end)

DaysDuring(start, end) == (Date(start) - 1)..Date(end)

(* TRUE as well where the code answers undefined: nothing is then ruled out. *)
MayOpenDuring(av, period) ==
  \/ av = Null
  \/ period.startsAt = Null \/ period.endsAt = Null
  \/ period.endsAt <= period.startsAt
  \/ \E date \in DaysDuring(period.startsAt, period.endsAt) :
       \E p \in HoursForDate(av, date) :
         /\ OpensAtMoment(date, p) < period.endsAt
         /\ ClosesAtMoment(av, date, p) > period.startsAt
=============================================================================
