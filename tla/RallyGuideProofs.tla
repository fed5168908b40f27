-------------------------- MODULE RallyGuideProofs --------------------------
(***************************************************************************)
(* Proofs about the guide, for every configuration, calendar and tree of  *)
(* conditions: opening times, the preflight analysis, the simulation, the *)
(* suggestions and the progress towards a reward against what happens.    *)
(***************************************************************************)
EXTENDS RallyGuide, SequenceLemmas

-----------------------------------------------------------------------------
(* Days and slots.                                                        *)

LEMMA DateIs ==
  ASSUME NEW t \in Int
  PROVE  /\ Date(t) \in Int /\ Slot(t) \in Slots
         /\ t = Date(t) * SlotsPerDay + Slot(t)
         /\ t \in Nat => Date(t) \in Nat
<1>1. SlotsPerDay \in Nat \ {0}
  BY CalendarAssumption
<1>2. Date(t) \in Int /\ Slot(t) \in Slots /\ t = Date(t) * SlotsPerDay + Slot(t)
  BY <1>1, DivisionIs DEF Date, Slot, Slots
<1>3. ASSUME t \in Nat PROVE Date(t) \in Nat
  <2>1. ASSUME Date(t) < 0 PROVE FALSE
    <3>1. Date(t) * SlotsPerDay + SlotsPerDay <= 0 * SlotsPerDay
      BY <1>1, <1>2, <2>1, NextMultiple
    <3>2. Date(t) * SlotsPerDay \in Int
      BY <1>1, <1>2, SMT
    <3> QED BY <1>1, <1>2, <1>3, <3>1, <3>2, SMT DEF Slots
  <2> QED BY <1>2, <2>1, SMT
<1> QED BY <1>2, <1>3

LEMMA MomentIs ==
  ASSUME NEW d \in Int, NEW o \in Slots
  PROVE  /\ d * SlotsPerDay + o \in Int
         /\ Date(d * SlotsPerDay + o) = d /\ Slot(d * SlotsPerDay + o) = o
<1>1. SlotsPerDay \in Nat \ {0} /\ o \in 0..(SlotsPerDay - 1)
  BY CalendarAssumption DEF Slots
<1>2. PICK t \in Int : t = d * SlotsPerDay + o
  BY <1>1, SMT
<1>3. Date(t) \in Int /\ Slot(t) \in Slots /\ t = Date(t) * SlotsPerDay + Slot(t)
  BY <1>2, DateIs
<1>4. Date(t) = d /\ Slot(t) = o
  <2>1. \A e \in Int, q \in 0..(SlotsPerDay - 1) :
          d * SlotsPerDay + o = e * SlotsPerDay + q => d = e /\ o = q
    BY <1>1, DivisionUnique
  <2> QED BY <1>2, <1>3, <2>1 DEF Slots
<1> QED BY <1>2, <1>4

LEMMA LaterDay ==
  ASSUME NEW d \in Int, NEW e \in Int, d < e
  PROVE  /\ d * SlotsPerDay \in Int /\ e * SlotsPerDay \in Int
         /\ d * SlotsPerDay + SlotsPerDay <= e * SlotsPerDay
<1>1. SlotsPerDay \in Nat \ {0}
  BY CalendarAssumption
<1> QED BY <1>1, NextMultiple, SMT

(* The day before starts a day's slots earlier.                           *)
LEMMA DayBefore ==
  ASSUME NEW d \in Int
  PROVE  /\ d * SlotsPerDay \in Int
         /\ (d - 1) * SlotsPerDay = d * SlotsPerDay - SlotsPerDay
         /\ (d + 1) * SlotsPerDay = d * SlotsPerDay + SlotsPerDay
<1>1. SlotsPerDay \in Nat \ {0}
  BY CalendarAssumption
<1> QED BY <1>1, SMT

LEMMA DateGrows ==
  ASSUME NEW t \in Int, NEW u \in Int, t <= u
  PROVE  Date(t) <= Date(u)
<1>1. /\ Date(t) \in Int /\ Slot(t) \in Slots /\ t = Date(t) * SlotsPerDay + Slot(t)
      /\ Date(u) \in Int /\ Slot(u) \in Slots /\ u = Date(u) * SlotsPerDay + Slot(u)
  BY DateIs
<1>2. SlotsPerDay \in Nat /\ Slots = 0..(SlotsPerDay - 1)
  BY CalendarAssumption DEF Slots
<1>3. ASSUME Date(u) < Date(t) PROVE FALSE
  <2>1. /\ Date(u) * SlotsPerDay \in Int /\ Date(t) * SlotsPerDay \in Int
        /\ Date(u) * SlotsPerDay + SlotsPerDay <= Date(t) * SlotsPerDay
    BY <1>1, <1>3, LaterDay
  <2> QED BY <1>1, <1>2, <2>1, SMT
<1> QED BY <1>1, <1>3, SMT

LEMMA HoursIs ==
  ASSUME NEW av, ValidAvailability(av), av # Null, NEW date \in Int
  PROVE  HoursForDate(av, date) \in SUBSET Hours
<1>1. DayOfWeek(date) \in Weekdays
  BY CalendarAssumption, DivisionIs DEF DayOfWeek, Weekdays
<1>2. av.weekly[DayOfWeek(date)] \in SUBSET Hours
  BY <1>1 DEF ValidAvailability
<1>3. HasException(av, date) => av.exceptions[date] \in Exceptions
  BY DEF ValidAvailability, HasException
<1>4. NamesHours(av, date) => av.exceptions[date].hours \in SUBSET Hours
  BY <1>3 DEF NamesHours, Exceptions
<1> QED BY <1>2, <1>4 DEF HoursForDate

LEMMA HourIs ==
  ASSUME NEW p \in Hours
  PROVE  /\ p.opensAt \in Slots /\ p.closesAt \in Slots
         /\ p.opensAt \in 0..(SlotsPerDay - 1) /\ p.closesAt \in 0..(SlotsPerDay - 1)
         /\ Overnight(p) <=> p.closesAt <= p.opensAt
  BY DEF Hours, Slots, Overnight

(* A spot is open at the moment one of its periods opens.                 *)
LEMMA OpenAtOpening ==
  ASSUME NEW av, ValidAvailability(av), av # Null, NEW d \in Int, NEW p \in HoursForDate(av, d)
  PROVE  SpotOpen(av, d * SlotsPerDay + p.opensAt)
<1>1. p \in Hours
  BY HoursIs
<1>2. PICK t \in Int : t = d * SlotsPerDay + p.opensAt /\ Date(t) = d /\ Slot(t) = p.opensAt
  BY <1>1, HourIs, MomentIs
<1>3. ~ClosedOn(av, d)
  BY DEF HoursForDate
<1>4. ContainsTime(HoursForDate(av, d), p.opensAt)
  <2>1. p.opensAt >= p.opensAt /\ (Overnight(p) \/ p.opensAt < p.closesAt)
    BY <1>1, HourIs, CalendarAssumption, SMT
  <2> QED BY <2>1, Zenon DEF ContainsTime
<1> QED BY <1>2, <1>3, <1>4 DEF SpotOpen

(* A spot that was closed a moment before opens with one of its periods.  *)
LEMMA OpensWithPeriod ==
  ASSUME NEW av, ValidAvailability(av), av # Null, NEW t \in Int,
         SpotOpen(av, t), ~SpotOpen(av, t - 1)
  PROVE  \E p \in HoursForDate(av, Date(t)) : p.opensAt = Slot(t)
<1> DEFINE d == Date(t)
           o == Slot(t)
<1>1. d \in Int /\ o \in 0..(SlotsPerDay - 1) /\ t = d * SlotsPerDay + o /\ o \in Slots
      /\ SlotsPerDay \in Nat \ {0} /\ d - 1 \in Int /\ t - 1 \in Int
  BY DateIs, CalendarAssumption DEF Slots
<1>2. ~ClosedOn(av, d) /\ (ContainsTime(HoursForDate(av, d), o) \/ OvernightOpen(av, d, o))
  BY DEF SpotOpen
<1> HIDE DEF d, o
<1>3. ASSUME o > 0 PROVE Date(t - 1) = d /\ Slot(t - 1) = o - 1
  <2>1. o - 1 \in Slots /\ t - 1 = d * SlotsPerDay + (o - 1)
    BY <1>1, <1>3, DayBefore, SMT DEF Slots
  <2>2. /\ Date(d * SlotsPerDay + (o - 1)) = d
        /\ Slot(d * SlotsPerDay + (o - 1)) = o - 1
    BY <1>1, <2>1, MomentIs
  <2> QED BY <2>1, <2>2
<1>4. ASSUME o = 0 PROVE Date(t - 1) = d - 1 /\ Slot(t - 1) = SlotsPerDay - 1
  <2>1. SlotsPerDay - 1 \in Slots
    BY <1>1, SMT DEF Slots
  <2>2. t - 1 = (d - 1) * SlotsPerDay + (SlotsPerDay - 1)
    BY <1>1, <1>4, DayBefore, SMT
  <2>3. d - 1 \in Int
    BY <1>1
  <2>4. /\ Date((d - 1) * SlotsPerDay + (SlotsPerDay - 1)) = d - 1
        /\ Slot((d - 1) * SlotsPerDay + (SlotsPerDay - 1)) = SlotsPerDay - 1
    BY <2>1, <2>3, MomentIs
  <2> QED BY <2>2, <2>4
<1>5. CASE ContainsTime(HoursForDate(av, d), o)
  <2>1. PICK p \in HoursForDate(av, d) : o >= p.opensAt /\ (Overnight(p) \/ o < p.closesAt)
    BY <1>5 DEF ContainsTime
  <2>2. p \in Hours
    BY <1>1, <2>1, HoursIs
  <2>3. p.opensAt \in 0..(SlotsPerDay - 1) /\ p.closesAt \in 0..(SlotsPerDay - 1)
    BY <2>2, HourIs
  <2>4. ASSUME o # p.opensAt PROVE FALSE
    <3>1. o > 0 /\ o - 1 >= p.opensAt /\ (Overnight(p) \/ o - 1 < p.closesAt)
      BY <1>1, <2>1, <2>3, <2>4, SMT
    <3>2. ContainsTime(HoursForDate(av, d), o - 1)
      BY <2>1, <3>1, Zenon DEF ContainsTime
    <3>3. SpotOpen(av, t - 1)
      BY <1>2, <1>3, <3>1, <3>2 DEF SpotOpen
    <3> QED BY <3>3
  <2> QED BY <2>1, <2>4 DEF d, o
<1>6. CASE OvernightOpen(av, d, o)
  <2>1. PICK p \in HoursForDate(av, d - 1) : Overnight(p) /\ o < p.closesAt
    BY <1>6 DEF OvernightOpen
  <2>2. p \in Hours
    BY <1>1, <2>1, HoursIs
  <2>3. p.opensAt \in 0..(SlotsPerDay - 1) /\ p.closesAt \in 0..(SlotsPerDay - 1)
    BY <2>2, HourIs
  <2>4. ASSUME o > 0 PROVE FALSE
    <3>1. o - 1 < p.closesAt
      BY <1>1, <2>1, <2>3, SMT
    <3>2. OvernightOpen(av, d, o - 1)
      BY <1>6, <2>1, <3>1, Zenon DEF OvernightOpen
    <3> QED BY <1>2, <1>3, <2>4, <3>2 DEF SpotOpen
  <2>5. ASSUME o = 0 PROVE FALSE
    <3>1. SlotsPerDay - 1 >= p.opensAt
      BY <1>1, <2>3, SMT
    <3>2. ContainsTime(HoursForDate(av, d - 1), SlotsPerDay - 1)
      BY <2>1, <3>1, Zenon DEF ContainsTime
    <3>3. ~ClosedOn(av, d - 1)
      BY <2>1 DEF HoursForDate
    <3> QED BY <1>4, <2>5, <3>2, <3>3 DEF SpotOpen
  <2> QED BY <1>1, <2>4, <2>5, SMT
<1> QED BY <1>2, <1>5, <1>6

LEMMA LeastIs ==
  ASSUME NEW T \in SUBSET Nat, T # {}
  PROVE  Least(T) \in T /\ \A y \in T : Least(T) <= y
<1>1. \E x \in T : \A y \in T : x <= y
  BY LeastNumber, Zenon
<1> QED BY <1>1, Zenon DEF Least

LEMMA DatesTriedAre ==
  ASSUME NEW av, ValidAvailability(av), av # Null, NEW t \in Nat
  PROVE  DatesToTry(av, Date(t)) \in SUBSET Nat /\ \A d \in DatesToTry(av, Date(t)) : d >= Date(t)
<1>1. Date(t) \in Nat /\ DaysPerWeek \in Nat
  BY DateIs, CalendarAssumption
<1>2. DOMAIN av.exceptions \subseteq Nat
  BY DEF ValidAvailability
<1> SUFFICES ASSUME NEW d \in DatesToTry(av, Date(t)) PROVE d \in Nat /\ d >= Date(t)
  BY <1>1, SMT
<1>3. PICK e \in {Date(t)} \union {d1 \in DOMAIN av.exceptions : d1 >= Date(t)} :
        d \in WeekFrom(e)
  BY Zenon DEF DatesToTry
<1>4. e \in Nat /\ e >= Date(t)
  BY <1>1, <1>2, <1>3
<1> QED BY <1>1, <1>3, <1>4, SMT DEF WeekFrom

LEMMA OpeningsAre ==
  ASSUME NEW av, ValidAvailability(av), av # Null, NEW d \in Int, NEW t \in Int
  PROVE  OpeningsOn(av, d, t) \in SUBSET Nat /\ OpeningsOn(av, d, t) \subseteq Slots
<1>1. HoursForDate(av, d) \in SUBSET Hours
  BY HoursIs
<1>2. \A p \in HoursForDate(av, d) : p.opensAt \in Slots
  BY <1>1, HourIs
<1>3. Slots \subseteq Nat
  BY CalendarAssumption DEF Slots
<1> QED BY <1>2, <1>3 DEF OpeningsOn

(* What may be announced: openings after now, on a day the search looks at. *)
LEMMA AnnouncedIs ==
  ASSUME NEW av, ValidAvailability(av), av # Null, NEW t \in Nat, NextOpening(av, t) # Null
  PROVE  \E d \in DatesToTry(av, Date(t)) : \E p \in HoursForDate(av, d) :
           NextOpening(av, t) = d * SlotsPerDay + p.opensAt
<1> DEFINE dates == {d \in DatesToTry(av, Date(t)) : OpeningsOn(av, d, t) # {}}
           date == Least(dates)
<1>1. dates # {} /\ NextOpening(av, t) = date * SlotsPerDay + Least(OpeningsOn(av, date, t))
  BY DEF NextOpening
<1>2. date \in dates
  <2>1. dates \in SUBSET Nat
    <3>1. DatesToTry(av, Date(t)) \in SUBSET Nat
      BY DatesTriedAre
    <3> QED BY <3>1
  <2> HIDE DEF dates
  <2> QED BY <1>1, <2>1, LeastIs
<1> HIDE DEF date
<1>3. OpeningsOn(av, date, t) # {} /\ date \in Int /\ date \in DatesToTry(av, Date(t))
  BY <1>2, DatesTriedAre
<1>4. Least(OpeningsOn(av, date, t)) \in OpeningsOn(av, date, t)
  BY <1>3, OpeningsAre, LeastIs
<1>5. PICK p \in HoursForDate(av, date) : p.opensAt = Least(OpeningsOn(av, date, t))
  BY <1>4 DEF OpeningsOn
<1> QED BY <1>1, <1>3, <1>5

(* The first moment that is open again is tried, and nothing before it is. *)
LEMMA FirstOpeningIsTried ==
  ASSUME NEW av, ValidAvailability(av), av # Null, NEW t \in Nat, NEW u \in Int, u > t,
         SpotOpen(av, u), ~SpotOpen(av, u - 1),
         \A v \in Int : t < v /\ v < u => ~SpotOpen(av, v)
  PROVE  Date(u) \in DatesToTry(av, Date(t)) /\ Slot(u) \in OpeningsOn(av, Date(u), t)
<1> DEFINE d == Date(u)
           today == Date(t)
<1>1. /\ d \in Int /\ Slot(u) \in Slots /\ u = d * SlotsPerDay + Slot(u)
      /\ today \in Nat /\ Slot(t) \in Slots /\ t = today * SlotsPerDay + Slot(t)
  BY DateIs
<1>2. SlotsPerDay \in Nat \ {0} /\ DaysPerWeek \in Nat \ {0} /\ Slots = 0..(SlotsPerDay - 1)
  BY CalendarAssumption DEF Slots
<1>3. PICK p \in HoursForDate(av, d) : p.opensAt = Slot(u)
  BY OpensWithPeriod
<1> HIDE DEF d, today
<1>4. d >= today
  <2>1. ASSUME d < today PROVE FALSE
    <3>1. d * SlotsPerDay \in Int /\ today * SlotsPerDay \in Int
          /\ d * SlotsPerDay + SlotsPerDay <= today * SlotsPerDay
      BY <1>1, <2>1, LaterDay, SMT
    <3> QED BY <1>1, <1>2, <3>1, SMT
  <2> QED BY <1>1, <2>1, SMT
<1>5. ~(d = today /\ p.opensAt <= Slot(t))
  <2>1. today * SlotsPerDay \in Int
    BY <1>1, <1>2, DayBefore, SMT
  <2> QED BY <1>1, <1>2, <1>3, <2>1, SMT
<1>6. Slot(u) \in OpeningsOn(av, d, t)
  BY <1>3, <1>5, Zenon DEF OpeningsOn, today
<1>7. ASSUME d \notin DatesToTry(av, today) PROVE FALSE
  <2>1. DOMAIN av.exceptions \subseteq Nat
    BY DEF ValidAvailability
  <2>2. ~(d \in WeekFrom(today))
    BY <1>7, Zenon DEF DatesToTry
  <2>3. \A e \in DOMAIN av.exceptions : e >= today => d \notin WeekFrom(e)
    BY <1>7, Zenon DEF DatesToTry
  <2>4. d - DaysPerWeek \in Int /\ d - DaysPerWeek > today /\ d - DaysPerWeek < d
    BY <1>1, <1>2, <1>4, <2>2, SMT DEF WeekFrom
  <2>5. ~HasException(av, d)
    <3>1. d \in WeekFrom(d)
      BY <1>1, <1>2, SMT DEF WeekFrom
    <3> QED BY <1>4, <2>3, <3>1 DEF HasException
  <2>6. ~HasException(av, d - DaysPerWeek)
    <3>1. d \in WeekFrom(d - DaysPerWeek) /\ d - DaysPerWeek >= today
      BY <1>1, <1>2, <2>4, SMT DEF WeekFrom
    <3> QED BY <2>3, <3>1 DEF HasException
  <2>7. DayOfWeek(d - DaysPerWeek) = DayOfWeek(d)
    BY <1>1, <1>2, RemainderRepeats DEF DayOfWeek
  <2>8. HoursForDate(av, d - DaysPerWeek) = HoursForDate(av, d)
    BY <2>5, <2>6, <2>7 DEF HoursForDate, ClosedOn, NamesHours
  <2>9. PICK v \in Int : v = (d - DaysPerWeek) * SlotsPerDay + p.opensAt
    BY <1>1, <1>3, <2>4, MomentIs
  <2>10. SpotOpen(av, v)
    BY <1>3, <2>4, <2>8, <2>9, OpenAtOpening
  <2>11. /\ (d - DaysPerWeek) * SlotsPerDay \in Int /\ d * SlotsPerDay \in Int
         /\ today * SlotsPerDay \in Int
         /\ (d - DaysPerWeek) * SlotsPerDay + SlotsPerDay <= d * SlotsPerDay
         /\ today * SlotsPerDay + SlotsPerDay <= (d - DaysPerWeek) * SlotsPerDay
    BY <1>1, <2>4, LaterDay
  <2>12. t < v /\ v < u
    BY <1>1, <1>2, <1>3, <2>9, <2>11, SMT
  <2> QED BY <2>10, <2>12
<1> QED BY <1>6, <1>7 DEF d, today

LEMMA NextOpeningIs ==
  ASSUME NEW av, ValidAvailability(av), av # Null, NEW t \in Nat, NEW u \in Int, u > t,
         SpotOpen(av, u), ~SpotOpen(av, u - 1),
         \A v \in Int : t < v /\ v < u => ~SpotOpen(av, v)
  PROVE  NextOpening(av, t) = u
<1> DEFINE dates == {d \in DatesToTry(av, Date(t)) : OpeningsOn(av, d, t) # {}}
           date == Least(dates)
           slot == Least(OpeningsOn(av, date, t))
<1>1. Date(u) \in DatesToTry(av, Date(t)) /\ Slot(u) \in OpeningsOn(av, Date(u), t)
  BY FirstOpeningIsTried
<1>2. /\ Date(u) \in Int /\ Slot(u) \in Slots /\ u = Date(u) * SlotsPerDay + Slot(u)
      /\ Date(t) \in Nat /\ Slot(t) \in Slots /\ t = Date(t) * SlotsPerDay + Slot(t)
  BY DateIs
<1>3. SlotsPerDay \in Nat \ {0} /\ Slots = 0..(SlotsPerDay - 1)
  BY CalendarAssumption DEF Slots
<1>4. Date(u) \in dates /\ dates \in SUBSET Nat
  BY <1>1, DatesTriedAre
<1>5. NextOpening(av, t) = date * SlotsPerDay + slot
  BY <1>4 DEF NextOpening
<1> HIDE DEF dates
<1>6. date \in dates /\ date \in Nat /\ date <= Date(u)
  BY <1>4, LeastIs
<1>7. date >= Date(t) /\ OpeningsOn(av, date, t) # {}
  BY <1>6, DatesTriedAre DEF dates
<1> HIDE DEF date
<1>8. /\ slot \in OpeningsOn(av, date, t) /\ slot \in Slots
      /\ date = Date(u) => slot <= Slot(u)
  <2>1. OpeningsOn(av, date, t) \in SUBSET Nat /\ OpeningsOn(av, date, t) \subseteq Slots
    BY <1>6, OpeningsAre
  <2>2. slot \in OpeningsOn(av, date, t) /\ \A o \in OpeningsOn(av, date, t) : slot <= o
    BY <1>7, <2>1, LeastIs
  <2> QED BY <1>1, <2>1, <2>2
<1> HIDE DEF slot
<1>9. PICK p \in HoursForDate(av, date) : p.opensAt = slot /\ ~(date = Date(t) /\ slot <= Slot(t))
  BY <1>8 DEF OpeningsOn
<1>10. PICK v \in Int : v = date * SlotsPerDay + slot
  BY <1>6, <1>8, MomentIs
<1>11. SpotOpen(av, v)
  BY <1>6, <1>9, <1>10, OpenAtOpening
<1>12. /\ date * SlotsPerDay \in Int /\ Date(u) * SlotsPerDay \in Int /\ Date(t) * SlotsPerDay \in Int
  BY <1>2, <1>6, DayBefore
<1>13. v <= u
  <2>1. CASE date = Date(u)
    BY <1>2, <1>3, <1>8, <1>10, <1>12, <2>1, SMT
  <2>2. CASE date < Date(u)
    <3>1. date * SlotsPerDay + SlotsPerDay <= Date(u) * SlotsPerDay
      BY <1>2, <1>6, <2>2, LaterDay
    <3> QED BY <1>2, <1>3, <1>8, <1>10, <1>12, <3>1, SMT
  <2> QED BY <1>2, <1>6, <2>1, <2>2, SMT
<1>14. date \in Int /\ Date(t) \in Int /\ Date(t) <= date /\ slot \in Int
  BY <1>2, <1>6, <1>7, <1>8, SMT DEF Slots
<1>15. t < v
  <2>1. CASE date = Date(t)
    <3>1. Slot(t) \in Int /\ Slot(t) < slot
      BY <1>2, <1>3, <1>9, <1>14, <2>1, SMT
    <3> QED BY <1>2, <1>3, <1>10, <1>12, <1>14, <2>1, <3>1, SMT
  <2>2. CASE Date(t) < date
    <3>1. Date(t) * SlotsPerDay + SlotsPerDay <= date * SlotsPerDay
      BY <1>2, <1>14, <2>2, LaterDay
    <3> QED BY <1>2, <1>3, <1>8, <1>10, <1>12, <1>14, <3>1, SMT
  <2> QED BY <1>14, <2>1, <2>2, SMT
<1> QED BY <1>5, <1>10, <1>11, <1>13, <1>15, SMT

LEMMA NeverOpenIsClosed ==
  ASSUME NEW av, ValidAvailability(av), NeverOpen(av), NEW t \in Int
  PROVE  ~SpotOpen(av, t)
<1>1. av # Null
  BY DEF NeverOpen
<1>2. \A d \in Int : HoursForDate(av, d) = {}
  <2> SUFFICES ASSUME NEW d \in Int PROVE HoursForDate(av, d) = {}
    OBVIOUS
  <2>1. av.weekly[DayOfWeek(d)] = {}
    <3>1. DayOfWeek(d) \in Weekdays
      BY CalendarAssumption, DivisionIs DEF DayOfWeek, Weekdays
    <3> QED BY <3>1 DEF NeverOpen
  <2>2. NamesHours(av, d) => ClosedOn(av, d) \/ av.exceptions[d].hours = {}
    <3>1. NamesHours(av, d) => d \in DOMAIN av.exceptions /\ av.exceptions[d].hours # Null
      BY DEF NamesHours, HasException
    <3>2. d \in DOMAIN av.exceptions => av.exceptions[d].closed \/ av.exceptions[d].hours \in {Null, {}}
      BY DEF NeverOpen
    <3> QED BY <3>1, <3>2 DEF ClosedOn, HasException
  <2> QED BY <2>1, <2>2 DEF HoursForDate
<1>3. Date(t) \in Int /\ Date(t) - 1 \in Int
  BY DateIs
<1>4. HoursForDate(av, Date(t)) = {} /\ HoursForDate(av, Date(t) - 1) = {}
  BY <1>2, <1>3
<1> QED BY <1>1, <1>4 DEF SpotOpen, ContainsTime, OvernightOpen

(* A spot that is open while the rally is, is found to open during it.    *)
LEMMA OpenIsForeseen ==
  ASSUME NEW av, ValidAvailability(av),
         NEW period \in [startsAt : Nat \union {Null}, endsAt : Nat \union {Null}],
         NEW t \in Nat, SpotOpen(av, t), RallyOpen(period, t),
         av # Null => \A date \in DOMAIN av.exceptions : ~IsEmpty(av.exceptions[date])
  PROVE  MayOpenDuring(av, period)
<1>1. SUFFICES ASSUME av # Null, period.startsAt # Null, period.endsAt # Null
               PROVE  \E date \in DaysDuring(period.startsAt, period.endsAt) :
                        \E p \in HoursForDate(av, date) :
                          /\ OpensAtMoment(date, p) < period.endsAt
                          /\ ClosesAtMoment(av, date, p) > period.startsAt
  BY DEF MayOpenDuring
<1> DEFINE d == Date(t)
           o == Slot(t)
           start == period.startsAt
           end == period.endsAt
<1>2. start \in Nat /\ end \in Nat /\ start <= t /\ t < end
  BY <1>1, SMT DEF RallyOpen
<1>3. /\ d \in Int /\ o \in 0..(SlotsPerDay - 1) /\ t = d * SlotsPerDay + o
      /\ SlotsPerDay \in Nat \ {0} /\ d - 1 \in Int /\ d * SlotsPerDay \in Int
      /\ (d - 1) * SlotsPerDay = d * SlotsPerDay - SlotsPerDay
      /\ (d + 1) * SlotsPerDay = d * SlotsPerDay + SlotsPerDay
  <2>1. /\ d \in Int /\ o \in 0..(SlotsPerDay - 1) /\ t = d * SlotsPerDay + o
        /\ SlotsPerDay \in Nat \ {0}
    BY DateIs, CalendarAssumption DEF Slots
  <2> HIDE DEF d, o
  <2>2. d \in Int /\ d - 1 \in Int
    BY <2>1
  <2> QED BY <2>1, <2>2, DayBefore
<1>4. d \in DaysDuring(start, end) /\ d - 1 \in DaysDuring(start, end)
  <2>1. Date(start) \in Int /\ Date(end) \in Int
    BY <1>2, DateIs
  <2>2. Date(start) <= d /\ d <= Date(end)
    BY <1>2, DateGrows
  <2> HIDE DEF d, start, end
  <2> QED BY <1>3, <2>1, <2>2, SMT DEF DaysDuring
<1>5. ~ClosedOn(av, d) /\ (ContainsTime(HoursForDate(av, d), o) \/ OvernightOpen(av, d, o))
  BY <1>1 DEF SpotOpen
<1> HIDE DEF d, o, start, end
<1>6. CASE ContainsTime(HoursForDate(av, d), o)
  <2>1. PICK p \in HoursForDate(av, d) : o >= p.opensAt /\ (Overnight(p) \/ o < p.closesAt)
    BY <1>6 DEF ContainsTime
  <2>2. p \in Hours
    BY <1>1, <1>3, <2>1, HoursIs
  <2>3. p.opensAt \in 0..(SlotsPerDay - 1) /\ p.closesAt \in 0..(SlotsPerDay - 1)
    BY <2>2, HourIs
  <2>4. OpensAtMoment(d, p) < end
    BY <1>2, <1>3, <2>1, <2>3, SMT DEF OpensAtMoment
  <2>5. ClosesAtMoment(av, d, p) > start
    <3>1. CASE Overnight(p)
      BY <1>2, <1>3, <2>3, <3>1, SMT DEF ClosesAtMoment
    <3>2. CASE ~Overnight(p)
      BY <1>2, <1>3, <2>1, <2>3, <3>2, SMT DEF ClosesAtMoment
    <3> QED BY <3>1, <3>2
  <2> QED BY <1>4, <2>1, <2>4, <2>5 DEF start, end
<1>7. CASE OvernightOpen(av, d, o)
  <2>1. PICK p \in HoursForDate(av, d - 1) : Overnight(p) /\ o < p.closesAt
    BY <1>7 DEF OvernightOpen
  <2>2. p \in Hours
    BY <1>1, <1>3, <2>1, HoursIs
  <2>3. p.opensAt \in 0..(SlotsPerDay - 1) /\ p.closesAt \in 0..(SlotsPerDay - 1)
    BY <2>2, HourIs
  <2>4. ~HasException(av, d)
    <3>1. HasException(av, d) => ~IsEmpty(av.exceptions[d])
      BY <1>1 DEF HasException
    <3> QED BY <1>5, <1>7, <3>1 DEF IsEmpty, ClosedOn, OvernightOpen, NamesHours
  <2>5. OpensAtMoment(d - 1, p) < end
    BY <1>2, <1>3, <2>3, SMT DEF OpensAtMoment
  <2>6. ClosesAtMoment(av, d - 1, p) > start
    <3>1. (d - 1) + 1 = d
      BY <1>3
    <3>2. ClosesAtMoment(av, d - 1, p) = d * SlotsPerDay + p.closesAt
      BY <2>1, <2>4, <3>1 DEF ClosesAtMoment
    <3> QED BY <1>2, <1>3, <2>1, <2>3, <3>2, SMT
  <2> QED BY <1>4, <2>1, <2>5, <2>6 DEF start, end
<1> QED BY <1>5, <1>6, <1>7

-----------------------------------------------------------------------------
(* The configuration in use.                                              *)

(* The types of the guide's variables.                                    *)
TypeOK ==
  /\ config \in Configs
  /\ records \in SUBSET config.spots
  /\ reward \in {"LOCKED", "AVAILABLE", "EXPIRED"}
  /\ now \in Nat

(* What the assumption on the configurations says of the one in use.      *)
LEMMA ConfigIs ==
  ASSUME TypeOK
  PROVE  /\ config.spots \subseteq Nat /\ IsFiniteSet(config.spots)
         /\ \A s \in config.spots : ValidAvailability(config.availability[s])
         /\ config.period \in [startsAt : Nat \union {Null}, endsAt : Nat \union {Null}]
         /\ config.reward.requiredStampCount \in Nat
         /\ IsTree(config.reward.tree, config.spots)
         /\ config.reward.conditions \subseteq DOMAIN config.reward.tree
         /\ config.reward.validUntil \in Nat \union {Null}
         /\ config.completion \in [type : {"all_spots", "stamp_count", "stamps"}, count : Nat,
                                    stampIds : SUBSET config.spots]
  BY ConfigAssumption DEF TypeOK

LEMMA OpeningAnnounced ==
  ASSUME TypeOK
  PROVE  AnnouncedOpeningIsNext
<1> SUFFICES ASSUME NEW s \in config.spots, ~SpotOpen(config.availability[s], now)
             PROVE  LET av == config.availability[s]
                        announced == NextOpening(av, now)
                        openAgain == {t \in (now + 1)..(now + 2 * DaysPerWeek * SlotsPerDay) :
                                        SpotOpen(av, t)}
                    IN /\ openAgain # {} => announced = Least(openAgain)
                       /\ announced # Null => SpotOpen(av, announced)
  BY Zenon DEF AnnouncedOpeningIsNext
<1> DEFINE av == config.availability[s]
           last == now + 2 * DaysPerWeek * SlotsPerDay
           openAgain == {t \in (now + 1)..last : SpotOpen(av, t)}
<1>1. now \in Nat /\ last \in Nat /\ ValidAvailability(av) /\ av # Null
  <2>1. 2 * DaysPerWeek * SlotsPerDay \in Nat
    BY CalendarAssumption, SMT
  <2> QED BY <2>1, ConfigIs DEF TypeOK, SpotOpen
<1> HIDE DEF last
<1>2. ASSUME openAgain # {} PROVE NextOpening(av, now) = Least(openAgain)
  <2>1. openAgain \in SUBSET Nat
    BY <1>1, SMT
  <2>2. PICK u \in openAgain : u = Least(openAgain) /\ \A y \in openAgain : u <= y
    <3> HIDE DEF openAgain
    <3> QED BY <1>2, <2>1, LeastIs
  <2>3. u \in Int /\ u > now /\ u <= last /\ SpotOpen(av, u)
    BY <1>1, <2>2, SMT
  <2>4. ASSUME NEW v \in Int, now < v, v < u PROVE ~SpotOpen(av, v)
    BY <1>1, <2>2, <2>3, <2>4, SMT
  <2>5. ~SpotOpen(av, u - 1)
    BY <1>1, <2>3, <2>4, SMT
  <2>6. NextOpening(av, now) = u
    <3> HIDE DEF av
    <3> QED BY <1>1, <2>3, <2>4, <2>5, NextOpeningIs
  <2> QED BY <2>2, <2>6
<1>3. ASSUME NextOpening(av, now) # Null PROVE SpotOpen(av, NextOpening(av, now))
  <2> HIDE DEF av
  <2>1. PICK d \in DatesToTry(av, Date(now)) : \E p \in HoursForDate(av, d) :
           NextOpening(av, now) = d * SlotsPerDay + p.opensAt
    BY <1>1, <1>3, AnnouncedIs
  <2>2. d \in Int
    BY <1>1, <2>1, DatesTriedAre
  <2> QED BY <1>1, <2>1, <2>2, OpenAtOpening
<1> QED BY <1>2, <1>3 DEF last

-----------------------------------------------------------------------------
(* The conditions of a reward.                                            *)

(* met[n] holds the first n conditions of the tree that the stamps meet, as *)
(* isConditionUnlocked finds them.                                        *)
Marks(tree, stamps, met) ==
  /\ met \in [0..Len(tree) -> SUBSET (1..Len(tree))] /\ met[0] = {}
  /\ \A n \in 1..Len(tree) :
       met[n] = IF ConditionMet(tree[n], met[n - 1], stamps) THEN met[n - 1] \union {n}
                ELSE met[n - 1]

LEMMA MetByIs ==
  ASSUME NEW tree, Len(tree) \in Nat, NEW stamps
  PROVE  \E met : Marks(tree, stamps, met) /\ MetBy(tree, stamps) = met[Len(tree)]
<1> DEFINE N == Len(tree)
           S == SUBSET (1..N)
           Mark(n, m) == IF ConditionMet(tree[n], m, stamps) THEN m \union {n} ELSE m
           step == [n \in 1..N |-> [m \in S |-> Mark(n, m)]]
           Eq(f) == f = [n \in 0..N |-> IF n = 0 THEN {} ELSE Mark(n, f[n - 1])]
           met == CHOOSE f : Eq(f)
<1>1. MetBy(tree, stamps) = met[N]
  BY DEF MetBy
<1> HIDE DEF N
<1>2. N \in Nat
  BY DEF N
<1>3. \A n \in 1..N : \A m \in S : Mark(n, m) \in S
  OBVIOUS
<1>4. step \in [1..N -> [S -> S]] /\ \A n \in 1..N : \A m \in S : step[n][m] = Mark(n, m)
  <2> HIDE DEF Mark, S
  <2> QED BY <1>3
<1>5. {} \in S
  OBVIOUS
<1>6. PICK g : Iterates(N, S, {}, step, g)
  <2> HIDE DEF S, step
  <2> QED BY <1>2, <1>4, <1>5, RecursionExists, Zenon
<1> HIDE DEF step
<1>7. /\ g \in [0..N -> S] /\ g[0] = {}
      /\ \A n \in 1..N : g[n] = Mark(n, g[n - 1])
  <2>1. g \in [0..N -> S] /\ g[0] = {} /\ \A n \in 1..N : g[n] = step[n][g[n - 1]]
    BY <1>6, Zenon DEF Iterates
  <2>2. \A n \in 1..N : n - 1 \in 0..N
    BY <1>2, SMT
  <2> HIDE DEF Mark, S
  <2> QED BY <1>4, <2>1, <2>2
<1>8. Eq(g)
  <2>1. ASSUME NEW n \in 0..N PROVE g[n] = IF n = 0 THEN {} ELSE Mark(n, g[n - 1])
    <3>1. n # 0 => n \in 1..N
      BY <1>2, SMT
    <3> HIDE DEF Mark
    <3> QED BY <1>7, <3>1
  <2> QED BY <1>7, <2>1
<1>9. Eq(met)
  <2> HIDE DEF Eq
  <2> QED BY <1>8, Zenon
<1> HIDE DEF met
<1>10. met[0] = {} /\ \A n \in 1..N : met[n] = Mark(n, met[n - 1])
  <2> HIDE DEF Mark
  <2>1. met = [n \in 0..N |-> IF n = 0 THEN {} ELSE Mark(n, met[n - 1])]
    BY <1>9
  <2>2. 0 \in 0..N /\ \A n \in 1..N : n \in 0..N /\ n # 0
    BY <1>2, SMT
  <2>3. \A n \in 0..N : met[n] = IF n = 0 THEN {} ELSE Mark(n, met[n - 1])
    BY <2>1, Zenon
  <2>4. met[0] = {}
    BY <2>2, <2>3, Zenon
  <2> QED BY <2>2, <2>3, <2>4, Zenon
<1>11. \A n \in 1..N : met[n - 1] \in S => met[n] \in S
  <2> HIDE DEF Mark, S
  <2> QED BY <1>3, <1>10
<1>12. \A n \in 0..N : met[n] \in S
  <2>1. met[0] \in S
    BY <1>10
  <2> HIDE DEF S, Mark
  <2> QED BY <1>2, <1>11, <2>1, StaysIn
<1>13. met \in [0..N -> S]
  <2>1. met = [n \in 0..N |-> met[n]]
    BY <1>9
  <2> HIDE DEF S
  <2> QED BY <1>12, <2>1
<1> QED
  <2>1. Marks(tree, stamps, met)
    BY <1>10, <1>13 DEF Marks, N
  <2> QED BY <1>1, <2>1 DEF N

(* More stamps meet every condition that fewer meet.                      *)
LEMMA ConditionGrows ==
  ASSUME NEW spots, IsFiniteSet(spots), NEW more \in SUBSET spots, NEW stamps \in SUBSET more,
         NEW condition \in Conditions(spots), NEW met, NEW met2, met \subseteq met2,
         ConditionMet(condition, met, stamps)
  PROVE  ConditionMet(condition, met2, more)
<1>1. IsFiniteSet(more) /\ Cardinality(stamps) <= Cardinality(more)
      /\ Cardinality(stamps) \in Nat /\ Cardinality(more) \in Nat
  BY FS_Subset, SubsetCardinality
<1>2. condition.type = "stamp_count" => condition.count \in Nat
  BY DEF Conditions
<1>3. condition.type \in {"stamp_count", "stamps", "all", "any"}
  BY DEF Conditions
<1>4. CASE condition.type = "stamp_count"
  BY <1>1, <1>2, <1>4, SMT DEF ConditionMet
<1>5. CASE condition.type = "stamps"
  BY <1>5 DEF ConditionMet
<1>6. CASE condition.type = "all"
  BY <1>6 DEF ConditionMet
<1>7. CASE condition.type = "any"
  BY <1>7 DEF ConditionMet
<1> QED BY <1>3, <1>4, <1>5, <1>6, <1>7

LEMMA MetGrows ==
  ASSUME NEW spots, IsFiniteSet(spots), NEW more \in SUBSET spots, NEW stamps \in SUBSET more,
         NEW tree, IsTree(tree, spots)
  PROVE  MetBy(tree, stamps) \subseteq MetBy(tree, more)
<1> DEFINE N == Len(tree)
<1>1. N \in Nat /\ \A n \in 1..N : tree[n] \in Conditions(spots)
  BY ElementOfSeq, LenProperties DEF IsTree
<1>2. PICK a : Marks(tree, stamps, a) /\ MetBy(tree, stamps) = a[N]
  BY <1>1, MetByIs
<1>3. PICK b : Marks(tree, more, b) /\ MetBy(tree, more) = b[N]
  BY <1>1, MetByIs
<1>4. /\ a[0] = {} /\ \A n \in 1..N : a[n] = IF ConditionMet(tree[n], a[n - 1], stamps)
                                            THEN a[n - 1] \union {n} ELSE a[n - 1]
  BY <1>2 DEF Marks
<1>5. /\ b[0] = {} /\ \A n \in 1..N : b[n] = IF ConditionMet(tree[n], b[n - 1], more)
                                            THEN b[n - 1] \union {n} ELSE b[n - 1]
  BY <1>3 DEF Marks
<1> HIDE DEF N
<1> DEFINE P == [n \in 0..N |-> a[n] \subseteq b[n]]
<1>6. 0 \in 0..N /\ N \in 0..N /\ \A n \in 1..N : n \in 0..N /\ n - 1 \in 0..N
  BY <1>1, SMT
<1>7. P[0]
  BY <1>4, <1>6
<1>8. ASSUME NEW n \in 1..N, P[n - 1] PROVE P[n]
  <2>1. a[n - 1] \subseteq b[n - 1]
    BY <1>6, <1>8
  <2>2. ConditionMet(tree[n], a[n - 1], stamps) => ConditionMet(tree[n], b[n - 1], more)
    BY <1>1, <2>1, ConditionGrows
  <2>3. a[n] \subseteq b[n]
    BY <1>4, <1>5, <2>1, <2>2, Zenon
  <2> QED BY <1>6, <2>3
<1>9. P \in [0..N -> BOOLEAN]
  OBVIOUS
<1> HIDE DEF P
<1>10. \A n \in 0..N : P[n]
  BY <1>1, <1>7, <1>8, <1>9, UpToInduction
<1>11. a[N] \subseteq b[N]
  BY <1>6, <1>10 DEF P
<1> QED BY <1>2, <1>3, <1>11 DEF N

LEMMA UnlocksGrows ==
  ASSUME TypeOK, NEW more \in SUBSET config.spots, NEW stamps \in SUBSET more,
         Unlocks(config.reward, stamps)
  PROVE  Unlocks(config.reward, more)
<1>1. IsFiniteSet(config.spots) /\ IsTree(config.reward.tree, config.spots)
      /\ config.reward.requiredStampCount \in Nat
  BY ConfigIs
<1>2. IsFiniteSet(more) /\ Cardinality(stamps) <= Cardinality(more)
      /\ Cardinality(stamps) \in Nat /\ Cardinality(more) \in Nat
  BY <1>1, FS_Subset, SubsetCardinality
<1>3. MetBy(config.reward.tree, stamps) \subseteq MetBy(config.reward.tree, more)
  BY <1>1, MetGrows
<1>4. Cardinality(more) >= config.reward.requiredStampCount
  BY <1>1, <1>2, SMT DEF Unlocks
<1> QED BY <1>3, <1>4 DEF Unlocks

-----------------------------------------------------------------------------
(* The spots the analysis finds reachable.                                *)

(* round[n] is what the analysis of the open spots finds reachable in its *)
(* n-th round.                                                            *)
Rounds(open, round) ==
  /\ round \in [0..Cardinality(config.spots) -> SUBSET open] /\ round[0] = {}
  /\ \A n \in 1..Cardinality(config.spots) :
       round[n] = {s \in open : Prerequisites(s) \subseteq round[n - 1]}

LEMMA RoundsAre ==
  ASSUME TypeOK, NEW open \in SUBSET config.spots
  PROVE  \E round : Rounds(open, round) /\ ReachableAmong(open) = round[Cardinality(config.spots)]
<1> DEFINE N == Cardinality(config.spots)
           S == SUBSET open
           Add(have) == {s \in open : Prerequisites(s) \subseteq have}
           step == [n \in 1..N |-> [have \in S |-> Add(have)]]
           Eq(f) == f = [n \in 0..N |-> IF n = 0 THEN {} ELSE Add(f[n - 1])]
           round == CHOOSE f : Eq(f)
<1>1. ReachableAmong(open) = round[N]
  BY DEF ReachableAmong
<1>2. N \in Nat
  BY ConfigIs, FS_CardinalityType
<1> HIDE DEF N
<1>3. \A have : Add(have) \in S
  OBVIOUS
<1>4. step \in [1..N -> [S -> S]] /\ \A n \in 1..N : \A have \in S : step[n][have] = Add(have)
  <2> HIDE DEF Add, S
  <2> QED BY <1>3
<1>5. {} \in S
  OBVIOUS
<1>6. PICK g : Iterates(N, S, {}, step, g)
  <2> HIDE DEF S, step
  <2> QED BY <1>2, <1>4, <1>5, RecursionExists, Zenon
<1> HIDE DEF step
<1>7. /\ g \in [0..N -> S] /\ g[0] = {}
      /\ \A n \in 1..N : g[n] = Add(g[n - 1])
  <2>1. g \in [0..N -> S] /\ g[0] = {} /\ \A n \in 1..N : g[n] = step[n][g[n - 1]]
    BY <1>6, Zenon DEF Iterates
  <2>2. \A n \in 1..N : n - 1 \in 0..N
    BY <1>2, SMT
  <2> HIDE DEF Add, S
  <2> QED BY <1>4, <2>1, <2>2
<1>8. Eq(g)
  <2>1. ASSUME NEW n \in 0..N PROVE g[n] = IF n = 0 THEN {} ELSE Add(g[n - 1])
    <3>1. n # 0 => n \in 1..N
      BY <1>2, SMT
    <3> HIDE DEF Add
    <3> QED BY <1>7, <3>1
  <2> QED BY <1>7, <2>1
<1>9. Eq(round)
  <2> HIDE DEF Eq
  <2> QED BY <1>8, Zenon
<1> HIDE DEF round
<1>10. round[0] = {} /\ \A n \in 1..N : round[n] = Add(round[n - 1])
  <2> HIDE DEF Add
  <2>1. round = [n \in 0..N |-> IF n = 0 THEN {} ELSE Add(round[n - 1])]
    BY <1>9
  <2>2. 0 \in 0..N /\ \A n \in 1..N : n \in 0..N /\ n # 0
    BY <1>2, SMT
  <2>3. \A n \in 0..N : round[n] = IF n = 0 THEN {} ELSE Add(round[n - 1])
    BY <2>1, Zenon
  <2>4. round[0] = {}
    BY <2>2, <2>3, Zenon
  <2> QED BY <2>2, <2>3, <2>4, Zenon
<1>11. \A n \in 0..N : round[n] \in S
  <2>1. round[0] \in S /\ \A n \in 1..N : round[n - 1] \in S => round[n] \in S
    BY <1>10
  <2> HIDE DEF S, Add
  <2> QED BY <1>2, <2>1, StaysIn
<1>12. round \in [0..N -> S]
  <2>1. round = [n \in 0..N |-> round[n]]
    BY <1>9
  <2> HIDE DEF S
  <2> QED BY <1>11, <2>1
<1> QED
  <2>1. Rounds(open, round)
    BY <1>10, <1>12 DEF Rounds, N
  <2> QED BY <1>1, <2>1 DEF N

LEMMA RoundsSettle ==
  ASSUME TypeOK, NEW open \in SUBSET config.spots, NEW round, Rounds(open, round)
  PROVE  round[Cardinality(config.spots)]
           = {s \in open : Prerequisites(s) \subseteq round[Cardinality(config.spots)]}
<1> DEFINE N == Cardinality(config.spots)
           Add(have) == {s \in open : Prerequisites(s) \subseteq have}
           chain == [n \in 0..(N + 1) |-> IF n = 0 THEN {} ELSE Add(round[n - 1])]
<1>1. N \in Nat /\ IsFiniteSet(config.spots)
  BY ConfigIs, FS_CardinalityType
<1>2. round[0] = {} /\ \A n \in 1..N : round[n] = Add(round[n - 1])
  BY DEF Rounds
<1> HIDE DEF Add
<1>3. \A have : Add(have) \in SUBSET config.spots
  BY DEF Add
<1>4. \A have, more : have \subseteq more => Add(have) \subseteq Add(more)
  BY DEF Add
<1>5. chain \in [0..(N + 1) -> SUBSET config.spots]
  BY <1>3
<1>6. \A n \in 0..N : chain[n] = round[n]
  <2> SUFFICES ASSUME NEW n \in 0..N PROVE chain[n] = round[n]
    OBVIOUS
  <2>1. n \in 0..(N + 1) /\ (n # 0 => n \in 1..N)
    BY <1>1, SMT
  <2> QED BY <1>2, <2>1
<1>7. \A n \in 1..(N + 1) : chain[n] = Add(chain[n - 1])
  <2> SUFFICES ASSUME NEW n \in 1..(N + 1) PROVE chain[n] = Add(chain[n - 1])
    OBVIOUS
  <2>1. n \in 0..(N + 1) /\ n # 0 /\ n - 1 \in 0..N
    BY <1>1, SMT
  <2> QED BY <1>6, <2>1
<1>8. chain[0] = {}
  BY <1>1, SMT
<1> HIDE DEF chain
<1>9. PICK M \in Nat : M = N + 1
  BY <1>1, SMT
<1>10. \A n \in 1..M : chain[n - 1] \subseteq chain[n]
  <2> DEFINE P == [n \in 0..M |-> n = 0 \/ chain[n - 1] \subseteq chain[n]]
  <2>1. 0 \in 0..M /\ \A n \in 1..M : n \in 0..M /\ n - 1 \in 0..M /\ n # 0
    BY <1>9, SMT
  <2>2. P[0]
    BY <2>1
  <2>3. ASSUME NEW n \in 1..M, P[n - 1] PROVE P[n]
    <3>1. CASE n = 1
      <4>1. chain[n - 1] = {}
        BY <1>8, <3>1, SMT
      <4> QED BY <2>1, <4>1
    <3>2. CASE n # 1
      <4>1. n - 1 \in 1..M /\ n - 1 # 0
        BY <1>9, <3>2, SMT
      <4>2. chain[(n - 1) - 1] \subseteq chain[n - 1]
        BY <2>1, <2>3, <4>1
      <4>3. chain[n] = Add(chain[n - 1]) /\ chain[n - 1] = Add(chain[(n - 1) - 1])
        BY <1>7, <1>9, <4>1
      <4>4. chain[n - 1] \subseteq chain[n]
        BY <1>4, <4>2, <4>3
      <4> QED BY <2>1, <4>4
    <3> QED BY <3>1, <3>2
  <2>4. P \in [0..M -> BOOLEAN]
    BY SMT
  <2> HIDE DEF P
  <2>5. \A n \in 0..M : P[n]
    BY <1>9, <2>2, <2>3, <2>4, UpToInduction
  <2> QED BY <2>1, <2>5 DEF P
<1>11. PICK k \in 1..M : chain[k - 1] = chain[k]
  BY <1>1, <1>5, <1>9, <1>10, ChainRepeats
<1>12. chain[M - 1] = chain[M]
  <2> DEFINE P == [n \in 0..M |-> n >= k => chain[n - 1] = chain[n]]
  <2>1. 0 \in 0..M /\ M \in 0..M /\ \A n \in 1..M : n \in 0..M /\ n - 1 \in 0..M
    BY <1>9, SMT
  <2>2. P[0]
    <3>1. ~(0 >= k)
      BY <1>9, <1>11, SMT
    <3> QED BY <2>1, <3>1
  <2>3. ASSUME NEW n \in 1..M, P[n - 1], n >= k PROVE chain[n - 1] = chain[n]
    <3>1. CASE n = k
      BY <1>11, <3>1
    <3>2. CASE n # k
      <4>1. n - 1 >= k /\ n - 1 \in 1..M
        BY <1>9, <1>11, <2>3, <3>2, SMT
      <4>2. chain[(n - 1) - 1] = chain[n - 1]
        BY <2>1, <2>3, <4>1
      <4> QED BY <1>7, <1>9, <4>1, <4>2
    <3> QED BY <3>1, <3>2
  <2>4. \A n \in 1..M : P[n - 1] => P[n]
    BY <2>1, <2>3
  <2>5. P \in [0..M -> BOOLEAN]
    <3>1. \A n \in 0..M : (n >= k => chain[n - 1] = chain[n]) \in BOOLEAN
      BY SMT
    <3> QED BY <3>1
  <2> HIDE DEF P
  <2>6. \A n \in 0..M : P[n]
    BY <1>9, <2>2, <2>4, <2>5, UpToInduction
  <2>7. P[M] /\ M >= k
    BY <1>9, <1>11, <2>1, <2>6, SMT
  <2> QED BY <2>1, <2>7 DEF P
<1>13. chain[N] = Add(chain[N])
  <2>1. M \in 1..(N + 1) /\ M - 1 = N
    BY <1>1, <1>9, SMT
  <2> QED BY <1>7, <1>12, <2>1
<1>14. N \in 0..N
  BY <1>1, SMT
<1> QED BY <1>6, <1>13, <1>14 DEF Add, N

(* The spots found reachable are those whose prerequisites are, and among *)
(* the sets of which this holds, the smallest.                            *)
LEMMA ReachableIs ==
  ASSUME TypeOK, NEW open \in SUBSET config.spots
  PROVE  /\ ReachableAmong(open) = {s \in open : Prerequisites(s) \subseteq ReachableAmong(open)}
         /\ \A closed : (\A s \in open : Prerequisites(s) \subseteq closed => s \in closed)
                          => ReachableAmong(open) \subseteq closed
<1> DEFINE N == Cardinality(config.spots)
<1>1. PICK round : Rounds(open, round) /\ ReachableAmong(open) = round[N]
  BY RoundsAre
<1>2. ReachableAmong(open) = {s \in open : Prerequisites(s) \subseteq ReachableAmong(open)}
  <2>1. round[N] = {s \in open : Prerequisites(s) \subseteq round[N]}
    BY <1>1, RoundsSettle
  <2> QED BY <1>1, <2>1
<1>3. ASSUME NEW closed, \A s \in open : Prerequisites(s) \subseteq closed => s \in closed
      PROVE  ReachableAmong(open) \subseteq closed
  <2>1. N \in Nat /\ N \in 0..N
    BY ConfigIs, FS_CardinalityType, SMT
  <2>2. round[0] = {} /\ \A n \in 1..N : round[n] = {s \in open : Prerequisites(s) \subseteq round[n - 1]}
    BY <1>1 DEF Rounds
  <2> HIDE DEF N
  <2>3. round[0] \in SUBSET closed
        /\ \A n \in 1..N : round[n - 1] \in SUBSET closed => round[n] \in SUBSET closed
    BY <1>3, <2>2
  <2>4. \A n \in 0..N : round[n] \in SUBSET closed
    BY <2>1, <2>3, StaysIn
  <2> QED BY <1>1, <2>1, <2>4
<1> QED BY <1>2, <1>3

LEMMA ReachableSpots ==
  ASSUME TypeOK
  PROVE  /\ Reachable \in SUBSET config.spots
         /\ Reachable = {s \in config.spots : Prerequisites(s) \subseteq Reachable}
         /\ \A closed : (\A s \in config.spots : Prerequisites(s) \subseteq closed => s \in closed)
                          => Reachable \subseteq closed
<1>1. /\ ReachableAmong(config.spots)
           = {s \in config.spots : Prerequisites(s) \subseteq ReachableAmong(config.spots)}
      /\ \A closed : (\A s \in config.spots : Prerequisites(s) \subseteq closed => s \in closed)
                       => ReachableAmong(config.spots) \subseteq closed
  BY ReachableIs
<1> QED BY <1>1, Zenon DEF Reachable

LEMMA ReachableThen ==
  ASSUME TypeOK
  PROVE  /\ ReachableDuringRally \in SUBSET config.spots
         /\ ReachableDuringRally
              = {s \in config.spots : /\ MayOpenDuring(config.availability[s], config.period)
                                      /\ Prerequisites(s) \subseteq ReachableDuringRally}
         /\ ReachableDuringRally \subseteq Reachable
<1> DEFINE open == {s \in config.spots : MayOpenDuring(config.availability[s], config.period)}
           R == ReachableDuringRally
<1>1. open \in SUBSET config.spots /\ R = ReachableAmong(open)
  BY DEF ReachableDuringRally
<1> HIDE DEF open, R
<1>2. /\ R = {s \in open : Prerequisites(s) \subseteq R}
      /\ \A closed : (\A s \in open : Prerequisites(s) \subseteq closed => s \in closed)
                       => R \subseteq closed
  BY <1>1, ReachableIs
<1>3. R \subseteq Reachable
  BY <1>1, <1>2, ReachableSpots
<1>4. R = {s \in config.spots : /\ MayOpenDuring(config.availability[s], config.period)
                                /\ Prerequisites(s) \subseteq R}
  BY <1>2 DEF open
<1> QED BY <1>3, <1>4 DEF R

-----------------------------------------------------------------------------
(* The inductive invariant.                                               *)

(* What is collected was foreseen.                                        *)
Foreseen ==
  /\ records \subseteq Reachable
  /\ NoEmptyException => records \subseteq ReachableDuringRally
  /\ \A s \in records : ~NeverOpen(config.availability[s])

(* A reward is available only while it is unlocked, and expired only when *)
(* the configuration let it expire while the rally runs.                  *)
RewardForeseen ==
  /\ reward = "AVAILABLE" => Unlocks(config.reward, records)
  /\ reward = "EXPIRED" =>
       /\ config.reward.validUntil # Null
       /\ config.period.endsAt # Null => config.reward.validUntil < config.period.endsAt
  /\ config.reward.validUntil = Null /\ records # {} =>
       reward = IF Unlocks(config.reward, records) THEN "AVAILABLE" ELSE "LOCKED"

(* What every step of the guide preserves.                                *)
GuideInv == TypeOK /\ Foreseen /\ RewardForeseen

LEMMA InitEstablishes ==
  ASSUME Init
  PROVE  GuideInv
<1>1. TypeOK
  BY DEF Init, TypeOK
<1> QED BY <1>1 DEF Init, GuideInv, Foreseen, RewardForeseen

LEMMA CheckInKeeps ==
  ASSUME GuideInv, NEW s \in config.spots, NEW proof, CheckIn(s, proof)
  PROVE  GuideInv'
<1>1. /\ TypeOK /\ Foreseen /\ RewardForeseen
      /\ Accepts(s, proof) /\ records' = records \union {s} /\ config' = config /\ now' = now
      /\ reward' = Reconciled(records \union {s})
  BY DEF GuideInv, CheckIn
<1>2. reward' \in {"LOCKED", "AVAILABLE", "EXPIRED"}
  BY <1>1 DEF TypeOK, Reconciled
<1>3. TypeOK'
  BY <1>1, <1>2 DEF TypeOK
<1>4. Foreseen'
  <2>1. Prerequisites(s) \subseteq Reachable
    BY <1>1 DEF Accepts, Foreseen
  <2>2. s \in Reachable
    BY <1>1, <2>1, ReachableSpots
  <2>3. NoEmptyException => s \in ReachableDuringRally
    <3>1. SUFFICES ASSUME NoEmptyException PROVE s \in ReachableDuringRally
      OBVIOUS
    <3>2. Prerequisites(s) \subseteq ReachableDuringRally
      BY <1>1, <3>1 DEF Accepts, Foreseen
    <3>3. /\ SpotOpen(config.availability[s], now) /\ RallyOpen(config.period, now) /\ now \in Nat
          /\ ValidAvailability(config.availability[s])
          /\ config.period \in [startsAt : Nat \union {Null}, endsAt : Nat \union {Null}]
      BY <1>1, ConfigIs DEF Accepts, TypeOK
    <3>4. config.availability[s] # Null =>
            \A date \in DOMAIN config.availability[s].exceptions :
              ~IsEmpty(config.availability[s].exceptions[date])
      BY <3>1 DEF NoEmptyException
    <3>5. MayOpenDuring(config.availability[s], config.period)
      BY <3>3, <3>4, OpenIsForeseen
    <3> QED BY <1>1, <3>2, <3>5, ReachableThen
  <2>4. ~NeverOpen(config.availability[s])
    <3>1. SpotOpen(config.availability[s], now) /\ now \in Int
          /\ ValidAvailability(config.availability[s])
      BY <1>1, ConfigIs DEF Accepts, TypeOK
    <3> QED BY <3>1, NeverOpenIsClosed
  <2>5. Reachable' = Reachable
    BY <1>1 DEF Reachable, ReachableAmong, Prerequisites
  <2>6. ReachableDuringRally' = ReachableDuringRally
    BY <1>1 DEF ReachableDuringRally, ReachableAmong, Prerequisites
  <2>7. NoEmptyException' = NoEmptyException
    BY <1>1 DEF NoEmptyException
  <2>8. records' \subseteq Reachable'
    BY <1>1, <2>2, <2>5 DEF Foreseen
  <2>9. NoEmptyException' => records' \subseteq ReachableDuringRally'
    BY <1>1, <2>3, <2>6, <2>7 DEF Foreseen
  <2>10. (\A t \in records : ~NeverOpen(config.availability[t]))'
    BY <1>1, <2>4 DEF Foreseen
  <2> QED BY <2>8, <2>9, <2>10 DEF Foreseen
<1>5. RewardForeseen'
  <2>1. (reward = "AVAILABLE" => Unlocks(config.reward, records))'
    BY <1>1 DEF Reconciled, TypeOK
  <2>2. (reward = "EXPIRED" =>
           /\ config.reward.validUntil # Null
           /\ config.period.endsAt # Null => config.reward.validUntil < config.period.endsAt)'
    <3>1. SUFFICES ASSUME reward' = "EXPIRED", reward # "EXPIRED"
                   PROVE  /\ config.reward.validUntil # Null
                          /\ config.period.endsAt # Null =>
                               config.reward.validUntil < config.period.endsAt
      BY <1>1 DEF RewardForeseen
    <3>2. config.reward.validUntil # Null /\ config.reward.validUntil <= now
      BY <1>1, <3>1 DEF Reconciled, TypeOK
    <3>3. config.period.endsAt # Null => now < config.period.endsAt
      BY <1>1 DEF Accepts, RallyOpen
    <3>4. /\ config.reward.validUntil \in Nat /\ now \in Nat
          /\ config.period.endsAt # Null => config.period.endsAt \in Nat
      BY <1>1, <3>2, ConfigIs DEF TypeOK
    <3> QED BY <3>2, <3>3, <3>4, SMT
  <2>3. (config.reward.validUntil = Null /\ records # {} =>
           reward = IF Unlocks(config.reward, records) THEN "AVAILABLE" ELSE "LOCKED")'
    <3>1. SUFFICES ASSUME config.reward.validUntil = Null
                   PROVE  reward' = IF Unlocks(config.reward, records')
                                    THEN "AVAILABLE" ELSE "LOCKED"
      BY <1>1
    <3>2. reward \notin {"CONSUMED", "EXPIRED"}
      BY <1>1, <3>1 DEF RewardForeseen, TypeOK
    <3> QED BY <1>1, <3>1, <3>2 DEF Reconciled
  <2> QED BY <2>1, <2>2, <2>3 DEF RewardForeseen
<1> QED BY <1>3, <1>4, <1>5 DEF GuideInv

LEMMA TickKeeps ==
  ASSUME GuideInv, Tick \/ UNCHANGED vars
  PROVE  GuideInv'
<1>1. /\ TypeOK /\ Foreseen /\ RewardForeseen
      /\ config' = config /\ records' = records /\ reward' = reward /\ now' \in Nat
  BY DEF GuideInv, Tick, vars, TypeOK
<1>2. TypeOK'
  BY <1>1 DEF TypeOK
<1>3. Reachable' = Reachable
  BY <1>1 DEF Reachable, ReachableAmong, Prerequisites
<1>4. ReachableDuringRally' = ReachableDuringRally
  BY <1>1 DEF ReachableDuringRally, ReachableAmong, Prerequisites
<1>5. NoEmptyException' = NoEmptyException
  BY <1>1 DEF NoEmptyException
<1>6. Foreseen'
  BY <1>1, <1>3, <1>4, <1>5 DEF Foreseen
<1>7. RewardForeseen'
  BY <1>1 DEF RewardForeseen
<1> QED BY <1>2, <1>6, <1>7 DEF GuideInv

(* What is collected stays within what analyzeRallyConfig finds reachable *)
(* and no spot it finds never open is among it; the reward is available   *)
(* exactly when its condition is met, until it expires: the invariant that *)
(* every check-in and every moment that passes preserve.                  *)
THEOREM GuideInvariant == Spec => []GuideInv
<1>1. Init => GuideInv
  BY InitEstablishes
<1>2. GuideInv /\ [Next]_vars => GuideInv'
  <2> SUFFICES ASSUME GuideInv, [Next]_vars PROVE GuideInv'
    OBVIOUS
  <2>1. ASSUME NEW s \in config.spots, NEW proof \in Proofs, CheckIn(s, proof) PROVE GuideInv'
    BY <2>1, CheckInKeeps
  <2>2. CASE Tick
    BY <2>2, TickKeeps
  <2>3. CASE UNCHANGED vars
    BY <2>3, TickKeeps
  <2> QED BY <2>1, <2>2, <2>3 DEF Next
<1> QED BY <1>1, <1>2, PTL DEF Spec

-----------------------------------------------------------------------------
(* Completion.                                                            *)

(* A participant who has completed collected what the analysis asks for.  *)
LEMMA CompletedIs ==
  ASSUME TypeOK, NEW spots \in SUBSET config.spots, records \subseteq spots, IsCompleted
  PROVE  CanComplete(spots)
<1> DEFINE stampIds == config.completion.stampIds
<1>1. /\ IsFiniteSet(config.spots) /\ records \in SUBSET config.spots
      /\ config.completion.type \in {"all_spots", "stamp_count", "stamps"}
      /\ config.completion.count \in Nat /\ stampIds \in SUBSET config.spots
  BY ConfigIs DEF TypeOK
<1>2. /\ IsFiniteSet(spots) /\ IsFiniteSet(records) /\ IsFiniteSet(stampIds)
      /\ Cardinality(records) \in Nat /\ Cardinality(spots) \in Nat
      /\ Cardinality(config.spots) \in Nat /\ Cardinality(stampIds) \in Nat
      /\ Cardinality(records) <= Cardinality(spots)
      /\ Cardinality(records) <= Cardinality(config.spots)
      /\ Cardinality(records) = Cardinality(config.spots) => records = config.spots
  BY <1>1, SubsetCardinality
<1>3. CASE config.completion.type = "all_spots"
  <2>1. Cardinality(config.spots) > 0 /\ Cardinality(records) >= Cardinality(config.spots)
    BY <1>1, <1>2, <1>3, SMT DEF IsCompleted, CompletionRequired, CompletionAcquired
  <2>2. records = config.spots
    BY <1>2, <2>1, SMT
  <2>3. config.spots # {}
    BY <2>1, FS_EmptySet, SMT
  <2> QED BY <1>3, <2>2, <2>3 DEF CanComplete
<1>4. CASE config.completion.type = "stamp_count"
  <2>1. config.completion.count > 0 /\ Cardinality(records) >= config.completion.count
    BY <1>1, <1>2, <1>4, SMT DEF IsCompleted, CompletionRequired, CompletionAcquired
  <2> QED BY <1>1, <1>2, <1>4, <2>1, SMT DEF CanComplete
<1>5. CASE config.completion.type = "stamps"
  <2>1. /\ Cardinality(stampIds) > 0
        /\ Cardinality(stampIds \intersect records) >= Cardinality(stampIds)
    BY <1>5 DEF IsCompleted, CompletionRequired, CompletionAcquired
  <2>2. /\ Cardinality(stampIds \intersect records) <= Cardinality(stampIds)
        /\ Cardinality(stampIds \intersect records) = Cardinality(stampIds)
             => stampIds \intersect records = stampIds
        /\ Cardinality(stampIds \intersect records) \in Nat
    <3>1. stampIds \intersect records \in SUBSET stampIds
      OBVIOUS
    <3> HIDE DEF stampIds
    <3> QED BY <1>2, <3>1, SubsetCardinality
  <2>3. stampIds \subseteq records
    <3>1. stampIds \intersect records = stampIds
      BY <1>2, <2>1, <2>2, SMT
    <3> QED BY <3>1
  <2>4. stampIds # {}
    BY <2>1, FS_EmptySet, SMT
  <2> QED BY <1>5, <2>3, <2>4 DEF CanComplete
<1> QED BY <1>1, <1>3, <1>4, <1>5

LEMMA CompleteIs ==
  ASSUME TypeOK, CanComplete(records)
  PROVE  IsCompleted
<1> DEFINE stampIds == config.completion.stampIds
<1>1. /\ IsFiniteSet(config.spots) /\ records \in SUBSET config.spots
      /\ config.completion.type \in {"all_spots", "stamp_count", "stamps"}
      /\ config.completion.count \in Nat /\ stampIds \in SUBSET config.spots
  BY ConfigIs DEF TypeOK
<1>2. /\ IsFiniteSet(records) /\ IsFiniteSet(stampIds)
      /\ Cardinality(records) \in Nat /\ Cardinality(stampIds) \in Nat
  BY <1>1, SubsetCardinality
<1>3. CASE config.completion.type = "all_spots"
  <2>1. config.spots # {} /\ records = config.spots
    BY <1>3 DEF CanComplete
  <2>2. Cardinality(records) # 0
    BY <1>2, <2>1, FS_EmptySet
  <2> QED
    BY <1>2, <1>3, <2>1, <2>2, SMT DEF IsCompleted, CompletionRequired, CompletionAcquired
<1>4. CASE config.completion.type = "stamp_count"
  BY <1>1, <1>2, <1>4, SMT DEF CanComplete, IsCompleted, CompletionRequired, CompletionAcquired
<1>5. CASE config.completion.type = "stamps"
  <2>1. stampIds # {} /\ stampIds \intersect records = stampIds
    BY <1>5 DEF CanComplete
  <2>2. Cardinality(stampIds) # 0
    BY <1>2, <2>1, FS_EmptySet
  <2>3. CompletionRequired = Cardinality(stampIds) /\ CompletionAcquired = Cardinality(stampIds)
    BY <1>5, <2>1 DEF CompletionRequired, CompletionAcquired
  <2> QED BY <1>2, <2>2, <2>3, SMT DEF IsCompleted
<1> QED BY <1>1, <1>3, <1>4, <1>5

-----------------------------------------------------------------------------
(* What is told against what happens.                                     *)

LEMMA SuggestionsAccepted ==
  ASSUME TypeOK
  PROVE  SuggestionsAreAccepted
<1>1. ASSUME NEW s \in config.spots,
             NEW condition \in config.conditions[s], NEW proof \in Proofs,
             ConditionMatches(condition, proof), s \in OpenSuggestions
      PROVE  Accepts(s, proof)
  BY <1>1, Zenon DEF OpenSuggestions, NextAvailableSpots, Accepts, SatisfiesConditions
<1>2. ASSUME NEW s \in config.spots, NEW proof \in Proofs, Accepts(s, proof)
      PROVE  s \in OpenSuggestions
  BY <1>2, Zenon DEF OpenSuggestions, NextAvailableSpots, Accepts
<1>3. ASSUME NEW s \in OpenSuggestions PROVE SpotStatus(s) = "UNCLAIMED"
  BY <1>3, Zenon DEF OpenSuggestions, NextAvailableSpots, SpotStatus
<1> QED BY <1>1, <1>2, <1>3, Zenon DEF SuggestionsAreAccepted

LEMMA PreflightForesees ==
  ASSUME GuideInv
  PROVE  ForeseenByPreflight
<1> DEFINE R == Reachable
           D == ReachableDuringRally
<1>1. SUFFICES ASSUME NoEmptyException
               PROVE  /\ records \intersect (Issues.availability_blocked_spots
                            \union Issues.unreachable_spots
                            \union Issues.missing_prerequisite \union Issues.spot_never_open) = {}
                      /\ IsCompleted =>
                           ~Issues.impossible_completion /\ ~Issues.completion_availability_conflict
                      /\ reward = "AVAILABLE" =>
                           ~Issues.impossible_reward /\ ~Issues.reward_availability_conflict
                      /\ reward = "EXPIRED" /\ config.period.endsAt # Null =>
                           Issues.reward_expires_before_rally
                      /\ Issues.unreachable_spots # {} =>
                           Issues.prerequisite_cycle \/ Issues.missing_prerequisite # {}
  BY DEF ForeseenByPreflight
<1>2. TypeOK /\ Foreseen /\ RewardForeseen
  BY DEF GuideInv
<1>3. /\ R \in SUBSET config.spots /\ R = {s \in config.spots : Prerequisites(s) \subseteq R}
      /\ D \in SUBSET config.spots /\ records \subseteq R /\ records \subseteq D
      /\ records \in SUBSET config.spots
  BY <1>1, <1>2, ReachableSpots, ReachableThen DEF Foreseen, TypeOK
<1> HIDE DEF R, D
<1>4. /\ Issues.availability_blocked_spots = IF PeriodIsBounded THEN R \ D ELSE {}
      /\ Issues.unreachable_spots = config.spots \ R
      /\ Issues.missing_prerequisite
           = {s \in config.spots : ~(Prerequisites(s) \subseteq config.spots)}
      /\ Issues.spot_never_open = {s \in config.spots : NeverOpen(config.availability[s])}
  BY DEF Issues, R, D
<1>5. /\ Issues.prerequisite_cycle = HasCycle
      /\ Issues.impossible_completion = ~CanComplete(R)
      /\ Issues.completion_availability_conflict
           = (PeriodIsBounded /\ CanComplete(R) /\ ~CanComplete(D))
      /\ Issues.impossible_reward = ~CanReach(R)
      /\ Issues.reward_availability_conflict = (PeriodIsBounded /\ CanReach(R) /\ ~CanReach(D))
      /\ Issues.reward_expires_before_rally
           = (/\ config.reward.validUntil # Null
              /\ config.period.endsAt # Null
              /\ config.reward.validUntil < config.period.endsAt)
  BY DEF Issues, R, D
<1>6. records \intersect (Issues.availability_blocked_spots \union Issues.unreachable_spots
        \union Issues.missing_prerequisite \union Issues.spot_never_open) = {}
  <2>1. \A s \in records : s \in R /\ s \in D /\ Prerequisites(s) \subseteq config.spots
                           /\ ~NeverOpen(config.availability[s])
    BY <1>2, <1>3 DEF Foreseen
  <2> QED BY <1>4, <2>1
<1>7. IsCompleted => ~Issues.impossible_completion /\ ~Issues.completion_availability_conflict
  <2>1. IsCompleted => CanComplete(R) /\ CanComplete(D)
    BY <1>2, <1>3, CompletedIs
  <2> QED BY <1>5, <2>1, Zenon
<1>8. reward = "AVAILABLE" => ~Issues.impossible_reward /\ ~Issues.reward_availability_conflict
  <2>1. reward = "AVAILABLE" => CanReach(R) /\ CanReach(D)
    BY <1>2, <1>3, UnlocksGrows DEF RewardForeseen, CanReach
  <2> QED BY <1>5, <2>1, Zenon
<1>9. reward = "EXPIRED" /\ config.period.endsAt # Null => Issues.reward_expires_before_rally
  BY <1>2, <1>5 DEF RewardForeseen
<1>10. ASSUME Issues.unreachable_spots # {}, Issues.missing_prerequisite = {}
       PROVE  Issues.prerequisite_cycle
  <2> DEFINE loop == config.spots \ R
  <2>1. loop \in (SUBSET config.spots) \ {{}}
    BY <1>4, <1>10
  <2>2. \A s \in loop : \E t \in loop : t \in Prerequisites(s)
    BY <1>3, <1>4, <1>10
  <2>3. HasCycle
    <3> HIDE DEF loop
    <3> QED BY <2>1, <2>2, Zenon DEF HasCycle
  <2> QED BY <1>5, <2>3
<1> QED BY <1>6, <1>7, <1>8, <1>9, <1>10

LEMMA SimulationEnds ==
  ASSUME GuideInv
  PROVE  SimulationReached
<1>1. SUFFICES ASSUME AlwaysOpen, Exhausted, records # {}
               PROVE  /\ records = Reachable
                      /\ reward = "AVAILABLE" <=> Unlocks(config.reward, Reachable)
                      /\ IsCompleted <=> CanComplete(Reachable)
  BY DEF SimulationReached
<1>2. TypeOK /\ Foreseen /\ RewardForeseen
  BY DEF GuideInv
<1>3. \A s \in config.spots : Prerequisites(s) \subseteq records => s \in records
  <2> SUFFICES ASSUME NEW s \in config.spots, Prerequisites(s) \subseteq records, s \notin records
               PROVE  FALSE
    OBVIOUS
  <2>1. PICK proof : proof \in Proofs
    BY SomethingToPresent
  <2>2. /\ RallyOpen(config.period, now) /\ SpotOpen(config.availability[s], now)
        /\ SatisfiesConditions(config.conditions[s], proof)
    BY <1>1 DEF AlwaysOpen, RallyOpen, SpotOpen, SatisfiesConditions
  <2> QED BY <1>1, <2>1, <2>2 DEF Exhausted, Accepts
<1>4. records = Reachable
  BY <1>2, <1>3, ReachableSpots DEF Foreseen
<1>5. reward = "AVAILABLE" <=> Unlocks(config.reward, Reachable)
  BY <1>1, <1>2, <1>4 DEF RewardForeseen, AlwaysOpen
<1>6. IsCompleted <=> CanComplete(Reachable)
  BY <1>2, <1>4, CompletedIs, CompleteIs DEF TypeOK
<1> QED BY <1>4, <1>5, <1>6

-----------------------------------------------------------------------------
(* Alternatives of a tree of conditions: its disjunctive normal form.     *)

(* An alternative: the stamps it names and how many it asks for.          *)
Items(spots) == [stampIds : SUBSET spots, count : Nat]

(* A set of stamps meets an alternative.                                  *)
Meets(item, stamps) == item.stampIds \subseteq stamps /\ item.count <= Cardinality(stamps)

(* A set of stamps meets one of the alternatives.                         *)
MeetsOne(items, stamps) == \E item \in items : Meets(item, stamps)

(* Finitely many numbers have a largest.                                  *)
LEMMA BoundExists ==
  ASSUME NEW N \in Nat, NEW parts \in SUBSET (1..N), NEW f, \A p \in parts : f[p] \in Nat
  PROVE  \E u \in Nat : \A p \in parts : f[p] <= u
<1> DEFINE P == [n \in 0..N |-> \E u \in Nat : \A p \in parts : p <= n => f[p] <= u]
<1>1. 0 \in 0..N /\ N \in 0..N /\ \A n \in 1..N : n \in 0..N /\ n - 1 \in 0..N
  BY SMT
<1>2. P[0]
  <2>1. \A p \in parts : ~(p <= 0)
    BY SMT
  <2>2. 0 \in Nat
    OBVIOUS
  <2> QED BY <1>1, <2>1, <2>2
<1>3. ASSUME NEW n \in 1..N, P[n - 1] PROVE P[n]
  <2>1. PICK u \in Nat : \A p \in parts : p <= n - 1 => f[p] <= u
    BY <1>1, <1>3
  <2>2. PICK v \in Nat : v >= u /\ (n \in parts => f[n] <= v)
    <3>1. CASE n \in parts /\ f[n] > u
      BY <3>1, SMT
    <3>2. CASE ~(n \in parts /\ f[n] > u)
      BY <2>1, <3>2, SMT
    <3> QED BY <3>1, <3>2
  <2>3. ASSUME NEW p \in parts, p <= n PROVE f[p] <= v
    <3>1. CASE p = n
      BY <2>2, <3>1
    <3>2. CASE p # n
      <4>1. p <= n - 1
        BY <2>3, <3>2, SMT
      <4>2. f[p] <= u /\ f[p] \in Nat
        BY <2>1, <4>1
      <4> QED BY <2>2, <4>2, SMT
    <3> QED BY <3>1, <3>2
  <2>4. \E w \in Nat : \A p \in parts : p <= n => f[p] <= w
    BY <2>3
  <2> QED BY <1>1, <2>4
<1>4. P \in [0..N -> BOOLEAN]
  BY Zenon
<1> HIDE DEF P
<1>5. \A n \in 0..N : P[n]
  BY <1>2, <1>3, <1>4, UpToInduction
<1>6. PICK u \in Nat : \A p \in parts : p <= N => f[p] <= u
  BY <1>1, <1>5 DEF P
<1>7. \A p \in parts : p <= N
  BY SMT
<1> QED BY <1>6, <1>7

LEMMA LargestIs ==
  ASSUME NEW T \in SUBSET Nat, T # {}, NEW u \in Nat, \A y \in T : y <= u
  PROVE  Max(T) \in T /\ \A y \in T : y <= Max(T)
<1> DEFINE Above == {v \in Nat : \A y \in T : y <= v}
<1>1. PICK v \in Above : \A w \in Above : v <= w
  <2>1. Above \in SUBSET Nat /\ Above # {}
    OBVIOUS
  <2> HIDE DEF Above
  <2> QED BY <2>1, LeastNumber, Zenon
<1>2. v \in T
  <2>1. SUFFICES ASSUME v \notin T PROVE FALSE
    OBVIOUS
  <2>2. v \in Nat /\ \A y \in T : y <= v /\ y # v
    BY <1>1, <2>1
  <2>3. v - 1 \in Above /\ ~(v <= v - 1)
    <3>1. PICK y \in T : TRUE
      OBVIOUS
    <3>2. v - 1 \in Nat
      BY <2>2, <3>1, SMT
    <3>3. \A z \in T : z <= v - 1
      BY <2>2, SMT
    <3> QED BY <2>2, <3>2, <3>3, SMT
  <2> HIDE DEF Above
  <2> QED BY <1>1, <2>3
<1>3. \A y \in T : v >= y
  BY <1>1, SMT
<1>4. \E x \in T : \A y \in T : x >= y
  BY <1>2, <1>3
<1>5. Max(T) \in T /\ \A y \in T : Max(T) >= y
  BY <1>4, Zenon DEF Max
<1> QED BY <1>5, SMT

(* Alternatives taken together are met when each of them is.              *)
LEMMA AllIs ==
  ASSUME NEW N \in Nat, NEW parts \in SUBSET (1..N), NEW spots,
         NEW choice \in [parts -> Items(spots)]
  PROVE  /\ All(choice) \in Items(spots)
         /\ \A stamps : Cardinality(stamps) \in Nat =>
              (Meets(All(choice), stamps) <=> \A p \in parts : Meets(choice[p], stamps))
<1> DEFINE counts == {choice[p].count : p \in parts}
           top == Max({0} \union counts)
           ids == UNION {choice[p].stampIds : p \in parts}
<1>1. \A p \in parts : choice[p].count \in Nat /\ choice[p].stampIds \in SUBSET spots
  BY DEF Items
<1>2. PICK u \in Nat : \A p \in parts : choice[p].count <= u
  <2> DEFINE f == [p \in parts |-> choice[p].count]
  <2>1. \A p \in parts : f[p] \in Nat /\ f[p] = choice[p].count
    BY <1>1
  <2> HIDE DEF f
  <2>2. \E u \in Nat : \A p \in parts : f[p] <= u
    BY <2>1, BoundExists
  <2> QED BY <2>1, <2>2
<1>3. top \in {0} \union counts /\ \A y \in {0} \union counts : y <= top
  <2>1. {0} \union counts \in SUBSET Nat /\ {0} \union counts # {}
    BY <1>1
  <2>2. \A y \in {0} \union counts : y <= u
    BY <1>2, SMT
  <2> HIDE DEF counts
  <2> QED BY <2>1, <2>2, LargestIs
<1>4. top \in Nat /\ \A p \in parts : choice[p].count <= top
  BY <1>1, <1>3
<1>5. All(choice) = [stampIds |-> ids, count |-> top]
  BY DEF All, Requirement
<1>6. All(choice) \in Items(spots)
  BY <1>1, <1>4, <1>5 DEF Items
<1>7. ASSUME NEW stamps, Cardinality(stamps) \in Nat
      PROVE  Meets(All(choice), stamps) <=> \A p \in parts : Meets(choice[p], stamps)
  <2>1. Meets(All(choice), stamps) <=> ids \subseteq stamps /\ top <= Cardinality(stamps)
    BY <1>5 DEF Meets
  <2>2. ids \subseteq stamps <=> \A p \in parts : choice[p].stampIds \subseteq stamps
    BY Zenon
  <2>3. top <= Cardinality(stamps) <=> \A p \in parts : choice[p].count <= Cardinality(stamps)
    <3>1. ASSUME top <= Cardinality(stamps), NEW p \in parts
          PROVE  choice[p].count <= Cardinality(stamps)
      BY <1>1, <1>4, <1>7, <3>1, SMT
    <3>2. ASSUME \A p \in parts : choice[p].count <= Cardinality(stamps)
          PROVE  top <= Cardinality(stamps)
      <4> HIDE DEF top
      <4>1. top = 0 \/ \E p \in parts : top = choice[p].count
        BY <1>3
      <4> QED BY <1>7, <3>2, <4>1, SMT
    <3> QED BY <3>1, <3>2
  <2> HIDE DEF ids, top
  <2> QED BY <2>1, <2>2, <2>3, Zenon DEF Meets
<1> QED BY <1>6, <1>7

LEMMA CombinedIs ==
  ASSUME NEW N \in Nat, NEW parts \in SUBSET (1..N), NEW spots,
         NEW found, \A p \in parts : found[p] \in SUBSET Items(spots)
  PROVE  /\ Combined(parts, found) \in SUBSET Items(spots)
         /\ \A stamps : Cardinality(stamps) \in Nat =>
              (MeetsOne(Combined(parts, found), stamps)
                 <=> \A p \in parts : MeetsOne(found[p], stamps))
<1> DEFINE pool == UNION {found[p] : p \in parts}
           choices == {c \in [parts -> pool] : \A p \in parts : c[p] \in found[p]}
<1>1. Combined(parts, found) = {All(choice) : choice \in choices}
  BY DEF Combined
<1>2. \A c \in choices : c \in [parts -> Items(spots)] /\ \A p \in parts : c[p] \in found[p]
  BY Zenon
<1>3. Combined(parts, found) \in SUBSET Items(spots)
  <2> SUFFICES ASSUME NEW c \in choices PROVE All(c) \in Items(spots)
    BY <1>1, Zenon
  <2> HIDE DEF choices
  <2> QED BY <1>2, AllIs
<1>4. ASSUME NEW stamps, Cardinality(stamps) \in Nat
      PROVE  MeetsOne(Combined(parts, found), stamps)
               <=> \A p \in parts : MeetsOne(found[p], stamps)
  <2>1. ASSUME NEW c \in choices, Meets(All(c), stamps), NEW p \in parts
        PROVE  MeetsOne(found[p], stamps)
    <3> HIDE DEF choices
    <3>1. \A q \in parts : Meets(c[q], stamps)
      BY <1>2, <1>4, <2>1, AllIs
    <3> QED BY <1>2, <2>1, <3>1 DEF MeetsOne
  <2>2. ASSUME \A p \in parts : MeetsOne(found[p], stamps)
        PROVE  \E c \in choices : Meets(All(c), stamps)
    <3> DEFINE c == [p \in parts |-> CHOOSE item \in found[p] : Meets(item, stamps)]
    <3>1. \A p \in parts : c[p] \in found[p] /\ Meets(c[p], stamps)
      BY <2>2 DEF MeetsOne
    <3>2. c \in choices
      <4>1. \A p \in parts : c[p] \in pool
        BY <3>1
      <4> HIDE DEF pool
      <4> QED BY <3>1, <4>1
    <3> HIDE DEF c, choices
    <3>3. Meets(All(c), stamps)
      BY <1>2, <1>4, <3>1, <3>2, AllIs
    <3> QED BY <3>2, <3>3
  <2> HIDE DEF choices
  <2> QED BY <1>1, <2>1, <2>2, Zenon DEF MeetsOne
<1> QED BY <1>3, <1>4

(* The alternatives found for the conditions up to each place.            *)
Finds(tree, spots, found) ==
  /\ found \in [0..Len(tree) -> [1..Len(tree) -> SUBSET Items(spots)]]
  /\ \A n \in 1..Len(tree) :
       found[n] = [found[n - 1] EXCEPT ![n] = RequirementsOf(tree[n], found[n - 1])]

LEMMA PartsAre ==
  ASSUME NEW spots, NEW tree, IsTree(tree, spots), NEW n \in 1..Len(tree)
  PROVE  /\ Len(tree) \in Nat /\ DOMAIN tree = 1..Len(tree) /\ tree[n] \in Conditions(spots)
         /\ tree[n].type \in {"all", "any"} => tree[n].conditions \in SUBSET (1..(n - 1))
  BY ElementOfSeq, LenProperties DEF IsTree

LEMMA RequirementsOfAre ==
  ASSUME NEW spots, NEW tree, IsTree(tree, spots), NEW n \in 1..Len(tree),
         NEW found \in [1..Len(tree) -> SUBSET Items(spots)]
  PROVE  RequirementsOf(tree[n], found) \in SUBSET Items(spots)
<1>1. /\ Len(tree) \in Nat /\ tree[n] \in Conditions(spots)
      /\ tree[n].type \in {"all", "any"} => tree[n].conditions \in SUBSET (1..Len(tree))
  BY PartsAre, SMT
<1>2. tree[n].type \in {"stamp_count", "stamps", "all", "any"}
  BY <1>1 DEF Conditions
<1>3. CASE tree[n].type = "stamp_count"
  <2>1. tree[n].count \in Nat
    BY <1>1, <1>3 DEF Conditions
  <2> QED BY <1>3, <2>1 DEF RequirementsOf, Requirement, Items
<1>4. CASE tree[n].type = "stamps"
  <2>1. tree[n].stampIds \in SUBSET spots
    BY <1>1, <1>4 DEF Conditions
  <2> QED BY <1>4, <2>1 DEF RequirementsOf, Requirement, Items
<1>5. CASE tree[n].type = "any"
  <2>1. \A p \in tree[n].conditions : found[p] \in SUBSET Items(spots)
    BY <1>1, <1>5
  <2> QED BY <1>5, <2>1 DEF RequirementsOf
<1>6. CASE tree[n].type = "all"
  <2>1. \A p \in tree[n].conditions : found[p] \in SUBSET Items(spots)
    BY <1>1, <1>6
  <2>2. Combined(tree[n].conditions, found) \in SUBSET Items(spots)
    <3>1. PICK parts \in SUBSET (1..Len(tree)) : parts = tree[n].conditions
      BY <1>1, <1>6
    <3> QED BY <1>1, <2>1, <3>1, CombinedIs
  <2> QED BY <1>6, <2>2 DEF RequirementsOf
<1> QED BY <1>2, <1>3, <1>4, <1>5, <1>6

LEMMA RequirementsAre ==
  ASSUME NEW spots, NEW tree, IsTree(tree, spots)
  PROVE  \E found : Finds(tree, spots, found) /\ Requirements(tree) = found[Len(tree)]
<1> DEFINE N == Len(tree)
           S == [1..N -> SUBSET Items(spots)]
           start == [p \in DOMAIN tree |-> {}]
           More(n, f) == [f EXCEPT ![n] = RequirementsOf(tree[n], f)]
           step == [n \in 1..N |-> [f \in S |-> More(n, f)]]
           Eq(f) == f = [n \in 0..N |-> IF n = 0 THEN start ELSE More(n, f[n - 1])]
           found == CHOOSE f : Eq(f)
<1>1. Requirements(tree) = found[N]
  BY DEF Requirements
<1>2. N \in Nat /\ DOMAIN tree = 1..N
  BY LenProperties DEF IsTree
<1>3. \A n \in 1..N : \A f \in S : More(n, f) \in S
  <2> SUFFICES ASSUME NEW n \in 1..N, NEW f \in S PROVE More(n, f) \in S
    OBVIOUS
  <2>1. RequirementsOf(tree[n], f) \in SUBSET Items(spots)
    BY RequirementsOfAre
  <2> QED BY <2>1
<1> HIDE DEF N
<1>4. step \in [1..N -> [S -> S]] /\ \A n \in 1..N : \A f \in S : step[n][f] = More(n, f)
  <2> HIDE DEF More, S
  <2> QED BY <1>3
<1>5. start \in S
  BY <1>2
<1> HIDE DEF start
<1>6. PICK g : Iterates(N, S, start, step, g)
  <2> HIDE DEF S, step
  <2> QED BY <1>2, <1>4, <1>5, RecursionExists, Zenon
<1> HIDE DEF step
<1>7. g \in [0..N -> S] /\ g[0] = start /\ \A n \in 1..N : g[n] = More(n, g[n - 1])
  <2>1. g \in [0..N -> S] /\ g[0] = start /\ \A n \in 1..N : g[n] = step[n][g[n - 1]]
    BY <1>6, Zenon DEF Iterates
  <2>2. \A n \in 1..N : n - 1 \in 0..N
    BY <1>2, SMT
  <2> HIDE DEF More, S
  <2> QED BY <1>4, <2>1, <2>2
<1>8. Eq(g)
  <2>1. ASSUME NEW n \in 0..N PROVE g[n] = IF n = 0 THEN start ELSE More(n, g[n - 1])
    <3>1. n # 0 => n \in 1..N
      BY <1>2, SMT
    <3> HIDE DEF More, S
    <3> QED BY <1>7, <3>1
  <2> HIDE DEF More, S
  <2> QED BY <1>7, <2>1
<1>9. Eq(found)
  <2> HIDE DEF Eq
  <2> QED BY <1>8, Zenon
<1> HIDE DEF found
<1>10. found[0] = start /\ \A n \in 1..N : found[n] = More(n, found[n - 1])
  <2> HIDE DEF More
  <2>1. found = [n \in 0..N |-> IF n = 0 THEN start ELSE More(n, found[n - 1])]
    BY <1>9
  <2>2. 0 \in 0..N /\ \A n \in 1..N : n \in 0..N /\ n # 0
    BY <1>2, SMT
  <2>3. \A n \in 0..N : found[n] = IF n = 0 THEN start ELSE More(n, found[n - 1])
    BY <2>1, Zenon
  <2>4. found[0] = start
    BY <2>2, <2>3, Zenon
  <2> QED BY <2>2, <2>3, <2>4, Zenon
<1>11. \A n \in 0..N : found[n] \in S
  <2> HIDE DEF S, More
  <2>1. found[0] \in S /\ \A n \in 1..N : found[n - 1] \in S => found[n] \in S
    BY <1>3, <1>5, <1>10
  <2> QED BY <1>2, <2>1, StaysIn
<1>12. found \in [0..N -> S]
  <2> HIDE DEF S, More
  <2>1. found = [n \in 0..N |-> found[n]]
    BY <1>9
  <2> QED BY <1>11, <2>1
<1> QED
  <2>1. Finds(tree, spots, found)
    BY <1>10, <1>12 DEF Finds, N
  <2> QED BY <1>1, <2>1 DEF N

(* A set of stamps meets a condition when it meets one of its alternatives, *)
(* all the way up the tree.                                               *)
LEMMA AlternativesFound ==
  ASSUME NEW spots, NEW tree, IsTree(tree, spots), NEW stamps, Cardinality(stamps) \in Nat,
         NEW p \in 1..Len(tree)
  PROVE  p \in MetBy(tree, stamps) <=> MeetsOne(Requirements(tree)[p], stamps)
<1> DEFINE N == Len(tree)
           Found(f, q) == MeetsOne(f[q], stamps)
<1>1. N \in Nat
  BY PartsAre
<1>2. PICK met : Marks(tree, stamps, met) /\ MetBy(tree, stamps) = met[N]
  BY <1>1, MetByIs
<1>3. PICK found : Finds(tree, spots, found) /\ Requirements(tree) = found[N]
  BY RequirementsAre
<1>4. /\ met[0] = {} /\ met \in [0..N -> SUBSET (1..N)]
      /\ \A n \in 1..N : met[n] = IF ConditionMet(tree[n], met[n - 1], stamps)
                                  THEN met[n - 1] \union {n} ELSE met[n - 1]
  BY <1>2 DEF Marks
<1>5. /\ found \in [0..N -> [1..N -> SUBSET Items(spots)]]
      /\ \A n \in 1..N :
           found[n] = [found[n - 1] EXCEPT ![n] = RequirementsOf(tree[n], found[n - 1])]
  BY <1>3 DEF Finds
<1>6. \A n \in 1..N : /\ tree[n] \in Conditions(spots)
                      /\ tree[n].type \in {"all", "any"} => tree[n].conditions \in SUBSET (1..(n - 1))
  BY PartsAre
<1> HIDE DEF N
<1>7. 0 \in 0..N /\ N \in 0..N /\ \A n \in 1..N : n \in 0..N /\ n - 1 \in 0..N
  BY <1>1, SMT
<1> DEFINE Agree(n) == met[n] \subseteq 1..n
                       /\ \A q \in 1..n : q \in met[n] <=> Found(found[n], q)
           P == [n \in 0..N |-> Agree(n)]
<1>8. P[0]
  <2>1. \A q \in 1..0 : FALSE
    BY SMT
  <2> QED BY <1>4, <1>7, <2>1
<1>9. ASSUME NEW n \in 1..N, P[n - 1] PROVE P[n]
  <2> DEFINE f == found[n - 1]
             m == met[n - 1]
  <2>1. m \subseteq 1..(n - 1) /\ \A q \in 1..(n - 1) : q \in m <=> Found(f, q)
    BY <1>7, <1>9
  <2>2. f \in [1..N -> SUBSET Items(spots)]
    BY <1>5, <1>7
  <2>3. /\ met[n] = IF ConditionMet(tree[n], m, stamps) THEN m \union {n} ELSE m
        /\ found[n] = [f EXCEPT ![n] = RequirementsOf(tree[n], f)]
    BY <1>4, <1>5
  <2> HIDE DEF f, m
  <2>4. \A q \in 1..(n - 1) : q # n /\ q \in 1..N /\ q \in 1..n
    BY <1>1, SMT
  <2>5. n \notin 1..(n - 1) /\ \A q \in 1..n : q = n \/ q \in 1..(n - 1)
    BY <1>1, SMT
  <2>6. /\ \A q \in 1..(n - 1) : found[n][q] = f[q]
        /\ found[n][n] = RequirementsOf(tree[n], f)
    BY <2>2, <2>3, <2>4
  <2>7. ConditionMet(tree[n], m, stamps)
          <=> MeetsOne(RequirementsOf(tree[n], f), stamps)
    <3> HIDE DEF Found
    <3>1. tree[n].type \in {"stamp_count", "stamps", "all", "any"}
      BY <1>6 DEF Conditions
    <3>2. CASE tree[n].type = "stamp_count"
      <4>1. tree[n].count \in Nat
        BY <1>6, <3>2 DEF Conditions
      <4>2. ConditionMet(tree[n], m, stamps) <=> Cardinality(stamps) >= tree[n].count
        BY <3>2 DEF ConditionMet
      <4>3. RequirementsOf(tree[n], f) = {[stampIds |-> {}, count |-> tree[n].count]}
        BY <3>2 DEF RequirementsOf, Requirement
      <4>4. Meets([stampIds |-> {}, count |-> tree[n].count], stamps)
              <=> tree[n].count <= Cardinality(stamps)
        BY DEF Meets
      <4>5. tree[n].count <= Cardinality(stamps) <=> Cardinality(stamps) >= tree[n].count
        BY <4>1, SMT
      <4> QED BY <4>2, <4>3, <4>4, <4>5, Zenon DEF MeetsOne
    <3>3. CASE tree[n].type = "stamps"
      <4>2. ConditionMet(tree[n], m, stamps) <=> tree[n].stampIds \subseteq stamps
        BY <3>3 DEF ConditionMet
      <4>3. RequirementsOf(tree[n], f) = {[stampIds |-> tree[n].stampIds, count |-> 0]}
        BY <3>3 DEF RequirementsOf, Requirement
      <4>4. Meets([stampIds |-> tree[n].stampIds, count |-> 0], stamps)
              <=> tree[n].stampIds \subseteq stamps
        BY DEF Meets
      <4> QED BY <4>2, <4>3, <4>4, Zenon DEF MeetsOne
    <3>4. CASE tree[n].type = "any"
      <4>1. tree[n].conditions \in SUBSET (1..(n - 1))
        BY <1>6, <3>4
      <4>2. ConditionMet(tree[n], m, stamps) <=> \E q \in tree[n].conditions : q \in m
        BY <3>4 DEF ConditionMet
      <4>3. RequirementsOf(tree[n], f) = UNION {f[q] : q \in tree[n].conditions}
        BY <3>4 DEF RequirementsOf
      <4>4. MeetsOne(RequirementsOf(tree[n], f), stamps)
              <=> \E q \in tree[n].conditions : Found(f, q)
        BY <4>3, Zenon DEF Found, MeetsOne
      <4> QED BY <2>1, <4>1, <4>2, <4>4, Zenon
    <3>5. CASE tree[n].type = "all"
      <4>1. tree[n].conditions \in SUBSET (1..(n - 1))
        BY <1>6, <3>5
      <4>2. ConditionMet(tree[n], m, stamps) <=> \A q \in tree[n].conditions : q \in m
        BY <3>5 DEF ConditionMet
      <4>3. RequirementsOf(tree[n], f) = Combined(tree[n].conditions, f)
        BY <3>5 DEF RequirementsOf
      <4>4. MeetsOne(Combined(tree[n].conditions, f), stamps)
              <=> \A q \in tree[n].conditions : Found(f, q)
        <5>1. PICK parts \in SUBSET (1..N) : parts = tree[n].conditions
          BY <2>4, <4>1
        <5>2. \A q \in parts : f[q] \in SUBSET Items(spots)
          BY <2>2, <5>1
        <5>3. MeetsOne(Combined(parts, f), stamps) <=> \A q \in parts : MeetsOne(f[q], stamps)
          BY <1>1, <5>1, <5>2, CombinedIs
        <5> QED BY <5>1, <5>3 DEF Found
      <4> QED BY <2>1, <4>1, <4>2, <4>3, <4>4, Zenon
    <3> QED BY <3>1, <3>2, <3>3, <3>4, <3>5
  <2>8. met[n] \subseteq 1..n
    <3>1. n \in 1..n
      BY SMT
    <3> QED BY <2>1, <2>3, <2>4, <3>1
  <2>9. ASSUME NEW q \in 1..n PROVE q \in met[n] <=> Found(found[n], q)
    <3>1. CASE q = n
      <4>1. n \in met[n] <=> ConditionMet(tree[n], m, stamps)
        BY <2>1, <2>3, <2>5
      <4> QED BY <2>6, <2>7, <3>1, <4>1
    <3>2. CASE q # n
      <4>1. q \in 1..(n - 1)
        BY <2>5, <3>2
      <4>2. q \in met[n] <=> q \in m
        BY <2>3, <3>2
      <4> QED BY <2>1, <2>6, <4>1, <4>2
    <3> QED BY <3>1, <3>2
  <2> QED BY <1>7, <2>8, <2>9
<1>10. P \in [0..N -> BOOLEAN]
  <2>1. \A n : Agree(n) \in BOOLEAN
    BY Zenon
  <2> HIDE DEF Agree
  <2> QED BY <2>1
<1> HIDE DEF P
<1>11. \A n \in 0..N : P[n]
  BY <1>1, <1>8, <1>9, <1>10, UpToInduction
<1>12. Agree(N)
  BY <1>7, <1>11 DEF P
<1> QED BY <1>2, <1>3, <1>12 DEF N

(* The reward is unlocked by the stamps that meet one of its alternatives. *)
LEMMA UnlocksIs ==
  ASSUME TypeOK
  PROVE  /\ Alternatives(config.reward) \in SUBSET Items(config.spots)
         /\ \A stamps : Cardinality(stamps) \in Nat =>
              (Unlocks(config.reward, stamps)
                 <=> /\ Cardinality(stamps) >= config.reward.requiredStampCount
                     /\ MeetsOne(Alternatives(config.reward), stamps))
<1> DEFINE tree == config.reward.tree
           found == Requirements(tree)
<1>1. /\ IsTree(tree, config.spots) /\ Len(tree) \in Nat
      /\ config.reward.conditions \in SUBSET (1..Len(tree))
  BY ConfigIs, LenProperties DEF IsTree
<1> HIDE DEF tree
<1>2. PICK parts \in SUBSET (1..Len(tree)) : parts = config.reward.conditions
  BY <1>1
<1>3. found \in [1..Len(tree) -> SUBSET Items(config.spots)]
  <2>1. PICK f : Finds(tree, config.spots, f) /\ Requirements(tree) = f[Len(tree)]
    BY <1>1, RequirementsAre
  <2>2. Len(tree) \in 0..Len(tree)
    BY <1>1, SMT
  <2> QED BY <2>1, <2>2 DEF Finds
<1>4. \A p \in parts : found[p] \in SUBSET Items(config.spots)
  BY <1>2, <1>3
<1>5. Alternatives(config.reward) = Combined(parts, found)
  BY <1>2 DEF Alternatives, tree
<1> HIDE DEF found
<1>6. /\ Combined(parts, found) \in SUBSET Items(config.spots)
      /\ \A stamps : Cardinality(stamps) \in Nat =>
           (MeetsOne(Combined(parts, found), stamps) <=> \A p \in parts : MeetsOne(found[p], stamps))
  BY <1>1, <1>2, <1>4, CombinedIs
<1>7. ASSUME NEW stamps, Cardinality(stamps) \in Nat
      PROVE  parts \subseteq MetBy(tree, stamps) <=> \A p \in parts : MeetsOne(found[p], stamps)
  <2>1. \A p \in 1..Len(tree) : p \in MetBy(tree, stamps) <=> MeetsOne(found[p], stamps)
    BY <1>1, <1>7, AlternativesFound DEF found
  <2> QED BY <1>2, <2>1
<1>8. ASSUME NEW stamps, Cardinality(stamps) \in Nat
      PROVE  Unlocks(config.reward, stamps)
               <=> /\ Cardinality(stamps) >= config.reward.requiredStampCount
                   /\ MeetsOne(Alternatives(config.reward), stamps)
  BY <1>2, <1>5, <1>6, <1>7, <1>8 DEF Unlocks, tree
<1> QED BY <1>5, <1>6, <1>8

(* The first n of a set are n, when it has that many.                     *)
LEMMA FirstOfIs ==
  ASSUME NEW S \in SUBSET Nat, IsFiniteSet(S), NEW n \in 0..Cardinality(S)
  PROVE  Cardinality(FirstOf(n, S)) = n
<1> DEFINE N == Cardinality(S)
           Before(s) == {t \in S : t < s}
           P == [k \in 0..N |-> Cardinality(FirstOf(k, S)) = k]
<1>1. N \in Nat
  BY FS_CardinalityType
<1>2. \A s : IsFiniteSet(Before(s)) /\ Cardinality(Before(s)) \in Nat
  <2> SUFFICES ASSUME NEW s PROVE IsFiniteSet(Before(s)) /\ Cardinality(Before(s)) \in Nat
    OBVIOUS
  <2>1. Before(s) \in SUBSET S
    OBVIOUS
  <2> QED BY <2>1, SubsetCardinality
<1>3. \A k : FirstOf(k, S) = {s \in S : Cardinality(Before(s)) < k}
  BY DEF FirstOf
<1>4. \A k : IsFiniteSet(FirstOf(k, S)) /\ FirstOf(k, S) \subseteq S
  <2> SUFFICES ASSUME NEW k PROVE IsFiniteSet(FirstOf(k, S)) /\ FirstOf(k, S) \subseteq S
    OBVIOUS
  <2>1. FirstOf(k, S) \in SUBSET S
    BY <1>3
  <2> QED BY <2>1, SubsetCardinality
<1>5. ASSUME NEW s \in S, NEW t \in S, s < t
      PROVE  Cardinality(Before(s)) < Cardinality(Before(t))
  <2>1. Before(s) \in SUBSET Before(t)
    <3>1. \A u \in S : u < s => u < t
      BY <1>5, SMT
    <3> QED BY <3>1
  <2>2. s \in Before(t) /\ s \notin Before(s)
    BY <1>5, SMT
  <2>3. /\ Cardinality(Before(s)) <= Cardinality(Before(t))
        /\ Cardinality(Before(s)) = Cardinality(Before(t)) => Before(s) = Before(t)
    <3>1. IsFiniteSet(Before(t))
      BY <1>2
    <3> HIDE DEF Before
    <3> QED BY <2>1, <3>1, SubsetCardinality
  <2> HIDE DEF Before
  <2> QED BY <1>2, <2>2, <2>3, SMT
<1> HIDE DEF N
<1>6. 0 \in 0..N /\ \A k \in 1..N : k \in 0..N /\ k - 1 \in 0..N
  BY <1>1, SMT
<1>7. P[0]
  <2>1. FirstOf(0, S) = {}
    <3>1. \A s \in S : ~(Cardinality(Before(s)) < 0)
      <4> HIDE DEF Before
      <4> QED BY <1>2, SMT
    <3> QED BY <1>3, <3>1
  <2> QED BY <1>6, <2>1, FS_EmptySet
<1>8. ASSUME NEW k \in 1..N, P[k - 1] PROVE P[k]
  <2> DEFINE F == FirstOf(k - 1, S)
  <2>1. Cardinality(F) = k - 1
    BY <1>6, <1>8
  <2>2. S \ F # {}
    <3>1. ASSUME S \ F = {} PROVE FALSE
      <4>1. F = S
        BY <1>4, <3>1
      <4> QED BY <1>1, <2>1, <4>1, SMT DEF N
    <3> QED BY <3>1
  <2>3. PICK x \in S \ F : \A y \in S \ F : x <= y
    <3>1. S \ F \in SUBSET Nat
      OBVIOUS
    <3> HIDE DEF F
    <3> QED BY <2>2, <3>1, LeastNumber, Zenon
  <2>4. Before(x) = F
    <3>1. \A t \in Before(x) : t \in F
      BY <2>3, SMT
    <3>2. ASSUME NEW t \in F PROVE t \in Before(x)
      <4>1. /\ t \in S /\ Cardinality(Before(t)) < k - 1 /\ ~(Cardinality(Before(x)) < k - 1)
        BY <1>3, <2>3, <3>2
      <4>2. ASSUME ~(t < x) PROVE FALSE
        <5>1. x < t \/ x = t
          BY <2>3, <4>1, <4>2, SMT
        <5>2. CASE x = t
          BY <4>1, <5>2
        <5>3. CASE x < t
          <6>1. Cardinality(Before(x)) < Cardinality(Before(t))
            BY <1>5, <2>3, <4>1, <5>3
          <6> HIDE DEF Before
          <6> QED BY <1>1, <1>2, <4>1, <6>1, SMT
        <5> QED BY <5>1, <5>2, <5>3
      <4> QED BY <4>1, <4>2
    <3> QED BY <3>1, <3>2
  <2>5. FirstOf(k, S) = F \union {x}
    <3>1. x \in FirstOf(k, S)
      <4>1. Cardinality(Before(x)) < k
        BY <1>1, <2>1, <2>4, SMT
      <4> QED BY <1>3, <2>3, <4>1
    <3>2. F \subseteq FirstOf(k, S)
      <4> SUFFICES ASSUME NEW t \in F PROVE t \in FirstOf(k, S)
        OBVIOUS
      <4>1. t \in S /\ Cardinality(Before(t)) < k - 1
        BY <1>3
      <4>2. Cardinality(Before(t)) < k
        <5> HIDE DEF Before
        <5> QED BY <1>1, <1>2, <4>1, SMT
      <4> QED BY <1>3, <4>1, <4>2
    <3>3. ASSUME NEW t \in FirstOf(k, S), t \notin F PROVE t = x
      <4>1. t \in S /\ Cardinality(Before(t)) < k /\ ~(Cardinality(Before(t)) < k - 1)
        BY <1>3, <3>3
      <4>2. Cardinality(Before(t)) = Cardinality(Before(x))
        <5>1. Cardinality(Before(x)) = k - 1
          BY <2>1, <2>4
        <5> HIDE DEF Before
        <5> QED BY <1>1, <1>2, <4>1, <5>1, SMT
      <4>3. ~(t < x) /\ ~(x < t)
        <5>1. t < x => Cardinality(Before(t)) < Cardinality(Before(x))
          BY <1>5, <2>3, <4>1
        <5>2. x < t => Cardinality(Before(x)) < Cardinality(Before(t))
          BY <1>5, <2>3, <4>1
        <5> HIDE DEF Before
        <5> QED BY <1>2, <4>2, <5>1, <5>2, SMT
      <4> QED BY <2>3, <4>1, <4>3, SMT
    <3> QED BY <3>1, <3>2, <3>3
  <2>6. Cardinality(F \union {x}) = Cardinality(F) + 1
    <3>1. IsFiniteSet(F) /\ x \notin F
      BY <1>4, <2>3
    <3> HIDE DEF F
    <3> QED BY <3>1, FS_AddElement
  <2>7. Cardinality(FirstOf(k, S)) = k
    <3> HIDE DEF F
    <3> QED BY <1>1, <2>1, <2>5, <2>6, SMT
  <2> QED BY <1>6, <2>7
<1>9. P \in [0..N -> BOOLEAN]
  OBVIOUS
<1> HIDE DEF P
<1>10. \A k \in 0..N : P[k]
  BY <1>1, <1>7, <1>8, <1>9, UpToInduction
<1> QED BY <1>10 DEF P, N

LEMMA LargerIs ==
  ASSUME NEW a \in Int, NEW b \in Int
  PROVE  /\ Larger(a, b) \in Int /\ Larger(a, b) >= a /\ Larger(a, b) >= b
         /\ Larger(a, b) = a \/ Larger(a, b) = b
  BY DEF Larger

(* A set split in two by another one.                                     *)
LEMMA SplitIs ==
  ASSUME NEW S, IsFiniteSet(S), NEW T
  PROVE  /\ IsFiniteSet(S \ T) /\ IsFiniteSet(S \intersect T)
         /\ Cardinality(S) \in Nat /\ Cardinality(S \ T) \in Nat
         /\ Cardinality(S \intersect T) \in Nat
         /\ Cardinality(S) = Cardinality(S \intersect T) + Cardinality(S \ T)
<1>1. S \ T \in SUBSET S /\ S \intersect T \in SUBSET S
  OBVIOUS
<1>2. /\ IsFiniteSet(S \ T) /\ IsFiniteSet(S \intersect T)
      /\ Cardinality(S) \in Nat /\ Cardinality(S \ T) \in Nat
      /\ Cardinality(S \intersect T) \in Nat
  BY <1>1, SubsetCardinality
<1>3. Cardinality(S \ T) = Cardinality(S) - Cardinality(S \intersect T)
  BY FS_Difference
<1> QED BY <1>2, <1>3, SMT

(* What the proof needs of the numbers of stamps: the stamps of the       *)
(* alternative shown, and those of any set that is not collected yet.     *)
LEMMA ExtraUnlocks ==
  ASSUME TypeOK, NEW extra \in SUBSET (config.spots \ records)
  PROVE  /\ Cardinality(extra) \in Nat /\ Cardinality(records) \in Nat
         /\ Unlocks(config.reward, records \union extra)
              <=> \E item \in Alternatives(config.reward) :
                    /\ item.stampIds \ records \subseteq extra
                    /\ Larger(config.reward.requiredStampCount, item.count) - Cardinality(records)
                         <= Cardinality(extra)
<1> DEFINE A == records
           req == config.reward.requiredStampCount
           all == A \union extra
<1>1. /\ IsFiniteSet(A) /\ IsFiniteSet(extra) /\ Cardinality(A) \in Nat /\ Cardinality(extra) \in Nat
      /\ req \in Nat
  <2>1. A \in SUBSET config.spots /\ extra \in SUBSET config.spots
    BY DEF TypeOK
  <2> QED BY <2>1, ConfigIs, SubsetCardinality
<1>2. Cardinality(all) = Cardinality(A) + Cardinality(extra)
  <2>1. A \intersect extra = {}
    OBVIOUS
  <2>2. Cardinality(all) = Cardinality(A) + Cardinality(extra) - Cardinality(A \intersect extra)
    BY <1>1, FS_Union
  <2>3. Cardinality(A \intersect extra) = 0
    BY <2>1, FS_EmptySet
  <2> HIDE DEF all, A
  <2> QED BY <1>1, <2>2, <2>3, SMT
<1>3. Alternatives(config.reward) \in SUBSET Items(config.spots)
  BY UnlocksIs
<1>4. Unlocks(config.reward, all)
        <=> Cardinality(all) >= req /\ MeetsOne(Alternatives(config.reward), all)
  <2>1. Cardinality(all) \in Nat
    <3> HIDE DEF all, A
    <3> QED BY <1>1, <1>2, SMT
  <2> HIDE DEF all
  <2> QED BY <2>1, UnlocksIs
<1>5. ASSUME NEW item \in Alternatives(config.reward)
      PROVE  Cardinality(all) >= req /\ Meets(item, all)
               <=> /\ item.stampIds \ A \subseteq extra
                   /\ Larger(req, item.count) - Cardinality(A) <= Cardinality(extra)
  <2>1. item.count \in Nat
    BY <1>3 DEF Items
  <2>2. /\ Larger(req, item.count) \in Int
        /\ Larger(req, item.count) >= req /\ Larger(req, item.count) >= item.count
        /\ Larger(req, item.count) = req \/ Larger(req, item.count) = item.count
    <3>1. req \in Int /\ item.count \in Int
      BY <1>1, <2>1
    <3> HIDE DEF req
    <3> QED BY <3>1, LargerIs
  <2>3. item.stampIds \subseteq all <=> item.stampIds \ A \subseteq extra
    OBVIOUS
  <2>4. Cardinality(all) >= req /\ item.count <= Cardinality(all)
          <=> Larger(req, item.count) - Cardinality(A) <= Cardinality(extra)
    <3> HIDE DEF all, A, req
    <3> QED BY <1>1, <1>2, <2>1, <2>2, SMT
  <2> HIDE DEF all, A, req
  <2> QED BY <2>3, <2>4, Zenon DEF Meets
<1>6. Cardinality(all) >= req /\ MeetsOne(Alternatives(config.reward), all)
        <=> \E item \in Alternatives(config.reward) :
              /\ item.stampIds \ A \subseteq extra
              /\ Larger(req, item.count) - Cardinality(A) <= Cardinality(extra)
  <2> HIDE DEF all, A, req
  <2> QED BY <1>5, Zenon DEF MeetsOne
<1> QED BY <1>1, <1>4, <1>6

(* An alternative with the least missing exists.                          *)
LEMMA BestIs ==
  ASSUME TypeOK, Alternatives(config.reward) # {}
  PROVE  /\ Best(config.reward, records) \in Alternatives(config.reward)
         /\ \A item \in Alternatives(config.reward) :
              /\ MissingCountFor(config.reward, item, records) \in Nat
              /\ MissingCountFor(config.reward, Best(config.reward, records), records)
                   <= MissingCountFor(config.reward, item, records)
<1> DEFINE items == Alternatives(config.reward)
           missing(item) == MissingCountFor(config.reward, item, records)
           counts == {missing(item) : item \in items}
<1>1. items \in SUBSET Items(config.spots)
  BY UnlocksIs
<1>2. \A item \in items : missing(item) \in Nat
  <2> SUFFICES ASSUME NEW item \in items PROVE missing(item) \in Nat
    OBVIOUS
  <2>1. item.count \in Nat /\ item.stampIds \in SUBSET config.spots
    BY <1>1 DEF Items
  <2>2. Cardinality(item.stampIds \ records) \in Nat
    <3>1. item.stampIds \ records \in SUBSET config.spots
      BY <2>1
    <3> QED BY <3>1, ConfigIs, SubsetCardinality
  <2>3. Cardinality(records) \in Nat /\ config.reward.requiredStampCount \in Nat
    BY ConfigIs, SubsetCardinality DEF TypeOK
  <2>4. Larger(config.reward.requiredStampCount, item.count) \in Int
    BY <2>1, <2>3, LargerIs
  <2>5. Larger(config.reward.requiredStampCount, item.count) - Cardinality(records) \in Int
    BY <2>3, <2>4, SMT
  <2>6. missing(item) \in Int /\ missing(item) >= Cardinality(item.stampIds \ records)
    BY <2>2, <2>5, LargerIs DEF MissingCountFor
  <2> HIDE DEF missing
  <2> QED BY <2>2, <2>6, SMT
<1> HIDE DEF missing
<1>3. PICK n \in counts : \A m \in counts : n <= m
  <2>1. counts \in SUBSET Nat /\ counts # {}
    BY <1>2
  <2> HIDE DEF counts
  <2> QED BY <2>1, LeastNumber, Zenon
<1>4. \E item \in items : \A other \in items : missing(item) <= missing(other)
  BY <1>3
<1>5. Best(config.reward, records)
        = CHOOSE item \in items : \A other \in items : missing(item) <= missing(other)
  BY DEF Best, missing
<1>6. /\ Best(config.reward, records) \in items
      /\ \A other \in items : missing(Best(config.reward, records)) <= missing(other)
  <2> HIDE DEF items
  <2> QED BY <1>4, <1>5, Zenon
<1> QED BY <1>2, <1>6 DEF missing

(* The numbers of calculateRewardProgress for the alternative it shows: the *)
(* stamps it names that are missing, and others up to its count.          *)
LEMMA ShownProgress ==
  ASSUME TypeOK, Alternatives(config.reward) # {}
  PROVE  LET best  == Best(config.reward, records)
             own   == best.stampIds \ records
             other == config.spots \ (records \union best.stampIds)
             short == MissingCountFor(config.reward, best, records)
         IN /\ Cardinality(own) \in Nat /\ short \in Nat /\ Cardinality(own) <= short
            /\ Progress.missingStampIds = own \union FirstOf(short - Cardinality(own), other)
            /\ Progress.isUnlocked = Unlocks(config.reward, records)
            /\ ShownAsDone(Progress) <=> short = 0
<1> DEFINE best     == Best(config.reward, records)
           own      == best.stampIds \ records
           mine     == best.stampIds \intersect records
           short    == MissingCountFor(config.reward, best, records)
           count    == Larger(config.reward.requiredStampCount, best.count)
           required == Larger(Cardinality(best.stampIds), count)
           explicit == Cardinality(mine)
           others   == Cardinality(records) - explicit
           extra    == required - Cardinality(best.stampIds)
           rest     == config.spots \ (records \union best.stampIds)
           acquired == explicit + (IF others <= extra THEN others ELSE extra)
<1>1. best \in Alternatives(config.reward) /\ short \in Nat
  BY BestIs
<1>2. best.stampIds \in SUBSET config.spots /\ best.count \in Nat
  BY <1>1, UnlocksIs DEF Items
<1>3. Progress = [isUnlocked      |-> Unlocks(config.reward, records),
                  acquired        |-> acquired,
                  required        |-> required,
                  missingStampIds |-> own \union FirstOf(Larger(0, extra - others), rest)]
  BY DEF Progress, RewardProgress
<1>4. short = Larger(Cardinality(own), count - Cardinality(records))
  BY DEF MissingCountFor
<1>5. IsFiniteSet(best.stampIds) /\ IsFiniteSet(records)
  BY <1>2, ConfigIs, SubsetCardinality DEF TypeOK
<1> HIDE DEF best
<1>6. /\ Cardinality(own) \in Nat /\ explicit \in Nat /\ Cardinality(best.stampIds) \in Nat
      /\ Cardinality(best.stampIds) = explicit + Cardinality(own)
      /\ Cardinality(records) \in Nat /\ explicit <= Cardinality(records)
  <2>1. /\ Cardinality(own) \in Nat /\ explicit \in Nat /\ Cardinality(best.stampIds) \in Nat
        /\ Cardinality(best.stampIds) = explicit + Cardinality(own)
    BY <1>5, SplitIs
  <2>2. mine \in SUBSET records
    OBVIOUS
  <2> HIDE DEF mine
  <2> QED BY <1>5, <2>1, <2>2, SubsetCardinality
<1>7. count \in Nat
  BY <1>2, ConfigIs DEF Larger
<1> HIDE DEF own, mine, count, short, explicit
<1>8. /\ required \in Int /\ required >= Cardinality(best.stampIds) /\ required >= count
      /\ required = Cardinality(best.stampIds) \/ required = count
  <2>1. Cardinality(best.stampIds) \in Int /\ count \in Int
    BY <1>6, <1>7
  <2> QED BY <2>1, LargerIs
<1> HIDE DEF required
<1>9. Larger(0, extra - others) = short - Cardinality(own) /\ Cardinality(own) <= short
  <2>1. /\ short >= Cardinality(own) /\ short >= count - Cardinality(records)
        /\ short = Cardinality(own) \/ short = count - Cardinality(records)
    BY <1>4, <1>6, <1>7, LargerIs
  <2>2. extra - others \in Int /\ 0 \in Int
    BY <1>6, <1>8
  <2>3. /\ Larger(0, extra - others) >= 0 /\ Larger(0, extra - others) >= extra - others
        /\ Larger(0, extra - others) = 0 \/ Larger(0, extra - others) = extra - others
    <3> HIDE DEF extra, others
    <3> QED BY <2>2, LargerIs
  <2> QED BY <1>1, <1>6, <1>7, <1>8, <2>1, <2>3, SMT
<1>10. acquired >= required <=> short = 0
  <2>1. /\ short >= Cardinality(own) /\ short >= count - Cardinality(records)
        /\ short = Cardinality(own) \/ short = count - Cardinality(records)
    BY <1>4, <1>6, <1>7, LargerIs
  <2>2. CASE others <= extra
    <3>1. acquired = Cardinality(records)
      BY <1>6, <2>2, SMT
    <3> HIDE DEF acquired
    <3> QED BY <1>1, <1>6, <1>7, <1>8, <2>1, <2>2, <3>1, SMT
  <2>3. CASE ~(others <= extra)
    <3>1. acquired = explicit + extra
      BY <2>3
    <3> HIDE DEF acquired
    <3> QED BY <1>1, <1>6, <1>7, <1>8, <2>1, <2>3, <3>1, SMT
  <2> QED BY <2>2, <2>3
<1> HIDE DEF acquired, extra, others, rest
<1>11. /\ Progress.isUnlocked = Unlocks(config.reward, records)
       /\ ShownAsDone(Progress) <=> short = 0
       /\ Progress.missingStampIds = own \union FirstOf(short - Cardinality(own), rest)
  BY <1>3, <1>9, <1>10 DEF ShownAsDone
<1> QED BY <1>1, <1>6, <1>9, <1>11 DEF best, own, short, rest

LEMMA MissingAreFewest ==
  ASSUME TypeOK
  PROVE  MissingStampsAreFewest
<1> DEFINE items     == Alternatives(config.reward)
           left      == config.spots \ records
           unlocking == {extra \in SUBSET left : Unlocks(config.reward, records \union extra)}
           missing   == Progress.missingStampIds
           best      == Best(config.reward, records)
           own       == best.stampIds \ records
           other     == config.spots \ (records \union best.stampIds)
           short     == MissingCountFor(config.reward, best, records)
           Count(item) == Larger(config.reward.requiredStampCount, item.count) - Cardinality(records)
<1>1. SUFFICES ASSUME items # {}
               PROVE  /\ unlocking # {} =>
                           /\ missing \in unlocking
                           /\ \A extra \in unlocking : Cardinality(missing) <= Cardinality(extra)
                      /\ Progress.isUnlocked <=> ShownAsDone(Progress)
                      /\ Progress.isUnlocked <=> missing = {} /\ unlocking # {}
  BY DEF MissingStampsAreFewest
<1>2. /\ Cardinality(own) \in Nat /\ short \in Nat /\ Cardinality(own) <= short
      /\ missing = own \union FirstOf(short - Cardinality(own), other)
      /\ Progress.isUnlocked = Unlocks(config.reward, records)
      /\ ShownAsDone(Progress) <=> short = 0
  BY <1>1, ShownProgress
<1>3. /\ best \in items /\ items \in SUBSET Items(config.spots)
      /\ \A item \in items : /\ MissingCountFor(config.reward, item, records) \in Nat
                             /\ short <= MissingCountFor(config.reward, item, records)
  BY <1>1, BestIs, UnlocksIs
<1>4. \A item \in items :
        /\ MissingCountFor(config.reward, item, records) >= Cardinality(item.stampIds \ records)
        /\ MissingCountFor(config.reward, item, records) >= Count(item)
        /\ \/ MissingCountFor(config.reward, item, records) = Cardinality(item.stampIds \ records)
           \/ MissingCountFor(config.reward, item, records) = Count(item)
        /\ Cardinality(item.stampIds \ records) \in Nat /\ Count(item) \in Int
  <2> SUFFICES ASSUME NEW item \in items
               PROVE  /\ MissingCountFor(config.reward, item, records)
                           >= Cardinality(item.stampIds \ records)
                      /\ MissingCountFor(config.reward, item, records) >= Count(item)
                      /\ \/ MissingCountFor(config.reward, item, records)
                              = Cardinality(item.stampIds \ records)
                         \/ MissingCountFor(config.reward, item, records) = Count(item)
                      /\ Cardinality(item.stampIds \ records) \in Nat /\ Count(item) \in Int
    OBVIOUS
  <2>1. item.stampIds \ records \in SUBSET config.spots /\ item.count \in Nat
    BY <1>3 DEF Items
  <2>2. Cardinality(item.stampIds \ records) \in Nat
    BY <2>1, ConfigIs, SubsetCardinality
  <2>3. Cardinality(records) \in Nat /\ config.reward.requiredStampCount \in Nat
    BY ConfigIs, SubsetCardinality DEF TypeOK
  <2>4. Count(item) \in Int
    BY <2>1, <2>3 DEF Larger
  <2> HIDE DEF Count
  <2>5. MissingCountFor(config.reward, item, records)
          = Larger(Cardinality(item.stampIds \ records), Count(item))
    BY DEF MissingCountFor, Count
  <2> QED BY <2>2, <2>4, <2>5, LargerIs
<1>5. /\ IsFiniteSet(left) /\ other = left \ own /\ own \in SUBSET left
      /\ IsFiniteSet(other) /\ other \in SUBSET Nat /\ Cardinality(other) \in Nat
      /\ Cardinality(left) \in Nat /\ Cardinality(left) = Cardinality(own) + Cardinality(other)
  <2>1. IsFiniteSet(left) /\ left \in SUBSET Nat
    <3>1. left \in SUBSET config.spots
      OBVIOUS
    <3> QED BY <3>1, ConfigIs, SubsetCardinality
  <2>2. best.stampIds \in SUBSET config.spots
    BY <1>3 DEF Items
  <2> HIDE DEF best
  <2>3. own \in SUBSET left /\ other = left \ own /\ left \intersect own = own
    BY <2>2
  <2> HIDE DEF own, other, left
  <2> QED BY <2>1, <2>3, SplitIs
<1>6. ASSUME NEW extra \in SUBSET left
      PROVE  /\ Cardinality(extra) \in Nat
             /\ extra \in unlocking <=> \E item \in items : /\ item.stampIds \ records \subseteq extra
                                                           /\ Count(item) <= Cardinality(extra)
  BY ExtraUnlocks
<1>7. {} \in unlocking <=> Unlocks(config.reward, records)
  <2>1. records \union {} = records
    OBVIOUS
  <2> QED BY <2>1
<1> HIDE DEF unlocking, items, Count
<1>8. ASSUME NEW extra \in unlocking PROVE extra \in SUBSET left /\ short <= Cardinality(extra)
  <2>1. extra \in SUBSET left
    BY DEF unlocking
  <2>2. PICK item \in items : item.stampIds \ records \subseteq extra /\ Count(item) <= Cardinality(extra)
    BY <1>6, <2>1
  <2>3. Cardinality(item.stampIds \ records) <= Cardinality(extra) /\ Cardinality(extra) \in Nat
    <3>1. item.stampIds \ records \in SUBSET extra
      BY <2>2
    <3>2. IsFiniteSet(extra)
      BY <1>5, <2>1, SubsetCardinality
    <3> QED BY <3>1, <3>2, SubsetCardinality
  <2>4. MissingCountFor(config.reward, item, records) <= Cardinality(extra)
    BY <1>4, <2>2, <2>3
  <2> HIDE DEF short
  <2> QED BY <1>2, <1>3, <2>1, <2>2, <2>3, <2>4, SMT
<1> HIDE DEF missing, own, other
<1>9. ASSUME unlocking # {}
      PROVE  missing \in unlocking /\ Cardinality(missing) = short
  <2>1. short <= Cardinality(left)
    <3>1. PICK extra \in unlocking : TRUE
      BY <1>9
    <3>2. Cardinality(extra) <= Cardinality(left) /\ Cardinality(extra) \in Nat
      BY <1>5, <1>8, <3>1, SubsetCardinality
    <3>3. short <= Cardinality(extra)
      BY <1>8, <3>1
    <3> HIDE DEF short, left
    <3> QED BY <1>2, <1>5, <3>2, <3>3, SMT
  <2> DEFINE n == short - Cardinality(own)
  <2>2. n \in 0..Cardinality(other)
    <3> HIDE DEF short, left
    <3> QED BY <1>2, <1>5, <2>1, SMT
  <2> HIDE DEF n
  <2>3. Cardinality(FirstOf(n, other)) = n
    BY <1>5, <2>2, FirstOfIs
  <2>4. FirstOf(n, other) \in SUBSET other
    BY DEF FirstOf
  <2>5. missing \in SUBSET left /\ own \subseteq missing
    BY <1>2, <1>5, <2>4 DEF n
  <2>6. Cardinality(missing) = short
    <3>1. IsFiniteSet(own) /\ IsFiniteSet(FirstOf(n, other)) /\ own \intersect FirstOf(n, other) = {}
      BY <1>5, <2>4, SubsetCardinality
    <3>2. Cardinality(own \union FirstOf(n, other)) = Cardinality(own) + n - 0
      BY <2>3, <3>1, FS_Union, FS_EmptySet
    <3>3. missing = own \union FirstOf(n, other)
      BY <1>2 DEF n
    <3>4. n + Cardinality(own) = short /\ n \in Int
      <4> HIDE DEF short
      <4> QED BY <1>2 DEF n
    <3> HIDE DEF short
    <3>5. Cardinality(missing) = Cardinality(own) + n - 0
      BY <3>2, <3>3
    <3> QED BY <1>2, <3>4, <3>5, SMT
  <2>7. Count(best) <= short
    BY <1>3, <1>4
  <2>8. best.stampIds \ records \subseteq missing
    BY <2>5 DEF own
  <2>9. missing \in unlocking
    <3> HIDE DEF best, short
    <3> QED BY <1>3, <1>6, <2>5, <2>6, <2>7, <2>8
  <2> QED BY <2>6, <2>9
<1>10. \A extra \in unlocking : Cardinality(missing) <= Cardinality(extra)
  BY <1>8, <1>9
<1>11. Unlocks(config.reward, records) <=> short = 0
  <2>1. ASSUME {} \in unlocking PROVE short = 0
    <3>1. short <= Cardinality({})
      BY <1>8, <2>1
    <3> HIDE DEF short
    <3> QED BY <1>2, <3>1, FS_EmptySet, SMT
  <2>2. ASSUME short = 0 PROVE {} \in unlocking
    <3>1. Cardinality(own) = 0 /\ IsFiniteSet(own)
      <4>1. IsFiniteSet(own)
        BY <1>5, SubsetCardinality
      <4> HIDE DEF short
      <4> QED BY <1>2, <2>2, <4>1, SMT
    <3>2. own = {}
      BY <3>1, FS_EmptySet
    <3>3. Count(best) <= 0
      BY <1>3, <1>4, <2>2
    <3>4. best.stampIds \ records = {}
      BY <3>2 DEF own
    <3>5. Cardinality({}) = 0 /\ {} \in SUBSET left
      BY FS_EmptySet
    <3> HIDE DEF best
    <3> QED BY <1>3, <1>6, <3>3, <3>4, <3>5
  <2> QED BY <1>7, <2>1, <2>2
<1>12. missing = {} /\ unlocking # {} <=> Unlocks(config.reward, records)
  <2>1. ASSUME missing = {}, unlocking # {} PROVE Unlocks(config.reward, records)
    BY <1>7, <1>9, <2>1
  <2>2. ASSUME Unlocks(config.reward, records) PROVE missing = {} /\ unlocking # {}
    <3>1. unlocking # {} /\ missing \in unlocking /\ Cardinality(missing) = 0
      BY <1>7, <1>9, <1>11, <2>2
    <3>2. IsFiniteSet(missing)
      BY <1>5, <1>8, <3>1, SubsetCardinality
    <3> QED BY <3>1, <3>2, FS_EmptySet
  <2> QED BY <2>1, <2>2
<1> HIDE DEF short
<1> QED BY <1>2, <1>9, <1>10, <1>11, <1>12

-----------------------------------------------------------------------------
(* The properties of the guide.                                           *)

(* The moment findNextOpening announces for a closed spot is the next one *)
(* at which evaluateSpotAvailability finds it open, and where it          *)
(* announces none the spot stays closed, for every calendar.              *)
THEOREM AnnouncedOpeningIsNextAlways == Spec => []AnnouncedOpeningIsNext
<1>1. GuideInv => AnnouncedOpeningIsNext
  BY OpeningAnnounced DEF GuideInv
<1> QED BY <1>1, GuideInvariant, PTL

(* The spots suggested at a moment are those at which the engine accepts  *)
(* a check-in given the right proof, for every configuration.             *)
THEOREM SuggestionsAreAcceptedAlways == Spec => []SuggestionsAreAccepted
<1>1. GuideInv => SuggestionsAreAccepted
  BY SuggestionsAccepted DEF GuideInv
<1> QED BY <1>1, GuideInvariant, PTL

(* Whatever analyzeRallyConfig rules out never happens: no spot it finds  *)
(* blocked, unreachable or never open is collected, no reward or          *)
(* completion it finds impossible is reached, and a reward that expires   *)
(* during the rally was announced to.                                     *)
THEOREM ForeseenByPreflightAlways == Spec => []ForeseenByPreflight
<1>1. GuideInv => ForeseenByPreflight
  BY PreflightForesees
<1> QED BY <1>1, GuideInvariant, PTL

(* A participant of an always open rally who collects until nothing is    *)
(* left ends with the spots, the reward and the completion that           *)
(* simulateRallyProgression foretells.                                    *)
THEOREM SimulationReachedAlways == Spec => []SimulationReached
<1>1. GuideInv => SimulationReached
  BY SimulationEnds
<1> QED BY <1>1, GuideInvariant, PTL

(* The stamps calculateRewardProgress says are missing unlock the reward, *)
(* no smaller set of further stamps does, and the reward is shown as done *)
(* exactly when it is unlocked, for every tree of conditions but those     *)
(* that nothing can meet because of an "any" without conditions.           *)
THEOREM MissingStampsAreFewestAlways == Spec => []MissingStampsAreFewest
<1>1. GuideInv => MissingStampsAreFewest
  BY MissingAreFewest DEF GuideInv
<1> QED BY <1>1, GuideInvariant, PTL
=============================================================================
