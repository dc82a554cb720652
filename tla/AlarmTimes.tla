----------------------------- MODULE AlarmTimes -----------------------------
(***************************************************************************)
(* When a wake-up alarm fades and rings (alarm.rs).  Pure operators on the *)
(* local time, counted in ticks: a date is a day's number, the moment t is *)
(* in the day t \div Day.  The clock changes of daylight saving, where     *)
(* ring_time moves a skipped time by an hour, are left out.                *)
(***************************************************************************)
EXTENDS Integers, FiniteSets

CONSTANT Day  \* the ticks of a day

ASSUME AlarmTimesAssumption == Day \in Nat \ {0}

\* AlarmConfig: days is empty for every day of the week
Alarm(times, fades, weekdays) ==
  [time : times, fade : fades, days : SUBSET weekdays, enabled : BOOLEAN]

Today(t) == t \div Day
Earliest(S) == CHOOSE n \in S : \A m \in S : n <= m

RingTime(alarm, date) == date * Day + alarm.time
RingsOn(alarm, date)  == alarm.days = {} \/ date % 7 \in alarm.days

FadeStart(alarm, date) == RingTime(alarm, date) - alarm.fade

\* due: the windows t falls in, of which the code takes the first
DueDates(alarm, t) ==
  {date \in {Today(t), Today(t) + 1} :
     /\ alarm.enabled /\ RingsOn(alarm, date)
     /\ FadeStart(alarm, date) <= t /\ t < RingTime(alarm, date)}
Due(alarm, t)     == DueDates(alarm, t) # {}
DueDate(alarm, t) == Earliest(DueDates(alarm, t))

\* mutant of NextRings: a week is seven days
NextRingsOfAWeek(alarm, t) ==
  {RingTime(alarm, date) : date \in
     {d \in Today(t)..(Today(t) + 6) :
        alarm.enabled /\ RingsOn(alarm, d) /\ RingTime(alarm, d) > t}}

\* next_ring looks at today and the seven days after it
NextRings(alarm, t) ==
  {RingTime(alarm, date) : date \in
     {d \in Today(t)..(Today(t) + 7) :
        alarm.enabled /\ RingsOn(alarm, d) /\ RingTime(alarm, d) > t}}

\* fade_target: when circadian takes over, wake being a tick of the day
HandOver(ring, wake) ==
  IF wake > ring % Day THEN Today(ring) * Day + wake ELSE ring

=============================================================================
