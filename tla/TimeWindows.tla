---------------------------- MODULE TimeWindows -----------------------------
(***************************************************************************)
(* The schedules that gate motion, night mode and automations              *)
(* (schedule.rs).  Pure operators on the local time in ticks.  The months  *)
(* of a window work as its weekdays do and are left out; a schedule is at  *)
(* most one combination of windows deep.                                   *)
(***************************************************************************)
EXTENDS Integers

CONSTANTS Day, None

\* TimeWindow: a missing end is None, no days is every day
Window(times, weekdays) ==
  [after : times \union {None}, before : times \union {None}, days : SUBSET weekdays]

Minute(t)  == t % Day
Weekday(t) == (t \div Day) % 7

\* mutant of InTimes: a window never crosses midnight
InTimesNoCrossing(w, n) ==
  /\ w.after = None \/ n >= w.after
  /\ w.before = None \/ n < w.before

\* the time range: past midnight if it ends before it begins
InTimes(w, n) ==
  IF w.after # None /\ w.before # None /\ w.after > w.before
  THEN n >= w.after \/ n < w.before
  ELSE /\ w.after = None \/ n >= w.after
       /\ w.before = None \/ n < w.before

\* TimeWindow::matches: the weekday is that of now, after midnight as well
WindowMatches(w, t) ==
  InTimes(w, Minute(t)) /\ (w.days = {} \/ Weekday(t) \in w.days)

\* Schedule::matches
Matches(s, t) ==
  CASE s.op = "all" -> \A w \in s.windows : WindowMatches(w, t)
    [] s.op = "any" -> \E w \in s.windows : WindowMatches(w, t)
    [] s.op = "not" -> \A w \in s.windows : ~WindowMatches(w, t)

\* validate_schedule: no empty combination
ValidSchedule(s) == s.windows # {}

=============================================================================
