--------------------------- MODULE MCWakeUpAlarms ---------------------------
(* Small instances of WakeUpAlarms for TLC. *)
EXTENDS WakeUpAlarms

CONSTANTS r1, p1

OneRoom == {r1}
OnePress == {p1}
AlarmTasks == OnePress \union OneRoom \union {"night", "circadian", "mqtt", "lights_out"}
SixLevels == {"circadian", "user", "external", "night", "fade", "full"}

\* an alarm whose fade begins the evening before, and another one for the room
TwoAlarms ==
  << [rooms |-> OneRoom, time |-> 1, fade |-> 2, days |-> {}, enabled |-> TRUE],
     [rooms |-> OneRoom, time |-> 2, fade |-> 2, days |-> {}, enabled |-> FALSE] >>
\* no override, or an alarm switched on for a tick later than the first one's
SomeSettings == {[time |-> None, enabled |-> None], [time |-> 2, enabled |-> TRUE]}
=============================================================================
