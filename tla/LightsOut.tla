----------------------------- MODULE LightsOut ------------------------------
(***************************************************************************)
(* The lights-out task (lights_out.rs): once a day, at its minute, it      *)
(* turns off the rooms that one snapshot shows as lit.                     *)
(***************************************************************************)
EXTENDS NightMode

CONSTANTS
  LightsOutRooms,  \* the rooms with lights_out
  LightsOutAt      \* the tick of the day of lights_out.time

ASSUME LightsOutAssumption ==
  /\ "lights_out" \in Tasks \ Presses
  /\ LightsOutRooms \subseteq Rooms
  /\ LightsOutAt \in 0..(Day - 1)

VARIABLES
  lastFired,  \* last_fired_date
  sweep       \* the lit rooms the task has still to turn off

LightsOutTypeOK == lastFired \in MaybeInstant /\ sweep \subseteq LightsOutRooms

LightsOutInit == lastFired = None /\ sweep = {}

\* the ordinal of the day
Date == (FirstTick + now) \div Day

LightsOutIdle == todo["lights_out"] = <<>> /\ sweep = {}
LightsOutDue  == TimeOfDay = LightsOutAt /\ lastFired # Date

\* turn_off_all takes its snapshot
FireLightsOut ==
  /\ LightsOutIdle /\ LightsOutDue
  /\ lastFired' = Date
  /\ sweep' = {r \in LightsOutRooms : rooms[r].lightsOn}

\* mutant of SweepSteps: the lights go off and the record stays
SweepStepsUnrecorded(r) == << Publish(r, "OFF", None, None, <<>>, <<>>) >>

\* a room whose publish fails is left as it is until the next day
SweepSteps(r) == << Publish(r, "OFF", None, None, << Send(r, LightsOff) >>, <<>>) >>

\* the rooms come in the order of a hash map
SweepRoom(r) ==
  /\ todo["lights_out"] = <<>>
  /\ r \in sweep
  /\ sweep' = sweep \ {r}
  /\ todo' = [todo EXCEPT !["lights_out"] = SweepSteps(r)]
  /\ UNCHANGED lastFired

=============================================================================
