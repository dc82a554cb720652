---------------------------- MODULE RoomActions -----------------------------
(***************************************************************************)
(* The actions of the automation engine (automation/action.rs), as the     *)
(* steps of the task that runs one: the state is updated before the        *)
(* publish, so that other tasks see the lights on at once, and the update  *)
(* is rolled back when the publish fails.  The snapshot for that is what   *)
(* the task sees when it begins.                                           *)
(***************************************************************************)
EXTENDS Daemon

Rollback(r) == << Send(r, RestoreLights(rooms[r])) >>

\* ActionConfig::LightsOn, with the circadian target or a level of its own, and
\* SetBrightness and SetColorTemp, whose source is Manual; next is what the
\* caller does after a success
LightsOnAction(r, level, source, next) ==
  << Send(r, LightsOnWithPush(level, source)),
     Publish(r, "ON", level, None, next, Rollback(r)) >>

\* ActionConfig::LightsOff, once its delay is over
LightsOffAction(r) ==
  << Send(r, LightsOff), Publish(r, "OFF", None, None, <<>>, Rollback(r)) >>

=============================================================================
