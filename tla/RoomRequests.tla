---------------------------- MODULE RoomRequests ----------------------------
(***************************************************************************)
(* What the handlers of the HTTP API that switch a room's lights do        *)
(* (api/handlers.rs), as the steps of the request's task: each looks at    *)
(* the room at most once, when it begins.                                  *)
(***************************************************************************)
EXTENDS Daemon

ASSUME RequestsAssumption == "user" \in Levels

\* light_on without values: the lights on, the room on circadian
OnRequest(r) ==
  << Publish(r, "ON", None, [op |-> "on", until |-> None],
       << Send(r, LightsOn(None, "Circadian")), Send(r, JehaPush(None)) >>, <<>>) >>

\* mutant of SetRequest: the push is not recorded
SetRequestUnrecorded(r, until) ==
  << Publish(r, "ON", "user", [op |-> "set", until |-> until],
       << Send(r, LightsOn("user", "Manual")), Send(r, ManualOverrideTtl(until)) >>, <<>>) >>

\* light_on with a brightness or a colour temperature: a manual override
SetRequest(r, until) ==
  << Publish(r, "ON", "user", [op |-> "set", until |-> until],
       << Send(r, LightsOn("user", "Manual")), Send(r, JehaPush("user")),
          Send(r, ManualOverrideTtl(until)) >>, <<>>) >>

\* light_off
OffRequest(r) ==
  << Publish(r, "OFF", None, [op |-> "off", until |-> None], << Send(r, LightsOff) >>, <<>>) >>

\* pause_circadian, resume_circadian and snooze_circadian publish nothing
PauseRequest(r)         == << Send(r, CircadianPause(TRUE, None)) >>
ResumeRequest(r)        == << Send(r, CircadianPause(FALSE, None)),
                              Send(r, LightsOn(None, "Circadian")) >>
SnoozeRequest(r, until) == << Send(r, CircadianPause(TRUE, until)) >>

\* set_scene pauses before it publishes, and rolls the pause it read before
\* that back when the publish fails
SceneRequest(r, until) ==
  << Send(r, CircadianPause(TRUE, None)),
     Publish(r, "ON", "user", [op |-> "scene", until |-> until],
       << Send(r, LightsOn("user", "Manual")), Send(r, JehaPush("user")),
          Send(r, ManualOverrideTtl(until)) >>,
       << Send(r, CircadianPause(rooms[r].paused, rooms[r].pausedUntil)) >>) >>

\* recall_z2m_scene: everything before the publish, the values of the scene
\* unknown.  On a failure the TTL goes back first, so that the room's source does
\* too.
RecallRequest(r, until) ==
  << Send(r, CircadianPause(TRUE, None)), Send(r, LightsOn(None, "Manual")),
     Send(r, ManualOverrideTtl(until)),
     Publish(r, "ON", "user", [op |-> "scene", until |-> until],
       << Send(r, JehaPush(None)) >>,
       << Send(r, ManualOverrideTtl(rooms[r].overrideUntil)), Send(r, RestoreLights(rooms[r])) >>) >>

=============================================================================
