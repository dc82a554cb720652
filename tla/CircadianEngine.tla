-------------------------- MODULE CircadianEngine ---------------------------
(***************************************************************************)
(* The circadian engine (circadian/mod.rs): one task, which handles a tick *)
(* or an event to its end before it takes the next one.  Its cycle works   *)
(* on one snapshot of all rooms.                                           *)
(***************************************************************************)
EXTENDS Daemon

ASSUME EngineAssumption == "circadian" \in Tasks \cap Subscribers

VARIABLE
  cycle       \* the circadian cycle: rooms left, and the snapshot it works on

EngineTypeOK == cycle \in [left : SUBSET Rooms, view : [Rooms -> Room]]

NoView == [r \in Rooms |-> DefaultRoom]

EngineInit == cycle = [left |-> {}, view |-> NoView]

EngineBusy(r) == r \in cycle.left \/ Busy("circadian", r)

EngineIdle == todo["circadian"] = <<>> /\ cycle.left = {}

\* mutant of Lit: a dark room is pushed to as well
LitBlindly == {r \in Rooms : ~rooms[r].nightMode}

\* the rooms a cycle looks at: those dark or in night mode are skipped
Lit == {r \in Rooms : rooms[r].lightsOn /\ ~rooms[r].nightMode}

\* update_all_rooms: one snapshot for all rooms, none while disconnected
BeginCycle ==
  cycle' = IF connected /\ Lit # {} THEN [left |-> Lit, view |-> rooms] ELSE cycle

\* interval.tick(); a tick while disconnected changes nothing
CycleTick ==
  /\ EngineIdle
  /\ connected
  /\ BeginCycle
  /\ UNCHANGED daemon

\* the engine takes the next event it has received
EngineTakes(event) ==
  /\ EngineIdle
  /\ inbox["circadian"] # <<>>
  /\ Head(inbox["circadian"]).event = event
  /\ inbox' = [inbox EXCEPT !["circadian"] = Tail(@)]

\* the re-push after a reconnection, which the guard of update_all_rooms skips
\* while the shared state still says disconnected
HandleMqttConnected ==
  /\ EngineTakes("MqttConnected")
  /\ BeginCycle
  /\ UNCHANGED <<shared, rx, todo, dedup, world, now, wish>>

\* the snapshot's pause and override; what has expired is cleared first
ResumeSteps(r, room) ==
  IF room.paused THEN << Send(r, CircadianPause(FALSE, None)) >> ELSE <<>>
OverrideSteps(r, room) ==
  IF room.source = "Manual"
  THEN << Send(r, LightsOn(None, "Circadian")), Send(r, ManualOverrideTtl(None)) >>
  ELSE <<>>

\* a failed push skips this room only
PushRoom(r) ==
  << Publish(r, "keep", "circadian", None,
       << Send(r, LightsOn("circadian", "Circadian")), Send(r, JehaPush("circadian")) >>,
       <<>>) >>

\* mutants of RoomSteps: an override ends only by a request, an active
\* override does not stop the push, a room that has an intended level is not
\* pushed to again
RoomStepsOverrideKept(r, room) ==
  IF IsCircadianPaused(room, now) \/ room.source = "Manual" THEN <<>>
  ELSE ResumeSteps(r, room) \o PushRoom(r)
RoomStepsOverrideIgnored(r, room) ==
  IF IsCircadianPaused(room, now) THEN <<>>
  ELSE ResumeSteps(r, room) \o OverrideSteps(r, room) \o PushRoom(r)
RoomStepsOnce(r, room) ==
  IF IsCircadianPaused(room, now) \/ IsManualOverrideActive(room, now) THEN <<>>
  ELSE ResumeSteps(r, room) \o OverrideSteps(r, room)
         \o IF room.intended # None THEN <<>> ELSE PushRoom(r)

\* what the cycle does with a lit room, as its snapshot shows it and by now
RoomSteps(r, room) ==
  IF IsCircadianPaused(room, now) THEN <<>>
  ELSE ResumeSteps(r, room)
         \o IF IsManualOverrideActive(room, now) THEN <<>>
            ELSE OverrideSteps(r, room) \o PushRoom(r)

\* the rooms come in the order of a hash map
CycleRoom(r) ==
  /\ todo["circadian"] = <<>>
  /\ r \in cycle.left
  /\ todo' = [todo EXCEPT !["circadian"] = RoomSteps(r, cycle.view[r])]
  /\ cycle' = IF cycle.left = {r} THEN [left |-> {}, view |-> NoView]
              ELSE [cycle EXCEPT !.left = @ \ {r}]
  /\ UNCHANGED <<shared, rx, inbox, dedup, world, now, wish>>

\* push_for_device: a light came back online.  It looks at lights_on, night
\* mode and the pause, and not at the override.
HandleDeviceOnline ==
  /\ EngineTakes("DeviceOnline")
  /\ LET r == Head(inbox["circadian"]).room
         room == rooms[r]
     IN  todo' = IF ~room.lightsOn \/ room.nightMode \/ IsCircadianPaused(room, now) THEN todo
                 ELSE [todo EXCEPT !["circadian"] =
                        << Publish(r, "keep", "circadian", None,
                             << Send(r, JehaPush("circadian")) >>, <<>>) >>]
  /\ UNCHANGED <<shared, rx, dedup, world, now, wish, cycle>>

=============================================================================
