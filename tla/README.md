# A TLA+ model of jeha

jeha is a home automation daemon: it keeps a house's lights at the brightness
and colour temperature of a circadian curve, follows motion sensors, switches
night mode and wake-up alarms by schedules, and serves an HTTP API. It is one
Rust process on tokio; it talks to the lights through an MQTT broker and
Zigbee2MQTT (Z2M). Nothing in it is hard by itself. What is hard is that a
dozen tasks read one shared state without a lock, decide, and then await
channels, publishes and timers before they write what they decided. This
directory models that: the tasks, what each has read, and every order their
steps can come in.

Paths below are those of `src/` in the repository (`state/mod.rs` is
`src/state/mod.rs`). `PROJECT.json` has the exact lines of every definition.

## 1. The system

### Parts, their state and their operations

| Part | State | Operations | What makes it correct |
|---|---|---|---|
| StateManager, devices (`state/mod.rs`) | device map, name index, availability, a bounded buffer of early reports | UpdateDevices, SetDeviceAvailability | index and map describe the same devices; the buffer is bounded and empties; events follow the store; it ends up with what the network is |
| StateManager, rooms (`state/mod.rs`) | one record per room: lights, source, override and its deadline, pause and its deadline, night mode, last push, intended level, occupancy, alarm; overrides of the wake times and of alarms | UpdateRoomState (12 updates), SetMqttConnected, groups, overrides of schedules and alarms | the record says what the lights do; a rollback takes back its own update only |
| Event bus (`event.rs`) | a bounded broadcast | publish | it never blocks; who lags loses the oldest |
| MQTT loop (`mqtt/mod.rs`, `mqtt/z2m.rs`) | the connection, occupancy last seen, last action of each remote, time of the last external change | poll, ConnAck, device lists, availability, light and sensor reports | its own echoes are told from other people's doing; the daemon knows whether it is connected |
| Publisher (`mqtt/publish.rs`) | the client's request queue | publish, with a timeout on a full queue | a failure is seen by the caller |
| Circadian engine (`circadian/`) | none but the snapshot of a cycle | cycle, re-push after a reconnection, push to a light that comes back | only lit rooms nobody has taken over; expired pauses and overrides end |
| HTTP API (`api/handlers.rs`) | none | on, set, off, pause, resume, snooze, scene, night mode, alarms, overrides | what a user asked for is what the room shows |
| Automation engine (`automation/`) | motion timers, dimming sessions | motion, remotes, configured automations | no light goes off on people; empty rooms go dark; a press counts once and starts from what is seen; no light ramps unattended |
| Action executor (`automation/action.rs`) | none | lights on and off, brightness, colour | state first, publish second, rollback on failure |
| Night mode (`night_mode.rs`) | `suppressed`, `pre_wake` | activate, deactivate, a check of all rooms every 30 s | users win over the schedule until the window ends; the morning ends it |
| Alarms (`alarm.rs`) | the fades in progress, the alarms that have rung | start, fade, interruption, moving an alarm | a fade yields to users and leaves nothing behind |
| Lights out (`lights_out.rs`) | the last day it ran | a check every 30 s | once a day, all lit rooms |
| Configuration sync (`config_sync.rs`, `config/mod.rs`) | what it has appended; the file | new Z2M groups become rooms | no room is defined twice, none goes, the file can be read at the next start, every new group gets its room |
| Curve, season, calibration (`circadian/curve.rs`, `season.rs`, `calibration.rs`) | none | pure functions of the time and of a light | every light at its own value, without a detour; a level that does not jump |
| Schedules (`schedule.rs`) | none | windows, days, combinations | a window is open when it says so, across midnight too |
| Configuration (`config/`) | none | defaults, validation, reading and writing the file | what validation lets through, the curve and the calibration can compute with |
| Start-up, HTTP routing, OpenAPI, GeoIP | none | | |

### How they interact

- **Shared state.** `SharedState` is an `ArcSwap`: any task loads a snapshot at
  any moment. Only the StateManager actor stores a new one.
- **Commands.** All writes go through one bounded channel to the actor. A send
  that has returned has been queued, *not applied*.
- **Events.** The actor and the MQTT loop publish to a broadcast; the circadian
  engine, the automation engine and the night mode scheduler listen.
- **MQTT.** A publish is handed to the client's bounded request queue. While the
  connection is lost it piles up there, and a full queue makes the publish
  time out. Z2M reports each change of a light back, so jeha hears its echo.
- **Spawned tasks.** A request, a motion timer, a remote's button and a fade
  run as tasks of their own and interleave with everything else.

### What is hard

Stale snapshots (one serves a whole cycle); decisions on a state whose update
is still in the channel; two writers of one room; a light's echo that arrives
before or after the update it belongs to; a publish that fails after the state
has said it succeeded; outages that delay, replay and lose; deadlines that
expire apart; timers and fades that race with what should end them; a press
that is repeated, or whose release never comes; a file that is compared with a
snapshot and written by more than one; a crash between two steps of a write.
The list with the lines is in `PROJECT.json` under `hazards`; sections 3 and 4
tell what came of them.

## 2. The modules

An arrow is EXTENDS or INSTANCE, from what is used to what uses it.

```
 DeviceRegistry --> DeviceRegistry_proofs           the devices' side of the actor

 RoomState --> Daemon --> Daemon_proofs             a room's record; what all tasks run on
                 |
                 +--> RoomActions -----> MotionAutomation     (built-in and configured)
                 |        |
                 |        +------------> Remotes
                 +--> CircadianEngine ------^
                 |        |
                 |        +------------> LightControl
                 |        |                 ^
                 +--> RoomRequests ---------+
                          |
     CircadianEngine --> NightMode --> LightsOut --> WakeUpAlarms <-- RoomRequests
                                                        ^
 AlarmTimes --------------------------------------------+
     |
     +------------------------------------------------> Clockwork --> Clockwork_proofs
 Calibration, CircadianCurve --> Configuration -------------^
 TimeWindows -----------------------------------------------^

 ConfigFile --> ConfigSync --> ConfigSync_proofs    refined by the configuration sync
```

| Module | Models | How |
|---|---|---|
| `DeviceRegistry` | the device side of the actor, composed with the MQTT loop and with Z2M's retained topics | one action per command, per delivered message and per change of the network; the outbox holds the events of the command just stored |
| `RoomState` | `RoomState`, `RoomStateUpdate` and the arms of the actor that apply them | pure operators: an update is a function of a record and the time |
| `Daemon` | actor, channel, bus, MQTT loop, publisher, Z2M and the lights | see below |
| `CircadianEngine` | `CircadianEngine::run`, `update_all_rooms`, `push_for_device`: which rooms it pushes to | a cycle takes one snapshot and then handles its rooms one by one in any order |
| `RoomRequests` | the API handlers for a room | the steps of each handler, as operators that its callers take |
| `RoomActions` | `execute_action` | update, publish, roll back, as operators |
| `LightControl` | the API handlers with the engine, the actor and the loop | one action per request, per touch, per light that returns |
| `MotionAutomation` | occupancy reports, built-in motion, the tasks it spawns; configured automations | one action per event the engine handles, one per automation it looks at, one per step of a spawned task |
| `Remotes` | the remotes' actions and their deduplication, clicks, holds, dimming sessions, the base of the next step | one action per read of the engine: the press, the look at the room, the claim |
| `NightMode` | activation, deactivation, users' switches and the scheduler, with the engine | one action per check and per event; the rooms a check switches are the scheduler's agenda |
| `LightsOut` | the sweep at the end of the day | the check that fires it takes one snapshot, then room by room |
| `AlarmTimes` | when an alarm is due and when it rings next | pure operators on a clock that counts days |
| `WakeUpAlarms` | the scheduler of alarms and the fades, with night mode, lights-out, circadian and users | one action per check, per step of a fade, per end of one |
| `ConfigFile` | what the file is promised: jeha writes what it has read and rooms with new ids, and as long as nobody else writes nothing is taken away | an abstract specification: jeha looks, empties, adds or gives up; somebody else writes, which is an action apart that jeha's own writes cannot pass for |
| `ConfigSync` | the lists on their way to the state, and `sync_new_groups` in its three steps; crashes, failures, edits | implements `ConfigFile` (`KeepsPromise`) |
| `Calibration` | `resolve`, `apply_*`, `plan_group_publish` | pure operators |
| `CircadianCurve` | `compute_target`, `blend_brightness`, `kelvin_to_mired` | pure operators; the ease curves are a table |
| `Configuration` | effective times, winter targets, the checks of `validate_config` the curve and the calibration rest on | pure operators |
| `TimeWindows` | `TimeWindow::matches`, `Schedule::matches` | pure operators |
| `Clockwork` | time passing: target, plan, publishes, lights that lose their power, times set at the API; windows and alarms over a week | one action per cycle, per publish, per report, per change of the times |
| `MC*` | | instances for TLC |
| `*_proofs` | | the TLAPS proofs, section 5; `LightControl_proofs`, `MotionAutomation_proofs` and `Remotes_proofs` extend their module and `Daemon_proofs`, `WakeUpAlarms_proofs` its module alone |

**The step discipline of `Daemon`.** A handler reads shared state at a few
points and otherwise awaits. So an action that models a handler is the *read*:
it puts into `todo[task]` the steps the handler will take because of what it has
read (sends, announcements, publishes, each publish with what follows its
success and its failure), and `SendStep`, `AnnounceStep`, `PublishStep`,
`PublishQueuedStep` and `PublishTimeoutStep` take them one at a time. Everything
else may happen in between. Where a handler reads again, a second action does
(`Decide` in `NightMode`, `TurnOff` and `Run` in `MotionAutomation`, `Look` in
`Remotes`, `StepFade` in `WakeUpAlarms`).

**What is abstracted.** Wherever tasks interleave, a brightness and colour
temperature together are a *level*, and a room's lights are one bulb: rooms
driven through a Z2M group are; a room of single lights, of which some may fail,
is not modelled. `Remotes` puts the levels on a scale, along which a click moves
and a hold ramps. `Clockwork` has the numbers (brightness, mired, offsets,
ranges, several lights of several types) and no second task that could adjust
the room. Formatting and topics are left out. Time is a counter of ticks.

## 3. The runs

The bounds are in the `.cfg` files; each is a constant of its module, with a
comment that begins with "bound:". What is called `...Sound` is the conjunction
of a type invariant and of what else is always true of a record.

| Run | Question | Properties |
|---|---|---|
| `DeviceRegistry` | two devices, three names, two changes of the network, a buffer of one: is the registry consistent in every order of lists, reports and changes, does it end up with what the network is, and does it always get there | `IInv` (types, no buffered report of a known name, the bound of the buffer, availability of announced devices only), `IndexMatchesDevices`, `EventsFollowStore`, `ConvergesToNetwork`, `EventuallySettled` |
| `LightControl` | one room, three events in all of: requests, a hand at the switch, a light that returns, a recalled scene, a lost connection with a request queue of two: does the room do what was asked for last, and does the record say so; are dark lights left dark; does the daemon know whether it is connected | `RecordSound` (the record and the lights agree, also on the intended level), `RequestHonoured`, `ConnectionKnown`, `PushesOnlyLitLights` |
| `LightControlLive` | with every overlap, any one request, and pairs of a snooze, an "on", a touch, a light that returns and an outage: do overrides and snoozes end by themselves, and does a lit room that circadian manages return to the target for good, through the backlog that is replayed and the re-push that is skipped | `DeadlinesEnd`, `CircadianConverges` |
| `LightControlSceneTtl` | "With `override_ttl_mins`, the override auto-expires and circadian resumes" | `OverrideTtlEnds` violated |
| `Motion` | people who come and go, repeated reports, a bright day, a hand at the switch, a schedule, a lost connection, a configured automation beside built-in motion or alone: is the occupancy the sensor's, does motion end every timer, even one that has begun, does no timer darken an occupied room, does a failed publish leave what the lights do | `RecordSound`, `OccupancyRecorded`, `MotionEndsTimer`, `NeverSwitchesOffOccupied` |
| `MotionLive` | does an empty room go dark and an occupied one light up; with two automations whose off waits, does the empty room go dark as well | `VacantRoomGoesDark`, `OccupiedRoomIsLit` |
| `MotionStaysLit` | the same with a sensor that reports at any moment | `VacantRoomGoesDark` violated |
| `NightMode` | a night, a morning, the next evening, with users' switches, a hand at the light or an outage: is the mode what was asked for, do pause and lights fit it, does the schedule keep the dark dark, does the night end | `NightSound`, `NightAsAsked`, `ScheduleKeepsDark`, `NightEnds` |
| `Alarm` | two alarms over a morning, with lights-out, night mode, a user who asks, switches night mode or moves an alarm, and an upset: does the room fade in, does the fade yield and leave nothing behind, does it ring once, does lights-out darken what it found lit | `AlarmSound` (fades leave nothing behind, night mode is as asked), `FadesIn`, `FadeYields`, `RingsOnce`, `LightsOutDarkens` |
| `Remotes` | three events in all of: presses of any button, an action published again, a hand at the light, an outage: does a press count once, start from what is seen and stay; does no light ramp without a session that ends it | `RecordSound`, `PressHonoured`, `StepsFromWhatIsSeen`, `RampHasSession` |
| `ConfigSync` | three groups of which two have one name but for the case, one change of the network, a list lost, a write that fails or is torn, a crash, an edit, and a group whose name TOML does not take: is no room in the file twice, is none lost from it, is what is written what was read and new rooms, does each group get its room | `IInv` (of which that no room is in the file twice is a part), `TakesNothingAway`, `KeepsPromise` (the refinement of `ConfigFile`), `GroupsGetListed` |
| `Clockwork` | four houses over a day, five schedules and alarms over nine days: is every light sent its own value of the target and no other, once and without a detour; is the target within the points of the curve and without a jump by day; do windows and alarms do what a reference written from the clock alone says | `CommandsSound`, `LightsAtTheirOwn`, `NoSwing`, `NoJumpByDay`, `ScheduleAsWritten`, `AlarmsAsWritten` |

Each property of a run that holds has a mutant in `PROJECT.json`: a plausible
bug in the code (a dropped guard, an update not sent, an error ignored) under
which TLC finds the property violated. The mutants stand in the modules, next
to what they change.

### Why these bounds are enough

- *Rooms.* Rooms share the actor, the channel, the queue and the snapshot of a
  cycle and nothing else, so one room shows what happens to a room; `Motion`
  has two in the household that loses its connection, where one room's publish
  fills the queue for the other's.
- *Channel and queues.* `QueueCap` 1 makes the channel full whenever it is not
  empty, so every send can wait; an `OutCap` of 1 makes every second publish of
  an outage fail. `LightControl` has 2: an engine's push queued behind a request
  is what it takes for a late echo to pass for somebody's doing, which a queue of
  one hid until the proof of `RequestHonoured` asked for it. The event bus holds 2 or 3 events instead of 256, and only those
  its subscriber acts on (`Heeds`): the runs have few enough events that none is
  lost, but for those of `ConfigSync`, which needs only one of them; a lagging
  receiver is in the model all the same.
- *Time.* A tick is longer than Z2M takes to report a change and jeha to handle
  the report, as seconds and minutes are against a publish (`PassTime`). TTLs
  and windows are one tick or none, so that expiry falls before, between and
  after the events of a run. A day of `NightMode` has four ticks: evening, night
  with the wake time at its end, and a day outside the window; `Alarm` adds the
  ticks of a fade. A day of `Clockwork` has twelve of two hours, as a ramp of
  three ticks needs.
- *Overlaps.* `Overlaps` is FALSE where an invariant is about tasks that do not
  overlap on a room (it says so): such a run cuts a behaviour at the first
  overlap, whose later states the invariant would not look at (`raced`). The
  liveness run of `LightControl` and the violations have it TRUE. `NightMode`,
  `Alarm` and `Remotes` are checked without overlaps; the liveness of
  `NightMode` therefore says nothing about them. `RampHasSession` and the
  properties of motion do not depend on it.
- *Events.* `LightControl`, a run of invariants, has three. Liveness with every
  overlap costs more: `LightControlLive` has two (`MaxEvents`), of which one at
  most is a request, and a "set", an off or a resume is the only event of its
  behaviour (`Unpaired`). Cycles, expiries and echoes are not counted, and each
  event runs into all of them. So an outage meets a snooze, an "on", a touch
  with the deadline of its override, and a light that returns; that a "set" with
  a TTL ends about an outage is not checked, and what the room shows after it is,
  in `LightControl`.
- *Motion.* `prompt` lets a sensor report only while the daemon rests. The
  household with a gate runs without it, those about what lights do with it, and
  `MotionStaysLit` shows what happens without it. `RecordSound` asks for more
  (`OneByOne`): no schedule, nobody at the switch, and built-in motion alone or
  one automation with one outage. Larger bounds (more changes of presence, a
  second outage, two automations) break it outside that, as the known races
  tell; inside it a household of its own has two outages. Delays of configured
  automations end only while the daemon rests: two automations of a room that
  overlap are a known race.
- *Tasks.* A request runs in one task at a time, so that requests overlap with
  everything but each other; three workers are as many as the motion of two
  rooms keeps busy, and are interchangeable (`WorkerSymmetry`, in a run without
  liveness).
- *Files.* One edit, one failure, one crash, two of them in all: an addition
  that collides, or an edit that is lost, needs no more than a list redelivered
  around one of them. What TOML makes of a name is one bit: a name is `Plain`,
  whose id is a bare key and which needs no escape, or it is not, and the table
  jeha writes for it cannot be read. People quote what has to be quoted, and an
  edit leaves a file readable that was.
- *Numbers.* `Clockwork` has offsets that end outside u8 and mired ranges,
  lights whose range excludes a target, lights without colour and without a
  range, and a colour temperature that would overflow a u16 of mired, which
  validation rejects.

### Fairness

Weak fairness of the actor, the loop and the engine: tokio tasks that run until
shutdown. Strong fairness of a task's step that waits for a channel, whose
permits tokio hands out in the order of the waiters, and of branches of a
`select!`, which picks at random among those ready. The clock goes on, and the
broker comes back (`MqttHandle::run` polls for ever). Users, people, sensors,
hands at switches and the loss of a connection have no fairness. `NightMode`
needs less: the daemon as a whole does not stop while one of its tasks can go
on, and the clock goes on. `ConfigSync` assumes what its promise rests on: that
the daemon is started again, and that Z2M's lists are delivered again and again,
on a reconnection or because Z2M publishes them; a sync that failed is retried
by nothing else.

## 4. Behaviour against the documents

Two runs end in a violation, each of what a document or a comment says:

- **`LightControlSceneTtl`.** A scene pauses circadian without a deadline, and a
  cycle skips a paused room before it looks at the override. The TTL ends
  nothing.
- **`MotionStaysLit`.** Somebody who leaves again before the actor has applied
  the update of the lights-on task leaves the room lit: the clear event finds
  the lights off and starts no timer.

### Known races and other surprises

Found by TLC or by reading while the invariants were being stated, and the
reason why they are stated as they are. None has a run of its own.

Circadian and requests:

- `resume_circadian` sends `LightsOn` to give a room its source back, which
  marks a dark room as lit; the next cycle pushes to lights that are off
  (`resume_dark`, which only `LightControlLive` uses).
- `push_for_device` looks at the lights, night mode and the pause, and not at
  the manual override: a light that comes back in an overridden room is set to
  the circadian target.
- A cycle that began before a scene or an off pushes over it
  (`circadian/mod.rs:273`).
- An ON report carries the source the loop read; applied after a request's
  update it sets the source back (`mqtt/z2m.rs:498`).
- A command publishes before it records the push, so its echo can look like
  somebody else's doing (`mqtt/z2m.rs:542`, `api/handlers.rs:472`); so can that
  of an "on" that was queued in an outage and replayed after the quiet window,
  even when a push is queued right behind it: the light shows the level it had
  before, the record intends the circadian one, and the room becomes Manual.
  Hence `EchoOfOthers` in `RequestHonoured`, which excepts the source of a room
  that was turned on, once there has been an outage.
- Two requests for a room publish in one order and update the state in the
  other.
- The rollback of a failed scene undoes a pause asked for meanwhile
  (`api/handlers.rs:896`). Recalling a scene of Z2M leaves `intended` as it was.
- `MqttConnected` is announced before `SetMqttConnected` is sent, so the re-push
  after a reconnection can be skipped; the next cycle makes up for it
  (`mqtt/mod.rs:106`).

Motion and automations:

- A timer looks at the occupancy and then sends and publishes; somebody can come
  back in between (`automation/mod.rs:478`).
- A schedule that drops a motion event leaves the timer of the last clear
  running. When it ends as the next clear is handled, the abort can hit it
  between its update and its publish: the record says dark, and the room stays
  lit, for good if the clear itself has seen the update and starts no timer
  (`automation/mod.rs:437`, `automation/mod.rs:449`).
- While a delayed off waits, the publish of the on before it may still be in the
  request queue. Both are then sent when the broker is back, and an outage that
  follows may lose the report of the off alone: the record stays lit.
- The lights-on update is sent, not applied, before the publish
  (`automation/action.rs:75`); the flip back to Manual of a restored override
  leaves a window in which an echo takes it away (`automation/mod.rs:371`).
- The delayed off of a configured automation is cancelled by nobody: it darkens
  a room that is occupied, and runs even if the action before it failed
  (`automation/mod.rs:189`). So `MotionEndsTimer` and `NeverSwitchesOffOccupied`
  are stated for built-in motion.
- An off without delay takes its rollback snapshot before the actor has applied
  the on before it; when its publish fails, the room is restored to dark
  (`automation/action.rs:118`). Two automations of one room overlap, and so do
  their rollbacks.
- A motion event that built-in motion ignored (its schedule, a bright day, or a
  clear in a dark room) is not "handled", and configured automations fire for it.

Remotes:

- A touch by hand during a ramp, or while the end of a ramp is trusted, is not
  seen by the next step.
- A click or a hold that has looked at a lit room before it is switched off can
  light it again (`automation/mod.rs:737`).
- The stop of a ramp that does not fit the request queue is lost: the light
  ramps to its end (`automation/mod.rs:837`); hence `spent.outages = 0`.
- A dim pauses circadian without a deadline, as a scene does.

Night mode and alarms:

- Interleaved, an activation and a deactivation of night mode can leave a room
  paused by day; the check that comes between a user's switch-off and its event
  switches night mode on again (`night_mode.rs:295`).
- A room with a schedule that a user puts into night mode outside its window
  leaves it at the next check, within 30 s (`night_mode.rs:343`).
- A fade goes on over a hand that dims the lights: it stops for the lights going
  off, for night mode and for updates that change the source or the pause, and in
  a room the fade has paused no report is taken for somebody's doing
  (`mqtt/z2m.rs:521`).
- Lights-out takes one snapshot, so a room lit during the sweep stays lit; a
  room whose publish fails stays lit for the day.

Configuration:

- The configuration sync subscribes late in the start, and the retained list of
  groups is usually gone by; a device that arrives after the groups is noticed
  with the next list of groups (`GroupsGetListed` needs the lists to come again).
- A lost edit: the file is read and then written (`config_sync.rs:160` to `:162`),
  and what somebody writes to it between the two is overwritten.
- A room defined twice: ids are compared with the config of the start and not with
  the file that is about to be written (`config_sync.rs:127`), so a room somebody
  has added since is added again, and the next start fails on the file.
- A name TOML does not take: the id keeps every letter and digit of Unicode, or
  nothing at all, and is written as an unquoted key; the name is written unescaped
  between quotes (`config_sync.rs:117`, `:149`). A group called "Küche", one
  without a letter or digit, or one with a quote in its name makes the file
  unparseable without anybody's doing. The daemon that runs does not notice; the
  next one does not start. Hence the hypothesis of `FileStaysReadable`, and "jeha
  runs or can be started" in `GroupsGetListed`.
- A write in place that is torn leaves what was written, an empty file or a part.

  The first three are behaviours of the model, which README.md:136 ("appends them to
  the config file. Restart or send SIGHUP to apply.") does not lead one to expect:
  without `~meddled`, `TakesNothingAway` is violated by an edit between
  `SyncReads` and `SyncWrites` and `NoTableTwice` by one before; `FileParses` is
  violated by a group that is not `Plain`, with no edit at all.
- README.md:136 says that SIGHUP applies the configuration; `cli/run.rs:262`
  validates it only.
- A light with a range whose minimum exceeds its maximum would panic in `clamp`
  (`RangeAssumption`).
- Neither ramps that overlap on a short day nor a bedtime before the wake time
  are rejected; the curve jumps, or it is night all day (`Ordinary` in
  `NoJumpByDay`).
- `turn_on_ieee` clamps a target to a light's range only after calibrating it,
  the circadian push before and after: at the edge of the range a room of single
  lights is turned on at one value and moved to another by the next cycle.
- A window's weekdays are those of the moment, also after midnight; a window
  whose ends are equal is never open (`ScheduleAsWritten` has both).

Registry:

- A buffered availability report that repeats what is stored is announced as a
  change (`state/mod.rs:375`); a report for a name that has passed to another
  device goes to the old owner until the next list (`NameReuse`).

## 5. What is proved

Every theorem is proved for every value of the constants, from the assumptions
named in the modules alone; those that need more state it as a hypothesis.

**The registry** (`DeviceRegistry_proofs`, from `RegistryAssumption`).

- `TypeCorrect`: the type invariant. The hard part is the index: a name
  resolves to at most one address because Z2M keeps names unique, which
  `RenameKeepsUnique` and `LeaveKeepsUnique` show every change preserves.
- `RegistryInvariant`: the inductive invariant `IInv`. Index and map agree,
  availability is kept only for announced devices, buffered reports do not
  resolve, the buffer is bounded, and events agree with the store. None of
  these is inductive alone: that a list drains the buffer is needed to see
  that its events carry the stored values, that a report is stored under an
  announced address needs the index.
- `IndexCorrect`, `BufferCorrect`, `EventsCorrect`: its parts, from `IInv`.
- `RegistryConverges`: when all is handled, the registry is the network. The
  inductive invariant `ConvInv` says where, at each moment, the truth about a
  device still is: in a retained topic to be delivered, in the channel, in the
  buffer, or stored. Stated for `~NameReuse`: a report for a name that has
  passed to another device goes to the old owner until the next list.

The proof takes each action in turn, and the conjuncts of the invariant it can
disturb under it (`AnnouncementKeepsIInv`, `ReportKeepsIInv`, `StepIInv`).

**The configuration sync** (`ConfigSync_proofs`, from `SyncAssumption` and
`NoneIsNoText`: what stands for "no text was read" is not a text).

- `TypeCorrect`, `Invariance`: the inductive invariant `IInv`. A sync decides
  what it adds long before it writes, so what must be true between is that the
  additions are new to all that jeha knows (`AdditionsAreNew`), that what it
  knows is what the text has, and that the text it read is still the file's
  (`TextIsKnown`), unless something else happened to the file.
- `NeverTwice`: as long as nothing else happens to the file, no room is in it
  twice (`NoTableTwice`). `NothingGoes`: and none goes from it (`StepText`: a step
  leaves the text as it is or adds the rooms of a sync).
- `FileStaysReadable`: and if every group's name is plain, it parses. The
  hypothesis is needed (section 4); what it adds to the invariant is that the
  text, and what is about to be added to it, can be read (`LegibleText`).
- `PromiseKept`: `ConfigSync` implements `ConfigFile`. The file is the file, also
  while it is empty in the middle of a write in place, and what the promise calls
  `seen` is the text that was read. So each step of a sync has its own step to
  answer for: the read looks, the write in place empties the file and then fills
  it, or a rename adds at once, a failure or a crash gives up. Somebody else's
  write, `Meddle`, leaves `seen` alone, so that no write of jeha can be taken for
  one: that it writes back what it saw, over what was edited meanwhile, is what
  `Add` says of it and not an exception. One lemma per action (`PromiseLook`,
  `PromiseClear`, `PromiseAdd`, `PromiseGiveUp`), and `StepPromise` all of them.

**What all rooms' tasks run on** (`Daemon_proofs`, from `DaemonAssumption`;
lemmas only). What any composition needs: an update leaves a record a record; an
action of the actor, of a task, of the loop or of the outside keeps
`DaemonTypeOK`. Two ideas carry the proofs built on it. A task's *vocabulary*:
the steps it may take are sends of some set and publishes followed by such sends
(`StepsOver`), and taking steps never leaves it. And what a queue *tells*:
`Tells(queue, subjects, true, otherwise)` says that the last message about a
subject is true, or, if there is none, that what it would change is. It is
carried through a message that is appended, taken or lost by one lemma each.

**The rooms under requests and the engine** (`LightControl_proofs`, from
`DaemonAssumption`, `RequestsAssumption`, `NoneIsNoGoal` and those of the module).

- `TypeCorrect`: every command, event, step and record is well formed and no
  queue exceeds its capacity, whatever overlaps.
- `ConnectionIsKnown`: the loop alone tells the state of the connection, and the
  last notice in the channel, or the state if there is none, is right or the
  loop is about to correct it (`ConnInv`).
- `RecordIsSound`: between overlaps, a record says of its lights what they do,
  and the level it keeps as intended is the one they have (`RecordSound`). The
  inductive invariant `RecordInv` says, for a room without overlaps, where the
  truth is while it is not in the record yet. Of the lights being on or off: in
  the last report on its way (`ReportsTrue`) and, with no report to come, in the
  last command about it that a task has still to send or the channel holds
  (`Foreseen`); a publish counts for what the task says if it fails, since a
  success is reported. Of the level: in the last publish of the client's queue,
  and in the last push a task or the channel has still to record
  (`IntendedAs`). One task at a time works on the room (`Alone`), and `Chain`
  states what all tasks and the channel end up telling, with one lemma for each
  way it changes: said, put down, passed over, applied. `CoursesOK` is what each
  task may say at all: the engine never that lights are off, nobody to restore a
  record before a scene of Z2M was recalled, and after a publish the level that
  was published. The hypothesis is that nobody resumes a dark room, which the
  handler marks as lit.
- `PushesReachLitLights`: under the same hypothesis, from the part of the
  invariant that whoever is about to push sees lights that are on: what the
  engine read as lit, with no report to come, is lit or was lit by the engine
  (`EngineSees`).
- `RequestsAreHonoured`: under the same hypothesis, what a user was granted is
  what the room and its lights show once all is settled (`RequestHonoured`). The
  record is the work of three writers whose updates cross in the channel, so the
  inductive invariant `HonourInv` says for each room without overlaps what every
  writer may still do to the wish (`Heeded`):
  - the request in progress keeps a promise (`Promised`): applied to the record,
    what it has said and what it has still to say leaves a record that fits the
    wish, and if it has still to publish, both its ends do: the one after a
    success fits what it asks, the one after a failure what was asked before, to
    which it rolls back (`Offers`). Updates are functions of a record, so a
    promise is a path of records through the channel and the plan (`Leads`), and
    there is one lemma for each way it changes: said, applied, published,
    passed by;
  - the engine and the loop mean no harm (`Careful`): whatever they have still to
    say keeps a record that fits the wish one that does, whenever it is applied
    (`Harmless`), the snapshot of a cycle among it, and the engine publishes to
    a room only if the wish leaves room for a push;
  - the lights, the request queue and the reports on their way fit the wish
    (`Fits`): an "off" has nothing queued that lights up, a "set" nothing that
    leaves its level;
  - an echo is known as one (`Echoes`): while a report is on its way a push is
    recorded in time, or about to be, so that the quiet window covers it; this
    is where an outage makes the exception of `EchoOfOthers`;
  - and one task at a time attends to the room (`OneAttends`), with a light that
    is back ending the wish (`ReturnKnown`).

  With `RecordInv`, which gives the lights, this is inductive (`StepKeepsHonour`,
  one lemma per action).

**Motion** (`MotionAutomation_proofs`, from the same and `MotionAssumption`).

- `TypeCorrect`.
- `OccupancyIsRecorded`: the loop alone tells a room's occupancy
  (`WhoSaysWhat`), and the last it told, or the record, is what the sensor
  reported last (`OccupancyInv`).
- `MotionEndsTheTimer`: what the engine is still to hear of a room, or the
  absence of a timer, agrees with what it handled last (`TimerInv`, which ties
  `offHandle` to the jobs of the spawned tasks). Its hypothesis `[][~Lags]_vars`
  is that the bus drops no event the engine should hear, which a lagging
  receiver of 256 events may.
- `OccupiedStaysLit`: between the last look of a timer and its publish, prompt
  sensors have nothing to report, and what the look saw is still what the room
  is (`LookInv`).

**Remotes** (`Remotes_proofs`, from the same and `RemotesAssumption`).

- `TypeCorrect`: with the invariant that sessions began in the past and that what
  waits for the engine is about a room (`SessionsPast`, `HeardOK`), which the
  types of a ramp's end and of the room it reads next rest on.
- `RampsHaveSessions`: the inductive invariant `RampInv`. Only the engine, with
  the last step of a hold, makes lights move (`MovesOK`); a ramp has a session of
  its direction, or something is on its way that ends it: a step of a spawned
  task or a publish that does not move (`RampsOK`). No assumption on overlaps;
  the property is about runs without an outage, in which the stop may be lost.

**Night mode** (`WakeUpAlarms_proofs`, from `DaemonAssumption`, `NightAssumption` and
`NoneIsNoSwitch`: what stands for "not in the middle of a switch" is not a switch).

- `NightTyped`: lists of switches, suppressions, wake times, records and queues
  are well formed, whatever overlaps.
- `NightIsSound`: a settled room in night mode is paused, and dark or at its
  night level; one that is not in it is not paused, nor at that level
  (`NightSound`). Activation and
  deactivation are three updates around a publish, by users or the schedule, next
  to the cycles of the engine. The inductive invariant `NightInv`, for runs
  without an upset, has the link up and nothing waiting in the client, and says
  - who says what (`KeepsTo`), which the vocabulary of `Daemon_proofs` carries;
  - that lights that are on stay on, that nobody takes dark ones for lit, and
    that the engine, and whoever ends the mode, publish to lit rooms only
    (`StaysLit`);
  - and, of each room without overlaps, that there is one mode (`NightFits`) all
    that is on its way agrees on (`Agree`), that mode, pause and lights are
    what it asks or are still to be told (`ComesTo`), and that the switches that
    are listed for later take turns with it and with the cycle (`TakeTurns`).

  What happens in one room leaves all others `Still`, one lemma per action; what
  happens in the room itself is one lemma per step of a switch, of the schedule,
  of the engine and of the echo.
- `ScheduleNeverLights`: what the scheduler publishes goes to lights that are on
  (`ScheduleKeepsDark`), with upsets too: hands at the light, lost connections,
  a backlog in the client. The handlers look at `lights_on`, a record, so the
  invariant `DarkInv` is about what the record lags behind. Lights that are off
  are known to be off, as soon as what the loop still has to tell is told, and
  nobody else says otherwise (`KnownOff`); or a report of them is on its way, and
  the last one is true (`LastIsTrue`); or a publish that lights them waits in the
  client, whose backlog switches nothing off (`NothingOff`). The loop handles a
  report while nobody else is at work on the room (`LoopOnly`), and the scheduler
  works alone on a room, which is lit or for which it only keeps the books
  (`ScheduleOnly`). TLC checked `DarkInv` on the run's instance first.

**Alarms** (`WakeUpAlarms_proofs`, from the assumptions of the module).

- `AlarmRingsOnce`: what has been due stays in `rung` until its day is long
  over, and the check looks back no further (`HeardInv`). The
  lemmas before it are about the calendar: `Least` stands for the induction
  that the earliest of a set of instants needs.

**The clock** (`Clockwork_proofs`, from `ClockworkAssumption`,
`SettingsAssumption`, `RangeAssumption` and `EaseAssumption`).

- `PlansAreOwn`: the inductive invariant: what a command that is still to be
  sent carries for a known light it reaches is the light's own calibrated value
  of the target the cycle had, for any lights, offsets, ranges and curve
  (`CarriedIsOwn`: a group's command carries a field only if all its members
  agree on it; `GroupCommandsOwn`).
- `LightsNeverSwing`: so no publish sets a light to a value that is not its own.
- `CommandsAreSound`: what is on its way fits its field and lies between the
  points of the curve. `SoundInv` carries it through the engine and the queues;
  under it is the arithmetic of interpolation, mired and calibration, for every
  configuration that passes `validate_config`.
- `LightsGetTheirOwn`: after a cycle of this minute every known light with power
  is at its own value. `OwnInv` adds to `IInv` and `SoundInv` what makes up for
  what a light still misses: a command in a queue, a publish of the plan, or the
  push a returning light is due. The hypothesis `Dimmable`, that a light with a
  colour temperature has a brightness, is what lights are: a returning light
  without a brightness is not pushed to.
- `SchedulesAreAsWritten`, `AlarmsAreAsWritten`: the code's tests on minutes of a
  day and on weekdays agree with references that know only the running clock.

**Only model-checked.**

- What a record says of its lights in `MotionAutomation` and `Remotes`
  (`RecordSound`), and `PressHonoured`, `StepsFromWhatIsSeen`. Each needs what
  `RecordInv` and `HonourInv` of `LightControl` have, an invariant that follows a
  command, its echo and its update through every queue, for the tasks of its
  module.
- `NightAsAsked`; `AlarmSound` with the types of
  `WakeUpAlarms`, `FadesIn`, `FadeYields`, `LightsOutDarkens`; `NoJumpByDay`.
  `NightInv` says that a room comes to *one* mode; that it is the one asked for
  last relates it to the window and to who was suppressed.
- All of liveness, which with fairness and ENABLED is out of the prover's reach
  here: `EventuallySettled`, `DeadlinesEnd`, `CircadianConverges`,
  `VacantRoomGoesDark`, `OccupiedRoomIsLit`, `NightEnds`, `GroupsGetListed`.
- That the table of the ease curves is that of the code, an assumption TLC
  evaluates, and what a recursive definition computes for every input, which
  would need induction over data.

## 6. What is not modelled

Of the modelled parts: `Illuminance` in the record (nothing reads it back; the
gate of motion reads the report), rooms of single lights with partial failures,
rooms that circadian does not manage, transition times, the events no modelled
subscriber acts on, the back-off of reconnections, shutdown. The deadline of a
TTL is that of the request's arrival in the model; the code computes it once the
publish has returned, at most a timeout later. An abort takes effect at once.
The subscriptions after a reconnection, which a task of their own asks for
(`mqtt/mod.rs:115`), count as made at once: Z2M's answers to the replayed backlog
are then never missed, as they could be if they came before them. Of the TOML
syntax only whether a table can be read is in the model, and not which part of a
text a torn write leaves.
Z2M reports every change once and in order; lost and repeated sensor reports and
repeated remote actions are modelled, lost reports of lights only with the
connection. A restart is modelled for the configuration sync only: the other
models start from a daemon that has connected. Clock changes (daylight saving),
months and the winter's weight of a day (an input) are left out of the clock. A
light that calibration does not know is outside `NoSwing`.

Not modelled at all, because they are input and output with no state of their
own: HTTP routing, authentication, types and OpenAPI, the command line, GeoIP,
the migration of old configurations and the checks of validation nothing
modelled rests on.

## 7. The plan

Done, in this order: the registry with its proofs; `RoomState` and `Daemon`;
`CircadianEngine` and `LightControl`; `MotionAutomation`, with configured
automations; `NightMode`; `LightsOut` and `WakeUpAlarms`; `Remotes`;
`ConfigFile` and `ConfigSync` with the refinement and its proof; the pure
functions and `Clockwork` with the proof that no light swings.

Then the proofs about `Daemon` and what runs on it: types, the connection, what
a record says of its lights, what becomes of a request, occupancy, timers, ramps,
night mode, alarms, and the numbers of `Clockwork`.

Left, in the order of what matters most:

1. `RecordSound` of `MotionAutomation` and `Remotes` along the lines of
   `LightControl`, then `PressHonoured` along those of `RequestHonoured`.
2. `NightAsAsked` from `NightInv`; types of `WakeUpAlarms`, then `FadeYields`.
3. Rooms of single lights, with the partial failures of `publish_on_all`.
4. A restart of the whole daemon: what the first report of each sensor means
   (`mqtt/z2m.rs:36`), and which lights are found lit.
5. An abstract specification of a room (a request, its effect, who may undo it)
   that `LightControl` implements between overlaps.
