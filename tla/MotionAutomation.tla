-------------------------- MODULE MotionAutomation --------------------------
(***************************************************************************)
(* Lights that follow motion: how the MQTT loop turns a sensor's reports   *)
(* into events (mqtt/z2m.rs), the built-in motion handling of the          *)
(* automation engine (automation/mod.rs), and the tasks it spawns, which   *)
(* update the state first, publish second and roll the update back when    *)
(* the publish fails (automation/action.rs).  Configured automations hear  *)
(* of the same events, in rooms where built-in motion has not handled them.*)
(*                                                                         *)
(* External: the people in the rooms, the sensors, and whoever switches a  *)
(* light by hand.  Each room has one sensor.  An abort takes effect at     *)
(* once, though tokio lets a task that is being polled run to its next     *)
(* await.                                                                  *)
(***************************************************************************)
EXTENDS RoomActions

CONSTANTS
  Workers,        \* the tasks the engine can have spawned at a time
  MotionTimeout,  \* effective_motion_timeout, in ticks
  NightTimeout,   \* motion_timeout_secs of night mode, in ticks
  Setups,         \* the households a run starts from, records of Setup
  MaxMotion,      \* bound: changes of presence
  MaxTouches      \* bound: lights switched by hand

AllStarts == {"dark", "lit", "night", "override"}

\* AutomationConfig: when it is triggered in one of its rooms, and the rooms its
\* conditions name are as they want them, it does one action and then perhaps
\* another.  An action sets the lights to a level, or turns them off after a
\* delay (ActionConfig).
Triggers   == {"MotionDetected", "MotionCleared"}
Conditions == [of : {"nightMode", "lightsOn"}, room : Rooms, is : BOOLEAN]
Actions    == [do : {"on"}, level : Levels, source : {"Automation", "Manual"}]
                \union [do : {"off"}, delay : Nat]
Automation == [rooms : SUBSET Rooms, trigger : Triggers, conditions : SUBSET Conditions,
               actions : Seq(Actions) \ {<<>>}, scheduled : BOOLEAN]

\* A household: the rooms people live in and how they start; do its rooms
\* have a motion timeout, a motion_schedule, an illuminance_gate; its configured
\* automations; and the bounds that go with it: do its sensors report only while
\* the daemon is at rest, how often do they repeat their last report, and how
\* often is the broker connection lost.
Setup == [lived : SUBSET Rooms, starts : SUBSET AllStarts, builtin : BOOLEAN,
          scheduled : BOOLEAN, gated : BOOLEAN, automations : SUBSET Automation,
          prompt : BOOLEAN, resends : Nat, outages : Nat]

ASSUME MotionAssumption ==
  /\ {"automation", "mqtt"} \cap Workers = {}
  /\ Tasks = Workers \union {"automation", "mqtt"}
  /\ "automation" \in Subscribers
  /\ None \notin Tasks /\ None \notin BOOLEAN
  /\ {"night", "user"} \subseteq Levels
  /\ {MotionTimeout, NightTimeout} \subseteq Nat \ {0}
  /\ Setups \subseteq Setup
  /\ {MaxMotion, MaxTouches} \subseteq Nat

VARIABLES
  setup,      \* the household, which does not change
  present,    \* external: is somebody in the room
  sightings,  \* external: reports of the sensors on their way to jeha
  seen,       \* OCCUPANCY_STATE: the last occupancy each sensor reported
  pending,    \* the event that the configured automations have yet to see
  job,        \* what each spawned task has not begun yet
  offHandle,  \* motion_off_handles: the off-timer of each room
  spent       \* bound: how much of each bounded event has happened

motion == <<setup, present, sightings, seen, pending, job, offHandle, spent>>
vars   == <<daemon, motion>>

\* a spawned task: the lights on at a level, and back to Manual afterwards; the
\* lights off when the timer is over; or what is left of the actions of an
\* automation, the first of which may wait for the end of its delay
OnJob(r, level, restore) == [do |-> "on", room |-> r, level |-> level, restore |-> restore]
OffJob(r, at)            == [do |-> "off", room |-> r, at |-> at]
RunJob(r, actions)       == [do |-> "run", room |-> r, at |-> None, actions |-> actions]
Jobs ==
  [do : {"on"}, room : Rooms, level : Levels, restore : BOOLEAN]
    \union [do : {"off"}, room : Rooms, at : Nat]
    \union [do : {"run"}, room : Rooms, at : Nat \union {None},
             actions : Seq(Actions) \ {<<>>}]

TypeOK ==
  /\ DaemonTypeOK
  /\ setup \in Setups
  /\ present \in [Rooms -> BOOLEAN]
  /\ sightings \in Seq([room : Rooms, occupied : BOOLEAN, bright : BOOLEAN])
  /\ seen \in [Rooms -> BOOLEAN \union {None}]
  /\ pending \in {None} \union [room : Rooms, event : Triggers, handled : BOOLEAN,
                                left : SUBSET setup.automations]
  /\ job \in [Workers -> Jobs \union {None}]
  /\ offHandle \in [Rooms -> Workers \union {None}]
  /\ spent \in [motion : Nat, resends : Nat, touches : Nat, outages : Nat]

\* a dark room in night mode, and a dark one whose manual override outlived its
\* lights
Start(name) ==
  CASE name = "dark"     -> DarkRoom
    [] name = "lit"      -> LitRoom
    [] name = "night"    -> [DarkRoom EXCEPT !.nightMode = TRUE, !.nightSince = 0]
    [] name = "override" -> [DarkRoom EXCEPT !.source = "Manual", !.current = "user",
                                             !.intended = "user"]

Init ==
  /\ DaemonInit({Start(name) : name \in AllStarts})
  /\ setup \in Setups
  /\ \A r \in Rooms :
       rooms[r] \in IF r \in setup.lived THEN {Start(name) : name \in setup.starts} ELSE {DarkRoom}
  /\ present = [r \in Rooms |-> FALSE]
  /\ sightings = <<>>
  /\ seen = [r \in Rooms |-> None]
  /\ pending = None
  /\ job = [w \in Workers |-> None]
  /\ offHandle = [r \in Rooms |-> None]
  /\ spent = [motion |-> 0, resends |-> 0, touches |-> 0, outages |-> 0]

-----------------------------------------------------------------------------
(* The MQTT loop on a sensor's report.                                      *)

Occurred(m) ==
  Announce(IF m.occupied THEN [event |-> "MotionDetected", room |-> m.room, bright |-> m.bright]
           ELSE [event |-> "MotionCleared", room |-> m.room])

SightingSteps(m) == << Send(m.room, Occupancy(m.occupied)), Occurred(m) >>

\* mutants of SightingHandled: the room is not told; it is told of people who
\* come and not of those who go; the record is not told of those who go
SightingHandledUnrecorded(m) ==
  /\ LoopDoes(IF seen[m.room] = m.occupied THEN <<>> ELSE << Occurred(m) >>)
  /\ seen' = [seen EXCEPT ![m.room] = m.occupied]
SightingHandledArrivals(m) ==
  /\ LoopDoes(IF seen[m.room] = m.occupied THEN <<>>
              ELSE IF m.occupied THEN SightingSteps(m) ELSE << Occurred(m) >>)
  /\ seen' = [seen EXCEPT ![m.room] = m.occupied]
SightingHandledOnce(m) ==
  /\ LoopDoes(IF seen[m.room] = m.occupied THEN <<>> ELSE SightingSteps(m))
  /\ seen' = [seen EXCEPT ![m.room] = IF m.occupied THEN TRUE ELSE @]

\* record_occupancy: only a change is an event.  The room is told before the
\* engine is.
SightingHandled(m) ==
  /\ LoopDoes(IF seen[m.room] = m.occupied THEN <<>> ELSE SightingSteps(m))
  /\ seen' = [seen EXCEPT ![m.room] = m.occupied]

HandleSighting ==
  /\ LoopIdle
  /\ link = "up"
  /\ sightings # <<>>
  /\ sightings' = Tail(sightings)
  /\ SightingHandled(Head(sightings))
  /\ UNCHANGED <<shared, rx, inbox, dedup, world, now, wish, setup, present, pending, job, offHandle, spent>>

-----------------------------------------------------------------------------
(* The engine (handle_event): it does not wait for anything, so what an     *)
(* event means to built-in motion (handle_builtin_motion) is one step, and  *)
(* what it means to each automation another.                                *)

Takes(event) ==
  /\ pending = None
  /\ inbox["automation"] # <<>>
  /\ Head(inbox["automation"]).event = event
  /\ inbox' = [inbox EXCEPT !["automation"] = Tail(@)]

Finished(w) == job[w] = None /\ todo[w] = <<>>
Free(w)     == Finished(w) /\ \A r \in Rooms : offHandle[r] # w

\* handle.abort() of the room's timer, if there is one: what it has already
\* sent stays sent
Abort(r) == todo' = [w \in Tasks |-> IF w = offHandle[r] THEN <<>> ELSE todo[w]]
Aborted(r, jobs) == [w \in Workers |-> IF w = offHandle[r] THEN None ELSE jobs[w]]

\* the automations are next; has built-in motion handled the event
HandsOn(handled) ==
  LET e == Head(inbox["automation"])
  IN  pending' = IF setup.automations = {} THEN None
                 ELSE [room |-> e.room, event |-> e.event, handled |-> handled,
                       left |-> setup.automations]

\* a room without a motion timeout, and one outside its motion_schedule, ignore
\* their sensor
Ignored(event) ==
  /\ ~setup.builtin \/ setup.scheduled
  /\ Takes(event)
  /\ HandsOn(FALSE)
  /\ UNCHANGED <<shared, rx, todo, dedup, world, now, wish,
                 setup, present, sightings, seen, job, offHandle, spent>>

\* the lights motion turns on: night values, those of a live manual override,
\* or the circadian target
Restores(room) == IsManualOverrideActive(room, now) /\ room.current # None
WantedOn(r, room) ==
  IF room.nightMode THEN OnJob(r, "night", Restores(room))
  ELSE IF Restores(room) THEN OnJob(r, room.current, TRUE)
  ELSE OnJob(r, "circadian", FALSE)

\* mutant of MotionDetected: the illuminance gate comes first
MotionDetectedGateFirst ==
  /\ setup.builtin
  /\ Takes("MotionDetected")
  /\ LET e == Head(inbox["automation"])
         r == e.room
         room == rooms[r]
     IN  /\ HandsOn(~(setup.gated /\ e.bright))
         /\ IF setup.gated /\ e.bright THEN UNCHANGED <<todo, job, offHandle>>
            ELSE /\ Abort(r)
                 /\ offHandle' = [offHandle EXCEPT ![r] = None]
                 /\ IF room.lightsOn
                    THEN job' = Aborted(r, job)
                    ELSE \E w \in Workers :
                           /\ Free(w)
                           /\ job' = Aborted(r, [job EXCEPT ![w] = WantedOn(r, room)])
  /\ UNCHANGED <<shared, rx, dedup, world, now, wish, setup, present, sightings, seen, spent>>

\* the timer is cancelled whether or not it is bright
MotionDetected ==
  /\ setup.builtin
  /\ Takes("MotionDetected")
  /\ LET e == Head(inbox["automation"])
         r == e.room
         room == rooms[r]
     IN  /\ HandsOn(~(setup.gated /\ e.bright))
         /\ Abort(r)
         /\ offHandle' = [offHandle EXCEPT ![r] = None]
         /\ IF room.lightsOn \/ (setup.gated /\ e.bright)
            THEN job' = Aborted(r, job)
            ELSE \E w \in Workers :
                   /\ Free(w)
                   /\ job' = Aborted(r, [job EXCEPT ![w] = WantedOn(r, room)])
  /\ UNCHANGED <<shared, rx, dedup, world, now, wish, setup, present, sightings, seen, spent>>

Deadline(room) == now + IF room.nightMode THEN NightTimeout ELSE MotionTimeout

\* a room that is dark already needs no timer; otherwise a new one replaces the
\* old one
MotionCleared ==
  /\ setup.builtin
  /\ Takes("MotionCleared")
  /\ LET r == Head(inbox["automation"]).room
     IN  /\ HandsOn(rooms[r].lightsOn)
         /\ Abort(r)
         /\ IF rooms[r].lightsOn
            THEN \E w \in Workers :
                   /\ Free(w)
                   /\ offHandle' = [offHandle EXCEPT ![r] = w]
                   /\ job' = Aborted(r, [job EXCEPT ![w] = OffJob(r, Deadline(rooms[r]))])
            ELSE /\ offHandle' = [offHandle EXCEPT ![r] = None]
                 /\ job' = Aborted(r, job)
  /\ UNCHANGED <<shared, rx, dedup, world, now, wish, setup, present, sightings, seen, spent>>

\* evaluate_condition
Holds(c) == (IF c.of = "nightMode" THEN rooms[c.room].nightMode ELSE rooms[c.room].lightsOn) = c.is

\* the automation is triggered, in one of its rooms, and its conditions hold
Fires(a) ==
  /\ pending.room \in a.rooms
  /\ a.trigger = pending.event /\ ~pending.handled
  /\ \A c \in a.conditions : Holds(c)

\* one automation after the other, in any order; outside its schedule it does
\* not fire
Automate ==
  /\ pending # None
  /\ \E a \in pending.left :
       /\ pending' = IF pending.left = {a} THEN None ELSE [pending EXCEPT !.left = @ \ {a}]
       /\ \/ /\ Fires(a)
             /\ \E w \in Workers :
                  Free(w) /\ job' = [job EXCEPT ![w] = RunJob(pending.room, a.actions)]
          \/ (~Fires(a) \/ a.scheduled) /\ UNCHANGED job
  /\ UNCHANGED <<daemon, setup, present, sightings, seen, offHandle, spent>>

-----------------------------------------------------------------------------
(* The spawned tasks.                                                       *)

Continues(w, steps, left) ==
  /\ job' = [job EXCEPT ![w] = left]
  /\ todo' = [todo EXCEPT ![w] = steps]
  /\ UNCHANGED <<shared, rx, inbox, dedup, world, now, wish, setup,
                 present, sightings, seen, pending, offHandle, spent>>

Begin(w, steps) == Continues(w, steps, None)

\* what restores an override has to give the room its source back
TurnOn(w) ==
  /\ job[w] # None /\ job[w].do = "on"
  /\ LET r == job[w].room
         level == job[w].level
     IN  Begin(w, LightsOnAction(r, level, "Automation",
                    IF job[w].restore THEN << Send(r, LightsOn(None, "Manual")) >> ELSE <<>>))

\* mutant of TurnOff: the timer does not look whether somebody is there
TurnOffUnchecked(w) ==
  /\ job[w] # None /\ job[w].do = "off"
  /\ now >= job[w].at
  /\ Begin(w, LightsOffAction(job[w].room))

\* the timer is over: not in a room whose sensor still reports occupancy
TurnOff(w) ==
  /\ job[w] # None /\ job[w].do = "off"
  /\ now >= job[w].at
  /\ Begin(w, IF rooms[job[w].room].occupancy THEN <<>> ELSE LightsOffAction(job[w].room))

NextAction(w) == Head(job[w].actions)

\* execute_action of what is left: an action begins when the one before has
\* ended, whether or not it has succeeded, and an off waits for its delay
Runs(w) == job[w] # None /\ job[w].do = "run" /\ todo[w] = <<>>
Delayed(w) == NextAction(w).do = "off" /\ NextAction(w).delay > 0 /\ job[w].at = None

Delay(w) ==
  /\ Runs(w) /\ Delayed(w)
  /\ Continues(w, <<>>, [job[w] EXCEPT !.at = now + NextAction(w).delay])

Run(w) ==
  /\ Runs(w) /\ ~Delayed(w)
  /\ job[w].at # None => now >= job[w].at
  /\ LET r == job[w].room
         a == NextAction(w)
     IN  Continues(w, IF a.do = "on" THEN LightsOnAction(r, a.level, a.source, <<>>)
                      ELSE LightsOffAction(r),
                   IF Len(job[w].actions) = 1 THEN None ELSE RunJob(r, Tail(job[w].actions)))

-----------------------------------------------------------------------------
(* The daemon and the outside.                                              *)

Actor == (ApplyRoomUpdate \/ ApplyConnected) /\ UNCHANGED motion

Step(t) == TaskStep(t) /\ UNCHANGED motion

Loop == (HandleReport \/ PollError \/ ConnAck \/ DeliverQueued) /\ UNCHANGED motion

Asleep(w) ==
  /\ job[w] # None
  /\ job[w].do = "off" \/ (job[w].do = "run" /\ job[w].at # None)
  /\ now < job[w].at

\* the daemon waits for nothing but timers, delays and the broker
Idle ==
  /\ pending = None
  /\ \A t \in Tasks : todo[t] = <<>>
  /\ \A s \in Subscribers : inbox[s] = <<>>
  /\ \A w \in Workers : job[w] = None \/ Asleep(w)
  /\ rx = <<>>

\* and nothing is on its way
AtRest == Idle /\ <<sightings, reports, outq>> = << <<>>, <<>>, <<>> >>

\* the sensor says what it sees, to nobody while the connection is lost
Sighted(r, occupied) ==
  /\ Len(sightings) < ReportCap
  /\ \E bright \in (IF setup.gated THEN BOOLEAN ELSE {FALSE}) :
       sightings' = IF link # "up" THEN sightings
                    ELSE Append(sightings, [room |-> r, occupied |-> occupied, bright |-> bright])

\* somebody enters the room, or the last one leaves it
Presence(r) ==
  /\ spent.motion < MaxMotion
  /\ spent' = [spent EXCEPT !.motion = @ + 1]
  /\ setup.prompt => AtRest
  /\ present' = [present EXCEPT ![r] = ~@]
  /\ Sighted(r, ~present[r])
  /\ UNCHANGED <<daemon, setup, seen, pending, job, offHandle>>

\* the sensor repeats itself, as for every change of its battery
Resend(r) ==
  /\ spent.resends < setup.resends
  /\ spent' = [spent EXCEPT !.resends = @ + 1]
  /\ setup.prompt => AtRest
  /\ Sighted(r, present[r])
  /\ UNCHANGED <<daemon, setup, present, seen, pending, job, offHandle>>

Touch(r) ==
  /\ spent.touches < MaxTouches
  /\ spent' = [spent EXCEPT !.touches = @ + 1]
  /\ TouchLight(r)
  /\ UNCHANGED <<setup, present, sightings, seen, pending, job, offHandle>>

LinkLost ==
  /\ spent.outages < setup.outages
  /\ spent' = [spent EXCEPT !.outages = @ + 1]
  /\ LoseLink
  /\ sightings' = <<>>
  /\ UNCHANGED <<setup, present, seen, pending, job, offHandle>>

\* the clock stops when nobody waits for it.  No delay of an automation is over
\* while the daemon still works on something else: two automations of a room
\* do not wait for each other, and would overlap.
Tick ==
  /\ setup.automations # {} => Idle
  /\ (\E w \in Workers : Asleep(w)) \/ (\E r \in Rooms : RoomAwaits(r))
  /\ sightings = <<>>
  /\ PassTime
  /\ UNCHANGED motion

Next ==
  \/ Actor
  \/ \E t \in Tasks : Step(t)
  \/ Loop
  \/ HandleSighting
  \/ \E event \in Triggers : Ignored(event)
  \/ MotionDetected \/ MotionCleared
  \/ Automate
  \/ \E w \in Workers : TurnOn(w) \/ TurnOff(w) \/ Delay(w) \/ Run(w)
  \/ \E r \in setup.lived : Presence(r) \/ Resend(r) \/ Touch(r)
  \/ LinkLost
  \/ Tick

Engine ==
  \/ \E event \in Triggers : ~setup.builtin /\ Ignored(event)
  \/ MotionDetected \/ MotionCleared \/ Automate

\* As for the daemon's other tasks (LightControl): every task runs, time
\* passes, Z2M answers.  People, sensors and the broker are free.
Fairness ==
  /\ WF_vars(Actor)
  /\ \A t \in Tasks : SF_vars(Step(t))
  /\ WF_vars(Loop)
  /\ WF_vars(HandleSighting)
  /\ WF_vars(Engine)
  /\ \A w \in Workers : WF_vars(TurnOn(w) \/ TurnOff(w) \/ Delay(w) \/ Run(w))
  /\ SF_vars(Tick)

Spec == Init /\ [][Next]_vars
FairSpec == Spec /\ Fairness

-----------------------------------------------------------------------------
(* Properties.                                                              *)

\* When the loop has handled a room's sightings and the actor its updates, the
\* occupancy of the room is the last one its sensor reported: the timer looks
\* there before it darkens the room.
OccupancyRecorded ==
  \A r \in Rooms :
    LoopIdle /\ ~Queued("mqtt", r) => rooms[r].occupancy = (seen[r] = TRUE)

Told(r) ==
  /\ LoopIdle
  /\ \A i \in 1..Len(inbox["automation"]) : inbox["automation"][i].room # r

Darkens(w, r) ==
  \/ job[w] # None /\ job[w].do = "off" /\ job[w].room = r
  \/ \E i \in 1..Len(todo[w]) : LET s == todo[w][i] IN
       s.do = "publish" /\ s.room = r /\ s.power = "OFF"

\* Once the engine has been told of people in a room nothing is left that
\* would turn its lights off, not even a timer that is over and has begun to:
\* also when it is so bright that motion lights nothing.  (Where a schedule
\* keeps the engine from its events, NeverSwitchesOffOccupied is what is left;
\* an off with a delay in a configured automation is nobody's to cancel.)
MotionEndsTimer ==
  \A r \in Rooms :
    ~setup.scheduled /\ setup.automations = {} /\ seen[r] = TRUE /\ Told(r) => \A w \in Workers : ~Darkens(w, r)

\* the task hands a command with that power to the MQTT client
Publishes(t, r, power) ==
  /\ HeadIs(t, "publish")
  /\ Head(todo[t]).room = r
  /\ Head(todo[t]).power = power
  /\ world' # world
  /\ todo'[t] # todo[t]

\* "never switch off a room whose sensor still reports occupancy"
\* (automation/mod.rs), nor one that is occupied: even when the event that
\* should have ended the timer was gated by the schedule.  (Somebody who comes
\* between that look and the publish is too late for it.)
NeverSwitchesOffOccupied ==
  [][\A w \in Workers, r \in Rooms :
       setup.prompt /\ setup.automations = {} /\ Publishes(w, r, "OFF") => ~rooms[r].occupancy]_vars

\* A room that stays empty does not stay lit: each clear schedules a timer, or
\* finds the lights off.
VacantRoomGoesDark == \A r \in Rooms : []<>(present[r] \/ ~bulb[r].on)

\* A room with built-in motion that stays occupied does not stay dark, also when
\* motion comes back while a timer runs.
OccupiedRoomIsLit == \A r \in Rooms : []<>(~setup.builtin \/ ~present[r] \/ bulb[r].on)

\* Whoever sets a room's lights is through with it before the next one begins:
\* sensors report while the daemon rests, and lights go on and off by built-in
\* motion that hears of every change, or by one automation.  (A timer that a
\* schedule kept can run when the next clear aborts it.  While an off waits for
\* its delay the on before it can wait for the broker; a second outage may then
\* take the report of the off alone.)
OneByOne ==
  /\ setup.prompt /\ ~setup.scheduled /\ spent.touches = 0
  /\ \/ setup.automations = {}
     \/ Cardinality(setup.automations) = 1 /\ spent.outages <= 1

\* The state says whether the lights are on, also after a publish that failed:
\* the update that came before it is taken back.  (A light switched by hand
\* during an outage is outside this, its report is lost.)
BeliefMatchesLight ==
  AtRest /\ OneByOne => \A r \in Rooms : rooms[r].lightsOn = bulb[r].on

\* The record of a room is sound: well formed, and true of the lights.
RecordSound == TypeOK /\ BeliefMatchesLight

=============================================================================
