----------------------------- MODULE Clockwork ------------------------------
(***************************************************************************)
(* What the passing of time does: the circadian engine turns the time into *)
(* a target, and the target into commands that leave every light of a room *)
(* at its own value; schedules open and close; alarms come due.            *)
(*                                                                         *)
(* One lit room, under circadian for good: who may adjust a room, and when *)
(* the engine keeps off it, is what LightControl and NightMode are about.  *)
(* A setup, chosen at the start, is the configuration and the house.       *)
(*                                                                         *)
(* External: the lights; Zigbee2MQTT, which reports a light's power in     *)
(* order; and whoever sets the house's times at the API.                   *)
(***************************************************************************)
EXTENDS Configuration, AlarmTimes, Sequences, FiniteSetsExt

INSTANCE TimeWindows

CONSTANTS
  Lights,    \* all lights
  Setups,    \* the setups explored
  RxCap      \* bound: commands to the actor in flight

TimesOfDay == 0..(Day - 1)

\* ScheduleOverride: a time that is left out is the house's
Times == [{"wake", "sleep"} -> TimesOfDay \union {None}]

ASSUME ClockworkAssumption ==
  /\ RxCap \in Nat \ {0}
  /\ "group" \notin Lights
  /\ None \notin Int
  /\ \A s \in Setups :
       /\ s.members \subseteq DOMAIN s.lights
       /\ s.known \subseteq DOMAIN s.lights
       /\ DOMAIN s.lights \subseteq Lights
       /\ s.horizon \in Nat

\* the settings are what the types of the configuration and the API let through
ASSUME SettingsAssumption ==
  \A s \in Setups :
    /\ s.circadian \in CircadianConfig(TimesOfDay)
    /\ s.weight \in Parts
    /\ s.calibration.auto \in BOOLEAN
    /\ s.asks \subseteq Times
    /\ s.schedule.op \in {"any", "all", "not"}
    /\ s.schedule.windows \subseteq Window(TimesOfDay, 0..6)
    /\ s.alarm \in Alarm(TimesOfDay, 1..Day, 0..6)

\* a light's range is not empty: i32::clamp panics for one that is
ASSUME RangeAssumption ==
  \A s \in Setups : \A i \in DOMAIN s.lights :
    /\ s.lights[i] \in Device((0..MaxU16) \union {None})
    /\ Or(s.lights[i].min, 0) <= Or(s.lights[i].max, MaxU16)

VARIABLES
  setup,      \* the configuration and the house
  now,        \* the time, in ticks since the first midnight
  schedule,   \* SystemState.schedule_override
  available,  \* SystemState.availability, of the known lights
  rx,         \* commands to the actor, the reports of Z2M on their way among them
  inbox,      \* the engine's receiver: lights that came back
  todo,       \* what the engine has still to publish, in any order but the
              \* command to the group first
  target,     \* what it is publishing
  powered,    \* external: the lights with power
  shown,      \* external: what each light is set to
  asked,      \* history: the times last asked for
  fresh,      \* history: did the last cycle begin in this minute, with what was asked
  spent       \* bound: how often the times were set, and lights lost power

vars == <<setup, now, schedule, available, rx, inbox, todo, target, powered, shown,
          asked, fresh, spent>>

-----------------------------------------------------------------------------
(* The house.                                                               *)

devices == [i \in setup.known |-> setup.lights[i]]
OwnValue(i, f, t) == Own(i, f, t, setup.calibration, devices[i])

NoTarget == [brightness |-> 0, colorTemp |-> 0]

Commands == [to : Lights \union {"group"}, values : [Fields -> Nat \union {None}]]
Pushes   == [push : Lights]
Updates  == [light : Lights, online : BOOLEAN] \union [schedule : Times]

TypeOK ==
  /\ setup \in Setups
  /\ now \in 0..setup.horizon
  /\ schedule \in Times
  /\ available \subseteq setup.known
  /\ rx \in Seq(Updates) /\ Len(rx) <= RxCap
  /\ inbox \in Seq(setup.known)
  /\ todo \subseteq Commands \union Pushes
  /\ target = NoTarget \/ (target.brightness \in 0..MaxU8 /\ target.colorTemp \in 1..MaxU16)
  /\ powered \subseteq Lights
  /\ \A i \in DOMAIN setup.lights :
       shown[i].brightness \in 0..MaxU8 /\ shown[i].colorTemp \in 0..MaxU16
  /\ fresh \in BOOLEAN
  /\ spent \in [{"schedule", "power"} -> Nat]

\* what a light does when it gets power: its own idea of a start
PowerUp == [f \in Fields |-> 0]

NoTimes == [wake |-> None, sleep |-> None]

\* the daemon starts with a configuration that passes validation
Init ==
  /\ setup \in {s \in Setups : ValidConfig(s.circadian, s.calibration) /\ ValidSchedule(s.schedule)}
  /\ now = 0
  /\ schedule = NoTimes
  /\ available = setup.known
  /\ rx = <<>> /\ inbox = <<>> /\ todo = {}
  /\ target = NoTarget
  /\ powered = DOMAIN setup.lights
  /\ shown = [i \in DOMAIN setup.lights |-> PowerUp]
  /\ asked = NoTimes
  /\ fresh = FALSE
  /\ spent = [what \in {"schedule", "power"} |-> 0]

house   == <<setup, now, powered, asked, spent>>
history == <<asked, spent>>

-----------------------------------------------------------------------------
(* The engine.                                                              *)

Target(times, t) ==
  ComputeTarget(ParamsForRoom(setup.circadian, times, setup.weight), Minute(t))

Command(to, values) == [to |-> to, values |-> values]
Push(i) == [push |-> i]

\* publish_group_planned: the plan and the availability are of one snapshot; an
\* empty group command is left out
GroupCommands(t) ==
  LET plan == PlanGroupPublish(setup.members, setup.calibration, devices, t)
  IN  {Command("group", plan.group) : any \in {f \in Fields : plan.group[f] # None}}
        \union {Command(i, plan.members[i]) : i \in DOMAIN plan.members \cap available}

\* push_room: a room without a group has its lights pushed to one by one
PushRoom(t) ==
  IF setup.grouped THEN GroupCommands(t) ELSE {Push(i) : i \in setup.members}

\* a cycle of update_all_rooms
CycleTick ==
  /\ setup.lit
  /\ todo = {}
  /\ target' = Target(schedule, now)
  /\ todo' = PushRoom(target')
  /\ fresh' = (rx = <<>>)
  /\ UNCHANGED <<house, schedule, available, rx, inbox, shown>>

\* mutant of LightReturns: the event of a light that came back is passed over
LightReturnsUnnoticed ==
  /\ todo = {}
  /\ inbox # <<>>
  /\ inbox' = Tail(inbox)
  /\ UNCHANGED <<todo, target, house, schedule, available, rx, shown, fresh>>

\* push_for_device, of a light that can be dimmed
LightReturns ==
  /\ todo = {}
  /\ inbox # <<>>
  /\ inbox' = Tail(inbox)
  /\ IF devices[Head(inbox)].brightness
     THEN target' = Target(schedule, now) /\ todo' = {Push(Head(inbox))}
     ELSE UNCHANGED <<target, todo>>
  /\ UNCHANGED <<house, schedule, available, rx, shown, fresh>>

\* external: a command reaches the lights that have power, and sets what they
\* support
Deliver(lights, values) ==
  shown' = [i \in DOMAIN shown |->
             IF i \in lights \cap powered
             THEN [f \in Fields |->
                    IF values[f] # None /\ setup.lights[i][f] THEN values[f] ELSE shown[i][f]]
             ELSE shown[i]]

PublishCommand(c) ==
  /\ c.to = "group" \/ \A d \in todo : "to" \in DOMAIN d => d.to # "group"
  /\ todo' = todo \ {c}
  /\ Deliver(IF c.to = "group" THEN setup.members ELSE {c.to}, c.values)
  /\ UNCHANGED <<house, schedule, available, rx, inbox, target, fresh>>

\* push_circadian_ieee: an offline light is skipped, an unknown one has no name
\* to publish to; a colour temperature only for lights that have one
PublishPush(i) ==
  /\ todo' = todo \ {Push(i)}
  /\ LET values == [f \in Fields |->
                     IF f = "brightness" \/ devices[i][f] THEN OwnValue(i, f, target) ELSE None]
     IN  IF i \in available THEN Deliver({i}, values) ELSE UNCHANGED shown
  /\ UNCHANGED <<house, schedule, available, rx, inbox, target, fresh>>

Publish ==
  \E step \in todo :
    IF "push" \in DOMAIN step THEN PublishPush(step.push) ELSE PublishCommand(step)

-----------------------------------------------------------------------------
(* The actor, and the world around.                                         *)

Spend(what) == spent[what] < setup.limits[what] /\ spent' = [spent EXCEPT ![what] = @ + 1]
Sends(update) == Len(rx) < RxCap /\ rx' = Append(rx, update)

\* set_schedule: both times are replaced, one left out is the house's again;
\* reset_schedule leaves both out
SetSchedule(times) ==
  /\ Spend("schedule")
  /\ Sends([schedule |-> times])
  /\ asked' = times
  /\ fresh' = FALSE
  /\ UNCHANGED <<setup, now, schedule, available, inbox, todo, target, powered, shown>>

PowerLost(i) ==
  /\ i \in powered \cap setup.known
  /\ Spend("power")
  /\ Sends([light |-> i, online |-> FALSE])
  /\ powered' = powered \ {i}
  /\ UNCHANGED <<setup, now, schedule, available, inbox, todo, target, shown, asked, fresh>>

PowerBack(i) ==
  /\ i \in DOMAIN setup.lights \ powered
  /\ Sends([light |-> i, online |-> TRUE])
  /\ powered' = powered \union {i}
  /\ shown' = [shown EXCEPT ![i] = PowerUp]
  /\ UNCHANGED <<setup, now, schedule, available, inbox, todo, target, asked, fresh, spent>>

\* the actor: SetScheduleOverride, or SetDeviceAvailability and its event
Applies ==
  /\ rx # <<>>
  /\ rx' = Tail(rx)
  /\ LET u == Head(rx) IN
       IF "schedule" \in DOMAIN u
       THEN schedule' = u.schedule /\ UNCHANGED <<available, inbox>>
       ELSE /\ available' = IF u.online THEN available \union {u.light} ELSE available \ {u.light}
            /\ inbox' = IF u.online THEN Append(inbox, u.light) ELSE inbox
            /\ UNCHANGED schedule
  /\ UNCHANGED <<house, todo, target, shown, fresh>>

TimePasses ==
  /\ now < setup.horizon
  /\ now' = now + 1
  /\ fresh' = FALSE
  /\ UNCHANGED <<setup, schedule, available, rx, inbox, todo, target, powered, shown, asked, spent>>

Next ==
  \/ CycleTick \/ LightReturns \/ Publish
  \/ \E times \in setup.asks : SetSchedule(times)
  \/ \E i \in Lights : PowerLost(i) \/ PowerBack(i)
  \/ Applies
  \/ TimePasses

Spec == Init /\ [][Next]_vars

-----------------------------------------------------------------------------
(* Properties.                                                              *)

\* Once the engine has gone through a cycle of this minute, every light that
\* has power and is known is at its own value of the target that the times
\* last asked for give: the group's plan, the push to a single light, and the
\* push to a light that came back agree (calibration.rs:116, publish.rs:273,
\* circadian/mod.rs:459, handlers.rs:1464).
LightsAtTheirOwn ==
  fresh /\ todo = {} /\ rx = <<>> /\ inbox = <<>> =>
    \A i \in setup.members \cap setup.known \cap powered, f \in Fields :
      setup.lights[i][f] => shown[i][f] = OwnValue(i, f, Target(asked, now))

\* No light swings: a publish sets no known light to a value that is not its
\* own, not even on the way to it (calibration.rs:104-110, publish.rs:115-119).
NoSwing ==
  [][\A i \in setup.members \cap setup.known, f \in Fields :
       shown'[i][f] # shown[i][f] /\ powered' = powered
         => shown'[i][f] = OwnValue(i, f, target)]_vars

\* What is published stays within the points of the curve, winter and summer
\* (curve.rs:60, season.rs:43): no overflow of the mired value, no overshoot.
WithinThePoints ==
  todo # {} =>
    LET c       == setup.circadian
        kelvins == {c[p].kelvin : p \in Points}
        lights  == {c[p].brightness : p \in Points}
                     \union {WinterTargets(c)[p] : p \in Points}
    IN  /\ \E k \in kelvins : Mired(k) <= target.colorTemp
        /\ \E k \in kelvins : target.colorTemp <= Mired(k)
        /\ \E b \in lights : b <= target.brightness
        /\ \E b \in lights : target.brightness <= b

\* What is on its way is well formed, and within what the lights can take.
CommandsSound == TypeOK /\ WithinThePoints

\* ramps that do not overlap, of a tick per step at least
Ordinary(p) == p.ramp >= EaseSteps /\ p.wake + 2 * p.ramp <= p.sleep
Apart(a, b) == IF a < b THEN b - a ELSE a - b
\* more than half of the way, up to the truncation
Jumps(a, b, points) ==
  1000 * Apart(a, b) > 500 * (Max(points) - Min(points)) + 1000
\* From waking up to bedtime the target never jumps: a tick moves it by half
\* of the way at most, and bedtime finds it at the end of the
\* curve (curve.rs:60).
NoJumpByDay ==
  [][LET p == ParamsForRoom(setup.circadian, schedule, setup.weight)
         a == CurveAt(p, Minute(now))
         b == CurveAt(p, Minute(now'))
     IN  /\ now' # now
         /\ Ordinary(p)
         /\ p.wake <= Minute(now) /\ Minute(now) < p.sleep
         => /\ ~Jumps(a.brightness, b.brightness, {p[k].brightness : k \in Points})
            /\ ~Jumps(a.kelvin, b.kelvin, {p[k].kelvin : k \in Points})]_vars

\* the ticks a window names on the days around t, written as stretches of time
Stretches(w, t) ==
  LET a   == Or(w.after, 0)
      b   == Or(w.before, Day)
      len == IF a <= b THEN b - a ELSE b + Day - a
  IN  {n \in UNION {(d * Day + a)..(d * Day + a + len - 1) : d \in {Today(t) - 1, Today(t)}} :
         w.days = {} \/ Weekday(n) \in w.days}
\* A schedule is open exactly in the stretches its windows name, those across
\* midnight in one piece (schedule.rs:176).
ScheduleAsWritten ==
  LET s == setup.schedule
  IN  Matches(s, now) <=>
        CASE s.op = "any" -> \E w \in s.windows : now \in Stretches(w, now)
          [] s.op = "all" -> \A w \in s.windows : now \in Stretches(w, now)
          [] s.op = "not" -> now \notin UNION {Stretches(w, now) : w \in s.windows}

Rings(t) ==
  LET a == setup.alarm IN a.enabled /\ RingsOn(a, Today(t)) /\ Minute(t) = a.time
\* next_ring is the next ring: one that takes place, with none before it, and
\* there is none only if the alarm never rings (alarm.rs:107).
NextRingIsNext ==
  LET rings == NextRings(setup.alarm, now)
  IN  IF rings = {} THEN \A t \in (now + 1)..(now + 8 * Day) : ~Rings(t)
      ELSE /\ Rings(Earliest(rings))
           /\ \A t \in (now + 1)..(Earliest(rings) - 1) : ~Rings(t)

\* The lights of an alarm have faded in for the whole of fade_mins when it
\* rings, also if the fade begins the day before (alarm.rs:91).
FadesBeforeItRings ==
  Rings(now) => \A k \in 1..setup.alarm.fade : now >= k => Due(setup.alarm, now - k)

\* What an alarm announces and when it begins agree with when it rings.
AlarmsAsWritten == NextRingIsNext /\ FadesBeforeItRings

=============================================================================
