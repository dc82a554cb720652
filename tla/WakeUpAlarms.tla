---------------------------- MODULE WakeUpAlarms ----------------------------
(***************************************************************************)
(* Wake-up alarms (alarm.rs): the scheduler, which starts a fade in each   *)
(* room of an alarm that is due, and the fades, tasks of their own, which  *)
(* go on one step at a time until the alarm time or until somebody takes   *)
(* the room over.  Composed with the night mode of the same rooms, with    *)
(* lights-out, with circadian, and with users at the API.                  *)
(*                                                                         *)
(* A step takes one tick.  The fade in a room runs in a task named like    *)
(* the room.  Shutdown, which cancels fades, is not modelled.              *)
(***************************************************************************)
EXTENDS LightsOut, RoomRequests

CONSTANTS
  Alarms,    \* config.alarms, a sequence: rooms, time, fade, days, enabled
  Settings,  \* bound: the overrides that users set
  Ops        \* bound: the requests that users make

Times == INSTANCE AlarmTimes

Ids == DOMAIN Alarms

TimesOfDay == 0..(Day - 1)

\* AlarmConfig, whose times the configuration and the API have parsed
AlarmConfig ==
  [rooms : SUBSET Rooms, time : TimesOfDay, fade : 1..(Day - 1),
   days : SUBSET (0..6), enabled : BOOLEAN]

\* AlarmOverride: what it leaves out is as configured
Setting == [time : TimesOfDay \union {None}, enabled : BOOLEAN \union {None}]

ASSUME AlarmAssumption ==
  /\ Tasks = Presses \union Rooms \union {"night", "circadian", "mqtt", "lights_out"}
  /\ Rooms \cap (Presses \union {"night", "circadian", "mqtt", "lights_out"}) = {}
  /\ Alarms \in Seq(AlarmConfig)
  /\ Settings \subseteq Setting
  /\ {"fade", "full"} \subseteq Levels
  /\ Ops \subseteq {"set", "off", "resume", "scene", "recall"}

VARIABLES
  overrides,  \* SystemState.alarm_overrides
  rung,       \* AlarmScheduler.rung: alarms and the dates they rang on
  fade,       \* AlarmScheduler.running: the fade in each room
  heard,      \* history: the alarms, with their dates, that have been due so far
  ring        \* history: the last fade in each room, and who took over from it

alarms  == <<lastFired, sweep, overrides, rung, fade, heard, ring>>
allVars == <<vars, alarms>>

\* who can take a room over from a fade: "later" when it had ended already
Takers == {"request", "schedule", "hand", "outage", "later"}

Fade == [id : Ids, end : Nat, hold : Nat, phase : {"spawned", "first", "stepping"}, at : Nat]

AlarmTypeOK ==
  /\ TypeOK
  /\ LightsOutTypeOK
  /\ overrides \in [Ids -> Setting]
  /\ rung \in SUBSET (Ids \X Nat)
  /\ fade \in [Rooms -> Fade \union {None}]
  /\ heard \in SUBSET (Ids \X Nat)
  /\ ring \in [Rooms -> [end : Nat, hold : Nat, by : {None} \union Takers] \union {None}]

NoOverride == [time |-> None, enabled |-> None]

AlarmInit ==
  /\ Init
  /\ LightsOutInit
  /\ overrides = [id \in Ids |-> NoOverride]
  /\ rung = {}
  /\ fade = [r \in Rooms |-> None]
  /\ heard = {}
  /\ ring = [r \in Rooms |-> None]

-----------------------------------------------------------------------------
(* The scheduler.                                                           *)

Clock == FirstTick + now

\* effective_alarms
Effective(id) ==
  [Alarms[id] EXCEPT !.time = IF overrides[id].time = None THEN @ ELSE overrides[id].time,
                     !.enabled = IF overrides[id].enabled = None THEN @ ELSE overrides[id].enabled]

Fading(r) == fade[r] # None \/ todo[r] # <<>>

\* the rooms an alarm that is due fades in: an earlier alarm of the list comes
\* first, and the room must be dark in the snapshot
Starts(ids) ==
  {r \in Rooms : ~Fading(r) /\ ~rooms[r].lightsOn /\ \E id \in ids : r \in Alarms[id].rooms}
StartedBy(r, ids) == Times!Earliest({id \in ids : r \in Alarms[id].rooms})

\* the days that are over are forgotten
StillRung == {x \in rung : x[2] >= Times!Today(Clock) - 1}

\* mutant of RungAfter: an alarm that starts no fade has not rung
RungAfterStart(due) ==
  StillRung \union {x \in due : \E r \in Starts({x[1]}) : TRUE}

\* an alarm has rung though all of its rooms were skipped
RungAfter(due) == StillRung \union due

NewFade(id, date) ==
  LET end == Times!RingTime(Effective(id), date)
  IN  [id |-> id, end |-> end, hold |-> Times!HandOver(end, Wake), phase |-> "spawned", at |-> now]

DueNow ==
  {<<id, Times!DueDate(Effective(id), Clock)>> :
     id \in {i \in Ids : Times!Due(Effective(i), Clock)}} \ rung

\* AlarmScheduler::check; nothing while disconnected, and a check that finds no
\* alarm due only forgets
CheckAlarms ==
  /\ connected
  /\ DueNow # {}
  /\ rung' = RungAfter(DueNow)
  /\ heard' = heard \union DueNow
  /\ LET ids == {x[1] : x \in DueNow}
         started == Starts(ids)
         By(r) == CHOOSE x \in DueNow : x[1] = StartedBy(r, ids)
     IN  /\ fade' = [r \in Rooms |-> IF r \in started THEN NewFade(By(r)[1], By(r)[2]) ELSE fade[r]]
         /\ ring' = [r \in Rooms |->
                       IF r \in started
                       THEN [end |-> fade'[r].end, hold |-> fade'[r].hold, by |-> None]
                       ELSE ring[r]]
         /\ Overlap({r \in started : ~Settled(r)})
  /\ NoNight
  /\ UNCHANGED <<daemon, cycle, spent, lastFired, sweep, overrides>>

-----------------------------------------------------------------------------
(* A fade (Fade::run).                                                      *)

FadeIs(r, phase) == fade[r] # None /\ fade[r].phase = phase /\ todo[r] = <<>>
FadeDoes(r, steps) == todo' = [todo EXCEPT ![r] = steps]

UntilHandOver(r) == fade[r].hold - FirstTick

\* mutant of Dawn: the night mode schedule is not told
DawnUntold(r) == << Send(r, NightMode(FALSE)) >>

\* waking up ends the night, and the scheduler hears of it
Dawn(r) == << Send(r, NightMode(FALSE)), Announce(NightModeChanged(r, FALSE)) >>

NoSchedules == UNCHANGED <<lastFired, sweep, overrides, rung, heard, ring>>
NoNightButAsked == UNCHANGED <<scheduled, agenda, switching, suppressed, preWake, checked, spent>>

BeginFade(r) ==
  /\ FadeIs(r, "spawned")
  /\ FadeDoes(r, (IF rooms[r].nightMode THEN Dawn(r) ELSE <<>>)
                   \o << Send(r, CircadianPause(TRUE, UntilHandOver(r))), Send(r, Alarm(TRUE)) >>)
  /\ fade' = [fade EXCEPT ![r].phase = "first"]
  /\ asked' = [asked EXCEPT ![r] = IF rooms[r].nightMode THEN FALSE ELSE @]
  /\ Overlap(IF Settled(r) THEN {} ELSE {r})
  /\ NoSchedules /\ NoNightButAsked
  /\ UNCHANGED <<shared, rx, inbox, dedup, world, now, wish, cycle>>

\* mutant of Interrupted: a room that is lit goes on fading
InterruptedByDarkness(room) == ~room.lightsOn

\* interruption: somebody has taken over the room
Interrupted(room) ==
  ~room.lightsOn \/ room.nightMode \/ room.source # "Automation" \/ ~room.paused

\* the record first, then the lights, and a failure changes nothing; the last
\* step is the one that ends at the alarm time
StepSteps(r, level) ==
  << Send(r, LightsOnWithPush(level, "Automation")), Publish(r, "ON", level, None, <<>>, <<>>) >>

\* the first step comes without a look at the room
StepFade(r) ==
  /\ FadeIs(r, "first") \/ (FadeIs(r, "stepping") /\ now >= fade[r].at /\ ~Interrupted(rooms[r]))
  /\ IF Clock + 1 >= fade[r].end
     THEN /\ FadeDoes(r, StepSteps(r, "full") \o << Send(r, Alarm(FALSE)) >>)
          /\ fade' = [fade EXCEPT ![r] = None]
     ELSE /\ FadeDoes(r, StepSteps(r, "fade"))
          /\ fade' = [fade EXCEPT ![r].phase = "stepping", ![r].at = now + 1]
  /\ Overlap(IF Settled(r) THEN {} ELSE {r})
  /\ NoSchedules /\ NoNight /\ UNCHANGED spent
  /\ UNCHANGED <<shared, rx, inbox, dedup, world, now, wish, cycle>>

\* mutant of LiftSteps: the pause of the fade stays
LiftStepsNever(r) == <<>>

\* only its own pause
LiftSteps(r) ==
  IF rooms[r].paused /\ rooms[r].pausedUntil = UntilHandOver(r)
  THEN << Send(r, CircadianPause(FALSE, None)) >> ELSE <<>>

StopFade(r) ==
  /\ FadeIs(r, "stepping") /\ now >= fade[r].at /\ Interrupted(rooms[r])
  /\ FadeDoes(r, LiftSteps(r) \o << Send(r, Alarm(FALSE)) >>)
  /\ fade' = [fade EXCEPT ![r] = None]
  /\ Overlap(IF Settled(r) THEN {} ELSE {r})
  /\ NoSchedules /\ NoNight /\ UNCHANGED spent
  /\ UNCHANGED <<shared, rx, inbox, dedup, world, now, wish, cycle>>

-----------------------------------------------------------------------------
(* The users: requests for a room, and the settings of an alarm.            *)

TakeOver(rs, who) ==
  ring' = [r \in Rooms |->
             IF r \notin rs \/ ring[r] = None THEN ring[r]
             ELSE [ring[r] EXCEPT !.by = IF fade[r] # None THEN who
                                         ELSE IF @ = None THEN "later" ELSE @]]

\* a task that has read the room and is about to start fading
Starting(r) == fade[r] # None /\ fade[r].phase # "stepping"

RequestSteps(r, op) ==
  CASE op = "set"    -> SetRequest(r, None)
    [] op = "off"    -> OffRequest(r)
    [] op = "resume" -> ResumeRequest(r)
    [] op = "scene"  -> SceneRequest(r, None)
    [] op = "recall" -> RecallRequest(r, None)

AskRoom(p, r, op) ==
  /\ todo[p] = <<>> /\ switching[p] = None /\ agenda[p] = <<>>
  /\ Upsets + spent.presses < MaxEvents
  /\ spent' = [spent EXCEPT !.presses = @ + 1]
  /\ todo' = [todo EXCEPT ![p] = RequestSteps(r, op)]
  /\ TakeOver({r}, "request")
  /\ Overlap(IF Settled(r) /\ ~Starting(r) THEN {} ELSE {r})
  /\ NoNight
  /\ UNCHANGED <<shared, rx, inbox, dedup, world, now, wish, cycle,
                 lastFired, sweep, overrides, rung, fade, heard>>

\* set_alarm and reset_alarm, with the actor's part, which nobody waits for: an
\* override is replaced as a whole.  A fade that is running keeps its window.  Only
\* a check reads the overrides: it is enough to change them before one, when
\* nothing else is under way; bound: of one alarm at a time.
SetAlarm(id, setting) ==
  /\ checked = now /\ LightsOutIdle /\ ~LightsOutDue
  /\ \A t \in Tasks : todo[t] = <<>>
  /\ \A r \in Rooms : Settled(r)
  /\ setting # overrides[id]
  /\ \A other \in Ids \ {id} : overrides[other] = NoOverride
  /\ overrides' = [overrides EXCEPT ![id] = setting]
  /\ NoNight
  /\ UNCHANGED <<daemon, cycle, raced, spent, lastFired, sweep, rung, fade, heard, ring>>

-----------------------------------------------------------------------------
(* The rest of the daemon and the outside.                                  *)

\* what stands in NightMode and does not touch the alarms
NightSystem ==
  /\ \/ Actor
     \/ \E t \in Tasks : Step(t)
     \/ \E t \in Switchers : NextSwitch(t) \/ Decide(t)
     \/ HandleNightModeChanged
     \/ \E r \in Rooms : CyclesRoom(r)
     \/ ReadReport
     \/ Connection
     \/ BeginsCycle
  /\ UNCHANGED alarms

NoAlarms == UNCHANGED <<lastFired, sweep, overrides, rung, fade, heard>>

\* the schedule begins a night while an alarm fades, and did not before it
SchedulesNight ==
  /\ CheckSchedules
  /\ TakeOver({r \in Entered : asked[r] = None}, "schedule")
  /\ NoAlarms

UserPresses ==
  \E p \in Presses, r \in Rooms, active \in BOOLEAN :
    /\ Starting(r) => Overlaps
    /\ Press(p, {r}, active)
    /\ TakeOver({r}, "request")
    /\ NoAlarms

Hand ==
  \E r \in Rooms :
    /\ Starting(r) => Overlaps
    /\ Touch(r)
    /\ TakeOver({r}, "hand")
    /\ NoAlarms

Outage == LinkLost /\ TakeOver(Rooms, "outage") /\ NoAlarms

FiresLightsOut ==
  /\ FireLightsOut
  /\ TakeOver(sweep', "schedule")
  /\ Overlap({r \in sweep' : ~Settled(r) \/ Starting(r)})
  /\ NoNight
  /\ UNCHANGED <<daemon, cycle, spent, overrides, rung, fade, heard>>

SweepsRoom(r) ==
  /\ SweepRoom(r)
  /\ Overlap(IF Settled(r) THEN {} ELSE {r})
  /\ NoNight
  /\ UNCHANGED <<shared, rx, inbox, dedup, world, now, wish, cycle, spent,
                 overrides, rung, fade, heard, ring>>

\* A tick is longer than the intervals of the alarm scheduler and of lights-out,
\* and than a step of a fade.
AlarmTick ==
  /\ connected => DueNow = {}
  /\ LightsOutIdle /\ ~LightsOutDue
  /\ \A r \in Rooms : todo[r] = <<>> /\ (fade[r] # None => FadeIs(r, "stepping") /\ fade[r].at > now)
  /\ Tick
  /\ UNCHANGED alarms

AlarmNext ==
  \/ NightSystem
  \/ SchedulesNight
  \/ UserPresses
  \/ Hand
  \/ Outage
  \/ CheckAlarms
  \/ \E r \in Rooms : BeginFade(r) \/ StepFade(r) \/ StopFade(r)
  \/ \E p \in Presses, r \in Rooms, op \in Ops : AskRoom(p, r, op)
  \/ \E id \in Ids, setting \in Settings : SetAlarm(id, setting)
  \/ FiresLightsOut
  \/ \E r \in Rooms : SweepsRoom(r)
  \/ AlarmTick

AlarmSpec == AlarmInit /\ [][AlarmNext]_allVars

-----------------------------------------------------------------------------
(* Properties.                                                              *)

\* At the alarm time the lights of the room are fully on, the night is over for
\* the room and for the schedule that would begin it again, and circadian stays
\* off the lights until the hand-over; unless somebody took the room over.
FadesIn ==
  \A r \in Rooms :
    /\ Settled(r) /\ ~raced[r]
    /\ ring[r] # None /\ ring[r].by = None /\ Clock >= ring[r].end
    => /\ rooms[r].lightsOn /\ bulb[r].on /\ ~rooms[r].nightMode
       /\ bulb[r].level = "full" \/ (Clock >= ring[r].hold /\ bulb[r].level = "circadian")

\* A fade that is over or was stopped leaves nothing behind: no alarm that looks
\* as if it were active, and no pause of its own in a room that a user has taken
\* over from it, where it would outlast what the user asked for.
FadeLeavesNothing ==
  \A r \in Rooms :
    Settled(r) /\ ~raced[r] /\ fade[r] = None =>
      /\ ~rooms[r].alarm
      /\ ring[r] # None /\ ring[r].by = "request" /\ spent.outages = 0 =>
           rooms[r].pausedUntil # ring[r].hold - FirstTick

\* Alarms leave the rest of the daemon sound: nothing of a fade outlives it, and
\* night mode is as the user or the schedule asked, also where a fade has ended
\* it or the user has begun it during one.
AlarmSound == AlarmTypeOK /\ NightAsAsked /\ FadeLeavesNothing

\* the fade hands a step to the MQTT client
FadePushes(r) == HeadIs(r, "publish") /\ todo'[r] # todo[r]

\* "Turning the lights off, dimming them, picking a scene or switching night mode
\* on stops the fade" (README.md): a fade does not push over what a user has
\* asked for, unless the request overlaps the step or fails.
FadeYields ==
  [][\A r \in Rooms :
       FadePushes(r) /\ ring[r].by = "request" /\ spent.outages = 0 => raced[r]]_allVars

\* An alarm fades a room in once a day: not after it was stopped, not when it
\* skipped the room because the lights were on and they have gone off since, and
\* not after somebody has moved the alarm to a later time of the day.
RingsOnce ==
  [][\A r \in Rooms :
       fade[r] = None /\ fade'[r] # None =>
         <<fade'[r].id, Times!Today(fade'[r].end)>> \notin heard]_allVars

\* Lights-out leaves the rooms dark that it found lit and could reach.
LightsOutDarkens ==
  \A r \in LightsOutRooms :
    Settled(r) /\ ~raced[r] /\ LightsOutIdle /\ lastFired = Date /\ TimeOfDay = LightsOutAt
      /\ Upsets + spent.presses = 0
      => ~rooms[r].lightsOn /\ ~bulb[r].on

=============================================================================
