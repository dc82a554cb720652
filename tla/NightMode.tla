------------------------------ MODULE NightMode ------------------------------
(***************************************************************************)
(* Night mode (night_mode.rs): the handlers that switch it, which every    *)
(* caller runs as its own task, and the scheduler, which switches rooms by *)
(* the clock: into their schedule's window, out of it, and out of night    *)
(* mode in the morning.  Composed with the circadian engine, whose cycles  *)
(* skip a room in night mode.                                              *)
(*                                                                         *)
(* External: the users at the API and the remotes, and whoever switches a  *)
(* light by hand.  Every room has circadian_enabled.                       *)
(***************************************************************************)
EXTENDS CircadianEngine, Integers

CONSTANTS
  Presses,        \* the tasks that users' switches run in: requests, remotes
  TurnOnWhenOff,  \* turn_on_when_off
  Day,            \* the ticks of a day, counted from midnight
  Window,         \* the ticks of the day in the rooms' night mode schedule
  Wake,           \* the tick of wake_time
  CatchUp,        \* the hour after wake_time, in ticks
  Stale,          \* the two hours a stale night mode is old, in ticks
  FirstTick,      \* the tick of the day a behaviour starts at
  Overlaps,       \* bound: are behaviours explored past the first overlap
  MaxTime,        \* bound: the clock stops here
  MaxEvents,      \* bound: what users and the outside do in all
  MaxUpsets       \* bound: lights switched by hand and lost connections

ASSUME NightAssumption ==
  /\ {"night", "circadian", "mqtt"} \cap Presses = {}
  /\ Presses \union {"night", "circadian", "mqtt"} \subseteq Tasks
  /\ "night" \in Subscribers \cap Levels
  /\ {TurnOnWhenOff, Overlaps} \subseteq BOOLEAN
  /\ Day \in Nat \ {0}
  /\ Window \subseteq 0..(Day - 1)
  /\ {Wake, FirstTick} \subseteq 0..(Day - 1)
  /\ {CatchUp, Stale, MaxTime, MaxEvents, MaxUpsets} \subseteq Nat

\* the tasks that switch night mode, or else the lights themselves
Switchers == Tasks \ {"circadian", "mqtt"}

VARIABLES
  scheduled,   \* has a room a night_mode.schedule; it never changes
  agenda,      \* the switches each task has left, in the order of its loops
  switching,   \* the switch each task is in the middle of
  suppressed,  \* NightModeScheduler.suppressed
  preWake,     \* NightModeScheduler.pre_wake
  checked,     \* history: when the scheduler checked last
  asked,       \* history: what a user last asked for in this window or night
  raced,       \* history: have two tasks overlapped on the room so far
  spent        \* bound: how much of each bounded event has happened

night == <<scheduled, agenda, switching, suppressed, preWake, checked, asked, raced, spent>>
vars  == <<daemon, cycle, night>>

Switch(r, active, user) == [room |-> r, active |-> active, user |-> user]
Switches == [room : Rooms, active : BOOLEAN, user : BOOLEAN]
ASSUME NoneIsNoSwitch == None \notin Switches

TypeOK ==
  /\ DaemonTypeOK
  /\ EngineTypeOK
  /\ scheduled \in [Rooms -> BOOLEAN]
  /\ agenda \in [Switchers -> Seq(SUBSET Switches)]
  /\ switching \in [Switchers -> Switches \union {None}]
  /\ suppressed \subseteq Rooms
  /\ preWake \subseteq Rooms
  /\ checked \in MaybeInstant
  /\ asked \in [Rooms -> BOOLEAN \union {None}]
  /\ raced \in [Rooms -> BOOLEAN]
  /\ spent \in [presses : Nat, touches : Nat, outages : Nat]

Init ==
  /\ DaemonInit({DarkRoom, LitRoom})
  /\ EngineInit
  /\ scheduled \in [Rooms -> BOOLEAN]
  /\ agenda = [t \in Switchers |-> <<>>]
  /\ switching = [t \in Switchers |-> None]
  /\ suppressed = {}
  /\ preWake = {}
  /\ checked = None
  /\ asked = [r \in Rooms |-> None]
  /\ raced = [r \in Rooms |-> FALSE]
  /\ spent = [presses |-> 0, touches |-> 0, outages |-> 0]

-----------------------------------------------------------------------------
(* The clock, and overlaps of tasks on a room.                              *)

TimeOfDay == (FirstTick + now) % Day
InWindow  == TimeOfDay \in Window

\* the task switches the room, or has it on its list
Holds(t, r) ==
  \/ Busy(t, r)
  \/ switching[t] # None /\ switching[t].room = r
  \/ \E i \in 1..Len(agenda[t]) : \E s \in agenda[t][i] : s.room = r

NightModeChanged(r, active) == [event |-> "NightModeChanged", room |-> r, active |-> active]

\* a switch the scheduler has not heard of yet
Unheard(r) ==
  \/ \E t \in Tasks : \E i \in 1..Len(todo[t]) :
       todo[t][i] = Announce(NightModeChanged(r, FALSE))
  \/ \E i \in 1..Len(inbox["night"]) : inbox["night"][i].room = r

Settled(r) ==
  ~ (\/ \E t \in Switchers : Holds(t, r)
     \/ EngineBusy(r) \/ Busy("mqtt", r)
     \/ Reported(r) \/ Outstanding(r) \/ Unheard(r))

Overlap(rs) ==
  /\ rs # {} => Overlaps
  /\ raced' = [r \in Rooms |-> raced[r] \/ r \in rs]

-----------------------------------------------------------------------------
(* activate_night_mode and deactivate_night_mode: the flag and the pause    *)
(* first, then a look at lights_on, and by that the lights.                 *)

\* a task takes the next room on its list: the rooms come in the order of a hash
\* map, and in any order here when the whole house, sorted by name, is switched
NextSwitch(t) ==
  /\ todo[t] = <<>> /\ switching[t] = None /\ agenda[t] # <<>>
  /\ \E s \in Head(agenda[t]) :
       /\ switching' = [switching EXCEPT ![t] = s]
       /\ agenda' = [agenda EXCEPT ![t] =
                       IF Head(@) = {s} THEN Tail(@) ELSE << Head(@) \ {s} >> \o Tail(@)]
       /\ todo' = [todo EXCEPT ![t] =
                     << Send(s.room, NightMode(s.active)),
                        Send(s.room, CircadianPause(s.active, None)) >>]
  /\ UNCHANGED <<shared, rx, inbox, dedup, world, now, wish, cycle,
                 scheduled, suppressed, preWake, checked, asked, raced, spent>>

Pushed(r, level, source) == << Send(r, LightsOnWithPush(level, source)) >>
Told(s) == << Announce(NightModeChanged(s.room, s.active)) >>

\* mutant of NightSteps: who asked makes no difference
NightStepsAnyTrigger(s, lit) ==
  IF lit \/ TurnOnWhenOff
  THEN << Publish(s.room, "ON", "night", None,
            Pushed(s.room, "night", "Automation") \o Told(s), <<>>) >>
  ELSE Told(s)

\* should_push_night_values; a failed publish ends the handler, with the flag
\* and the pause set and nobody told
NightSteps(s, lit) ==
  IF lit \/ (s.user /\ TurnOnWhenOff)
  THEN << Publish(s.room, "ON", "night", None,
            Pushed(s.room, "night", "Automation") \o Told(s), <<>>) >>
  ELSE Told(s)

\* mutant of DaySteps: the values are left to the next cycle
DayStepsQuiet(s, lit) == Told(s)

\* a failed publish is ignored
DaySteps(s, lit) ==
  IF lit
  THEN LET after == Pushed(s.room, "circadian", "Circadian") \o Told(s)
       IN  << Send(s.room, LightsOn(None, "Circadian")),
              Publish(s.room, "ON", "circadian", None, after, after) >>
  ELSE Told(s)

\* both have been sent, and not necessarily applied
Decide(t) ==
  /\ todo[t] = <<>> /\ switching[t] # None
  /\ LET s == switching[t]
         lit == rooms[s.room].lightsOn
     IN  todo' = [todo EXCEPT ![t] = IF s.active THEN NightSteps(s, lit) ELSE DaySteps(s, lit)]
  /\ switching' = [switching EXCEPT ![t] = None]
  /\ UNCHANGED <<shared, rx, inbox, dedup, world, now, wish, cycle,
                 scheduled, agenda, suppressed, preWake, checked, asked, raced, spent>>

-----------------------------------------------------------------------------
(* The users: one room (set_night_mode, the remotes), or the whole house    *)
(* (set_house_night_mode).                                                  *)

Upsets == spent.touches + spent.outages

Press(p, rs, active) ==
  /\ todo[p] = <<>> /\ switching[p] = None /\ agenda[p] = <<>>
  /\ Upsets + spent.presses < MaxEvents
  /\ spent' = [spent EXCEPT !.presses = @ + 1]
  /\ agenda' = [agenda EXCEPT ![p] = << {Switch(r, active, TRUE) : r \in rs} >>]
  /\ asked' = [r \in Rooms |-> IF r \in rs THEN active ELSE asked[r]]
  /\ Overlap({r \in rs : ~Settled(r) \/ (TimeOfDay = Wake /\ checked # now)})
  /\ UNCHANGED <<daemon, cycle, scheduled, switching, suppressed, preWake, checked>>

-----------------------------------------------------------------------------
(* The scheduler: one task, which handles a check or an event to its end    *)
(* before the next one.  Its own sets are its own, so that what a check     *)
(* switches is settled by the snapshot and the time it begins with.         *)

SchedulerIdle == todo["night"] = <<>> /\ switching["night"] = None /\ agenda["night"] = <<>>

OffBy(rs) == {Switch(r, FALSE, FALSE) : r \in rs}
OnBy(rs)  == {Switch(r, TRUE, FALSE) : r \in rs}

Active  == {r \in Rooms : rooms[r].nightMode}
Entered == {r \in Rooms \ (Active \union suppressed) : scheduled[r] /\ InWindow}
Left    == {r \in Active : scheduled[r] /\ ~InWindow}

\* should_wake_deactivate
Woken == IF TimeOfDay < Wake THEN {} ELSE preWake \cap Active

\* the fallback, within an hour of wake_time
Forgotten ==
  {r \in Active \ Woken : /\ TimeOfDay \in Wake..(Wake + CatchUp)
                          /\ now - rooms[r].nightSince > Stale}

\* a pass over the rooms, which is none when there is nothing to switch
Pass(switches) == IF switches = {} THEN <<>> ELSE << switches >>

\* mutant of Passes: no pass by the wake time
PassesWindowOnly == Pass(OnBy(Entered) \union OffBy(Left))

Passes == Pass(OnBy(Entered) \union OffBy(Left)) \o Pass(OffBy(Woken)) \o Pass(OffBy(Forgotten))
Outside == {r \in Rooms : scheduled[r] /\ ~InWindow}

\* check_schedules: three passes over the rooms on one snapshot.  Outside its
\* window nothing a user asked of a room holds.
CheckSchedules ==
  /\ SchedulerIdle
  /\ agenda' = [agenda EXCEPT !["night"] = Passes]
  /\ suppressed' = (suppressed \ Outside) \union Woken \union Forgotten
  /\ preWake' = IF TimeOfDay < Wake THEN Rooms ELSE {}
  /\ checked' = now
  /\ asked' = [r \in Rooms |-> IF r \in Outside THEN None ELSE asked[r]]
  /\ Overlap({r \in Rooms :
                 \/ Unheard(r) \/ \E t \in Switchers \ {"night"} : Holds(t, r)
                 \/ ~Settled(r) /\ \E i \in 1..Len(Passes) : \E s \in Passes[i] : s.room = r})
  /\ UNCHANGED <<daemon, cycle, scheduled, switching, spent>>

\* mutant of HandleNightModeChanged: the event is not looked at
HandleNightModeChangedIgnored ==
  /\ SchedulerIdle
  /\ inbox["night"] # <<>>
  /\ inbox' = [inbox EXCEPT !["night"] = Tail(@)]
  /\ UNCHANGED <<shared, rx, todo, dedup, world, now, wish, cycle, night>>

\* an event of a deactivation
HandleNightModeChanged ==
  /\ SchedulerIdle
  /\ inbox["night"] # <<>>
  /\ inbox' = [inbox EXCEPT !["night"] = Tail(@)]
  /\ suppressed' = suppressed \union {Head(inbox["night"]).room}
  /\ UNCHANGED <<shared, rx, todo, dedup, world, now, wish, cycle,
                 scheduled, agenda, switching, preWake, checked, asked, raced, spent>>

-----------------------------------------------------------------------------
(* The rest of the daemon and the outside, with the history of overlaps.    *)

AnySwitches(r) == \E t \in Switchers : Holds(t, r)

Actor == (ApplyRoomUpdate \/ ApplyConnected) /\ UNCHANGED <<cycle, night>>

Step(t) == TaskStep(t) /\ UNCHANGED <<cycle, night>>

NoNight == UNCHANGED <<scheduled, agenda, switching, suppressed, preWake, checked, asked>>

BeginsCycle ==
  /\ CycleTick \/ HandleMqttConnected
  /\ Overlap({r \in Lit : connected /\ (AnySwitches(r) \/ Busy("mqtt", r))})
  /\ NoNight /\ UNCHANGED spent

CyclesRoom(r) == CycleRoom(r) /\ UNCHANGED night

ReadReport ==
  /\ HandleReport
  /\ LET r == Head(reports).room
     IN  Overlap(IF EngineBusy(r) \/ AnySwitches(r) THEN {r} ELSE {})
  /\ NoNight /\ UNCHANGED <<cycle, spent>>

Connection == (PollError \/ ConnAck \/ DeliverQueued) /\ UNCHANGED <<cycle, night>>

Touch(r) ==
  /\ Upsets < MaxUpsets /\ Upsets + spent.presses < MaxEvents
  /\ spent' = [spent EXCEPT !.touches = @ + 1]
  /\ TouchLight(r)
  /\ Overlap(IF link # "up" \/ EngineBusy(r) \/ AnySwitches(r) THEN {r} ELSE {})
  /\ NoNight /\ UNCHANGED cycle

LinkLost ==
  /\ Upsets < MaxUpsets /\ Upsets + spent.presses < MaxEvents
  /\ spent' = [spent EXCEPT !.outages = @ + 1]
  /\ LoseLink
  /\ Overlap({r \in Rooms : Reported(r)})
  /\ NoNight /\ UNCHANGED cycle

\* A tick is longer than a few intervals of the scheduler, which has heard of
\* every switch by then.  In the morning, what a user asked of a room is over.
Tick ==
  /\ now < MaxTime
  /\ checked = now /\ SchedulerIdle
  /\ suppressed \cap Outside = {}
  /\ \A r \in Rooms : ~Unheard(r)
  /\ PassTime
  /\ asked' = IF (TimeOfDay + 1) % Day = Wake THEN [r \in Rooms |-> None] ELSE asked
  /\ UNCHANGED <<cycle, scheduled, agenda, switching, suppressed, preWake, checked, raced, spent>>

System ==
  \/ Actor
  \/ \E t \in Tasks : Step(t)
  \/ \E t \in Switchers : NextSwitch(t) \/ Decide(t)
  \/ CheckSchedules
  \/ HandleNightModeChanged
  \/ \E r \in Rooms : CyclesRoom(r)
  \/ ReadReport
  \/ Connection

Next ==
  \/ System
  \/ Tick
  \/ \E p \in Presses, active \in BOOLEAN :
       Press(p, Rooms, active) \/ \E r \in Rooms : Press(p, {r}, active)
  \/ BeginsCycle
  \/ \E r \in Rooms : Touch(r)
  \/ LinkLost

\* The daemon as a whole does not stop while one of its tasks can go on, and the
\* clock goes on.  The cycles of the engine need not come.
Fairness ==
  /\ WF_vars(System)
  /\ SF_vars(Tick)

Spec == Init /\ [][Next]_vars
FairSpec == Spec /\ Fairness

-----------------------------------------------------------------------------
(* Properties.                                                              *)

\* the window has begun and the morning has not come
Armed == InWindow /\ TimeOfDay \notin Wake..(Wake + CatchUp)

\* Once everything about a room has settled and the scheduler has checked, the
\* room is in night mode when a user's last switch of this window said so, and
\* by the schedule otherwise: a switch-off is not undone before the next
\* evening, a switch-on not before the morning, and the next evening begins
\* anew.  Unless two tasks overlapped on the room.
NightAsAsked ==
  \A r \in Rooms : Settled(r) /\ ~raced[r] /\ checked = now =>
    rooms[r].nightMode = IF asked[r] # None THEN asked[r] ELSE scheduled[r] /\ Armed

\* Night mode, the pause and the lights of a settled room fit together: a lit
\* room in night mode shows the night values, and one that is not in night mode
\* is left to circadian.  Unless two tasks overlapped, or somebody touched the
\* lights, or a publish failed.
NightShows ==
  \A r \in Rooms : Settled(r) /\ ~raced[r] /\ Upsets = 0 =>
    IF rooms[r].nightMode
    THEN rooms[r].paused /\ (bulb[r].on => bulb[r].level = "night")
    ELSE ~rooms[r].paused /\ bulb[r].level # "night"

\* Mode, pause and lights are well formed and fit together.
NightSound == TypeOK /\ NightShows

\* "Scheduled night mode never turns lights on" (README.md), nor does the
\* morning; unless somebody switches them off just then.
ScheduleKeepsDark ==
  [][\A r \in Rooms :
       /\ HeadIs("night", "publish") /\ Head(todo["night"]).room = r
       /\ todo'["night"] # todo["night"]
       /\ ~raced[r]
       => bulb[r].on]_vars

\* The night mode of a night does not outlive the morning.
NightEnds ==
  \A r \in Rooms :
    (rooms[r].nightMode /\ now < (Wake + Day - FirstTick) % Day) ~> ~rooms[r].nightMode

=============================================================================
