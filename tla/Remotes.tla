------------------------------- MODULE Remotes -------------------------------
(***************************************************************************)
(* Lights that follow a remote: how the MQTT loop tells presses from their *)
(* repetitions (mqtt/z2m.rs), the built-in remote handling of the          *)
(* automation engine with its hold-to-dim sessions (automation/mod.rs),    *)
(* and the tasks it spawns; with the circadian engine, which must leave    *)
(* alone what was dimmed by hand.                                          *)
(*                                                                         *)
(* Brightness is a position on a scale: a click moves the light to the     *)
(* next one, a hold ramps it by one position in a tick of the clock.       *)
(* Night and day mode from a remote end a session as any press that does   *)
(* not dim; what they do then is in NightMode.                             *)
(*                                                                         *)
(* External: the remotes, one for each room, and whoever switches a light  *)
(* by hand.                                                                *)
(***************************************************************************)
EXTENDS CircadianEngine, RoomActions, SequencesExt

CONSTANTS
  Workers,         \* the tasks the engine can have spawned at a time
  Scale,           \* the levels from the darkest to the brightest
  OverrideTtl,     \* manual_override_ttl_mins, in ticks
  TrustWindow,     \* REMOTE_BASE_TRUST_WINDOW, in ticks
  Overlaps,        \* bound: are behaviours explored past the first overlap
  MaxTime,         \* bound: the clock stops here
  MaxPresses,      \* bound: presses of the remotes' buttons
  MaxRepublished,  \* bound: actions published again by Z2M
  MaxTouches,      \* bound: lights switched by hand
  MaxOutages,      \* bound: losses of the broker connection
  MaxEvents        \* bound: all of these together

ASSUME RemotesAssumption ==
  /\ {"automation", "circadian", "mqtt"} \cap Workers = {}
  /\ Tasks = Workers \union {"automation", "circadian", "mqtt"}
  /\ Subscribers = {"automation", "circadian"}
  /\ None \notin Workers /\ None \notin DOMAIN Scale
  /\ None \notin [room : Rooms, on : BOOLEAN]
  /\ None \notin [up : BOOLEAN, start : DOMAIN Scale, started : Nat]
  /\ Scale \in Seq(Levels) /\ IsInjective(Scale) /\ ToSet(Scale) = Levels
  /\ IsFiniteSet(Rooms)
  /\ {OverrideTtl, TrustWindow} \subseteq Nat \ {0}
  /\ Overlaps \in BOOLEAN
  /\ {MaxTime, MaxPresses, MaxRepublished, MaxTouches, MaxOutages, MaxEvents} \subseteq Nat

\* RemoteActionType
Switches == {"toggle", "on", "off"}
Clicks   == {"step_up", "step_down"}
Holds    == {"hold_up", "hold_down"}
Buttons  == Switches \union Clicks \union Holds \union {"stop"}
Up(button) == button \in {"step_up", "hold_up"}

VARIABLES
  recorded,  \* REMOTE_ACTION_STATE: the last action of each remote, and when
  session,   \* dimming_sessions: the ramp running in each room
  press,     \* how far the engine is with a press that dims
  job,       \* what each spawned task has not begun yet
  asked,     \* history: what the last press asked of each room's lights
  raced,     \* history: have two tasks overlapped on the room so far
  spent      \* bound: how much of each bounded event has happened

remotes == <<recorded, session, press, job, asked, raced, spent>>
vars    == <<daemon, cycle, remotes>>

Positions == DOMAIN Scale
NoPress   == [at |-> "idle"]

TypeOK ==
  /\ DaemonTypeOK
  /\ EngineTypeOK
  /\ recorded \in [Rooms -> [action : Buttons, at : Nat] \union {None}]
  /\ session \in [Rooms -> [up : BOOLEAN, start : Positions, started : Nat] \union {None}]
  /\ press \in {NoPress}
       \union [at : {"look"}, room : Rooms, action : Clicks \union Holds,
               base : Positions \union {None}]
       \union [at : {"set", "ramp"}, room : Rooms, action : Clicks \union Holds, base : Positions]
  /\ job \in [Workers -> [room : Rooms, on : BOOLEAN] \union {None}]
  /\ asked \in [Rooms -> Bulb \union {None}]
  /\ raced \in [Rooms -> BOOLEAN]
  /\ spent \in [presses : Nat, republished : Nat, touches : Nat, outages : Nat]

Init ==
  /\ DaemonInit({DarkRoom, LitRoom})
  /\ EngineInit
  /\ recorded = [r \in Rooms |-> None]
  /\ session = [r \in Rooms |-> None]
  /\ press = NoPress
  /\ job = [w \in Workers |-> None]
  /\ asked = [r \in Rooms |-> None]
  /\ raced = [r \in Rooms |-> FALSE]
  /\ spent = [presses |-> 0, republished |-> 0, touches |-> 0, outages |-> 0]

Bound == [presses |-> MaxPresses, republished |-> MaxRepublished,
          touches |-> MaxTouches, outages |-> MaxOutages]

Spend(kind) ==
  /\ spent[kind] < Bound[kind]
  /\ spent.presses + spent.republished + spent.touches + spent.outages < MaxEvents
  /\ spent' = [spent EXCEPT ![kind] = @ + 1]

-----------------------------------------------------------------------------
(* Brightness.                                                              *)

Position(level) == CHOOSE i \in Positions : Scale[i] = level

\* perceptual_step, and where a ramp gets to in n ticks: the ends are the limits
Moved(i, up, n) ==
  IF up THEN IF i + n > Len(Scale) THEN Len(Scale) ELSE i + n
  ELSE IF n >= i THEN 1 ELSE i - n

\* mutant of RemoteBase: the reported level is never trusted again
RemoteBaseIntended(room) == Position(Or(room.intended, Or(room.current, "circadian")))

\* remote_base_brightness: soon after a push what was asked for, later what was
\* reported.  (A lit room has one of the two; 128 is for one that has none.)
RemoteBase(room) ==
  Position(IF room.lastPush # None /\ now - room.lastPush < TrustWindow
           THEN Or(room.intended, Or(room.current, "circadian"))
           ELSE Or(room.current, Or(room.intended, "circadian")))

\* DimSession: is_running until the ramp must have reached an end, and
\* brightness_at
Running(s) == now - s.started < Len(Scale) - 1
Reached(s) == Moved(s.start, s.up, now - s.started)

-----------------------------------------------------------------------------
(* Overlaps of tasks on a room.                                             *)

MqttBusy(r) == Busy("mqtt", r)
AutomationBusy(r) ==
  \/ Busy("automation", r)
  \/ press # NoPress /\ press.room = r
  \/ recorded[r] # None /\ HeadIs("mqtt", "announce")
  \/ \E i \in 1..Len(inbox["automation"]) : inbox["automation"][i].room = r
  \/ \E w \in Workers : Busy(w, r) \/ (job[w] # None /\ job[w].room = r)

Settled(r) ==
  ~ (EngineBusy(r) \/ MqttBusy(r) \/ AutomationBusy(r) \/ Reported(r) \/ Outstanding(r))

Overlap(rs) ==
  /\ rs # {} => Overlaps
  /\ raced' = [r \in Rooms |-> raced[r] \/ r \in rs]

-----------------------------------------------------------------------------
(* The remotes, and the MQTT loop on what they say.                         *)

\* mutant of Counts: whatever comes is a press
CountsAlways(r, action) == TRUE

\* record_remote_action: what repeats the last action within the dedup window,
\* which is shorter than a tick, is no press
Counts(r, action) ==
  recorded[r] = None \/ recorded[r].action # action \/ now > recorded[r].at

\* Z2M publishes an action of the remote, and the loop takes it at once
Published(r, action) ==
  /\ LoopIdle
  /\ link = "up"
  /\ IF Counts(r, action)
     THEN /\ LoopDoes(<< Announce([event |-> "RemoteAction", room |-> r, action |-> action]) >>)
          /\ recorded' = [recorded EXCEPT ![r] = [action |-> action, at |-> now]]
     ELSE UNCHANGED <<todo, recorded>>
  /\ UNCHANGED <<shared, rx, inbox, dedup, world, now, wish, cycle, session, press, job>>

Lamp(on, level) == [on |-> on, level |-> level, ramp |-> "none"]

\* history: what the user who presses now wants of the lights that they see
Wanted(r, action) ==
  LET b == bulb[r]
  IN  CASE action \in {"on", "off"}         -> Lamp(action = "on", "circadian")
        [] action = "toggle"                -> Lamp(~b.on, "circadian")
        [] action \in Clicks /\ b.on        ->
             LET i == Moved(Position(b.level), Up(action), 1)
             IN  IF Scale[i] = b.level THEN asked[r] ELSE Lamp(TRUE, Scale[i])
        [] action \in Holds /\ b.on         -> None
        [] action = "stop" /\ b.ramp # "none" -> Lamp(TRUE, b.level)
        [] OTHER                            -> asked[r]

\* nobody presses the same button again before the window is over
Press(r, action) ==
  /\ Spend("presses")
  /\ recorded[r] # None => recorded[r].action # action \/ now > recorded[r].at
  /\ Published(r, action)
  /\ asked' = [asked EXCEPT ![r] = Wanted(r, action)]
  /\ Overlap(IF Settled(r) THEN {} ELSE {r})

\* Z2M publishes the last action again, as a storm within the same instant
Republish(r) ==
  /\ Spend("republished")
  /\ recorded[r] # None /\ now = recorded[r].at
  /\ Published(r, recorded[r].action)
  /\ UNCHANGED <<asked, raced>>

-----------------------------------------------------------------------------
(* The engine (handle_builtin_remote).  It dims by itself, one press at a   *)
(* time, and spawns a task for everything else.                             *)

Takes(actions) ==
  /\ press = NoPress /\ todo["automation"] = <<>>
  /\ inbox["automation"] # <<>>
  /\ Head(inbox["automation"]).action \in actions
  /\ inbox' = [inbox EXCEPT !["automation"] = Tail(@)]

Free(w) == job[w] = None /\ todo[w] = <<>>

\* a press that does not dim supersedes the ramp: the session is dropped, and
\* the task that is spawned will overwrite it.  A toggle decides by what the
\* state says now.
HandleSwitch ==
  /\ Takes(Switches)
  /\ LET e == Head(inbox["automation"])
         on == IF e.action = "toggle" THEN ~rooms[e.room].lightsOn ELSE e.action = "on"
     IN  /\ session' = [session EXCEPT ![e.room] = None]
         /\ \E w \in Workers : Free(w) /\ job' = [job EXCEPT ![w] = [room |-> e.room, on |-> on]]
  /\ UNCHANGED <<shared, rx, todo, dedup, world, now, wish, cycle,
                 recorded, press, asked, raced, spent>>

\* mutant of StopSteps: the session is dropped without a word to the lights
StopStepsSilent(r) == <<>>

\* stop_continuous_dimming: an error of the publish is ignored, and where the
\* ramp got to is recorded as a push of the user's
StopSteps(r) ==
  IF session[r] = None THEN <<>>
  ELSE LET record == << Send(r, LightsOnWithPush(Scale[Reached(session[r])], "Manual")) >>
       IN  << Publish(r, "stop", None, None, record, record) >>

StopSession(r) ==
  /\ todo' = [todo EXCEPT !["automation"] = StopSteps(r)]
  /\ session' = [session EXCEPT ![r] = None]

HandleStop ==
  /\ Takes({"stop"})
  /\ StopSession(Head(inbox["automation"]).room)
  /\ UNCHANGED <<shared, rx, dedup, world, now, wish, cycle,
                 recorded, press, job, asked, raced, spent>>

\* some remotes repeat a hold while it lasts
Repeats(e) ==
  e.action \in Holds /\ session[e.room] # None
    /\ session[e.room].up = Up(e.action) /\ Running(session[e.room])

\* step_brightness and start_continuous_dimming both end the session first
HandleDimming ==
  /\ Takes(Clicks \union Holds)
  /\ LET e == Head(inbox["automation"])
     IN  IF Repeats(e) THEN UNCHANGED <<todo, session, press>>
         ELSE /\ StopSession(e.room)
              /\ press' = [at |-> "look", room |-> e.room, action |-> e.action,
                           base |-> IF session[e.room] = None THEN None
                                    ELSE Reached(session[e.room])]
  /\ UNCHANGED <<shared, rx, dedup, world, now, wish, cycle,
                 recorded, job, asked, raced, spent>>

Proceeds(at) == press.at = at /\ todo["automation"] = <<>>

\* circadian is paused, without a deadline, and the override has a TTL
Claim(r) == << Send(r, CircadianPause(TRUE, None)),
               Send(r, ManualOverrideTtl(now + OverrideTtl)) >>

\* only then does the engine look at the room: nothing in a dark one, and
\* nothing for a click at the limit
Look ==
  /\ Proceeds("look")
  /\ LET r == press.room
         base == IF press.base # None THEN press.base ELSE RemoteBase(rooms[r])
         next == Moved(base, Up(press.action), 1)
     IN  IF ~rooms[r].lightsOn \/ (press.action \in Clicks /\ next = base)
         THEN press' = NoPress /\ UNCHANGED todo
         ELSE IF press.action \in Clicks
         THEN /\ press' = [press EXCEPT !.at = "set", !.base = next]
              /\ todo' = [todo EXCEPT !["automation"] = Claim(r)]
         ELSE /\ press' = [press EXCEPT !.at = "ramp", !.base = base]
              /\ todo' = [todo EXCEPT !["automation"] = Claim(r) \o
                    << Publish(r, IF Up(press.action) THEN "up" ELSE "down",
                               None, None, <<>>, <<>>) >>]
  /\ UNCHANGED <<shared, rx, inbox, dedup, world, now, wish, cycle,
                 recorded, session, job, asked, raced, spent>>

\* the rest of set_manual_brightness: the action, then the source the TTL needs
SetLevel ==
  /\ Proceeds("set")
  /\ todo' = [todo EXCEPT !["automation"] =
       LightsOnAction(press.room, Scale[press.base], "Automation",
                      << Send(press.room, LightsOn(None, "Manual")) >>)]
  /\ press' = NoPress
  /\ UNCHANGED <<shared, rx, inbox, dedup, world, now, wish, cycle,
                 recorded, session, job, asked, raced, spent>>

\* the ramp is a session once its publish has succeeded
AtRampPublish == press.at = "ramp" /\ HeadIs("automation", "publish")
BeginRamp ==
  /\ AtRampPublish
  /\ \/ /\ PublishStep("automation") \/ PublishQueuedStep("automation")
        /\ session' = [session EXCEPT ![press.room] =
                         [up |-> Up(press.action), start |-> press.base, started |-> now]]
     \/ PublishTimeoutStep("automation") /\ UNCHANGED session
  /\ press' = NoPress
  /\ UNCHANGED <<cycle, recorded, job, asked, raced, spent>>

\* a spawned task begins
Begin(w) ==
  /\ job[w] # None
  /\ job' = [job EXCEPT ![w] = None]
  /\ todo' = [todo EXCEPT ![w] =
       IF job[w].on THEN LightsOnAction(job[w].room, "circadian", "Automation", <<>>)
       ELSE LightsOffAction(job[w].room)]
  /\ UNCHANGED <<shared, rx, inbox, dedup, world, now, wish, cycle,
                 recorded, session, press, asked, raced, spent>>

-----------------------------------------------------------------------------
(* The circadian engine, the daemon and the outside.                        *)

UnchangedRemotes == UNCHANGED <<recorded, session, press, job, asked, spent>>

BeginsCycle ==
  /\ CycleTick \/ HandleMqttConnected
  /\ Overlap({r \in Lit : connected /\ (MqttBusy(r) \/ AutomationBusy(r))})
  /\ UnchangedRemotes

CyclesRoom(r) == CycleRoom(r) /\ UNCHANGED remotes

Actor == (ApplyRoomUpdate \/ ApplyConnected) /\ UNCHANGED <<cycle, remotes>>

Step(t) ==
  /\ ~(t = "automation" /\ AtRampPublish)
  /\ TaskStep(t)
  /\ UNCHANGED <<cycle, remotes>>

ReadReport ==
  /\ HandleReport
  /\ LET r == Head(reports).room
     IN  Overlap(IF EngineBusy(r) \/ AutomationBusy(r) THEN {r} ELSE {})
  /\ UNCHANGED cycle
  /\ UnchangedRemotes

Connection == (PollError \/ ConnAck \/ DeliverQueued) /\ UNCHANGED <<cycle, remotes>>

\* a light that is switched by hand overlaps with its ramp, of whose end the
\* session only has an estimate, and with a push that the engine still trusts
Trusted(r) ==
  session[r] # None \/ (rooms[r].lastPush # None /\ now - rooms[r].lastPush < TrustWindow)

Touch(r) ==
  /\ Spend("touches")
  /\ TouchLight(r)
  /\ asked' = [asked EXCEPT ![r] = None]
  /\ Overlap(IF link # "up" \/ EngineBusy(r) \/ AutomationBusy(r) \/ Trusted(r)
             THEN {r} ELSE {})
  /\ UNCHANGED <<cycle, recorded, session, press, job>>

LinkLost ==
  /\ Spend("outages")
  /\ LoseLink
  /\ Overlap({r \in Rooms : Reported(r)})
  /\ UNCHANGED <<cycle, recorded, session, press, job, asked>>

\* External: a ramp goes on by itself until the end of the scale
Ramped(b) ==
  IF b.ramp = "none" THEN b
  ELSE LET up == b.ramp = "up"
           i  == Moved(Position(b.level), up, 1)
       IN  [b EXCEPT !.level = Scale[i], !.ramp = IF Moved(i, up, 1) = i THEN "none" ELSE @]

\* a tick is longer than a press takes
Tick ==
  /\ now < MaxTime
  /\ todo["mqtt"] = <<>> /\ \A r \in Rooms : ~AutomationBusy(r)
  /\ Elapse
  /\ bulb' = [r \in Rooms |-> Ramped(bulb[r])]
  /\ LET moved == {r \in Rooms : bulb'[r].level # bulb[r].level}
     IN  /\ reports' = IF link # "up" THEN reports
                       ELSE SetToSeq({[room |-> r, on |-> TRUE, level |-> bulb'[r].level] : r \in moved})
         /\ Overlap(IF link = "up" THEN {} ELSE moved)
  /\ UNCHANGED cycle
  /\ UnchangedRemotes

Engine == HandleSwitch \/ HandleStop \/ HandleDimming \/ Look \/ SetLevel \/ BeginRamp

Next ==
  \/ Actor
  \/ \E t \in Tasks : Step(t)
  \/ \E r \in Rooms : (\E b \in Buttons : Press(r, b)) \/ Republish(r) \/ Touch(r) \/ CyclesRoom(r)
  \/ Engine
  \/ \E w \in Workers : Begin(w)
  \/ BeginsCycle
  \/ ReadReport
  \/ Connection
  \/ LinkLost
  \/ Tick

Spec == Init /\ [][Next]_vars

-----------------------------------------------------------------------------
(* Properties.                                                              *)

\* The lights do what the last press asked for, and go on doing it until
\* somebody does something else: a click is one position from what the user
\* saw, a release leaves the light where it is, a click or a hold in the dark
\* is nothing, Z2M's repetitions are no presses, and circadian leaves alone
\* what was dimmed by hand.
PressHonoured ==
  \A r \in Rooms :
    Settled(r) /\ ~raced[r] /\ spent.outages = 0 /\ asked[r] # None
    => /\ bulb[r].on = asked[r].on
       /\ bulb[r].on => bulb[r].level = asked[r].level

\* The state shows what the lights do, through ramps, dropped sessions and
\* actions that were rolled back.
RecordMatchesLight ==
  \A r \in Rooms :
    Settled(r) /\ ~raced[r]
    => /\ rooms[r].lightsOn = bulb[r].on
       /\ bulb[r].on => rooms[r].current = bulb[r].level

\* The record of a room is sound: well formed, and true of the lights.
RecordSound == TypeOK /\ RecordMatchesLight

\* The next click or hold starts from the brightness the user sees
\* (remote_base_brightness), whether that is an echo, the end of a ramp as the
\* session estimates it, or a touch by hand.
StepsFromWhatIsSeen ==
  \A r \in Rooms :
    Settled(r) /\ ~raced[r] /\ spent.outages = 0 /\ bulb[r].on /\ session[r] = None
    => Scale[RemoteBase(rooms[r])] = bulb[r].level

\* A light never ramps without a session that a release, or the next press,
\* will end: whatever the order of the presses.
RampHasSession ==
  \A r \in Rooms :
    Settled(r) /\ spent.outages = 0 /\ bulb[r].ramp # "none"
    => session[r] # None /\ bulb[r].ramp = IF session[r].up THEN "up" ELSE "down"

=============================================================================
