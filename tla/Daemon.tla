------------------------------- MODULE Daemon -------------------------------
(***************************************************************************)
(* What every component of jeha runs on: the shared rooms, read without a  *)
(* lock and written through the command channel of the StateManager actor  *)
(* (state/mod.rs); the event bus (event.rs); the MQTT client, whose        *)
(* publishes are queued while the broker is away (mqtt/publish.rs); and    *)
(* the MQTT loop with its handling of the lights' reports (mqtt/mod.rs,    *)
(* mqtt/z2m.rs).                                                           *)
(*                                                                         *)
(* A task of the daemon reads the shared state at a few points and awaits  *)
(* its sends and publishes one after another; anything may run in between. *)
(* So a handler, at the point where the code reads the state, puts down    *)
(* the steps it will take because of what it read, and takes them one by   *)
(* one afterwards.  A publish carries the steps that follow its success    *)
(* and those that follow its failure.                                      *)
(*                                                                         *)
(* External: the lights, the broker and Zigbee2MQTT (Z2M), which reports   *)
(* every change of a light.                                                *)
(***************************************************************************)
EXTENDS RoomState, Sequences, FiniteSets

CONSTANTS
  Rooms,        \* the configured rooms
  Tasks,        \* the tasks of the daemon, the MQTT loop "mqtt" among them
  Subscribers,  \* the tasks that listen to the event bus
  ExternalTtl,  \* external_override_secs, in ticks of the clock
  QuietWindow,  \* transition_secs + 5 s after a push, in ticks
  DedupWindow,  \* EXTERNAL_CHANGE_DEDUP_WINDOW, in ticks
  QueueCap,     \* capacity of the command channel
  BusCap,       \* capacity of the event bus
  OutCap,       \* capacity of the MQTT client's request queue
  ReportCap     \* bound: reports of Z2M in flight

ASSUME DaemonAssumption ==
  /\ "mqtt" \in Tasks
  /\ Subscribers \subseteq Tasks \cap {"circadian", "automation", "night"}
  /\ {"circadian", "external"} \subseteq Levels
  /\ {ExternalTtl, QuietWindow, DedupWindow} \subseteq Nat
  /\ {QueueCap, BusCap, OutCap, ReportCap} \subseteq Nat \ {0}

VARIABLES
  rooms,      \* SharedState: SystemState.rooms
  connected,  \* SharedState: SystemState.mqtt_connected
  rx,         \* the command channel of the StateManager
  inbox,      \* each subscriber's receiver on the event bus
  todo,       \* what each task still has to do
  dedup,      \* EXTERNAL_CHANGE_DEDUP: last detection in each room
  outq,       \* the MQTT client's request queue, filled while the link is down
  bulb,       \* external: what the lights of each room do
  link,       \* external: the broker connection: "up", "lost" and not noticed
              \* yet by the MQTT loop, or "down"
  reports,    \* external: state messages of Z2M on their way to jeha
  now,        \* the clock
  wish        \* history: what the last successful request asked of each room

shared == <<rooms, connected>>
world  == <<outq, bulb, link, reports>>
daemon == <<shared, rx, inbox, todo, dedup, world, now, wish>>

-----------------------------------------------------------------------------
(* Steps of a task.                                                         *)

\* state_tx.send(UpdateRoomState { room_id, update }).await
Send(r, u) == [do |-> "send", room |-> r, update |-> u]
\* state_tx.send(SetMqttConnected(up)).await
SendConnected(up) == [do |-> "connected", up |-> up]
\* event_bus.publish(event)
Announce(e) == [do |-> "announce", event |-> e]
\* publisher.<...>.await: then the steps ok, or on an error the steps err.  A
\* success fulfils the goal of a request, None for everybody else.
Publish(r, power, level, goal, ok, err) ==
  [do |-> "publish", room |-> r, power |-> power, level |-> level, goal |-> goal,
   ok |-> ok, err |-> err]

\* what the buttons of a remote do, as far as it is told apart
RemoteActions ==
  {"toggle", "on", "off", "step_up", "step_down", "hold_up", "hold_down", "stop"}

Events ==
  [event : {"MqttConnected"}]
    \union [event : {"DeviceOnline"}, room : Rooms]
    \union [event : {"MotionDetected"}, room : Rooms, bright : BOOLEAN]
    \union [event : {"MotionCleared"}, room : Rooms]
    \union [event : {"NightModeChanged"}, room : Rooms, active : BOOLEAN]
    \union [event : {"RemoteAction"}, room : Rooms, action : RemoteActions]

\* the events a subscriber acts on.  The others, which its match falls through
\* for, take no room in its inbox here.
Heeds(s, e) ==
  CASE s = "circadian"  -> e.event \in {"MqttConnected", "DeviceOnline"}
    [] s = "automation" -> e.event \in {"MotionDetected", "MotionCleared", "RemoteAction"}
    [] s = "night"      -> e.event = "NightModeChanged" /\ ~e.active

SimpleSteps ==
  [do : {"send"}, room : Rooms, update : Updates]
    \union [do : {"connected"}, up : BOOLEAN]
    \union [do : {"announce"}, event : Events]
\* history: what a request asks of a room, and until when
Goal == [op : {"on", "set", "off", "pause", "resume", "snooze", "scene"}, until : MaybeInstant]
ASSUME NoneIsNoGoal == None \notin Goal

\* what a command says: the "state", nothing of it, or a brightness_move
Power == {"ON", "OFF", "keep", "up", "down", "stop"}
PublishSteps ==
  [do : {"publish"}, room : Rooms, power : Power, level : MaybeLevel,
   goal : Goal \union {None}, ok : Seq(SimpleSteps), err : Seq(SimpleSteps)]

Commands ==
  [from : Tasks, room : Rooms, update : Updates]
    \union [from : Tasks, connected : BOOLEAN]

Bulb     == [on : BOOLEAN, level : Levels, ramp : {"up", "down", "none"}]
Report   == [room : Rooms, on : BOOLEAN, level : Levels]
Outgoing == [room : Rooms, power : Power, level : MaybeLevel]

DaemonTypeOK ==
  /\ rooms \in [Rooms -> Room]
  /\ connected \in BOOLEAN
  /\ rx \in Seq(Commands) /\ Len(rx) <= QueueCap
  /\ inbox \in [Subscribers -> Seq(Events)]
  /\ \A s \in Subscribers : Len(inbox[s]) <= BusCap
  /\ todo \in [Tasks -> Seq(SimpleSteps \union PublishSteps)]
  /\ dedup \in [Rooms -> MaybeInstant]
  /\ outq \in Seq(Outgoing) /\ Len(outq) <= OutCap
  /\ bulb \in [Rooms -> Bulb]
  /\ link \in {"up", "lost", "down"}
  /\ reports \in Seq(Report)
  /\ now \in Nat
  /\ wish \in [Rooms -> Goal \union {None}]

DarkRoom == DefaultRoom
LitRoom  == [DefaultRoom EXCEPT !.lightsOn = TRUE, !.current = "circadian",
                                !.intended = "circadian"]

\* A daemon that has connected and settled: each room is as one of "starts", and
\* its lights do what the room says.  A lit room is at the circadian target since
\* a push that is long past.
DaemonInit(starts) ==
  /\ rooms \in [Rooms -> starts]
  /\ connected = TRUE
  /\ rx = <<>>
  /\ inbox = [s \in Subscribers |-> <<>>]
  /\ todo = [t \in Tasks |-> <<>>]
  /\ dedup = [r \in Rooms |-> None]
  /\ outq = <<>>
  /\ bulb = [r \in Rooms |-> [on |-> rooms[r].lightsOn,
                              level |-> Or(rooms[r].current, "circadian"),
                              ramp |-> "none"]]
  /\ link = "up"
  /\ reports = <<>>
  /\ now = 0
  /\ wish = [r \in Rooms |-> None]

-----------------------------------------------------------------------------
(* What is on its way about a room.                                         *)

Working(t, r)  == \E i \in 1..Len(todo[t]) : LET s == todo[t][i] IN
                    s.do \in {"send", "publish"} /\ s.room = r
Queued(t, r)   == \E i \in 1..Len(rx) : LET c == rx[i] IN
                    c.from = t /\ "room" \in DOMAIN c /\ c.room = r
Busy(t, r)     == Working(t, r) \/ Queued(t, r)
Reported(r)    == \E i \in 1..Len(reports) : reports[i].room = r
Outstanding(r) == \E i \in 1..Len(outq) : outq[i].room = r

-----------------------------------------------------------------------------
(* The StateManager actor.                                                  *)

ApplyRoomUpdate ==
  /\ rx # <<>>
  /\ "room" \in DOMAIN Head(rx)
  /\ rx' = Tail(rx)
  /\ rooms' = [rooms EXCEPT ![Head(rx).room] = ApplyUpdate(@, Head(rx).update, now)]
  /\ UNCHANGED <<connected, inbox, todo, dedup, world, now, wish>>

ApplyConnected ==
  /\ rx # <<>>
  /\ "connected" \in DOMAIN Head(rx)
  /\ rx' = Tail(rx)
  /\ connected' = Head(rx).connected
  /\ UNCHANGED <<rooms, inbox, todo, dedup, world, now, wish>>

-----------------------------------------------------------------------------
(* One step of a task.                                                      *)

HeadIs(t, kind) == todo[t] # <<>> /\ Head(todo[t]).do = kind
Continue(t, steps) == todo' = [todo EXCEPT ![t] = steps \o Tail(@)]

\* the send awaits while the channel is full
SendStep(t) ==
  /\ HeadIs(t, "send") \/ HeadIs(t, "connected")
  /\ Len(rx) < QueueCap
  /\ LET s == Head(todo[t])
     IN  rx' = Append(rx, IF s.do = "send"
                          THEN [from |-> t, room |-> s.room, update |-> s.update]
                          ELSE [from |-> t, connected |-> s.up])
  /\ Continue(t, <<>>)
  /\ UNCHANGED <<shared, inbox, dedup, world, now, wish>>

\* a broadcast never waits: a receiver that lags by more than the capacity
\* loses its oldest event
Broadcast(e) ==
  inbox' = [s \in Subscribers |->
              IF Heeds(s, e)
              THEN Append(IF Len(inbox[s]) < BusCap THEN inbox[s] ELSE Tail(inbox[s]), e)
              ELSE inbox[s]]

AnnounceStep(t) ==
  /\ HeadIs(t, "announce")
  /\ Broadcast(Head(todo[t]).event)
  /\ Continue(t, <<>>)
  /\ UNCHANGED <<shared, rx, dedup, world, now, wish>>

\* External: what a set command makes of a light.  A circadian push carries no
\* "state", and a light that is off may stay off or light up on it.  Only a
\* light that is on can be moved, and any other command ends the move.
After(b, power, level, lit) ==
  [on |-> CASE power = "ON" -> TRUE [] power = "OFF" -> FALSE [] OTHER -> b.on \/ lit,
   level |-> Or(level, b.level),
   ramp |-> IF power \in {"up", "down"} /\ b.on THEN power ELSE "none"]

\* External: the command reaches Z2M, which sets the light and reports it
Deliver(m) ==
  /\ Len(reports) < ReportCap
  /\ \E lit \in BOOLEAN :
       LET b == After(bulb[m.room], m.power, m.level, lit)
       IN  /\ lit => m.power = "keep" /\ ~bulb[m.room].on
           /\ bulb' = [bulb EXCEPT ![m.room] = b]
           /\ reports' = Append(reports, [room |-> m.room, on |-> b.on, level |-> b.level])

Message(s) == [room |-> s.room, power |-> s.power, level |-> s.level]
Grant(s) == wish' = IF s.goal = None THEN wish ELSE [wish EXCEPT ![s.room] = s.goal]

PublishStep(t) ==
  /\ HeadIs(t, "publish")
  /\ link = "up" /\ outq = <<>>
  /\ Deliver(Message(Head(todo[t])))
  /\ Continue(t, Head(todo[t]).ok)
  /\ Grant(Head(todo[t]))
  /\ UNCHANGED <<shared, rx, inbox, dedup, link, outq, now>>

\* while the link is down (or its backlog is being sent) publishes pile up in
\* the client's request queue
PublishQueuedStep(t) ==
  /\ HeadIs(t, "publish")
  /\ link # "up" \/ outq # <<>>
  /\ Len(outq) < OutCap
  /\ outq' = Append(outq, Message(Head(todo[t])))
  /\ Continue(t, Head(todo[t]).ok)
  /\ Grant(Head(todo[t]))
  /\ UNCHANGED <<shared, rx, inbox, dedup, bulb, link, reports, now>>

\* mutant of PublishTimeoutStep: the error is ignored
PublishTimeoutStepIgnored(t) ==
  /\ HeadIs(t, "publish")
  /\ link # "up" /\ Len(outq) = OutCap
  /\ Continue(t, Head(todo[t]).ok)
  /\ UNCHANGED <<shared, rx, inbox, dedup, world, now, wish>>

\* publish_raw times out when the request queue stays full
PublishTimeoutStep(t) ==
  /\ HeadIs(t, "publish")
  /\ link # "up" /\ Len(outq) = OutCap
  /\ Continue(t, Head(todo[t]).err)
  /\ UNCHANGED <<shared, rx, inbox, dedup, world, now, wish>>

TaskStep(t) ==
  \/ SendStep(t)
  \/ AnnounceStep(t)
  \/ PublishStep(t)
  \/ PublishQueuedStep(t)
  \/ PublishTimeoutStep(t)

-----------------------------------------------------------------------------
(* The MQTT loop: one task, one message at a time, on the snapshot it loads *)
(* when the message arrives.                                                *)

LoopIdle == todo["mqtt"] = <<>>
LoopDoes(steps) == todo' = [todo EXCEPT !["mqtt"] = steps]

\* the report differs from what jeha last asked for, in a room circadian
\* manages, and not so soon after a push that it may be an echo of it
LooksExternal(m, room) ==
  /\ m.on
  /\ room.lightsOn
  /\ room.source = "Circadian"
  /\ ~room.paused
  /\ room.lastPush = None \/ now - room.lastPush > QuietWindow
  /\ room.intended # None
  /\ m.level # room.intended

Deduplicated(r) == dedup[r] # None /\ now - dedup[r] < DedupWindow

\* mutant of ReportSteps: an OFF report is not recorded
ReportStepsNoOff(m, room, external) ==
  IF ~m.on THEN <<>>
  ELSE << Send(m.room, LightsOn(m.level, room.source)) >>
         \o IF external THEN << Send(m.room, ExternalChange(ExternalTtl)) >> ELSE <<>>

ReportSteps(m, room, external) ==
  IF ~m.on THEN << Send(m.room, LightsOff) >>
  ELSE << Send(m.room, LightsOn(m.level, room.source)) >>
         \o IF external THEN << Send(m.room, ExternalChange(ExternalTtl)) >> ELSE <<>>

\* handle_device_state on a light's report
HandleReport ==
  /\ LoopIdle
  /\ link = "up"
  /\ reports # <<>>
  /\ LET m == Head(reports)
         external == LooksExternal(m, rooms[m.room]) /\ ~Deduplicated(m.room)
     IN  /\ LoopDoes(ReportSteps(m, rooms[m.room], external))
         /\ dedup' = IF external THEN [dedup EXCEPT ![m.room] = now] ELSE dedup
  /\ reports' = Tail(reports)
  /\ UNCHANGED <<shared, rx, inbox, bulb, link, outq, now, wish>>

\* poll() fails once the connection is lost; further failures repeat the same
\* command until the broker answers
PollError ==
  /\ LoopIdle
  /\ link = "lost"
  /\ link' = "down"
  /\ LoopDoes(<< SendConnected(FALSE) >>)
  /\ UNCHANGED <<shared, rx, inbox, dedup, bulb, outq, reports, now, wish>>

MqttConnected == [event |-> "MqttConnected"]

\* mutant of ConnAck: the state is never told that the connection is back
ConnAckUntold ==
  /\ LoopIdle
  /\ link = "down"
  /\ link' = "up"
  /\ LoopDoes(<< Announce(MqttConnected) >>)
  /\ UNCHANGED <<shared, rx, inbox, dedup, bulb, outq, reports, now, wish>>

\* The event goes out before the command.  The subscriptions, which a task of their
\* own asks for, count as made at once: that the answers to the backlog come before
\* them, and are missed, is left out.
ConnAck ==
  /\ LoopIdle
  /\ link = "down"
  /\ link' = "up"
  /\ LoopDoes(<< Announce(MqttConnected), SendConnected(TRUE) >>)
  /\ UNCHANGED <<shared, rx, inbox, dedup, bulb, outq, reports, now, wish>>

\* the backlog of publishes goes out
DeliverQueued ==
  /\ link = "up"
  /\ outq # <<>>
  /\ Deliver(Head(outq))
  /\ outq' = Tail(outq)
  /\ UNCHANGED <<shared, rx, inbox, todo, dedup, link, now, wish>>

-----------------------------------------------------------------------------
(* External: the lights, the broker and the clock.                          *)

\* someone turns a light off, or on at a level of their own.  Nobody hears of
\* it while the connection is lost.
TouchLight(r) ==
  /\ Len(reports) < ReportCap
  /\ \E b \in {[bulb[r] EXCEPT !.on = FALSE, !.ramp = "none"],
               [on |-> TRUE, level |-> "external", ramp |-> "none"]} :
       /\ b # bulb[r]
       /\ bulb' = [bulb EXCEPT ![r] = b]
       /\ reports' = IF link # "up" THEN reports
                     ELSE Append(reports, [room |-> r, on |-> b.on, level |-> b.level])
  /\ wish' = [wish EXCEPT ![r] = None]
  /\ UNCHANGED <<shared, rx, inbox, todo, dedup, link, outq, now>>

\* the reports on their way are lost with the connection
LoseLink ==
  /\ link = "up"
  /\ link' = "lost"
  /\ reports' = <<>>
  /\ UNCHANGED <<shared, rx, inbox, todo, dedup, bulb, outq, now, wish>>

Awaited(deadline) == deadline # None /\ now < deadline
RoomAwaits(r) == Awaited(rooms[r].pausedUntil) \/ Awaited(rooms[r].overrideUntil)

\* a tick of the clock is longer than Z2M takes to report, and the MQTT loop
\* and the actor to handle the report
Elapse ==
  /\ reports = <<>>
  /\ \A r \in Rooms : ~Busy("mqtt", r)
  /\ now' = now + 1
  /\ UNCHANGED <<shared, rx, inbox, todo, dedup, link, outq, wish>>

PassTime == Elapse /\ UNCHANGED <<bulb, reports>>

=============================================================================
