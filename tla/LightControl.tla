---------------------------- MODULE LightControl ----------------------------
(***************************************************************************)
(* Who decides what a room's lights do: the HTTP API handlers              *)
(* (api/handlers.rs), composed with the circadian engine and the daemon's  *)
(* actor and MQTT loop.                                                    *)
(*                                                                         *)
(* External: the users, and lights that lose their power and come back.    *)
(***************************************************************************)
EXTENDS CircadianEngine, RoomRequests

CONSTANTS
  Requests,      \* concurrent API requests
  Ops,           \* the API operations in use: a subset of AllOps
  Ttl,           \* override_ttl_mins and snooze hours, in ticks of the clock
  Overlaps,      \* bound: are behaviours explored past the first overlap
  MaxTime,       \* bound: the clock stops here, or when the last deadline is over
  MaxRequests,   \* bound: API requests, but for
  MaxRecalls,    \* bound: recalls of scenes of Z2M
  MaxExternal,   \* bound: lights changed by someone else than jeha
  MaxReturns,    \* bound: lights that come back online
  MaxOutages,    \* bound: losses of the broker connection
  MaxEvents,     \* bound: all of these together, where
  Unpaired       \* bound: such a request counts for all there may be

AllOps == {"on", "set", "off", "pause", "resume", "resume_dark", "snooze", "scene", "recall"}

ASSUME ControlAssumption ==
  /\ {"circadian", "mqtt"} \cap Requests = {}
  /\ Tasks = Requests \union {"circadian", "mqtt"}
  /\ Ops \subseteq AllOps
  /\ Unpaired \subseteq AllOps \ {"recall"}
  /\ Overlaps \in BOOLEAN
  /\ {Ttl, MaxTime, MaxRequests, MaxRecalls, MaxExternal, MaxReturns, MaxOutages, MaxEvents} \subseteq Nat

VARIABLES
  raced,      \* history: have two tasks overlapped on the room so far
  spent       \* bound: how much of each bounded event has happened

vars == <<daemon, cycle, raced, spent>>

TypeOK ==
  /\ DaemonTypeOK
  /\ EngineTypeOK
  /\ raced \in [Rooms -> BOOLEAN]
  /\ spent \in [requests : Nat, recalls : Nat, external : Nat, returns : Nat, outages : Nat]

Init ==
  /\ DaemonInit({DarkRoom, LitRoom})
  /\ EngineInit
  /\ raced = [r \in Rooms |-> FALSE]
  /\ spent = [requests |-> 0, recalls |-> 0, external |-> 0, returns |-> 0, outages |-> 0]

Bound == [requests |-> MaxRequests, recalls |-> MaxRecalls, external |-> MaxExternal,
          returns |-> MaxReturns, outages |-> MaxOutages]

SpendFor(kind, n) ==
  /\ spent[kind] < Bound[kind]
  /\ spent.requests + spent.recalls + spent.external + spent.returns + spent.outages + n <= MaxEvents
  /\ spent' = [spent EXCEPT ![kind] = @ + n]

Spend(kind) == SpendFor(kind, 1)

SpendRequest(op) ==
  \/ op \in Unpaired /\ SpendFor("requests", MaxEvents)
  \/ op = "recall" /\ Spend("recalls")
  \/ op \notin Unpaired \union {"recall"} /\ Spend("requests")

-----------------------------------------------------------------------------
(* Overlaps of tasks on a room.                                             *)

MqttBusy(r)    == Busy("mqtt", r)
RequestBusy(r) == \E q \in Requests : Busy(q, r)
Returned(r)    == \E i \in 1..Len(inbox["circadian"]) :
                    inbox["circadian"][i] = [event |-> "DeviceOnline", room |-> r]

\* nothing about the room is on its way anywhere
Settled(r) ==
  ~ (EngineBusy(r) \/ MqttBusy(r) \/ RequestBusy(r)
       \/ Reported(r) \/ Outstanding(r) \/ Returned(r))

\* a request that reads a room while anything about it is on its way, or a
\* task that reads a room while another one is working on it, overlaps
Overlap(rs) ==
  /\ rs # {} => Overlaps
  /\ raced' = [r \in Rooms |-> raced[r] \/ r \in rs]

-----------------------------------------------------------------------------
(* The API handlers (api/handlers.rs).  A request is for one room.          *)

Request(q, r, op, steps) ==
  /\ op \in Ops
  /\ todo[q] = <<>>
  /\ SpendRequest(op)
  /\ todo' = [todo EXCEPT ![q] = steps]
  /\ Overlap(IF Settled(r) THEN {} ELSE {r})
  /\ UNCHANGED <<shared, rx, inbox, dedup, world, now, cycle>>

Ask(r, op, until) == wish' = [wish EXCEPT ![r] = [op |-> op, until |-> until]]

\* override_ttl_mins: absent, or a deadline
Deadlines == {None, now + Ttl}

\* resuming a dark room marks it as lit: a run chooses whether users do it
Resume(r) == IF rooms[r].lightsOn THEN "resume" ELSE "resume_dark"

\* one action per endpoint
Api(q, r) ==
  \/ Request(q, r, "on", OnRequest(r)) /\ UNCHANGED wish
  \/ \E until \in Deadlines :
       \/ Request(q, r, "set", SetRequest(r, until)) /\ UNCHANGED wish
       \/ Request(q, r, "scene", SceneRequest(r, until)) /\ UNCHANGED wish
       \/ Request(q, r, "recall", RecallRequest(r, until)) /\ UNCHANGED wish
  \/ Request(q, r, "off", OffRequest(r)) /\ UNCHANGED wish
  \/ Request(q, r, "pause", PauseRequest(r)) /\ Ask(r, "pause", None)
  \/ Request(q, r, Resume(r), ResumeRequest(r)) /\ Ask(r, "resume", None)
  \/ Request(q, r, "snooze", SnoozeRequest(r, now + Ttl)) /\ Ask(r, "snooze", now + Ttl)

-----------------------------------------------------------------------------
(* The circadian engine, with the history of overlaps.                      *)

\* the cycle that begins overlaps with whoever works on one of its rooms
CycleOverlap == Overlap({r \in Lit : connected /\ (MqttBusy(r) \/ RequestBusy(r))})

BeginsCycle == (CycleTick \/ HandleMqttConnected) /\ CycleOverlap /\ UNCHANGED spent

CyclesRoom(r) == CycleRoom(r) /\ UNCHANGED <<raced, spent>>

DeviceOnline ==
  /\ HandleDeviceOnline
  /\ LET r == Head(inbox["circadian"]).room
     IN  Overlap(IF todo' # todo /\ (MqttBusy(r) \/ RequestBusy(r)) THEN {r} ELSE {})
  /\ UNCHANGED spent

-----------------------------------------------------------------------------
(* The daemon and the outside, with the history of overlaps.                *)

Actor == (ApplyRoomUpdate \/ ApplyConnected) /\ UNCHANGED <<cycle, raced, spent>>

Step(t) == TaskStep(t) /\ UNCHANGED <<cycle, raced, spent>>

ReadReport ==
  /\ HandleReport
  /\ LET r == Head(reports).room
     IN  Overlap(IF EngineBusy(r) \/ RequestBusy(r) THEN {r} ELSE {})
  /\ UNCHANGED <<cycle, spent>>

Connection == (PollError \/ ConnAck \/ DeliverQueued) /\ UNCHANGED <<cycle, raced, spent>>

ExternalSet(r) ==
  /\ Spend("external")
  /\ TouchLight(r)
  /\ Overlap(IF link # "up" \/ EngineBusy(r) \/ RequestBusy(r) THEN {r} ELSE {})
  /\ UNCHANGED cycle

\* a light had no power and is back at a level of its own; the availability of
\* the device changes, and the StateManager publishes that
BulbReturns(r) ==
  /\ Spend("returns")
  /\ link = "up"
  /\ bulb' = [bulb EXCEPT ![r].level = "external"]
  /\ Broadcast([event |-> "DeviceOnline", room |-> r])
  /\ wish' = [wish EXCEPT ![r] = None]
  /\ Overlap(IF RequestBusy(r) \/ Outstanding(r) THEN {r} ELSE {})
  /\ UNCHANGED <<shared, rx, todo, dedup, outq, link, reports, now, cycle>>

LinkLost ==
  /\ Spend("outages")
  /\ LoseLink
  /\ Overlap({r \in Rooms : Reported(r)})
  /\ UNCHANGED cycle

Tick ==
  /\ now < MaxTime \/ \E r \in Rooms : RoomAwaits(r)
  /\ PassTime
  /\ UNCHANGED <<cycle, raced, spent>>

-----------------------------------------------------------------------------
Next ==
  \/ Actor
  \/ \E t \in Tasks : Step(t)
  \/ \E q \in Requests, r \in Rooms : Api(q, r)
  \/ BeginsCycle
  \/ \E r \in Rooms : CyclesRoom(r) \/ ExternalSet(r) \/ BulbReturns(r)
  \/ DeviceOnline
  \/ ReadReport
  \/ Connection
  \/ LinkLost
  \/ Tick

\* The tasks of the daemon run until shutdown, the broker comes back, Z2M
\* answers, and time passes; tokio's bounded channel hands its permits out in
\* the order of the waiters, and select! picks among ready branches at random.
\* Users and lights are free.
Fairness ==
  /\ WF_vars(Actor)
  /\ \A t \in Tasks : SF_vars(Step(t))
  /\ WF_vars(CycleTick /\ BeginsCycle)
  /\ WF_vars(\E r \in Rooms : CyclesRoom(r))
  /\ SF_vars((HandleMqttConnected /\ BeginsCycle) \/ DeviceOnline)
  /\ WF_vars(ReadReport)
  /\ WF_vars(Connection)
  /\ SF_vars(Tick)

Spec == Init /\ [][Next]_vars
FairSpec == Spec /\ Fairness

-----------------------------------------------------------------------------
(* Properties.                                                              *)

Expired(until) == until # None /\ now >= until

\* lights-on without values leaves the level that is there: after an outage its
\* echo comes so late that it can pass for somebody's doing
EchoOfOthers == spent.outages > 0

\* What a user asked of a room with a successful request is what the room and
\* its lights show once everything about it has settled, through echoes,
\* cycles, expiries, lost connections and later failed requests, unless
\* somebody changed the light, or two tasks overlapped on the room.
RequestHonoured ==
  \A r \in Rooms : Settled(r) /\ ~raced[r] /\ wish[r] # None =>
    LET room == rooms[r]
        manual == room.source = "Manual" /\ room.lightsOn /\ bulb[r].on /\ bulb[r].level = "user"
    IN  CASE wish[r].op = "on"     -> /\ room.lightsOn /\ bulb[r].on
                                      /\ room.source = "Manual" => EchoOfOthers
          [] wish[r].op = "set"    -> manual \/ Expired(wish[r].until)
          [] wish[r].op = "off"    -> ~room.lightsOn /\ ~bulb[r].on /\ ~room.paused
          [] wish[r].op = "pause"  -> room.paused /\ room.pausedUntil = None
          [] wish[r].op = "snooze" -> \/ Expired(wish[r].until)
                                      \/ /\ room.paused
                                         /\ room.pausedUntil = wish[r].until
          [] wish[r].op = "resume" -> ~room.paused /\ room.source # "Manual"
          [] wish[r].op = "scene"  -> manual /\ room.paused

\* The shared state knows whether a room's lights are on, however they were
\* switched, once its reports have been handled and no two tasks overlapped
\* (and nobody resumed a dark room, which marks it as lit).
\* Every decision of the engine starts from that flag.
BeliefMatchesLight ==
  \A r \in Rooms : Settled(r) /\ ~raced[r] => rooms[r].lightsOn = bulb[r].on

\* The level the detection of external changes compares with is the level
\* jeha last published for the room, as long as nobody else has touched the
\* light, no scene of Z2M was recalled, whose level jeha does not know, and no
\* two tasks overlapped: a later report at that level is not taken for
\* somebody's doing.
IntendedMatchesLight ==
  \A r \in Rooms : Settled(r) /\ ~raced[r] /\ spent.external + spent.returns + spent.recalls = 0
    => rooms[r].intended \in {None, bulb[r].level}

\* The record of a room is sound: what it says of the lights is true of them.
RecordSound == TypeOK /\ BeliefMatchesLight /\ IntendedMatchesLight

\* Between two messages the MQTT loop and the actor agree on the connection:
\* the engine, which skips its cycles while the state says disconnected, is
\* not left believing so after a reconnection.
ConnectionKnown ==
  LoopIdle /\ (\A i \in 1..Len(rx) : "connected" \notin DOMAIN rx[i])
    => connected = (link # "down")

Overridden(r) ==
  rooms[r].lightsOn /\ rooms[r].source = "Manual" /\ rooms[r].overrideUntil # None

\* A manual override with a TTL ends, whatever overlaps: the engine clears it,
\* or the lights go off.  ("With `override_ttl_mins`, the override
\* auto-expires and circadian resumes", docs/adr/001-design-decisions.md.)
OverrideTtlEnds == \A r \in Rooms : []<>~Overridden(r)

\* A snooze ends by itself in a room that stays lit.
SnoozeEnds ==
  \A r \in Rooms :
    []<>~(rooms[r].lightsOn /\ rooms[r].paused /\ rooms[r].pausedUntil # None)

\* What has a deadline ends, whatever overlaps, is lost or comes too late.
DeadlinesEnd == OverrideTtlEnds /\ SnoozeEnds

\* When users and lights have come to rest, a lit room that circadian manages
\* has its lights at the circadian target and stays there, whatever races,
\* stale snapshots and outages came before.
CircadianConverges ==
  \A r \in Rooms :
    <>[](rooms[r].lightsOn /\ ~rooms[r].paused /\ rooms[r].source = "Circadian"
           => bulb[r].level = "circadian")

\* the circadian engine hands a push to the MQTT client
Pushes(r) ==
  /\ HeadIs("circadian", "publish")
  /\ Head(todo["circadian"]).room = r
  /\ todo'["circadian"] # todo["circadian"]

\* "Circadian only pushes to rooms with lights ON" (README.md): no push to
\* lights that are off once the state has had the time to learn of it, when
\* nobody resumed a dark room.  (A push can light a lamp that is off.)
PushesOnlyLitLights ==
  [][\A r \in Rooms :
       Pushes(r) /\ ~raced[r] /\ ~Reported(r) /\ ~Outstanding(r) => bulb[r].on]_vars

=============================================================================
