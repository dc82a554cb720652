-------------------------- MODULE LightControl_proofs --------------------------
(***************************************************************************)
(* The composition of the API handlers, the circadian engine and the       *)
(* daemon is well formed; the shared state knows of the connection and of  *)
(* what the lights do; the engine pushes to lights that are on; and a room *)
(* shows what was asked of it.  For all sets of rooms and requests and all *)
(* capacities.                                                             *)
(***************************************************************************)
EXTENDS LightControl, Daemon_proofs, WellFoundedInduction

-----------------------------------------------------------------------------
(* The steps of requests and of the engine: sends, and publishes that are   *)
(* followed by sends.                                                       *)

LEMMA LevelsType ==
  /\ "user" \in MaybeLevel /\ "circadian" \in MaybeLevel /\ None \in MaybeLevel
  /\ None \in MaybeInstant
  /\ {"ON", "OFF", "keep"} \subseteq Power
  /\ None \in Goal \union {None}
BY DaemonAssumption, RequestsAssumption
DEF DaemonAssumption, RequestsAssumption, MaybeLevel, MaybeInstant, Power

\* The goals of requests.
LEMMA GoalType ==
  ASSUME NEW until \in MaybeInstant
  PROVE  /\ [op |-> "on", until |-> until] \in Goal /\ [op |-> "off", until |-> until] \in Goal
         /\ [op |-> "set", until |-> until] \in Goal /\ [op |-> "scene", until |-> until] \in Goal
         /\ [op |-> "pause", until |-> until] \in Goal /\ [op |-> "resume", until |-> until] \in Goal
         /\ [op |-> "snooze", until |-> until] \in Goal
BY DEF Goal

\* What every request puts down.
LEMMA RequestType ==
  ASSUME RecordOK, NEW r \in Rooms, NEW until \in MaybeInstant
  PROVE  /\ OnRequest(r) \in Seq(StepsOver(Sends))
         /\ SetRequest(r, until) \in Seq(StepsOver(Sends))
         /\ OffRequest(r) \in Seq(StepsOver(Sends))
         /\ PauseRequest(r) \in Seq(StepsOver(Sends))
         /\ ResumeRequest(r) \in Seq(StepsOver(Sends))
         /\ SnoozeRequest(r, until) \in Seq(StepsOver(Sends))
         /\ SceneRequest(r, until) \in Seq(StepsOver(Sends))
         /\ RecallRequest(r, until) \in Seq(StepsOver(Sends))
<1> DEFINE S == StepsOver(Sends)
           room == rooms[r]
           lit(level, source) == Send(r, LightsOn(level, source))
           push(level) == Send(r, JehaPush(level))
           pause(b, t) == Send(r, CircadianPause(b, t))
           ttl(t) == Send(r, ManualOverrideTtl(t))
           off == Send(r, LightsOff)
           back == Send(r, RestoreLights(room))
<1>1. /\ room \in Room /\ room.paused \in BOOLEAN /\ room.pausedUntil \in MaybeInstant
      /\ room.overrideUntil \in MaybeInstant
  BY DEF RecordOK, Room
<1>2. /\ lit(None, "Circadian") \in Sends /\ lit("user", "Manual") \in Sends
      /\ lit(None, "Manual") \in Sends
      /\ push(None) \in Sends /\ push("user") \in Sends
      /\ pause(TRUE, None) \in Sends /\ pause(FALSE, None) \in Sends /\ pause(TRUE, until) \in Sends
      /\ pause(room.paused, room.pausedUntil) \in Sends
      /\ ttl(until) \in Sends /\ ttl(room.overrideUntil) \in Sends
      /\ off \in Sends /\ back \in Sends
  BY <1>1, SendTypes, LevelsType DEF Sources
<1> HIDE DEF lit, push, pause, ttl, off, back, room
<1>3. /\ << lit(None, "Circadian"), push(None) >> \in Seq(Sends)
      /\ << lit("user", "Manual"), push("user"), ttl(until) >> \in Seq(Sends)
      /\ << off >> \in Seq(Sends) /\ << push(None) >> \in Seq(Sends) /\ <<>> \in Seq(Sends)
      /\ << pause(room.paused, room.pausedUntil) >> \in Seq(Sends)
      /\ << ttl(room.overrideUntil), back >> \in Seq(Sends)
  BY <1>2, ShortSeqs
<1> DEFINE on    == Publish(r, "ON", None, [op |-> "on", until |-> None],
                      << lit(None, "Circadian"), push(None) >>, <<>>)
           set   == Publish(r, "ON", "user", [op |-> "set", until |-> until],
                      << lit("user", "Manual"), push("user"), ttl(until) >>, <<>>)
           dark  == Publish(r, "OFF", None, [op |-> "off", until |-> None], << off >>, <<>>)
           scene == Publish(r, "ON", "user", [op |-> "scene", until |-> until],
                      << lit("user", "Manual"), push("user"), ttl(until) >>,
                      << pause(room.paused, room.pausedUntil) >>)
           recall == Publish(r, "ON", "user", [op |-> "scene", until |-> until],
                      << push(None) >>, << ttl(room.overrideUntil), back >>)
<1>4. on \in S /\ set \in S /\ dark \in S /\ scene \in S /\ recall \in S
  BY <1>3, PushType, GoalType, LevelsType
<1>5. /\ OnRequest(r) = << on >> /\ SetRequest(r, until) = << set >> /\ OffRequest(r) = << dark >>
      /\ PauseRequest(r) = << pause(TRUE, None) >>
      /\ ResumeRequest(r) = << pause(FALSE, None), lit(None, "Circadian") >>
      /\ SnoozeRequest(r, until) = << pause(TRUE, until) >>
      /\ SceneRequest(r, until) = << pause(TRUE, None), scene >>
      /\ RecallRequest(r, until) =
           << pause(TRUE, None), lit(None, "Manual"), ttl(until), recall >>
  BY DEF OnRequest, SetRequest, OffRequest, PauseRequest, ResumeRequest, SnoozeRequest,
         SceneRequest, RecallRequest, lit, push, pause, ttl, off, back, room
<1>6. \A s \in Sends : s \in S
  BY SendsType
<1> HIDE DEF on, set, dark, scene, recall, S
<1>7. /\ << on >> \in Seq(S) /\ << set >> \in Seq(S) /\ << dark >> \in Seq(S)
      /\ << pause(TRUE, None) >> \in Seq(S)
      /\ << pause(FALSE, None), lit(None, "Circadian") >> \in Seq(S)
      /\ << pause(TRUE, until) >> \in Seq(S)
      /\ << pause(TRUE, None), scene >> \in Seq(S)
  BY <1>2, <1>4, <1>6, ShortSeqs
<1>8. << pause(TRUE, None), lit(None, "Manual"), ttl(until), recall >> \in Seq(S)
  BY <1>2, <1>4, <1>6, ShortSeqs
<1> QED
  BY <1>5, <1>7, <1>8 DEF S

\* What the engine puts down for a room, by its snapshot and the time.
LEMMA RoomStepsType ==
  ASSUME NEW r \in Rooms, NEW room
  PROVE  /\ RoomSteps(r, room) \in Seq(StepsOver(Sends))
         /\ << Publish(r, "keep", "circadian", None, << Send(r, JehaPush("circadian")) >>, <<>>) >>
              \in Seq(StepsOver(Sends))
<1> DEFINE S == StepsOver(Sends)
           lit(level) == Send(r, LightsOn(level, "Circadian"))
           push == Send(r, JehaPush("circadian"))
           unpause == Send(r, CircadianPause(FALSE, None))
           ttl == Send(r, ManualOverrideTtl(None))
<1>1. /\ lit(None) \in Sends /\ lit("circadian") \in Sends /\ push \in Sends
      /\ unpause \in Sends /\ ttl \in Sends
  BY SendTypes, LevelsType DEF Sources
<1>2. \A s \in Sends : s \in S
  BY SendsType
<1> HIDE DEF lit, push, unpause, ttl
<1>3. << lit("circadian"), push >> \in Seq(Sends) /\ <<>> \in Seq(Sends) /\ << push >> \in Seq(Sends)
  BY <1>1, ShortSeqs
<1> DEFINE cycled   == Publish(r, "keep", "circadian", None, << lit("circadian"), push >>, <<>>)
           returned == Publish(r, "keep", "circadian", None, << push >>, <<>>)
<1>4. cycled \in S /\ returned \in S
  BY <1>3, PushType, LevelsType
<1> HIDE DEF cycled, returned, S
<1>5. /\ << cycled >> \in Seq(S) /\ << returned >> \in Seq(S) /\ << unpause >> \in Seq(S)
      /\ << lit(None), ttl >> \in Seq(S) /\ <<>> \in Seq(S)
  BY <1>1, <1>2, <1>4, ShortSeqs
<1>6. ResumeSteps(r, room) \in Seq(S) /\ OverrideSteps(r, room) \in Seq(S) /\ PushRoom(r) = << cycled >>
  BY <1>5 DEF ResumeSteps, OverrideSteps, PushRoom, cycled, lit, push, unpause, ttl
<1>7. RoomSteps(r, room) \in Seq(S)
  <2>1. OverrideSteps(r, room) \o PushRoom(r) \in Seq(S)
    BY <1>5, <1>6, ConcatProperties
  <2> QED
    BY <1>5, <1>6, <2>1, ConcatProperties DEF RoomSteps
<1> QED
  BY <1>5, <1>7 DEF S, returned, push

-----------------------------------------------------------------------------
(* The types.                                                               *)

\* A publish or a send of the room is put down by a task that is idle.
LEMMA RequestPutsDown ==
  ASSUME TypeOK, NEW q \in Requests, NEW r \in Rooms, Api(q, r)
  PROVE  /\ \E steps \in Seq(StepsOver(Sends)) : todo' = [todo EXCEPT ![q] = steps]
         /\ UNCHANGED <<shared, rx, inbox, dedup, world, now, cycle>>
         /\ wish' \in [Rooms -> Goal \union {None}]
         /\ \E op : SpendRequest(op)
         /\ \E rs : Overlap(rs)
<1>1. RecordOK
  BY TypeParts DEF TypeOK
<1>2. now + Ttl \in MaybeInstant /\ None \in MaybeInstant
  BY <1>1, ControlAssumption DEF RecordOK, MaybeInstant, ControlAssumption
<1>3. Deadlines \subseteq MaybeInstant
  BY <1>2 DEF Deadlines
<1>4. PICK op, steps : steps \in Seq(StepsOver(Sends)) /\ Request(q, r, op, steps)
  <2>1. \/ Request(q, r, "on", OnRequest(r))
        \/ \E until \in Deadlines : \/ Request(q, r, "set", SetRequest(r, until))
                                   \/ Request(q, r, "scene", SceneRequest(r, until))
                                   \/ Request(q, r, "recall", RecallRequest(r, until))
        \/ Request(q, r, "off", OffRequest(r))
        \/ Request(q, r, "pause", PauseRequest(r))
        \/ Request(q, r, Resume(r), ResumeRequest(r))
        \/ Request(q, r, "snooze", SnoozeRequest(r, now + Ttl))
    BY DEF Api
  <2>2. CASE \E until \in Deadlines : \/ Request(q, r, "set", SetRequest(r, until))
                                    \/ Request(q, r, "scene", SceneRequest(r, until))
                                    \/ Request(q, r, "recall", RecallRequest(r, until))
    <3>1. PICK until \in MaybeInstant : \/ Request(q, r, "set", SetRequest(r, until))
                                       \/ Request(q, r, "scene", SceneRequest(r, until))
                                       \/ Request(q, r, "recall", RecallRequest(r, until))
      BY <1>3, <2>2
    <3> QED
      BY <1>1, <3>1, RequestType, Zenon
  <2>3. /\ OnRequest(r) \in Seq(StepsOver(Sends)) /\ OffRequest(r) \in Seq(StepsOver(Sends))
        /\ PauseRequest(r) \in Seq(StepsOver(Sends)) /\ ResumeRequest(r) \in Seq(StepsOver(Sends))
        /\ SnoozeRequest(r, now + Ttl) \in Seq(StepsOver(Sends))
    BY <1>1, <1>2, RequestType, Zenon
  <2> QED
    BY <2>1, <2>2, <2>3, Zenon
<1>5. \/ UNCHANGED wish
      \/ Ask(r, "pause", None) \/ Ask(r, "resume", None) \/ Ask(r, "snooze", now + Ttl)
  BY DEF Api
<1>6. wish' \in [Rooms -> Goal \union {None}]
  BY <1>1, <1>2, <1>5, GoalType DEF RecordOK, Ask
<1> QED
  BY <1>4, <1>6 DEF Request

LEMMA SpendType ==
  ASSUME TypeOK, NEW kind \in {"requests", "recalls", "external", "returns", "outages"}, Spend(kind)
  PROVE  spent' \in [requests : Nat, recalls : Nat, external : Nat, returns : Nat, outages : Nat]
BY DEF TypeOK, Spend, SpendFor

LEMMA SpendRequestType ==
  ASSUME TypeOK, NEW op, SpendRequest(op)
  PROVE  spent' \in [requests : Nat, recalls : Nat, external : Nat, returns : Nat, outages : Nat]
<1>1. CASE SpendFor("requests", MaxEvents)
  <2>1. MaxEvents \in Nat
    BY ControlAssumption DEF ControlAssumption
  <2> QED
    BY <1>1, <2>1 DEF TypeOK, SpendFor
<1>2. CASE Spend("recalls") \/ Spend("requests")
  BY <1>2, SpendType
<1> QED
  BY <1>1, <1>2 DEF SpendRequest

LEMMA OverlapType ==
  ASSUME TypeOK, NEW rs, Overlap(rs)
  PROVE  raced' \in [Rooms -> BOOLEAN]
BY DEF TypeOK, Overlap

LEMMA InitType == Init => TypeOK
<1> SUFFICES ASSUME Init PROVE TypeOK
  OBVIOUS
<1>1. DaemonTypeOK
  BY StartRooms, DaemonInitType DEF Init
<1>2. EngineTypeOK
  BY StartRooms DEF Init, EngineInit, EngineTypeOK, NoView, DarkRoom
<1> QED
  BY <1>1, <1>2 DEF Init, TypeOK

\* A cycle begins with a snapshot of rooms.
LEMMA BeginCycleType ==
  ASSUME TypeOK, BeginCycle
  PROVE  EngineTypeOK'
<1>1. rooms \in [Rooms -> Room] /\ EngineTypeOK
  BY TypeParts DEF TypeOK, RecordOK
<1>2. Lit \subseteq Rooms
  BY DEF Lit
<1> QED
  BY <1>1, <1>2 DEF BeginCycle, EngineTypeOK

\* An event that is taken leaves the rest of the inbox.
LEMMA EngineTakesType ==
  ASSUME TypeOK, NEW event, EngineTakes(event)
  PROVE  /\ inbox' \in [Subscribers -> Seq(Events)]
         /\ \A s \in Subscribers : Len(inbox'[s]) <= BusCap
         /\ Head(inbox["circadian"]) \in Events
<1> DEFINE q == inbox["circadian"]
<1>1. QueuesOK /\ "circadian" \in Subscribers
  BY TypeParts, EngineAssumption DEF TypeOK, EngineAssumption
<1>2. q \in Seq(Events) /\ q # <<>> /\ Len(q) <= BusCap /\ inbox' = [inbox EXCEPT !["circadian"] = Tail(q)]
  BY <1>1 DEF QueuesOK, EngineTakes
<1>3. Tail(q) \in Seq(Events) /\ Len(Tail(q)) <= BusCap /\ Head(q) \in Events
  BY <1>2, HeadTailProperties, LenProperties, CapsType DEF Caps
<1> QED
  BY <1>1, <1>2, <1>3 DEF QueuesOK

\* The engine keeps the types.
LEMMA EngineType ==
  ASSUME TypeOK, CycleTick \/ HandleMqttConnected \/ (\E r \in Rooms : CycleRoom(r)) \/ HandleDeviceOnline
  PROVE  DaemonTypeOK' /\ EngineTypeOK'
<1>0. DaemonTypeOK /\ EngineTypeOK /\ QueuesOK /\ WorldOK /\ RecordOK
  BY TypeParts DEF TypeOK
<1>c. "circadian" \in Tasks
  BY EngineAssumption DEF EngineAssumption
<1>1. CASE CycleTick
  <2>1. QueuesOK' /\ WorldOK' /\ RecordOK'
    BY <1>0, <1>1 DEF CycleTick, daemon, shared, world, QueuesOK, WorldOK, RecordOK
  <2> QED
    BY <1>1, <2>1, TypeParts, BeginCycleType DEF CycleTick
<1>2. CASE HandleMqttConnected
  <2>1. QueuesOK'
    BY <1>0, <1>2, EngineTakesType DEF QueuesOK, HandleMqttConnected
  <2>2. WorldOK' /\ RecordOK'
    BY <1>0, <1>2 DEF HandleMqttConnected, shared, world, WorldOK, RecordOK
  <2> QED
    BY <1>2, <2>1, <2>2, TypeParts, BeginCycleType DEF HandleMqttConnected
<1>3. CASE \E r \in Rooms : CycleRoom(r)
  <2>1. PICK r \in Rooms : CycleRoom(r)
    BY <1>3
  <2>2. RoomSteps(r, cycle.view[r]) \in Seq(Steps)
    BY RoomStepsType, SendsType, SeqMonotonic
  <2>3. DaemonTypeOK'
    BY <1>0, <1>c, <2>1, <2>2, TodoType DEF CycleRoom
  <2>4. EngineTypeOK'
    BY <1>0, <2>1, StartRooms DEF CycleRoom, EngineTypeOK, NoView, DarkRoom
  <2> QED
    BY <2>3, <2>4
<1>4. CASE HandleDeviceOnline
  <2> DEFINE r == Head(inbox["circadian"]).room
             push == << Publish(r, "keep", "circadian", None, << Send(r, JehaPush("circadian")) >>, <<>>) >>
  <2>1. r \in Rooms
    <3>1. Head(inbox["circadian"]) \in Events /\ Head(inbox["circadian"]).event = "DeviceOnline"
      BY <1>0, <1>4, EngineTakesType DEF HandleDeviceOnline, EngineTakes
    <3> QED
      BY <3>1 DEF Events
  <2>2. push \in Seq(Steps)
    BY <2>1, RoomStepsType, SendsType, SeqMonotonic
  <2>3. todo' = todo \/ todo' = [todo EXCEPT !["circadian"] = push]
    BY <1>4 DEF HandleDeviceOnline
  <2>4. QueuesOK'
    <3>1. todo' \in [Tasks -> Seq(Steps)]
      <4> HIDE DEF push
      <4> QED
        BY <1>0, <1>c, <2>2, <2>3 DEF QueuesOK
    <3> QED
      BY <1>0, <1>4, <3>1, EngineTakesType DEF QueuesOK, HandleDeviceOnline
  <2>5. WorldOK' /\ RecordOK' /\ EngineTypeOK'
    BY <1>0, <1>4 DEF HandleDeviceOnline, shared, world, WorldOK, RecordOK, EngineTypeOK
  <2> QED
    BY <2>4, <2>5, TypeParts
<1> QED
  BY <1>1, <1>2, <1>3, <1>4

\* A light that is back may tell the subscribers of it.
LEMMA BulbReturnsType ==
  ASSUME TypeOK, NEW r \in Rooms, BulbReturns(r)
  PROVE  TypeOK'
<1>0. QueuesOK /\ WorldOK /\ RecordOK /\ EngineTypeOK
  BY TypeParts DEF TypeOK
<1>1. QueuesOK'
  <2>1. [event |-> "DeviceOnline", room |-> r] \in Events
    BY DEF Events
  <2> QED
    BY <1>0, <2>1, BroadcastType DEF QueuesOK, BulbReturns
<1>2. WorldOK'
  <2>1. "external" \in Levels
    BY DaemonAssumption DEF DaemonAssumption
  <2>2. bulb' \in [Rooms -> Bulb]
    BY <1>0, <2>1 DEF WorldOK, BulbReturns, Bulb
  <2> QED
    BY <1>0, <2>2 DEF WorldOK, BulbReturns
<1>3. RecordOK'
  BY <1>0 DEF RecordOK, BulbReturns, shared
<1>4. EngineTypeOK' /\ raced' \in [Rooms -> BOOLEAN]
  <2>1. \E rs : Overlap(rs)
    BY DEF BulbReturns
  <2> QED
    BY <1>0, <2>1, OverlapType DEF BulbReturns, EngineTypeOK
<1> QED
  BY <1>1, <1>2, <1>3, <1>4, TypeParts, SpendType DEF TypeOK, BulbReturns

\* A request that was put down.
LEMMA ApiType ==
  ASSUME TypeOK, NEW q \in Requests, NEW r \in Rooms, Api(q, r)
  PROVE  TypeOK'
<1>0. QueuesOK /\ WorldOK /\ RecordOK /\ EngineTypeOK
  BY TypeParts DEF TypeOK
<1>1. PICK steps : steps \in Seq(StepsOver(Sends)) /\ todo' = [todo EXCEPT ![q] = steps]
  BY RequestPutsDown
<1>2. steps \in Seq(Steps)
  BY <1>1, SendsType, SeqMonotonic
<1>3. UNCHANGED <<shared, rx, inbox, dedup, world, now, cycle>>
  BY RequestPutsDown
<1>4. QueuesOK'
  BY <1>0, <1>1, <1>2, <1>3 DEF QueuesOK
<1>5. WorldOK' /\ EngineTypeOK'
  BY <1>0, <1>3 DEF WorldOK, world, EngineTypeOK
<1>6. RecordOK'
  BY <1>0, <1>3, RequestPutsDown DEF RecordOK, shared
<1>7. /\ raced' \in [Rooms -> BOOLEAN]
      /\ spent' \in [requests : Nat, recalls : Nat, external : Nat, returns : Nat, outages : Nat]
  <2>1. (\E rs : Overlap(rs)) /\ (\E op : SpendRequest(op))
    BY RequestPutsDown
  <2> QED
    BY <2>1, OverlapType, SpendRequestType
<1> QED
  BY <1>4, <1>5, <1>6, <1>7, TypeParts DEF TypeOK

\* Every step keeps the types.
LEMMA StepKeepsTypes == TypeOK /\ [Next]_vars => TypeOK'
<1> SUFFICES ASSUME TypeOK, [Next]_vars
             PROVE  TypeOK'
  OBVIOUS
<1>0. DaemonTypeOK /\ EngineTypeOK
  BY DEF TypeOK
<1>k. cycle' = cycle => EngineTypeOK'
  BY <1>0 DEF EngineTypeOK
<1>1. CASE Actor
  <2>1. DaemonTypeOK'
    BY <1>0, <1>1, ActorType DEF Actor
  <2> QED
    BY <1>1, <1>k, <2>1 DEF Actor, TypeOK
<1>2. ASSUME NEW t \in Tasks, Step(t)
      PROVE  TypeOK'
  <2>1. DaemonTypeOK'
    BY <1>0, <1>2, TaskStepType DEF Step
  <2> QED
    BY <1>2, <1>k, <2>1 DEF Step, TypeOK
<1>3. CASE \E q \in Requests, r \in Rooms : Api(q, r)
  BY <1>3, ApiType
<1>4. CASE BeginsCycle \/ DeviceOnline \/ \E r \in Rooms : CyclesRoom(r)
  <2>1. DaemonTypeOK' /\ EngineTypeOK'
    BY <1>4, EngineType DEF BeginsCycle, DeviceOnline, CyclesRoom
  <2>2. raced' = raced \/ \E rs : Overlap(rs)
    BY <1>4 DEF BeginsCycle, DeviceOnline, CyclesRoom, CycleOverlap
  <2>3. spent' = spent
    BY <1>4 DEF BeginsCycle, DeviceOnline, CyclesRoom
  <2>4. raced' \in [Rooms -> BOOLEAN]
    BY <2>2, OverlapType DEF TypeOK
  <2> QED
    BY <2>1, <2>3, <2>4 DEF TypeOK
<1>5. CASE \E r \in Rooms : ExternalSet(r)
  <2>1. DaemonTypeOK'
    BY <1>0, <1>5, OutsideType DEF ExternalSet
  <2>2. (\E rs : Overlap(rs)) /\ Spend("external") /\ cycle' = cycle
    BY <1>5 DEF ExternalSet
  <2> QED
    BY <1>k, <2>1, <2>2, OverlapType, SpendType DEF TypeOK
<1>6. CASE \E r \in Rooms : BulbReturns(r)
  BY <1>6, BulbReturnsType
<1>7. CASE ReadReport
  <2>1. DaemonTypeOK'
    BY <1>0, <1>7, HandleReportType DEF ReadReport
  <2>2. (\E rs : Overlap(rs)) /\ cycle' = cycle /\ spent' = spent
    BY <1>7 DEF ReadReport
  <2> QED
    BY <1>k, <2>1, <2>2, OverlapType DEF TypeOK
<1>8. CASE Connection
  <2>1. DaemonTypeOK'
    BY <1>0, <1>8, ConnectionType DEF Connection
  <2> QED
    BY <1>8, <1>k, <2>1 DEF Connection, TypeOK
<1>9. CASE LinkLost
  <2>1. DaemonTypeOK'
    BY <1>0, <1>9, OutsideType DEF LinkLost
  <2>2. (\E rs : Overlap(rs)) /\ Spend("outages") /\ cycle' = cycle
    BY <1>9 DEF LinkLost
  <2> QED
    BY <1>k, <2>1, <2>2, OverlapType, SpendType DEF TypeOK
<1>10. CASE Tick
  <2>1. DaemonTypeOK'
    BY <1>0, <1>10, OutsideType DEF Tick
  <2> QED
    BY <1>10, <1>k, <2>1 DEF Tick, TypeOK
<1>11. CASE UNCHANGED vars
  BY <1>0, <1>11, <1>k DEF vars, daemon, shared, world, TypeOK, DaemonTypeOK
<1> QED
  BY <1>1, <1>2, <1>3, <1>4, <1>5, <1>6, <1>7, <1>8, <1>9, <1>10, <1>11 DEF Next

\* Whatever the users, the lights and the broker do, and whatever overlaps,
\* every command, event, step, snapshot and record in the daemon is well formed,
\* and no queue is longer than its capacity.
THEOREM TypeCorrect == Spec => []TypeOK
<1> QED
  BY InitType, StepKeepsTypes, PTL DEF Spec

-----------------------------------------------------------------------------
(* The connection as the shared state knows it.                             *)

Notices == [from : Tasks, connected : BOOLEAN]
TrueNotices == {c \in Notices : c.connected = (link # "down")}

\* what the actor has been told of the connection, last in the channel or
\* already in the state, is how it is
Informed == Tells(rx, Notices, TrueNotices, connected = (link # "down"))

\* The MQTT loop is the only task that tells of the connection, and it tells
\* of each change before it does anything else.
ConnInv ==
  /\ \A t \in Tasks \ {"mqtt"} : todo[t] \in Seq(StepsOver(Sends))
  /\ \/ todo["mqtt"] \in Seq(Sends) /\ Informed
     \/ /\ link # "down"
        /\ todo["mqtt"] \in {<< Announce(MqttConnected), SendConnected(TRUE) >>,
                             << SendConnected(TRUE) >>}
     \/ link = "down" /\ todo["mqtt"] = << SendConnected(FALSE) >>

LEMMA NoticeOrNot ==
  /\ \A t \in Tasks, r \in Rooms, u \in Updates : [from |-> t, room |-> r, update |-> u] \notin Notices
  /\ \A t \in Tasks, up \in BOOLEAN :
       /\ [from |-> t, connected |-> up] \in Notices
       /\ up = (link # "down") => [from |-> t, connected |-> up] \in TrueNotices
       /\ up = (link' # "down") => [from |-> t, connected |-> up] \in TrueNotices'
  /\ \A c \in Notices : "connected" \in DOMAIN c /\ "room" \notin DOMAIN c
<1>1. \A t \in Tasks, r \in Rooms, u \in Updates :
        "room" \in DOMAIN [from |-> t, room |-> r, update |-> u]
  OBVIOUS
<1>2. \A c \in Notices : DOMAIN c = {"from", "connected"}
  BY DEF Notices
<1> QED
  BY <1>1, <1>2 DEF Notices, TrueNotices

\* The actor makes the state say what it was told.
LEMMA ActorInforms ==
  ASSUME TypeOK, Informed, ApplyRoomUpdate \/ ApplyConnected
  PROVE  Informed'
<1>1. rx \in Seq(Commands) /\ rx # <<>> /\ rx' = Tail(rx) /\ link' = link /\ Head(rx) \in Commands
  BY TypeParts, HeadCommand DEF TypeOK, QueuesOK, ApplyRoomUpdate, ApplyConnected, world
<1>2. TrueNotices' = TrueNotices
  BY <1>1 DEF TrueNotices
<1>3. CASE ApplyRoomUpdate
  <2>1. Head(rx) \notin Notices /\ connected' = connected
    BY <1>3, NoticeOrNot DEF ApplyRoomUpdate
  <2> QED
    BY <1>1, <1>2, <2>1, TellsTail DEF Informed
<1>4. CASE ApplyConnected
  <2>1. Head(rx) \in Notices /\ connected' = Head(rx).connected
    <3>1. \A c \in Commands : "connected" \in DOMAIN c => c \in Notices
      BY DEF Commands, Notices
    <3> QED
      BY <1>1, <1>4, <3>1 DEF ApplyConnected
  <2>2. Head(rx) \in TrueNotices => connected' = (link' # "down")
    BY <1>1, <2>1 DEF TrueNotices
  <2>3. Tells(Tail(rx), Notices, TrueNotices, connected' = (link' # "down"))
    BY <1>1, <2>1, <2>2, TellsTail DEF Informed
  <2> QED
    BY <1>1, <1>2, <2>3 DEF Informed
<1> QED
  BY <1>3, <1>4

\* A step that puts a send into the channel tells nothing of the connection,
\* and one that is no send at all leaves what was told.
LEMMA StepInforms ==
  ASSUME TypeOK, Informed, NEW t \in Tasks, todo[t] \in Seq(StepsOver(Sends)), TaskStep(t)
  PROVE  Informed'
<1> DEFINE s == Head(todo[t])
<1>1. rx \in Seq(Commands) /\ UNCHANGED <<link, connected>>
  BY TypeParts
  DEF TypeOK, QueuesOK, TaskStep, SendStep, AnnounceStep, PublishStep, PublishQueuedStep,
      PublishTimeoutStep, world, shared
<1>2. TrueNotices' = TrueNotices
  BY <1>1 DEF TrueNotices
<1>3. CASE SendStep(t)
  <2>1. s \in StepsOver(Sends) /\ s.do \in {"send", "connected"}
    BY <1>3, HeadTailProperties DEF SendStep, HeadIs
  <2>2. s.do = "send" /\ s.room \in Rooms /\ s.update \in Updates
    BY <2>1, SendFields DEF Sends
  <2>3. rx' = Append(rx, [from |-> t, room |-> s.room, update |-> s.update])
    BY <1>3, <2>2 DEF SendStep
  <2> DEFINE c == [from |-> t, room |-> s.room, update |-> s.update]
  <2>4. c \in Commands /\ c \notin Notices /\ rx' = Append(rx, c)
    BY <2>2, <2>3, NoticeOrNot DEF Commands
  <2> HIDE DEF c
  <2>5. Tells(Append(rx, c), Notices, TrueNotices, connected = (link # "down"))
    BY <1>1, <2>4, TellsAppend DEF Informed
  <2> QED
    BY <1>1, <1>2, <2>4, <2>5 DEF Informed
<1>4. CASE ~SendStep(t)
  <2>1. rx' = rx
    BY <1>4 DEF TaskStep, AnnounceStep, PublishStep, PublishQueuedStep, PublishTimeoutStep
  <2> QED
    BY <1>1, <1>2, <2>1 DEF Informed
<1> QED
  BY <1>3, <1>4

\* The step that tells of the connection.
LEMMA NoticeInforms ==
  ASSUME TypeOK, NEW up \in BOOLEAN, up = (link # "down"), todo["mqtt"] = << SendConnected(up) >>,
         TaskStep("mqtt")
  PROVE  todo'["mqtt"] = <<>> /\ Informed'
<1>1. Head(todo["mqtt"]) = SendConnected(up) /\ Tail(todo["mqtt"]) = <<>>
  BY DEF SendConnected
<1>2. SendStep("mqtt")
  BY <1>1 DEF TaskStep, AnnounceStep, PublishStep, PublishQueuedStep, PublishTimeoutStep, HeadIs,
              SendConnected
<1> DEFINE c == [from |-> "mqtt", connected |-> up]
<1>3. rx' = Append(rx, c) /\ UNCHANGED <<link, connected>>
  BY <1>1, <1>2 DEF SendStep, SendConnected, world, shared
<1>4. rx \in Seq(Commands) /\ c \in Commands /\ c \in Notices /\ c \in TrueNotices'
  BY <1>3, TypeParts, MqttIsTask, NoticeOrNot DEF TypeOK, QueuesOK, Commands
<1>5. todo'["mqtt"] = <<>>
  BY <1>1, <1>2, MqttIsTask, TypeParts DEF SendStep, Continue, TypeOK, QueuesOK
<1> HIDE DEF c
<1>6. Tells(Append(rx, c), Notices, TrueNotices', connected = (link # "down"))
  BY <1>4, TellsAppend
<1> QED
  BY <1>3, <1>5, <1>6 DEF Informed

\* When nothing is said or changed, nothing else was told.
LEMMA StillInformed ==
  ASSUME Informed, UNCHANGED <<rx, connected>>, (link # "down") = (link' # "down")
  PROVE  Informed'
BY DEF Informed, TrueNotices

\* The loop's own steps, and those of the others.
LEMMA TasksKeepConn ==
  ASSUME TypeOK, ConnInv, NEW t \in Tasks, TaskStep(t)
  PROVE  ConnInv'
<1>0. todo \in [Tasks -> Seq(Steps)] /\ link' = link
  BY TypeParts DEF TypeOK, QueuesOK, TaskStep, SendStep, AnnounceStep, PublishStep,
                   PublishQueuedStep, PublishTimeoutStep, world
<1>s. Sends \in SUBSET SimpleSteps /\ Sends \subseteq StepsOver(Sends) /\ "mqtt" \in Tasks
  BY SendsType, MqttIsTask
<1>1. CASE t # "mqtt"
  <2>1. todo[t] \in Seq(StepsOver(Sends))
    BY <1>1 DEF ConnInv
  <2>2. /\ todo'[t] \in Seq(StepsOver(Sends))
        /\ \A u \in Tasks \ {t} : todo'[u] = todo[u]
    BY <1>0, <1>s, <2>1, StepKeepsVocabulary
  <2>3. Informed => Informed'
    BY <2>1, StepInforms
  <2>4. todo'["mqtt"] = todo["mqtt"]
    BY <1>1, <1>s, <2>2
  <2> QED
    BY <1>0, <2>2, <2>3, <2>4 DEF ConnInv
<1>2. CASE t = "mqtt"
  <2>1. \A u \in Tasks \ {"mqtt"} : todo'[u] \in Seq(StepsOver(Sends))
    <3>1. \A u \in Tasks \ {"mqtt"} : todo'[u] = todo[u]
      BY <1>0, <1>2, <1>s, StepKeepsVocabulary, Vocabulary
    <3> QED
      BY <3>1 DEF ConnInv
  <2>2. CASE todo["mqtt"] \in Seq(Sends) /\ Informed
    <3>1. todo["mqtt"] \in Seq(StepsOver(Sends))
      BY <1>s, <2>2, SeqMonotonic
    <3>2. Informed'
      BY <1>2, <1>s, <2>2, <3>1, StepInforms
    <3>3. todo["mqtt"] # <<>>
      BY <1>2 DEF TaskStep, SendStep, AnnounceStep, PublishStep, PublishQueuedStep,
                  PublishTimeoutStep, HeadIs
    <3>4. Head(todo["mqtt"]) \in Sends /\ Tail(todo["mqtt"]) \in Seq(Sends)
      BY <2>2, <3>3, HeadTailProperties
    <3>5. SendStep("mqtt")
      BY <1>2, <3>4 DEF TaskStep, AnnounceStep, PublishStep, PublishQueuedStep,
                        PublishTimeoutStep, HeadIs, Sends
    <3>6. todo'["mqtt"] = Tail(todo["mqtt"])
      BY <1>0, <1>s, <3>4, <3>5 DEF SendStep, Continue
    <3> QED
      BY <2>1, <3>2, <3>4, <3>6 DEF ConnInv
  <2>3. CASE link # "down" /\ todo["mqtt"] = << Announce(MqttConnected), SendConnected(TRUE) >>
    <3>1. /\ Head(todo["mqtt"]) = Announce(MqttConnected)
          /\ Tail(todo["mqtt"]) = << SendConnected(TRUE) >>
      <4> DEFINE a == Announce(MqttConnected)
                 c == SendConnected(TRUE)
      <4>1. todo["mqtt"] = << a, c >>
        BY <2>3
      <4> HIDE DEF a, c
      <4>2. Head(todo["mqtt"]) = a /\ Tail(todo["mqtt"]) = << c >>
        BY <4>1
      <4> QED
        BY <4>2 DEF a, c
    <3>2. AnnounceStep("mqtt")
      BY <1>2, <3>1 DEF TaskStep, SendStep, PublishStep, PublishQueuedStep,
                        PublishTimeoutStep, HeadIs, Announce
    <3>3. todo'["mqtt"] = << SendConnected(TRUE) >>
      <4> DEFINE rest == << SendConnected(TRUE) >>
      <4>1. rest \in Seq(SimpleSteps) /\ Tail(todo["mqtt"]) = rest
        <5> DEFINE c == SendConnected(TRUE)
        <5>1. c \in SimpleSteps
          BY StepTypes
        <5> HIDE DEF c
        <5>2. << c >> \in Seq(SimpleSteps)
          BY <5>1
        <5> QED
          BY <3>1, <5>2 DEF c
      <4> HIDE DEF rest
      <4>2. todo'["mqtt"] = <<>> \o rest
        BY <1>0, <1>s, <3>2, <4>1 DEF AnnounceStep, Continue
      <4> QED
        BY <4>1, <4>2 DEF rest
    <3> QED
      BY <1>0, <2>1, <2>3, <3>3 DEF ConnInv
  <2>4. ASSUME NEW up \in BOOLEAN, up = (link # "down"), todo["mqtt"] = << SendConnected(up) >>
        PROVE  ConnInv'
    <3>1. todo'["mqtt"] = <<>> /\ Informed'
      BY <1>2, <2>4, NoticeInforms
    <3> QED
      BY <2>1, <3>1, EmptySeq DEF ConnInv
  <2> QED
    BY <2>2, <2>3, <2>4 DEF ConnInv
<1> QED
  BY <1>1, <1>2

\* What the loop puts down when a report comes in, or the connection is lost or
\* back.
LEMMA LoopKeepsConn ==
  ASSUME TypeOK, ConnInv, HandleReport \/ PollError \/ ConnAck \/ DeliverQueued
  PROVE  ConnInv'
<1>0. todo \in [Tasks -> Seq(Steps)] /\ "mqtt" \in Tasks /\ WorldOK /\ RecordOK
  BY TypeParts, MqttIsTask DEF TypeOK, QueuesOK
<1>1. CASE DeliverQueued
  <2>1. UNCHANGED <<todo, link, rx, connected>>
    BY <1>1 DEF DeliverQueued, shared
  <2> QED
    BY <2>1, StillInformed DEF ConnInv
<1>2. CASE ~DeliverQueued
  <2>1. /\ todo["mqtt"] = <<>> /\ UNCHANGED <<rx, connected>>
        /\ \E steps : todo' = [todo EXCEPT !["mqtt"] = steps]
    BY <1>2 DEF HandleReport, PollError, ConnAck, LoopIdle, LoopDoes, shared
  <2>2. \A u \in Tasks \ {"mqtt"} : todo'[u] \in Seq(StepsOver(Sends))
    <3>1. \A u \in Tasks \ {"mqtt"} : todo'[u] = todo[u]
      BY <1>0, <2>1
    <3> QED
      BY <3>1 DEF ConnInv
  <2>3. Informed
    BY <2>1 DEF ConnInv
  <2>4. CASE HandleReport
    <3>1. PICK r \in Rooms : \E steps \in Seq({Send(r, u) : u \in Updates}) :
            todo' = [todo EXCEPT !["mqtt"] = steps]
      BY <1>0, <2>4, HandleReportSteps
    <3>2. {Send(r, u) : u \in Updates} \subseteq Sends
      BY SendsType
    <3>3. todo'["mqtt"] \in Seq(Sends)
      BY <1>0, <3>1, <3>2, SeqMonotonic
    <3>4. link' = link
      BY <2>4 DEF HandleReport
    <3> QED
      BY <2>1, <2>2, <2>3, <3>3, <3>4, StillInformed DEF ConnInv
  <2>5. CASE PollError
    BY <1>0, <2>2, <2>5 DEF PollError, LoopDoes, ConnInv
  <2>6. CASE ConnAck
    BY <1>0, <2>2, <2>6 DEF ConnAck, LoopDoes, ConnInv
  <2> QED
    BY <1>2, <2>4, <2>5, <2>6
<1> QED
  BY <1>1, <1>2

\* What a request or the engine puts down, when it puts down anything.
LEMMA PutsDownKeepsConn ==
  ASSUME TypeOK, ConnInv, NEW t \in Tasks \ {"mqtt"}, NEW steps \in Seq(StepsOver(Sends)),
         todo' = [todo EXCEPT ![t] = steps] \/ todo' = todo,
         UNCHANGED <<rx, connected, link>>
  PROVE  ConnInv'
<1>1. todo \in [Tasks -> Seq(Steps)]
  BY TypeParts DEF TypeOK, QueuesOK
<1>2. ASSUME NEW u \in Tasks \ {"mqtt"}
      PROVE  todo'[u] \in Seq(StepsOver(Sends))
  <2>1. todo[u] \in Seq(StepsOver(Sends))
    BY DEF ConnInv
  <2>2. todo'[u] = todo[u] \/ todo'[u] = steps
    BY <1>1
  <2> QED
    BY <2>1, <2>2
<1>3. todo'["mqtt"] = todo["mqtt"]
  BY <1>1, MqttIsTask
<1>4. Informed => Informed'
  BY StillInformed
<1> QED
  BY <1>2, <1>3, <1>4 DEF ConnInv

LEMMA InitConn == Init => ConnInv
<1> SUFFICES ASSUME Init PROVE ConnInv
  OBVIOUS
<1>1. rx = <<>> /\ connected = TRUE /\ link = "up" /\ todo = [t \in Tasks |-> <<>>]
  BY DEF Init, DaemonInit
<1>2. Informed
  <2>1. connected = (link # "down")
    BY <1>1
  <2> QED
    BY <1>1, <2>1, EmptyTells DEF Informed
<1> QED
  BY <1>1, <1>2, MqttIsTask, EmptySeq DEF ConnInv

LEMMA StepKeepsConn == TypeOK /\ ConnInv /\ [Next]_vars => ConnInv'
<1> SUFFICES ASSUME TypeOK, ConnInv, [Next]_vars
             PROVE  ConnInv'
  OBVIOUS
<1>t. "circadian" \in Tasks \ {"mqtt"} /\ Requests \subseteq Tasks \ {"mqtt"}
  BY ControlAssumption DEF ControlAssumption
<1>e. <<>> \in Seq(StepsOver(Sends))
  BY EmptySeq
<1>1. CASE Actor
  <2>1. UNCHANGED <<todo, link>>
    BY <1>1 DEF Actor, ApplyRoomUpdate, ApplyConnected, world
  <2>2. Informed => Informed'
    BY <1>1, ActorInforms DEF Actor
  <2> QED
    BY <2>1, <2>2 DEF ConnInv
<1>2. ASSUME NEW t \in Tasks, Step(t)
      PROVE  ConnInv'
  BY <1>2, TasksKeepConn DEF Step
<1>3. ASSUME NEW q \in Requests, NEW r \in Rooms, Api(q, r)
      PROVE  ConnInv'
  <2>1. PICK steps \in Seq(StepsOver(Sends)) : todo' = [todo EXCEPT ![q] = steps]
    BY <1>3, RequestPutsDown
  <2>2. UNCHANGED <<rx, connected, link>>
    BY <1>3, RequestPutsDown DEF shared, world
  <2> QED
    BY <1>t, <2>1, <2>2, PutsDownKeepsConn
<1>4. CASE BeginsCycle
  <2>1. UNCHANGED <<todo, rx, connected, link>>
    BY <1>4 DEF BeginsCycle, CycleTick, HandleMqttConnected, daemon, shared, world
  <2> QED
    BY <1>t, <1>e, <2>1, PutsDownKeepsConn
<1>5. ASSUME NEW r \in Rooms, CyclesRoom(r)
      PROVE  ConnInv'
  <2>1. /\ UNCHANGED <<rx, connected, link>>
        /\ todo' = [todo EXCEPT !["circadian"] = RoomSteps(r, cycle.view[r])]
    BY <1>5 DEF CyclesRoom, CycleRoom, shared, world
  <2> QED
    BY <1>t, <2>1, RoomStepsType, PutsDownKeepsConn
<1>6. CASE DeviceOnline
  <2> DEFINE r == Head(inbox["circadian"]).room
             push == << Publish(r, "keep", "circadian", None, << Send(r, JehaPush("circadian")) >>, <<>>) >>
  <2>1. r \in Rooms
    <3>1. Head(inbox["circadian"]) \in Events /\ Head(inbox["circadian"]).event = "DeviceOnline"
      BY <1>6, EngineTakesType DEF DeviceOnline, HandleDeviceOnline, EngineTakes
    <3> QED
      BY <3>1 DEF Events
  <2>2. /\ UNCHANGED <<rx, connected, link>>
        /\ todo' = todo \/ todo' = [todo EXCEPT !["circadian"] = push]
    BY <1>6 DEF DeviceOnline, HandleDeviceOnline, shared, world
  <2>3. push \in Seq(StepsOver(Sends))
    BY <2>1, RoomStepsType
  <2> HIDE DEF push
  <2> QED
    BY <1>t, <2>2, <2>3, PutsDownKeepsConn
<1>7. CASE (\E r \in Rooms : ExternalSet(r) \/ BulbReturns(r)) \/ Tick
  <2>1. UNCHANGED <<todo, rx, connected, link>>
    BY <1>7 DEF ExternalSet, TouchLight, BulbReturns, Tick, PassTime, Elapse, shared
  <2> QED
    BY <1>t, <1>e, <2>1, PutsDownKeepsConn
<1>8. CASE ReadReport
  BY <1>8, LoopKeepsConn DEF ReadReport
<1>9. CASE Connection
  BY <1>9, LoopKeepsConn DEF Connection
<1>10. CASE LinkLost
  <2>1. UNCHANGED <<todo, rx, connected>> /\ link = "up" /\ link' = "lost"
    BY <1>10 DEF LinkLost, LoseLink, shared
  <2>2. Informed => Informed'
    BY <2>1, StillInformed
  <2> QED
    BY <2>1, <2>2 DEF ConnInv
<1>11. CASE UNCHANGED vars
  <2>1. UNCHANGED <<todo, rx, connected, link>>
    BY <1>11 DEF vars, daemon, shared, world
  <2> QED
    BY <1>t, <1>e, <2>1, PutsDownKeepsConn
<1> QED
  BY <1>1, <1>2, <1>3, <1>4, <1>5, <1>6, <1>7, <1>8, <1>9, <1>10, <1>11 DEF Next

LEMMA ConnImplies == TypeOK /\ ConnInv => ConnectionKnown
<1> SUFFICES ASSUME TypeOK, ConnInv, LoopIdle,
                    \A i \in 1..Len(rx) : "connected" \notin DOMAIN rx[i]
             PROVE  connected = (link # "down")
  BY DEF ConnectionKnown
<1>1. Informed
  BY DEF ConnInv, LoopIdle
<1>2. NoneIn(rx, Notices)
  BY NoticeOrNot DEF NoneIn
<1> QED
  BY <1>1, <1>2 DEF Informed, Tells

\* Between two messages, and with nothing about it in the channel, the shared
\* state says of the connection what the MQTT loop knows, through any sequence
\* of losses and returns, and with any backlog in the channel.
THEOREM ConnectionIsKnown == Spec => []ConnectionKnown
<1>1. Init => TypeOK /\ ConnInv
  BY InitType, InitConn
<1>2. TypeOK /\ ConnInv /\ [Next]_vars => (TypeOK /\ ConnInv)'
  BY StepKeepsTypes, StepKeepsConn
<1> QED
  BY <1>1, <1>2, ConnImplies, PTL DEF Spec

-----------------------------------------------------------------------------
(* What the record says of the lights: vocabulary.                          *)

\* The updates a task may send: the engine puts no light out, and nobody
\* restores a record as long as no scene of Z2M was recalled (plain).
EngineKinds  == {"CircadianPause", "LightsOn", "ManualOverrideTtl", "JehaPush"}
RequestKinds == EngineKinds \union {"LightsOff", "ExternalChange"}
Kinds(t, plain) ==
  IF t = "circadian" THEN EngineKinds
  ELSE RequestKinds \union (IF plain THEN {} ELSE {"RestoreLights"})
SaidBy(t, plain) == {u \in Updates : u.update \in Kinds(t, plain)}

\* What says whether a room's lights are on, and what says what jeha intended:
\* sends, and the commands they become.
Lights(u) == u.update \in {"LightsOn", "LightsOff", "RestoreLights"}
SaysOn(u) == u.update = "LightsOn" \/ (u.update = "RestoreLights" /\ u.snapshot.lightsOn)
Intends(u, S) == u.update = "JehaPush" /\ u.level \in S

LitSends(r)         == {s \in SendsOf(r) : Lights(s.update)}
TrueSends(r, on)    == {s \in LitSends(r) : SaysOn(s.update) = on}
PushSends(r, S)     == {s \in SendsOf(r) : Intends(s.update, S)}

LitCommands(r)      == {c \in CommandsOf(r) : Lights(c.update)}
TrueCommands(r, on) == {c \in LitCommands(r) : SaysOn(c.update) = on}
PushCommands(r, S)  == {c \in CommandsOf(r) : Intends(c.update, S)}

\* A publish says of the lights what it makes the task say if it fails; if it
\* succeeds, a report is to come.
LitSteps(r) ==
  LitSends(r) \union {p \in PublishSteps : p.room = r /\ ~NoneIn(p.err, LitSends(r))}
TrueSteps(r, on) ==
  TrueSends(r, on) \union {p \in PublishSteps : LastIn(p.err, LitSends(r), TrueSends(r, on))}

\* A publish is followed by sends for its room, and the last level they intend
\* is the one that was published.
Publishes(t, plain) ==
  {p \in PublishSteps :
     /\ p.ok \in Seq([do : {"send"}, room : {p.room}, update : SaidBy(t, plain)])
     /\ p.err \in Seq([do : {"send"}, room : {p.room}, update : SaidBy(t, plain)])
     /\ NoneIn(p.err, PushSends(p.room, Levels))
     /\ plain => Tells(p.ok, PushSends(p.room, Levels), PushSends(p.room, {p.level}), p.level = None)}
Courses(t, plain) ==
  [do : {"send"}, room : Rooms, update : SaidBy(t, plain)]
    \union [do : {"connected"}, up : BOOLEAN]
    \union [do : {"announce"}, event : Events]
    \union Publishes(t, plain)

-----------------------------------------------------------------------------
(* The invariant.                                                           *)

\* A publish is the last of a task's steps.
PublishEnds(steps) == \A i \in 1..Len(steps) : steps[i].do = "publish" => i = Len(steps)

Unrecalled == spent.recalls = 0
CoursesOK ==
  /\ \A t \in Tasks : todo[t] \in Seq(Courses(t, Unrecalled)) /\ PublishEnds(todo[t])
  /\ \A i \in 1..Len(rx) : "room" \in DOMAIN rx[i] => rx[i].update \in SaidBy(rx[i].from, Unrecalled)

\* One task at a time works on a room.
Engages(t, r) == Working(t, r) \/ (t = "circadian" /\ r \in cycle.left)
Alone(r) == \A t, u \in Tasks : Engages(t, r) /\ Engages(u, r) => t = u

\* The last report on its way is right.
ReportsOf(r, S) == {m \in Report : m.room = r /\ m.on \in S}
ReportsTrue(r)  == LastIn(reports, ReportsOf(r, BOOLEAN), ReportsOf(r, {bulb[r].on}))

\* What tasks have still to say and what is in the channel: the last of it that
\* is about the fact is right, and without any the fact holds.
Chain(plans, queue, S, T, C, D, fact) ==
  /\ \A t \in Tasks : LastIn(plans[t], S, T)
  /\ (\A t \in Tasks : NoneIn(plans[t], S)) => Tells(queue, C, D, fact)

\* With no report to come, the record will have whether the lights are on.
Foreseen(r) ==
  Chain(todo, rx, LitSteps(r), TrueSteps(r, bulb[r].on), LitCommands(r), TrueCommands(r, bulb[r].on),
        rooms[r].lightsOn = bulb[r].on)
Quiet(r) == ~Reported(r) /\ ~Outstanding(r)

\* The level the lights will have, once all that is published has reached them,
\* is the one the record will have as intended, when it has one.
MessagesOf(r, S) == {m \in Outgoing : m.room = r /\ m.level \in S}
IntendedAs(r, level) ==
  /\ Tells(outq, MessagesOf(r, Levels), MessagesOf(r, {level}), bulb[r].level = level)
  /\ Chain(todo, rx, PushSends(r, Levels), PushSends(r, {level}), PushCommands(r, Levels),
           PushCommands(r, {level}), rooms[r].intended \in {None, level})
Untouched == spent.external + spent.returns + spent.recalls = 0

\* Whoever is about to push sees lights that are on.
Followed(r) ==
  /\ Alone(r)
  /\ ReportsTrue(r)
  /\ Quiet(r) => Foreseen(r) /\ (Engages("circadian", r) => bulb[r].on)
  /\ Untouched => \E level \in Levels : IntendedAs(r, level)

RecordInv == CoursesOK /\ \A r \in Rooms : ~raced[r] => Followed(r)

-----------------------------------------------------------------------------
(* Sequences.                                                               *)

\* The last of what is about the fact exists.
LEMMA TellsWitness ==
  ASSUME NEW M, NEW q \in Seq(M), NEW S, NEW T, LastIn(q, S, T), ~NoneIn(q, S)
  PROVE  \E i \in 1..Len(q) : q[i] \in S /\ q[i] \in T
<1> DEFINE n == Len(q)
           back == {k \in Nat : \E i \in 1..n : k = n - i /\ q[i] \in S}
<1>1. n \in Nat
  BY LenProperties
<1>2. PICK i \in 1..n : q[i] \in S
  BY DEF NoneIn
<1>3. n - i \in back
  BY <1>1, <1>2
<1>4. back \in SUBSET Nat /\ back # {}
  BY <1>1, <1>3
<1>5. PICK k \in back : \A m \in back : ~(m < k)
  <2>1. PICK k \in back : \A m \in back : <<m, k>> \notin OpToRel(<, Nat)
    BY <1>4, NatLessThanWellFounded, WFMin, Zenon
  <2> HIDE DEF back
  <2> QED
    BY <1>4, <2>1, Zenon DEF OpToRel
<1>6. PICK j \in 1..n : k = n - j /\ q[j] \in S
  BY <1>5
<1>7. ASSUME NEW l \in (j + 1)..n
      PROVE  q[l] \notin S
  <2>1. n - l < k /\ n - l \in Nat /\ l \in 1..n
    BY <1>1, <1>6
  <2> QED
    BY <1>5, <2>1
<1> QED
  BY <1>6, <1>7 DEF LastIn

\* Nothing, and nothing but what is right.
LEMMA NoneTells ==
  ASSUME NEW M, NEW q \in Seq(M), NEW S, NEW T
  PROVE  /\ NoneIn(q, S) => LastIn(q, S, T)
         /\ (\A i \in 1..Len(q) : q[i] \in S => q[i] \in T) => LastIn(q, S, T)
BY DEF NoneIn, LastIn

LEMMA OneTells ==
  ASSUME NEW e, NEW S, NEW T
  PROVE  /\ NoneIn(<<e>>, S) <=> e \notin S
         /\ LastIn(<<e>>, S, T) <=> (e \in S => e \in T)
<1> DEFINE q == <<e>>
<1>1. Len(q) = 1 /\ q[1] = e
  OBVIOUS
<1> HIDE DEF q
<1>2. 1..Len(q) = {1} /\ (1 + 1)..Len(q) = {}
  BY <1>1
<1>3. (NoneIn(q, S) <=> e \notin S) /\ (LastIn(q, S, T) <=> (e \in S => e \in T))
  BY <1>1, <1>2 DEF NoneIn, LastIn
<1> QED
  BY <1>3 DEF q

\* The rest of what a task has to say.
LEMMA TailTells ==
  ASSUME NEW M, NEW q \in Seq(M), q # <<>>, NEW S, NEW T, LastIn(q, S, T)
  PROVE  /\ LastIn(Tail(q), S, T)
         /\ NoneIn(Tail(q), S) /\ Head(q) \in S => Head(q) \in T
         /\ NoneIn(Tail(q), S) /\ Head(q) \notin S => NoneIn(q, S)
<1>1. /\ Len(q) \in Nat /\ Len(Tail(q)) \in Nat /\ Len(q) = Len(Tail(q)) + 1 /\ Head(q) = q[1]
      /\ \A i \in 1..Len(Tail(q)) : Tail(q)[i] = q[i + 1]
  BY HeadTailProperties, LenProperties
<1>2. LastIn(Tail(q), S, T)
  <2>1. Tells(q, S, T, TRUE)
    BY DEF Tells
  <2> QED
    BY <2>1, TellsTail DEF Tells
<1>3. ASSUME NoneIn(Tail(q), S)
      PROVE  \A j \in 2..Len(q) : q[j] \notin S
  <2> SUFFICES ASSUME NEW j \in 2..Len(q) PROVE q[j] \notin S
    OBVIOUS
  <2>1. j - 1 \in 1..Len(Tail(q)) /\ Tail(q)[j - 1] = q[j]
    BY <1>1
  <2> QED
    BY <1>3, <2>1 DEF NoneIn
<1>4. 1 \in 1..Len(q) /\ \A j \in 1..Len(q) : j = 1 \/ j \in 2..Len(q)
  BY <1>1
<1> QED
  BY <1>1, <1>2, <1>3, <1>4 DEF LastIn, NoneIn

-----------------------------------------------------------------------------
(* What tasks have still to say: lemmas on Chain.                           *)

\* A task says the first thing it has to say, or does something that is not
\* about the fact.
LEMMA ChainSays ==
  ASSUME NEW M, NEW plans \in [Tasks -> Seq(M)], NEW t \in Tasks, plans[t] # <<>>,
         NEW later, later = [plans EXCEPT ![t] = Tail(plans[t])],
         NEW N, NEW queue \in Seq(N), NEW c \in N, NEW S, NEW T, NEW C, NEW D, NEW fact,
         Chain(plans, queue, S, T, C, D, fact),
         Head(plans[t]) \in S => c \in C,
         Head(plans[t]) \in S /\ Head(plans[t]) \in T => c \in D,
         Head(plans[t]) \notin S => c \notin C
  PROVE  Chain(later, Append(queue, c), S, T, C, D, fact)
<1> DEFINE q == plans[t]
<1>1. q \in Seq(M) /\ q # <<>> /\ LastIn(q, S, T)
  BY DEF Chain
<1>2. later[t] = Tail(q) /\ \A u \in Tasks \ {t} : later[u] = plans[u]
  BY DEF q
<1> HIDE DEF q
<1>3. \A u \in Tasks : LastIn(later[u], S, T)
  <2> SUFFICES ASSUME NEW u \in Tasks PROVE LastIn(later[u], S, T)
    OBVIOUS
  <2>1. CASE u = t
    BY <1>1, <1>2, <2>1, TailTells
  <2>2. CASE u # t
    BY <1>2, <2>2 DEF Chain
  <2> QED BY <2>1, <2>2
<1>4. ASSUME \A u \in Tasks : NoneIn(later[u], S)
      PROVE  Tells(Append(queue, c), C, D, fact)
  <2>1. NoneIn(Tail(q), S)
    BY <1>2, <1>4
  <2>2. CASE Head(q) \in S
    <3>1. Head(q) \in T
      BY <1>1, <2>1, <2>2, TailTells
    <3> QED BY <2>2, <3>1, TellsAppend DEF q
  <2>3. CASE Head(q) \notin S
    <3>1. NoneIn(q, S)
      BY <1>1, <2>1, <2>3, TailTells
    <3>2. \A u \in Tasks : NoneIn(plans[u], S)
      BY <1>2, <1>4, <3>1 DEF q
    <3>3. Tells(queue, C, D, fact)
      BY <3>2 DEF Chain
    <3> QED BY <2>3, <3>3, TellsAppend DEF q
  <2> QED BY <2>2, <2>3
<1> QED BY <1>3, <1>4 DEF Chain

\* A task has something else to do, of which the last that is about the fact is
\* right, and which is about it if what it had to do was.
LEMMA ChainReplaced ==
  ASSUME NEW M, NEW plans \in [Tasks -> Seq(M)], NEW t \in Tasks,
         NEW steps, NEW later, later = [plans EXCEPT ![t] = steps],
         NEW queue, NEW S, NEW T, NEW C, NEW D, NEW fact,
         Chain(plans, queue, S, T, C, D, fact),
         LastIn(steps, S, T),
         NoneIn(steps, S) => NoneIn(plans[t], S)
  PROVE  Chain(later, queue, S, T, C, D, fact)
<1>1. later[t] = steps /\ \A u \in Tasks \ {t} : later[u] = plans[u]
  OBVIOUS
<1>2. \A u \in Tasks : LastIn(later[u], S, T)
  <2> SUFFICES ASSUME NEW u \in Tasks PROVE LastIn(later[u], S, T)
    OBVIOUS
  <2>1. LastIn(plans[u], S, T)
    BY DEF Chain
  <2> QED BY <1>1, <2>1
<1>3. ASSUME \A u \in Tasks : NoneIn(later[u], S)
      PROVE  \A u \in Tasks : NoneIn(plans[u], S)
  <2> SUFFICES ASSUME NEW u \in Tasks PROVE NoneIn(plans[u], S)
    OBVIOUS
  <2>1. NoneIn(later[u], S) /\ NoneIn(later[t], S)
    BY <1>3
  <2> QED BY <1>1, <2>1
<1> QED BY <1>2, <1>3 DEF Chain

\* A task does something that is not about the fact.
LEMMA ChainPasses ==
  ASSUME NEW M, NEW plans \in [Tasks -> Seq(M)], NEW t \in Tasks, plans[t] # <<>>,
         NEW later, later = [plans EXCEPT ![t] = Tail(plans[t])],
         NEW queue, NEW S, NEW T, NEW C, NEW D, NEW fact,
         Chain(plans, queue, S, T, C, D, fact),
         Head(plans[t]) \notin S
  PROVE  Chain(later, queue, S, T, C, D, fact)
<1> DEFINE q == plans[t]
<1>1. q \in Seq(M) /\ q # <<>> /\ LastIn(q, S, T) /\ Head(q) \notin S
  BY DEF Chain
<1> HIDE DEF q
<1>2. LastIn(Tail(q), S, T) /\ (NoneIn(Tail(q), S) => NoneIn(q, S))
  BY <1>1, TailTells
<1>3. LastIn(Tail(plans[t]), S, T) /\ (NoneIn(Tail(plans[t]), S) => NoneIn(plans[t], S))
  BY <1>2 DEF q
<1> QED BY <1>3, ChainReplaced

\* One task alone has anything to say of the fact, and ends with what is right.
LEMMA ChainFresh ==
  ASSUME NEW M, NEW plans \in [Tasks -> Seq(M)], NEW t \in Tasks,
         NEW steps, NEW later, later = [plans EXCEPT ![t] = steps],
         NEW queue, NEW S, NEW T, NEW C, NEW D, NEW fact,
         \A u \in Tasks \ {t} : NoneIn(plans[u], S),
         LastIn(steps, S, T), ~NoneIn(steps, S)
  PROVE  Chain(later, queue, S, T, C, D, fact)
<1>1. later[t] = steps /\ \A u \in Tasks \ {t} : later[u] = plans[u]
  OBVIOUS
<1>2. \A u \in Tasks : LastIn(later[u], S, T)
  <2> SUFFICES ASSUME NEW u \in Tasks PROVE LastIn(later[u], S, T)
    OBVIOUS
  <2>1. CASE u = t
    BY <1>1, <2>1
  <2>2. CASE u # t
    BY <1>1, <2>2 DEF NoneIn, LastIn
  <2> QED BY <2>1, <2>2
<1> QED BY <1>1, <1>2 DEF Chain

\* The actor applies the first command.
LEMMA ChainApplies ==
  ASSUME NEW N, NEW queue \in Seq(N), queue # <<>>, NEW plans,
         NEW S, NEW T, NEW C, NEW D, NEW old, NEW fact,
         Chain(plans, queue, S, T, C, D, old),
         Head(queue) \in C /\ Head(queue) \in D => fact,
         Head(queue) \notin C /\ old => fact
  PROVE  Chain(plans, Tail(queue), S, T, C, D, fact)
<1>1. ASSUME \A t \in Tasks : NoneIn(plans[t], S)
      PROVE  Tells(Tail(queue), C, D, fact)
  <2>1. Tells(queue, C, D, old)
    BY <1>1 DEF Chain
  <2> QED BY <2>1, TellsTail
<1> QED BY <1>1 DEF Chain

\* When all has been said, the fact holds.
LEMMA ChainEnds ==
  ASSUME NEW plans, NEW queue, NEW S, NEW T, NEW C, NEW D, NEW fact,
         Chain(plans, queue, S, T, C, D, fact),
         \A t \in Tasks : NoneIn(plans[t], S), NoneIn(queue, C)
  PROVE  fact
BY DEF Chain, Tells

-----------------------------------------------------------------------------
(* Who says what: lemmas on the vocabulary.                                 *)

SendsFrom(t, plain, r) == [do : {"send"}, room : {r}, update : SaidBy(t, plain)]

\* The steps of a course, by kind.
LEMMA CourseKinds ==
  ASSUME NEW t, NEW plain, NEW s \in Courses(t, plain)
  PROVE  /\ s \in Steps /\ s.do \in {"send", "connected", "announce", "publish"}
         /\ s.do = "send" => s.room \in Rooms /\ s.update \in SaidBy(t, plain)
         /\ s.do = "publish" => s \in Publishes(t, plain)
<1>1. CASE s \in Publishes(t, plain)
  BY <1>1 DEF Publishes, PublishSteps, Steps
<1>2. CASE s \notin Publishes(t, plain)
  BY <1>2 DEF Courses, SaidBy, Steps, SimpleSteps
<1> QED BY <1>1, <1>2

LEMMA PublishCourse ==
  ASSUME NEW t, NEW plain, NEW p \in Publishes(t, plain)
  PROVE  /\ p \in PublishSteps /\ p.do = "publish" /\ p.room \in Rooms /\ p.level \in MaybeLevel
         /\ p.ok \in Seq(SendsFrom(t, plain, p.room)) /\ p.err \in Seq(SendsFrom(t, plain, p.room))
         /\ NoneIn(p.err, PushSends(p.room, Levels))
         /\ plain => Tells(p.ok, PushSends(p.room, Levels), PushSends(p.room, {p.level}), p.level = None)
BY PublishFields DEF Publishes, SendsFrom

\* Once a scene was recalled, more is said.
LEMMA CoursesGrow ==
  ASSUME NEW t, NEW plain \in BOOLEAN, NEW later \in BOOLEAN, later => plain
  PROVE  /\ SaidBy(t, plain) \subseteq SaidBy(t, later)
         /\ Courses(t, plain) \subseteq Courses(t, later)
<1>1. SaidBy(t, plain) \subseteq SaidBy(t, later)
  BY DEF SaidBy, Kinds
<1>2. \A r : Seq(SendsFrom(t, plain, r)) \subseteq Seq(SendsFrom(t, later, r))
  <2> TAKE r
  <2>1. SendsFrom(t, plain, r) \subseteq SendsFrom(t, later, r)
    BY <1>1 DEF SendsFrom
  <2> QED BY <2>1, SeqMonotonic
<1>3. Publishes(t, plain) \subseteq Publishes(t, later)
  <2> SUFFICES ASSUME NEW p \in Publishes(t, plain) PROVE p \in Publishes(t, later)
    OBVIOUS
  <2>1. p.ok \in Seq(SendsFrom(t, later, p.room)) /\ p.err \in Seq(SendsFrom(t, later, p.room))
    BY <1>2, PublishCourse
  <2> QED BY <2>1, PublishCourse DEF Publishes, SendsFrom
<1> QED BY <1>1, <1>3 DEF Courses

\* A send and the command it becomes say the same.
LEMMA SendSays ==
  ASSUME NEW t \in Tasks, NEW s \in Steps, s.do = "send", NEW c,
         c = [from |-> t, room |-> s.room, update |-> s.update]
  PROVE  /\ c \in Commands
         /\ \A r \in Rooms : \A on : /\ s \in LitSteps(r) <=> c \in LitCommands(r)
                                     /\ s \in TrueSteps(r, on) => c \in TrueCommands(r, on)
         /\ \A r \in Rooms : \A S : s \in PushSends(r, S) <=> c \in PushCommands(r, S)
<1>1. /\ s \in [do : {"send"}, room : Rooms, update : Updates] /\ s \notin PublishSteps
      /\ s.room \in Rooms /\ s.update \in Updates
  <2>1. s \notin PublishSteps
    BY DEF PublishSteps
  <2> QED BY <2>1 DEF Steps, SimpleSteps
<1>2. \A r \in Rooms : (s \in SendsOf(r) <=> s.room = r) /\ (c \in CommandsOf(r) <=> s.room = r)
  BY <1>1 DEF SendsOf, CommandsOf
<1>3. c.update = s.update /\ c \in Commands
  BY <1>1 DEF Commands
<1> QED
  BY <1>1, <1>2, <1>3 DEF LitSteps, TrueSteps, LitSends, TrueSends, LitCommands, TrueCommands,
                          PushSends, PushCommands

\* Notices say nothing of a room.
LEMMA OthersSay ==
  /\ \A s \in Steps, r \in Rooms : \A S : s.do \in {"connected", "announce"} =>
       s \notin LitSteps(r) /\ s \notin PushSends(r, S)
  /\ \A t \in Tasks, up \in BOOLEAN : /\ [from |-> t, connected |-> up] \in Commands
                                      /\ \A r, S : /\ [from |-> t, connected |-> up] \notin LitCommands(r)
                                                   /\ [from |-> t, connected |-> up] \notin PushCommands(r, S)
<1>1. \A r : \A s \in LitSteps(r) : s.do \in {"send", "publish"}
  BY DEF LitSteps, LitSends, SendsOf, PublishSteps
<1>2. \A r, S : \A s \in PushSends(r, S) : s.do = "send"
  BY DEF PushSends, SendsOf
<1>3. \A r : \A c \in CommandsOf(r) : DOMAIN c = {"from", "room", "update"}
  BY DEF CommandsOf
<1>4. \A t \in Tasks, up \in BOOLEAN : DOMAIN [from |-> t, connected |-> up] = {"from", "connected"}
  OBVIOUS
<1> QED BY <1>1, <1>2, <1>3, <1>4 DEF LitCommands, PushCommands, Commands

\* What a publish says.
LEMMA PublishSays ==
  ASSUME NEW p \in PublishSteps, NEW r \in Rooms
  PROVE  /\ \A S : p \notin PushSends(r, S)
         /\ p \in LitSteps(r) <=> p.room = r /\ ~NoneIn(p.err, LitSends(r))
         /\ \A on : p \in TrueSteps(r, on) <=> LastIn(p.err, LitSends(r), TrueSends(r, on))
<1>1. p.do = "publish" /\ p \notin SendsOf(r)
  BY PublishFields DEF SendsOf
<1> QED BY <1>1 DEF PushSends, LitSteps, TrueSteps, LitSends, TrueSends

\* What sends of a room say.
LEMMA SendsSay ==
  ASSUME NEW t, NEW plain, NEW o \in Rooms, NEW q \in Seq(SendsFrom(t, plain, o)), NEW r \in Rooms
  PROVE  /\ r # o => NoneIn(q, LitSteps(r)) /\ \A S : NoneIn(q, PushSends(r, S))
         /\ NoneIn(q, LitSteps(r)) <=> NoneIn(q, LitSends(r))
         /\ \A on : LastIn(q, LitSends(r), TrueSends(r, on)) => LastIn(q, LitSteps(r), TrueSteps(r, on))
<1>1. \A i \in 1..Len(q) : q[i].do = "send" /\ q[i].room = o
  <2>1. \A i \in 1..Len(q) : q[i] \in SendsFrom(t, plain, o)
    OBVIOUS
  <2> QED BY <2>1 DEF SendsFrom
<1>2. \A i \in 1..Len(q) : q[i] \in LitSteps(r) <=> q[i] \in LitSends(r)
  <2>1. \A p \in PublishSteps : p.do = "publish"
    BY PublishFields
  <2> QED BY <1>1, <2>1 DEF LitSteps
<1>3. r # o => \A i \in 1..Len(q) : q[i] \notin SendsOf(r)
  BY <1>1 DEF SendsOf
<1>4. r # o => NoneIn(q, LitSends(r)) /\ \A S : NoneIn(q, PushSends(r, S))
  BY <1>3 DEF NoneIn, LitSends, PushSends
<1>5. NoneIn(q, LitSteps(r)) <=> NoneIn(q, LitSends(r))
  BY <1>2 DEF NoneIn
<1>6. ASSUME NEW on, LastIn(q, LitSends(r), TrueSends(r, on))
      PROVE  LastIn(q, LitSteps(r), TrueSteps(r, on))
  <2> SUFFICES ASSUME NEW i \in 1..Len(q), q[i] \in LitSteps(r),
                      \A j \in (i + 1)..Len(q) : q[j] \notin LitSteps(r)
               PROVE  q[i] \in TrueSteps(r, on)
    BY DEF LastIn
  <2>1. \A j \in (i + 1)..Len(q) : q[j] \notin LitSends(r)
    BY DEF LitSteps
  <2> QED BY <1>2, <1>6, <2>1 DEF LastIn, TrueSteps
<1> QED BY <1>4, <1>5, <1>6

-----------------------------------------------------------------------------
(* What requests, the engine and the loop put down.                         *)

\* Steps for one room, which intend nothing before a publish.
CourseIn(steps, t, r, plain) ==
  /\ steps \in Seq(Courses(t, plain)) /\ PublishEnds(steps)
  /\ \A i \in 1..Len(steps) : steps[i].do \in {"send", "publish"} /\ steps[i].room = r
  /\ NoneIn(steps, PushSends(r, Levels))

\* What each update says.
LEMMA UpdatesSay ==
  ASSUME NEW t, NEW plain
  PROVE  /\ \A level \in MaybeLevel, source \in Sources :
              LET u == LightsOn(level, source) IN
              /\ u \in SaidBy(t, plain) /\ Lights(u) /\ SaysOn(u) /\ \A S : ~Intends(u, S)
         /\ \A level \in MaybeLevel :
              LET u == JehaPush(level) IN
              /\ u \in SaidBy(t, plain) /\ ~Lights(u) /\ \A S : Intends(u, S) <=> level \in S
         /\ \A b \in BOOLEAN, until \in MaybeInstant :
              LET u == CircadianPause(b, until) IN
              u \in SaidBy(t, plain) /\ ~Lights(u) /\ \A S : ~Intends(u, S)
         /\ \A until \in MaybeInstant :
              LET u == ManualOverrideTtl(until) IN
              u \in SaidBy(t, plain) /\ ~Lights(u) /\ \A S : ~Intends(u, S)
         /\ t # "circadian" =>
              /\ LightsOff \in SaidBy(t, plain) /\ Lights(LightsOff) /\ ~SaysOn(LightsOff)
              /\ \A S : ~Intends(LightsOff, S)
              /\ \A ttl \in Nat :
                   LET u == ExternalChange(ttl) IN
                   u \in SaidBy(t, plain) /\ ~Lights(u) /\ \A S : ~Intends(u, S)
              /\ ~plain => \A room \in Room :
                   LET u == RestoreLights(room) IN
                   /\ u \in SaidBy(t, plain) /\ Lights(u) /\ (SaysOn(u) <=> room.lightsOn)
                   /\ \A S : ~Intends(u, S)
<1>1. \A level \in MaybeLevel, source \in Sources :
        LET u == LightsOn(level, source) IN
        /\ u \in SaidBy(t, plain) /\ Lights(u) /\ SaysOn(u) /\ \A S : ~Intends(u, S)
  BY DEF LightsOn, SaidBy, Kinds, EngineKinds, RequestKinds, Updates, Lights, SaysOn, Intends
<1>2. \A level \in MaybeLevel :
        LET u == JehaPush(level) IN
        /\ u \in SaidBy(t, plain) /\ ~Lights(u) /\ \A S : Intends(u, S) <=> level \in S
  BY DEF JehaPush, SaidBy, Kinds, EngineKinds, RequestKinds, Updates, Lights, Intends
<1>3. \A b \in BOOLEAN, until \in MaybeInstant :
        LET u == CircadianPause(b, until) IN
        u \in SaidBy(t, plain) /\ ~Lights(u) /\ \A S : ~Intends(u, S)
  BY DEF CircadianPause, SaidBy, Kinds, EngineKinds, RequestKinds, Updates, Lights, Intends
<1>4. \A until \in MaybeInstant :
        LET u == ManualOverrideTtl(until) IN
        u \in SaidBy(t, plain) /\ ~Lights(u) /\ \A S : ~Intends(u, S)
  BY DEF ManualOverrideTtl, SaidBy, Kinds, EngineKinds, RequestKinds, Updates, Lights, Intends
<1>5. ASSUME t # "circadian"
      PROVE  /\ LightsOff \in SaidBy(t, plain) /\ Lights(LightsOff) /\ ~SaysOn(LightsOff)
             /\ \A S : ~Intends(LightsOff, S)
  <2>1. LightsOff \in Updates
    BY DEF Updates
  <2>2. LightsOff.update = "LightsOff"
    BY DEF LightsOff
  <2> QED BY <1>5, <2>1, <2>2 DEF SaidBy, Kinds, EngineKinds, RequestKinds, Lights, SaysOn, Intends
<1>6. ASSUME t # "circadian"
      PROVE  \A ttl \in Nat :
               LET u == ExternalChange(ttl) IN
               u \in SaidBy(t, plain) /\ ~Lights(u) /\ \A S : ~Intends(u, S)
  BY <1>6 DEF ExternalChange, SaidBy, Kinds, EngineKinds, RequestKinds, Updates, Lights, Intends
<1>7. ASSUME t # "circadian", ~plain
      PROVE  \A room \in Room :
               LET u == RestoreLights(room) IN
               /\ u \in SaidBy(t, plain) /\ Lights(u) /\ (SaysOn(u) <=> room.lightsOn)
               /\ \A S : ~Intends(u, S)
  <2> SUFFICES ASSUME NEW room \in Room
               PROVE  LET u == RestoreLights(room) IN
                      /\ u \in SaidBy(t, plain) /\ Lights(u) /\ (SaysOn(u) <=> room.lightsOn)
                      /\ \A S : ~Intends(u, S)
    OBVIOUS
  <2>1. RestoreLights(room) \in Updates
    BY DEF RestoreLights, Updates
  <2>2. RestoreLights(room).update = "RestoreLights" /\ RestoreLights(room).snapshot = room
    BY DEF RestoreLights
  <2> QED BY <1>7, <2>1, <2>2 DEF SaidBy, Kinds, EngineKinds, RequestKinds, Lights, SaysOn, Intends
<1> QED BY <1>1, <1>2, <1>3, <1>4, <1>5, <1>6, <1>7

\* The send of an update.
LEMMA SendIn ==
  ASSUME NEW t, NEW plain, NEW r \in Rooms, NEW u \in SaidBy(t, plain)
  PROVE  /\ Send(r, u) \in SendsFrom(t, plain, r)
         /\ Send(r, u) \in LitSends(r) <=> Lights(u)
         /\ \A on : Send(r, u) \in TrueSends(r, on) <=> Lights(u) /\ SaysOn(u) = on
         /\ \A S : Send(r, u) \in PushSends(r, S) <=> Intends(u, S)
         /\ Send(r, u) \in LitSteps(r) <=> Lights(u)
         /\ \A on : Send(r, u) \in TrueSends(r, on) => Send(r, u) \in TrueSteps(r, on)
<1>1. Send(r, u) \in SendsOf(r) /\ Send(r, u).update = u /\ Send(r, u) \in SendsFrom(t, plain, r)
  BY DEF Send, SendsOf, SaidBy, SendsFrom
<1>2. Send(r, u) \notin PublishSteps
  BY DEF Send, PublishSteps
<1> QED BY <1>1, <1>2 DEF LitSends, TrueSends, PushSends, LitSteps, TrueSteps

LEMMA PublishSend ==
  ASSUME NEW t, NEW plain, NEW r \in Rooms, NEW power \in Power, NEW level \in MaybeLevel,
         NEW goal \in Goal \union {None},
         NEW ok \in Seq(SendsFrom(t, plain, r)), NEW err \in Seq(SendsFrom(t, plain, r))
  PROVE  Publish(r, power, level, goal, ok, err) \in PublishSteps
<1>1. SendsFrom(t, plain, r) \subseteq SimpleSteps
  BY DEF SendsFrom, SaidBy, SimpleSteps
<1>2. ok \in Seq(SimpleSteps) /\ err \in Seq(SimpleSteps)
  BY <1>1, SeqMonotonic
<1> QED BY <1>2 DEF Publish, PublishSteps

\* A publish for a room.
LEMMA PublishInto ==
  ASSUME NEW t, NEW plain, NEW r \in Rooms, NEW power \in Power, NEW level \in MaybeLevel,
         NEW goal \in Goal \union {None},
         NEW ok \in Seq(SendsFrom(t, plain, r)), NEW err \in Seq(SendsFrom(t, plain, r)),
         NoneIn(err, PushSends(r, Levels)),
         plain => Tells(ok, PushSends(r, Levels), PushSends(r, {level}), level = None)
  PROVE  LET p == Publish(r, power, level, goal, ok, err) IN
         p \in Publishes(t, plain) /\ p.room = r /\ p.err = err
<1> DEFINE p == Publish(r, power, level, goal, ok, err)
<1>3. p \in PublishSteps
  BY PublishSend
<1>4. p.room = r /\ p.ok = ok /\ p.err = err /\ p.level = level
  BY DEF Publish
<1> HIDE DEF p
<1>5. p \in Publishes(t, plain)
  BY <1>3, <1>4 DEF Publishes, SendsFrom
<1> QED BY <1>4, <1>5 DEF p

\* Sends, and sends with a publish at the end.
Before(t, plain, r) == {s \in SendsFrom(t, plain, r) : s \notin PushSends(r, Levels)}

LEMMA CourseBuilt ==
  ASSUME NEW t, NEW plain, NEW r \in Rooms, NEW q \in Seq(Before(t, plain, r))
  PROVE  /\ CourseIn(q, t, r, plain)
         /\ \A x \in Publishes(t, plain) : x.room = r => CourseIn(Append(q, x), t, r, plain)
<1>1. \A s \in Before(t, plain, r) : /\ s \in Courses(t, plain) /\ s.do = "send" /\ s.room = r
                                     /\ s \notin PushSends(r, Levels)
  BY DEF Before, SendsFrom, Courses
<1>2. \A i \in 1..Len(q) : q[i] \in Before(t, plain, r)
  OBVIOUS
<1>3. q \in Seq(Courses(t, plain))
  <2>1. Before(t, plain, r) \subseteq Courses(t, plain)
    BY <1>1
  <2> QED BY <2>1, SeqMonotonic
<1>4. CourseIn(q, t, r, plain)
  BY <1>1, <1>2, <1>3 DEF CourseIn, NoneIn, PublishEnds
<1>5. ASSUME NEW x \in Publishes(t, plain), x.room = r
      PROVE  CourseIn(Append(q, x), t, r, plain)
  <2> DEFINE p == Append(q, x)
  <2>1. x \in Courses(t, plain) /\ x.do = "publish" /\ x \notin PushSends(r, Levels)
    BY PublishCourse, PublishSays DEF Courses
  <2>2. /\ p \in Seq(Courses(t, plain)) /\ Len(q) \in Nat /\ Len(p) = Len(q) + 1 /\ p[Len(p)] = x
        /\ \A i \in 1..Len(q) : p[i] = q[i]
    BY <1>3, <2>1, AppendProperties, LenProperties
  <2> HIDE DEF p
  <2>3. \A i \in 1..Len(p) : i = Len(p) \/ (i \in 1..Len(q) /\ p[i] \in Before(t, plain, r))
    BY <1>2, <2>2
  <2>4. CourseIn(p, t, r, plain)
    BY <1>1, <1>5, <2>1, <2>2, <2>3 DEF CourseIn, NoneIn, PublishEnds
  <2> QED BY <2>4 DEF p
<1> QED BY <1>4, <1>5

\* What the sends of a task say.
LEMMA SendsSaid ==
  ASSUME NEW t, NEW plain, NEW r \in Rooms
  PROVE  /\ \A level \in MaybeLevel, source \in Sources :
              LET s == Send(r, LightsOn(level, source)) IN
              s \in Before(t, plain, r) /\ s \in LitSteps(r) /\ s \in TrueSteps(r, TRUE)
         /\ \A level \in MaybeLevel :
              LET s == Send(r, JehaPush(level)) IN
              /\ s \in SendsFrom(t, plain, r) /\ s \notin LitSteps(r)
              /\ \A S : s \in PushSends(r, S) <=> level \in S
         /\ \A b \in BOOLEAN, until \in MaybeInstant :
              LET s == Send(r, CircadianPause(b, until)) IN
              s \in Before(t, plain, r) /\ s \notin LitSteps(r)
         /\ \A until \in MaybeInstant :
              LET s == Send(r, ManualOverrideTtl(until)) IN
              s \in Before(t, plain, r) /\ s \notin LitSteps(r)
         /\ t # "circadian" =>
              /\ LET s == Send(r, LightsOff) IN
                 s \in Before(t, plain, r) /\ s \in LitSteps(r) /\ s \in TrueSteps(r, FALSE)
              /\ \A ttl \in Nat :
                   LET s == Send(r, ExternalChange(ttl)) IN
                   s \in Before(t, plain, r) /\ s \notin LitSteps(r)
<1>1. ASSUME NEW level \in MaybeLevel, NEW source \in Sources, NEW s, s = Send(r, LightsOn(level, source))
      PROVE  s \in Before(t, plain, r) /\ s \in LitSteps(r) /\ s \in TrueSteps(r, TRUE)
  <2>1. PICK u \in SaidBy(t, plain) : s = Send(r, u) /\ Lights(u) /\ SaysOn(u) /\ \A S : ~Intends(u, S)
    BY <1>1, UpdatesSay
  <2>2. SaysOn(u) = TRUE
    BY <2>1 DEF SaysOn
  <2> QED BY <2>1, <2>2, SendIn DEF Before
<1>2. ASSUME NEW level \in MaybeLevel, NEW s, s = Send(r, JehaPush(level))
      PROVE  /\ s \in SendsFrom(t, plain, r) /\ s \notin LitSteps(r)
             /\ \A S : s \in PushSends(r, S) <=> level \in S
  <2>1. PICK u \in SaidBy(t, plain) : s = Send(r, u) /\ ~Lights(u) /\ \A S : Intends(u, S) <=> level \in S
    BY <1>2, UpdatesSay
  <2> QED BY <2>1, SendIn
<1>3. ASSUME NEW s, NEW u \in SaidBy(t, plain), s = Send(r, u), ~Lights(u), \A S : ~Intends(u, S)
      PROVE  s \in Before(t, plain, r) /\ s \notin LitSteps(r)
  BY <1>3, SendIn DEF Before
<1>4. \A b \in BOOLEAN, until \in MaybeInstant :
        LET s == Send(r, CircadianPause(b, until)) IN s \in Before(t, plain, r) /\ s \notin LitSteps(r)
  BY <1>3, UpdatesSay
<1>5. \A until \in MaybeInstant :
        LET s == Send(r, ManualOverrideTtl(until)) IN s \in Before(t, plain, r) /\ s \notin LitSteps(r)
  BY <1>3, UpdatesSay
<1>6. ASSUME t # "circadian"
      PROVE  LET s == Send(r, LightsOff) IN
             s \in Before(t, plain, r) /\ s \in LitSteps(r) /\ s \in TrueSteps(r, FALSE)
  <2>1. /\ LightsOff \in SaidBy(t, plain) /\ Lights(LightsOff) /\ SaysOn(LightsOff) = FALSE
        /\ \A S : ~Intends(LightsOff, S)
    BY <1>6, UpdatesSay DEF SaysOn
  <2> QED BY <2>1, SendIn DEF Before
<1>7. ASSUME t # "circadian", NEW ttl \in Nat
      PROVE  LET s == Send(r, ExternalChange(ttl)) IN s \in Before(t, plain, r) /\ s \notin LitSteps(r)
  BY <1>3, <1>7, UpdatesSay
<1> QED BY <1>1, <1>2, <1>4, <1>5, <1>6, <1>7

LEMMA RestoreSaid ==
  ASSUME NEW t, t # "circadian", NEW plain, ~plain, NEW r \in Rooms, NEW room \in Room,
         NEW s, s = Send(r, RestoreLights(room))
  PROVE  s \in Before(t, plain, r) /\ s \in LitSends(r) /\ s \in TrueSends(r, room.lightsOn)
<1>1. PICK u \in SaidBy(t, plain) : /\ s = Send(r, u) /\ Lights(u) /\ (SaysOn(u) <=> room.lightsOn)
                                    /\ \A S : ~Intends(u, S)
  BY UpdatesSay
<1>2. SaysOn(u) = room.lightsOn
  BY <1>1 DEF SaysOn, Room
<1> QED BY <1>1, <1>2, SendIn DEF Before

\* Short sequences of which the second, or the only, element is about the fact.
LEMMA ShortTells ==
  ASSUME NEW a, NEW b, NEW c, NEW S, NEW T, NEW fact, a \notin S, b \in S, b \in T, c \notin S
  PROVE  /\ Tells(<<b>>, S, T, fact) /\ Tells(<<a, b>>, S, T, fact)
         /\ Tells(<<a, b, c>>, S, T, fact)
<1> DEFINE M == {a, b, c}
<1>1. <<>> \in Seq(M) /\ <<a>> \in Seq(M) /\ <<a, b>> \in Seq(M)
  OBVIOUS
<1>2. <<b>> = Append(<<>>, b) /\ <<a, b>> = Append(<<a>>, b) /\ <<a, b, c>> = Append(<<a, b>>, c)
  OBVIOUS
<1>3. a \in M /\ b \in M /\ c \in M
  OBVIOUS
<1> HIDE DEF M
<1>4. Tells(<<b>>, S, T, fact) /\ Tells(<<a, b>>, S, T, fact)
  BY <1>1, <1>2, <1>3, TellsAppend
<1>5. Tells(<<a, b, c>>, S, T, fact)
  BY <1>1, <1>2, <1>3, <1>4, TellsAppend
<1> QED BY <1>4, <1>5

LEMMA ShortNone ==
  ASSUME NEW a, NEW b, NEW S, a \notin S, b \notin S
  PROVE  NoneIn(<<>>, S) /\ NoneIn(<<a>>, S) /\ NoneIn(<<a, b>>, S)
<1>1. Len(<<>>) = 0 /\ Len(<<a>>) = 1 /\ Len(<<a, b>>) = 2
  OBVIOUS
<1>2. <<a>>[1] = a /\ <<a, b>>[1] = a /\ <<a, b>>[2] = b
  OBVIOUS
<1> QED BY <1>1, <1>2 DEF NoneIn

\* The requests but the recall of a scene.
LEMMA RequestCourses ==
  ASSUME RecordOK, NEW t \in Tasks \ {"circadian"}, NEW r \in Rooms, NEW until \in MaybeInstant,
         NEW plain \in BOOLEAN,
         NEW steps \in {OnRequest(r), SetRequest(r, until), OffRequest(r), PauseRequest(r),
                        SnoozeRequest(r, until), SceneRequest(r, until)}
  PROVE  CourseIn(steps, t, r, plain) /\ NoneIn(steps, LitSteps(r))
<1> DEFINE K == SendsFrom(t, plain, r)
           B == Before(t, plain, r)
           P == PushSends(r, Levels)
           room == rooms[r]
           lit(level, source) == Send(r, LightsOn(level, source))
           push(level) == Send(r, JehaPush(level))
           pause(b, u) == Send(r, CircadianPause(b, u))
           ttl(u) == Send(r, ManualOverrideTtl(u))
           off == Send(r, LightsOff)
           KS == Seq(K)
           Good(x, err) == x \in Publishes(t, plain) /\ x.room = r /\ x.err = err
           Ends(ok, level) == Tells(ok, P, PushSends(r, {level}), level = None)
<1>1. /\ room \in Room /\ room.paused \in BOOLEAN /\ room.pausedUntil \in MaybeInstant
      /\ room.overrideUntil \in MaybeInstant
  BY DEF RecordOK, Room
<1>2. \A level \in MaybeLevel, source \in Sources : lit(level, source) \in K /\ lit(level, source) \notin P
  BY UpdatesSay, SendIn
<1>3. \A level \in MaybeLevel : /\ push(level) \in K
                                /\ \A S : push(level) \in PushSends(r, S) <=> level \in S
  BY UpdatesSay, SendIn
<1>4. \A b \in BOOLEAN, u \in MaybeInstant :
        pause(b, u) \in K /\ pause(b, u) \notin P /\ pause(b, u) \notin LitSteps(r)
               /\ pause(b, u) \notin LitSends(r)
  BY UpdatesSay, SendIn
<1>5. \A u \in MaybeInstant : ttl(u) \in K /\ ttl(u) \notin P
  BY UpdatesSay, SendIn
<1>6. off \in K /\ off \notin P
  BY UpdatesSay, SendIn
<1>7. /\ OnRequest(r) = << Publish(r, "ON", None, [op |-> "on", until |-> None],
                                   << lit(None, "Circadian"), push(None) >>, <<>>) >>
      /\ SetRequest(r, until) = << Publish(r, "ON", "user", [op |-> "set", until |-> until],
                                   << lit("user", "Manual"), push("user"), ttl(until) >>, <<>>) >>
      /\ OffRequest(r) = << Publish(r, "OFF", None, [op |-> "off", until |-> None], << off >>, <<>>) >>
      /\ PauseRequest(r) = << pause(TRUE, None) >>
      /\ SnoozeRequest(r, until) = << pause(TRUE, until) >>
      /\ SceneRequest(r, until) =
           << pause(TRUE, None),
              Publish(r, "ON", "user", [op |-> "scene", until |-> until],
                      << lit("user", "Manual"), push("user"), ttl(until) >>,
                      << pause(room.paused, room.pausedUntil) >>) >>
  BY DEF OnRequest, SetRequest, OffRequest, PauseRequest, SnoozeRequest, SceneRequest
<1>s. "Circadian" \in Sources /\ "Manual" \in Sources /\ "user" \in Levels /\ None \notin Levels
  BY RequestsAssumption, NoneIsNoLevel DEF RequestsAssumption, NoneIsNoLevel, Sources
<1>8. /\ Tells(<< lit(None, "Circadian"), push(None) >>, P, PushSends(r, {None}), None = None)
      /\ << lit(None, "Circadian"), push(None) >> \in Seq(K)
  <2> DEFINE a == lit(None, "Circadian")
             b == push(None)
  <2>1. a \in K /\ b \in K /\ a \notin P /\ b \notin P
    BY <1>2, <1>3, <1>s, LevelsType
  <2> HIDE DEF a, b
  <2>2. NoneIn(<<a, b>>, P) /\ <<a, b>> \in Seq(K)
    BY <2>1, ShortNone, ShortSeqs
  <2>3. Tells(<<a, b>>, P, PushSends(r, {None}), None = None)
    BY <2>2, NoneTells DEF Tells
  <2> QED BY <2>2, <2>3 DEF a, b
<1>9. /\ Tells(<< lit("user", "Manual"), push("user"), ttl(until) >>, P, PushSends(r, {"user"}), "user" = None)
      /\ << lit("user", "Manual"), push("user"), ttl(until) >> \in Seq(K)
  <2> DEFINE a == lit("user", "Manual")
             b == push("user")
             c == ttl(until)
             T == PushSends(r, {"user"})
  <2>1. a \in K /\ b \in K /\ c \in K /\ a \notin P /\ b \in P /\ b \in T /\ c \notin P
    BY <1>2, <1>3, <1>5, <1>s, LevelsType
  <2> HIDE DEF a, b, c, T
  <2>2. <<a, b, c>> \in Seq(K)
    BY <2>1, ShortSeqs
  <2>3. Tells(<<a, b, c>>, P, T, "user" = None)
    BY <2>1, ShortTells
  <2> QED BY <2>2, <2>3 DEF a, b, c, T
<1>10. /\ Tells(<< off >>, P, PushSends(r, {None}), None = None) /\ << off >> \in Seq(K)
  <2>1. NoneIn(<<off>>, P) /\ <<off>> \in Seq(K)
    <3> HIDE DEF off
    <3> QED BY <1>6, ShortNone, ShortSeqs
  <2> QED BY <2>1, NoneTells DEF Tells
<1>11. /\ <<>> \in Seq(K) /\ NoneIn(<<>>, P) /\ NoneIn(<<>>, LitSends(r))
       /\ << pause(room.paused, room.pausedUntil) >> \in Seq(K)
       /\ NoneIn(<< pause(room.paused, room.pausedUntil) >>, P)
       /\ NoneIn(<< pause(room.paused, room.pausedUntil) >>, LitSends(r))
  <2> DEFINE a == pause(room.paused, room.pausedUntil)
  <2>1. a \in K /\ a \notin P /\ a \notin LitSends(r)
    BY <1>1, <1>4
  <2> HIDE DEF a
  <2> QED BY <2>1, ShortNone, ShortSeqs DEF a
<1>p. \A power \in Power, level \in MaybeLevel, goal \in Goal \union {None}, ok \in KS, err \in KS :
        NoneIn(err, P) /\ Ends(ok, level) => Good(Publish(r, power, level, goal, ok, err), err)
  BY PublishInto
<1>g. \A op \in {"on", "set", "off", "scene"}, u \in MaybeInstant :
        [op |-> op, until |-> u] \in Goal \union {None}
  BY GoalType
<1> DEFINE okOn  == << lit(None, "Circadian"), push(None) >>
           okSet == << lit("user", "Manual"), push("user"), ttl(until) >>
           okOff == << off >>
           none  == <<>>
           back  == << pause(room.paused, room.pausedUntil) >>
           lighted == "ON"
           darkened == "OFF"
           user  == "user"
           onGoal    == [op |-> "on", until |-> None]
           setGoal   == [op |-> "set", until |-> until]
           offGoal   == [op |-> "off", until |-> None]
           sceneGoal == [op |-> "scene", until |-> until]
           on    == Publish(r, lighted, None, onGoal, okOn, none)
           set   == Publish(r, lighted, user, setGoal, okSet, none)
           dark  == Publish(r, darkened, None, offGoal, okOff, none)
           scene == Publish(r, lighted, user, sceneGoal, okSet, back)
<1>16. /\ OnRequest(r) = <<on>> /\ SetRequest(r, until) = <<set>> /\ OffRequest(r) = <<dark>>
       /\ SceneRequest(r, until) = <<pause(TRUE, None), scene>>
  BY <1>7
<1>q. /\ okOn \in KS /\ Ends(okOn, None)
      /\ okSet \in KS /\ Ends(okSet, user)
      /\ okOff \in KS /\ Ends(okOff, None)
      /\ none \in KS /\ NoneIn(none, P) /\ NoneIn(none, LitSends(r))
      /\ back \in KS /\ NoneIn(back, P) /\ NoneIn(back, LitSends(r))
  BY <1>8, <1>9, <1>10, <1>11
<1>h. /\ onGoal \in Goal \union {None} /\ setGoal \in Goal \union {None}
      /\ offGoal \in Goal \union {None} /\ sceneGoal \in Goal \union {None}
      /\ lighted \in Power /\ darkened \in Power /\ user \in MaybeLevel /\ None \in MaybeLevel
  BY <1>g, LevelsType
<1> HIDE DEF Good, KS, K, P, lit, push, pause, ttl, off, room, okOn, okSet, okOff, none, back, Ends
<1> HIDE DEF lighted, darkened, user, onGoal, setGoal, offGoal, sceneGoal
<1>12. /\ \A x \in {on, set, dark, scene} :
            x \in Publishes(t, plain) /\ x.room = r /\ NoneIn(x.err, LitSends(r))
  <2>1. Good(on, none)
    BY <1>p, <1>q, <1>h
  <2>2. Good(set, none)
    BY <1>p, <1>q, <1>h
  <2>3. Good(dark, none)
    BY <1>p, <1>q, <1>h
  <2>4. Good(scene, back)
    BY <1>p, <1>q, <1>h
  <2> HIDE DEF on, set, dark, scene
  <2> QED BY <1>q, <2>1, <2>2, <2>3, <2>4 DEF Good
<1>13. \A x \in {on, set, dark, scene} : x \notin LitSteps(r)
  BY <1>12, PublishSays, PublishCourse
<1> HIDE DEF on, set, dark, scene
<1>14. ASSUME NEW x \in {on, set, dark, scene}
       PROVE  CourseIn(<<x>>, t, r, plain) /\ NoneIn(<<x>>, LitSteps(r))
  <2>1. <<x>> = Append(<<>>, x) /\ <<>> \in Seq(B)
    OBVIOUS
  <2>2. CourseIn(<<x>>, t, r, plain)
    BY <1>12, <2>1, CourseBuilt
  <2> QED BY <1>13, <2>2, OneTells
<1>15. ASSUME NEW u \in MaybeInstant
       PROVE  /\ CourseIn(<<pause(TRUE, u)>>, t, r, plain) /\ NoneIn(<<pause(TRUE, u)>>, LitSteps(r))
              /\ CourseIn(<<pause(TRUE, u), scene>>, t, r, plain)
              /\ NoneIn(<<pause(TRUE, u), scene>>, LitSteps(r))
  <2> DEFINE a == pause(TRUE, u)
  <2>1. a \in B /\ a \notin LitSteps(r)
    BY <1>4, <1>15 DEF Before, K, P
  <2> HIDE DEF a
  <2>2. <<a, scene>> = Append(<<a>>, scene) /\ <<a>> \in Seq(B)
    BY <2>1
  <2>3. CourseIn(<<a>>, t, r, plain) /\ CourseIn(<<a, scene>>, t, r, plain)
    BY <1>12, <2>2, CourseBuilt
  <2>4. NoneIn(<<a>>, LitSteps(r)) /\ NoneIn(<<a, scene>>, LitSteps(r))
    BY <1>13, <2>1, ShortNone
  <2> QED BY <2>3, <2>4 DEF a
<1> QED BY <1>7, <1>14, <1>15, <1>16, LevelsType

\* Resuming marks the room as lit.
LEMMA ResumeCourse ==
  ASSUME NEW t \in Tasks \ {"circadian"}, NEW r \in Rooms, NEW plain \in BOOLEAN
  PROVE  /\ CourseIn(ResumeRequest(r), t, r, plain)
         /\ LastIn(ResumeRequest(r), LitSteps(r), TrueSteps(r, TRUE))
<1> DEFINE B == Before(t, plain, r)
           S == LitSteps(r)
           T == TrueSteps(r, TRUE)
           a == Send(r, CircadianPause(FALSE, None))
           b == Send(r, LightsOn(None, "Circadian"))
<1>1. ResumeRequest(r) = <<a, b>>
  BY DEF ResumeRequest
<1>2. a \in B
  BY SendsSaid, LevelsType
<1>3. b \in B /\ b \in S /\ b \in T
  <2>1. "Circadian" \in Sources
    BY DEF Sources
  <2> QED BY <2>1, SendsSaid, LevelsType
<1> HIDE DEF a, b, B, S, T
<1>4. <<a, b>> = Append(<<a>>, b) /\ <<a>> \in Seq(B) /\ <<a, b>> \in Seq(B)
  BY <1>2, <1>3, ShortSeqs
<1>5. CourseIn(<<a, b>>, t, r, plain)
  BY <1>4, CourseBuilt DEF B
<1>6. Tells(<<a, b>>, S, T, TRUE)
  BY <1>3, <1>4, TellsAppend
<1> QED BY <1>1, <1>5, <1>6 DEF Tells, S, T

\* Recalling a scene of Z2M marks the room as lit, and if that fails what the
\* record said of the lights comes back.
LEMMA RecallCourse ==
  ASSUME RecordOK, NEW t \in Tasks \ {"circadian"}, NEW r \in Rooms, NEW until \in MaybeInstant,
         NEW plain, ~plain
  PROVE  /\ CourseIn(RecallRequest(r, until), t, r, plain)
         /\ LastIn(RecallRequest(r, until), LitSteps(r), TrueSteps(r, rooms[r].lightsOn))
<1> DEFINE K == SendsFrom(t, plain, r)
           B == Before(t, plain, r)
           P == PushSends(r, Levels)
           S == LitSteps(r)
           T == TrueSteps(r, rooms[r].lightsOn)
           room == rooms[r]
           a == Send(r, CircadianPause(TRUE, None))
           b == Send(r, LightsOn(None, "Manual"))
           c == Send(r, ManualOverrideTtl(until))
           push == Send(r, JehaPush(None))
           ttl  == Send(r, ManualOverrideTtl(room.overrideUntil))
           back == Send(r, RestoreLights(room))
           goal == [op |-> "scene", until |-> until]
           ok  == <<push>>
           err == <<ttl, back>>
           lighted == "ON"
           user == "user"
           p == Publish(r, lighted, user, goal, ok, err)
           KS == Seq(K)
           Good(x, e) == x \in Publishes(t, plain) /\ x.room = r /\ x.err = e
<1>1. RecallRequest(r, until) = <<a, b, c, p>>
  BY DEF RecallRequest
<1>2. room \in Room /\ room.overrideUntil \in MaybeInstant /\ room.lightsOn \in BOOLEAN
  BY DEF RecordOK, Room
<1>3. a \in B /\ b \in B /\ c \in B
  <2>1. "Manual" \in Sources
    BY DEF Sources
  <2> QED BY <2>1, SendsSaid, LevelsType
<1>4. push \in K
  BY SendsSaid, LevelsType
<1>5. ttl \in K /\ ttl \notin P
  BY <1>2, SendsSaid DEF Before
<1>6. back \in K /\ back \notin P /\ back \in LitSends(r) /\ back \in TrueSends(r, room.lightsOn)
  BY <1>2, RestoreSaid DEF Before
<1>7. goal \in Goal \union {None} /\ lighted \in Power /\ user \in MaybeLevel
  <2>1. goal \in Goal
    BY DEF Goal
  <2> HIDE DEF goal
  <2> QED BY <2>1, LevelsType
<1> HIDE DEF a, b, c, push, ttl, back, goal, room
<1>8. ok \in KS /\ err \in KS /\ NoneIn(err, P)
  <2> HIDE DEF K, P
  <2> QED BY <1>4, <1>5, <1>6, ShortSeqs, ShortNone
<1>p. ASSUME NEW power \in Power, NEW level \in MaybeLevel, NEW g \in Goal \union {None},
             NEW o \in KS, NEW e \in KS, NoneIn(e, P)
      PROVE  Good(Publish(r, power, level, g, o, e), e)
  <2> DEFINE x == Publish(r, power, level, g, o, e)
  <2>1. x \in PublishSteps
    BY <1>p, PublishSend
  <2>2. x.room = r /\ x.ok = o /\ x.err = e
    BY DEF Publish
  <2> HIDE DEF x
  <2>3. x \in Publishes(t, plain)
    BY <1>p, <2>1, <2>2 DEF Publishes, SendsFrom
  <2> QED BY <2>2, <2>3 DEF x
<1>9. Good(p, err)
  <2> HIDE DEF Good, KS, P, goal, ok, err, lighted, user
  <2> QED BY <1>7, <1>8, <1>p
<1> HIDE DEF p
<1>10. ~NoneIn(err, LitSends(r))
       /\ LastIn(err, LitSends(r), TrueSends(r, room.lightsOn))
  <2> DEFINE L == LitSends(r)
             U == TrueSends(r, room.lightsOn)
  <2> HIDE DEF L, U
  <2>1. back \in L /\ back \in U
    BY <1>6 DEF L, U
  <2>2. <<ttl, back>> = Append(<<ttl>>, back) /\ <<ttl>> \in Seq({ttl, back}) /\ back \in {ttl, back}
    OBVIOUS
  <2>3. Tells(err, L, U, FALSE)
    BY <2>1, <2>2, TellsAppend
  <2> QED BY <2>3 DEF Tells, L, U
<1>11. p \in S /\ p \in T
  <2> HIDE DEF err
  <2> QED BY <1>9, <1>10, PublishSays, PublishCourse DEF room
<1>12. /\ <<a, b, c, p>> = Append(<<a, b, c>>, p)
       /\ <<a, b, c>> \in Seq(B)
  <2> HIDE DEF B
  <2> QED BY <1>3, ShortSeqs
<1>13. CourseIn(<<a, b, c, p>>, t, r, plain)
  BY <1>9, <1>12, CourseBuilt
<1>14. Tells(<<a, b, c, p>>, S, T, TRUE)
  <2>1. <<a, b, c>> \in Seq({a, b, c, p}) /\ p \in {a, b, c, p}
    OBVIOUS
  <2> HIDE DEF S, T
  <2> QED BY <1>11, <1>12, <2>1, TellsAppend
<1> QED BY <1>1, <1>13, <1>14 DEF Tells

\* What the engine puts down says of the lights at most that they are on.
LEMMA EngineCourses ==
  ASSUME NEW r \in Rooms, NEW room, NEW plain
  PROVE  /\ CourseIn(RoomSteps(r, room), "circadian", r, plain)
         /\ LastIn(RoomSteps(r, room), LitSteps(r), TrueSteps(r, TRUE))
         /\ LET returned == << Publish(r, "keep", "circadian", None, << Send(r, JehaPush("circadian")) >>, <<>>) >>
            IN  CourseIn(returned, "circadian", r, plain) /\ NoneIn(returned, LitSteps(r))
<1> DEFINE K == SendsFrom("circadian", plain, r)
           KS == Seq(K)
           B == Before("circadian", plain, r)
           P == PushSends(r, Levels)
           S == LitSteps(r)
           T == TrueSteps(r, TRUE)
           L == LitSends(r)
           unpause == Send(r, CircadianPause(FALSE, None))
           relit   == Send(r, LightsOn(None, "Circadian"))
           ttl     == Send(r, ManualOverrideTtl(None))
           lit     == Send(r, LightsOn("circadian", "Circadian"))
           push    == Send(r, JehaPush("circadian"))
           keep == "keep"
           level == "circadian"
           none == <<>>
           ok   == << lit, push >>
           okReturned == << push >>
           p == Publish(r, keep, level, None, ok, none)
           q == Publish(r, keep, level, None, okReturned, none)
           Ends(o, l) == Tells(o, P, PushSends(r, {l}), l = None)
           Good(x, e) == x \in Publishes("circadian", plain) /\ x.room = r /\ x.err = e
<1>1. /\ RoomSteps(r, room) = none
         \/ (RoomSteps(r, room) = ResumeSteps(r, room) \o none)
         \/ RoomSteps(r, room) = ResumeSteps(r, room) \o (OverrideSteps(r, room) \o <<p>>)
      /\ ResumeSteps(r, room) = <<unpause>> \/ ResumeSteps(r, room) = none
      /\ OverrideSteps(r, room) = <<relit, ttl>> \/ OverrideSteps(r, room) = none
  BY DEF RoomSteps, ResumeSteps, OverrideSteps, PushRoom
<1>2. "Circadian" \in Sources /\ level \in Levels /\ level \in MaybeLevel /\ None \notin Levels
  BY DaemonAssumption, NoneIsNoLevel DEF DaemonAssumption, NoneIsNoLevel, Sources, MaybeLevel
<1>3. unpause \in B /\ ttl \in B /\ unpause \notin S /\ ttl \notin S
  BY SendsSaid, LevelsType
<1>4. relit \in B /\ relit \in T /\ lit \in K /\ lit \notin P
  BY <1>2, SendsSaid, LevelsType DEF Before
<1>5. push \in K /\ push \in P /\ push \in PushSends(r, {level})
  BY <1>2, SendsSaid, LevelsType
<1> HIDE DEF unpause, ttl, relit, lit, push
<1>6. ok \in KS /\ okReturned \in KS /\ none \in KS
  <2> HIDE DEF K
  <2> QED BY <1>4, <1>5, ShortSeqs
<1>7. Ends(ok, level) /\ Ends(okReturned, level) /\ NoneIn(none, P) /\ NoneIn(none, L)
  <2> DEFINE U == PushSends(r, {level})
             fact == level = None
  <2> HIDE DEF P, L, U, fact
  <2>1. Tells(<<push>>, P, U, fact) /\ Tells(<<lit, push>>, P, U, fact)
    <3>1. PICK x : x \notin P
      BY <1>4
    <3> QED BY <1>4, <1>5, <3>1, ShortTells DEF U
  <2>2. NoneIn(<<>>, P) /\ NoneIn(<<>>, L)
    BY DEF NoneIn
  <2> QED BY <2>1, <2>2 DEF U, fact
<1>8. \A pw \in Power, l \in MaybeLevel, g \in Goal \union {None}, o \in KS, e \in KS :
        NoneIn(e, P) /\ Ends(o, l) => Good(Publish(r, pw, l, g, o, e), e)
  BY PublishInto
<1>9. Good(p, none) /\ Good(q, none)
  <2>1. keep \in Power /\ None \in Goal \union {None}
    BY LevelsType
  <2> HIDE DEF Good, KS, P, L, Ends, keep, level, ok, okReturned, none
  <2> QED BY <1>2, <1>6, <1>7, <1>8, <2>1
<1>10. p \notin S /\ q \notin S
  BY <1>7, <1>9, PublishSays, PublishCourse
<1> HIDE DEF p, q
<1> DEFINE A == {s \in B : s \in S => s \in T}
<1>11. ResumeSteps(r, room) \in Seq(A) /\ OverrideSteps(r, room) \in Seq(A) /\ <<>> \in Seq(A)
  <2>1. unpause \in A /\ relit \in A /\ ttl \in A
    BY <1>3, <1>4
  <2> HIDE DEF A
  <2> QED BY <1>1, <2>1, ShortSeqs
<1> HIDE DEF A, S, T
<1>12. \A x \in Seq(A) : /\ CourseIn(x, "circadian", r, plain) /\ LastIn(x, S, T)
                         /\ CourseIn(Append(x, p), "circadian", r, plain) /\ LastIn(Append(x, p), S, T)
                         /\ CourseIn(Append(x, q), "circadian", r, plain)
  <2> TAKE x \in Seq(A)
  <2>1. x \in Seq(B)
    <3>1. A \subseteq B
      BY DEF A
    <3> QED BY <3>1, SeqMonotonic
  <2>2. LastIn(x, S, T)
    BY NoneTells DEF A
  <2>3. LastIn(Append(x, p), S, T)
    <3>1. Tells(x, S, T, TRUE) /\ x \in Seq(A \union {p})
      BY <2>2, SeqMonotonic DEF Tells
    <3> QED BY <1>10, <3>1, TellsAppend DEF Tells, S
  <2> QED BY <1>9, <2>1, <2>2, <2>3, CourseBuilt
<1>13. CourseIn(RoomSteps(r, room), "circadian", r, plain) /\ LastIn(RoomSteps(r, room), S, T)
  <2> DEFINE x == ResumeSteps(r, room)
             y == OverrideSteps(r, room)
  <2>1. x \in Seq(A) /\ y \in Seq(A) /\ x \o y \in Seq(A) /\ x \o <<>> = x
    BY <1>11, ConcatProperties
  <2>2. x \o (y \o <<p>>) = Append(x \o y, p)
    <3> HIDE DEF x, y
    <3>1. x \in Seq(A \union {p}) /\ y \in Seq(A \union {p})
      BY <2>1, SeqMonotonic
    <3> QED BY <3>1
  <2> HIDE DEF x, y
  <2>3. RoomSteps(r, room) \in Seq(A) \/ RoomSteps(r, room) = Append(x \o y, p)
    BY <1>1, <1>11, <2>1, <2>2 DEF x, y
  <2> QED BY <1>12, <2>1, <2>3
<1>14. CourseIn(<<q>>, "circadian", r, plain) /\ NoneIn(<<q>>, S)
  <2>1. <<q>> = Append(<<>>, q)
    OBVIOUS
  <2> QED BY <1>10, <1>11, <1>12, <2>1, OneTells DEF S
<1> QED BY <1>13, <1>14 DEF q, S, T, push

\* What the loop puts down for a report says of the lights what the report does.
LEMMA ReportCourse ==
  ASSUME NEW m \in Report, NEW room \in Room, NEW external, NEW plain
  PROVE  LET steps == ReportSteps(m, room, external) IN
         /\ CourseIn(steps, "mqtt", m.room, plain)
         /\ LastIn(steps, LitSteps(m.room), TrueSteps(m.room, m.on)) /\ ~NoneIn(steps, LitSteps(m.room))
<1> DEFINE r == m.room
           B == Before("mqtt", plain, r)
           S == LitSteps(r)
           T == TrueSteps(r, m.on)
           off == Send(r, LightsOff)
           lit == Send(r, LightsOn(m.level, room.source))
           ext == Send(r, ExternalChange(ExternalTtl))
<1>1. /\ r \in Rooms /\ m.on \in BOOLEAN /\ m.level \in MaybeLevel /\ room.source \in Sources
      /\ "mqtt" # "circadian" /\ ExternalTtl \in Nat
  BY DaemonAssumption DEF DaemonAssumption, Report, Room, MaybeLevel
<1>2. off \in B /\ off \in S /\ (~m.on => off \in T)
  BY <1>1, SendsSaid
<1>3. lit \in B /\ lit \in S /\ (m.on => lit \in T)
  BY <1>1, SendsSaid
<1>4. ext \in B /\ ext \notin S
  BY <1>1, SendsSaid
<1>5. \/ ~m.on /\ ReportSteps(m, room, external) = <<off>>
      \/ m.on /\ ReportSteps(m, room, external) = <<lit>> \o <<ext>>
      \/ m.on /\ ReportSteps(m, room, external) = <<lit>> \o <<>>
  BY <1>1 DEF ReportSteps
<1> HIDE DEF r, B, S, T, off, lit, ext
<1>6. /\ <<off>> \in Seq(B) /\ <<lit>> \in Seq(B) /\ <<lit, ext>> \in Seq(B)
      /\ <<lit>> \o <<ext>> = <<lit, ext>> /\ <<lit>> \o <<>> = <<lit>>
      /\ <<lit, ext>> = Append(<<lit>>, ext)
  <2>1. <<off>> \in Seq(B) /\ <<lit>> \in Seq(B) /\ <<lit, ext>> \in Seq(B)
    BY <1>2, <1>3, <1>4, ShortSeqs
  <2>2. <<lit, ext>> = Append(<<lit>>, ext)
    OBVIOUS
  <2>4. <<lit>> \o <<ext>> = Append(<<lit>>, ext)
    BY <1>3, <1>4, <2>1, AppendIsConcat
  <2>3. <<lit>> \o <<>> = <<lit>>
    OBVIOUS
  <2> QED BY <2>1, <2>2, <2>3, <2>4
<1>7. ~m.on => Tells(<<off>>, S, T, FALSE)
  BY <1>2, OneTells DEF Tells
<1>8. m.on => Tells(<<lit>>, S, T, FALSE)
  BY <1>3, OneTells DEF Tells
<1>9. m.on => Tells(<<lit, ext>>, S, T, FALSE)
  BY <1>4, <1>6, <1>8, TellsAppend
<1>10. \A x \in Seq(B) : CourseIn(x, "mqtt", r, plain)
  BY <1>1, CourseBuilt DEF B
<1> QED BY <1>5, <1>6, <1>7, <1>8, <1>9, <1>10 DEF Tells, r, S, T

-----------------------------------------------------------------------------
(* Who has nothing to say about a room.                                     *)

LEMMA StepsAbout ==
  ASSUME NEW r \in Rooms
  PROVE  /\ \A s \in LitSteps(r) : s.do \in {"send", "publish"} /\ s.room = r
         /\ \A S : \A s \in PushSends(r, S) : s.do \in {"send", "publish"} /\ s.room = r
BY PublishFields DEF LitSteps, LitSends, PushSends, SendsOf

\* A course is about its room alone.
LEMMA CourseElsewhere ==
  ASSUME NEW steps, NEW t, NEW r \in Rooms, NEW plain, CourseIn(steps, t, r, plain),
         NEW o \in Rooms, o # r
  PROVE  NoneIn(steps, LitSteps(o)) /\ NoneIn(steps, PushSends(o, Levels))
BY StepsAbout DEF CourseIn, NoneIn

\* A task that does not work on a room, and a channel without commands for it.
LEMMA NotWorking ==
  ASSUME NEW t, NEW r \in Rooms, ~Working(t, r)
  PROVE  NoneIn(todo[t], LitSteps(r)) /\ \A S : NoneIn(todo[t], PushSends(r, S))
BY StepsAbout DEF Working, NoneIn

LEMMA NotQueued ==
  ASSUME QueuesOK, NEW r \in Rooms, \A t \in Tasks : ~Queued(t, r)
  PROVE  NoneIn(rx, LitCommands(r)) /\ \A S : NoneIn(rx, PushCommands(r, S))
<1>1. \A c \in CommandsOf(r) : c.from \in Tasks /\ "room" \in DOMAIN c /\ c.room = r
  BY DEF CommandsOf
<1>2. \A i \in 1..Len(rx) : rx[i] \notin CommandsOf(r)
  BY <1>1 DEF Queued
<1> QED BY <1>2 DEF NoneIn, LitCommands, PushCommands

\* A level is intended last, or nothing is.
LEMMA NoLevelTold ==
  ASSUME NEW M, NEW q \in Seq(M), NEW r, NEW fact,
         Tells(q, PushSends(r, Levels), PushSends(r, {None}), fact)
  PROVE  NoneIn(q, PushSends(r, Levels))
<1>1. \A s : ~(s \in PushSends(r, Levels) /\ s \in PushSends(r, {None}))
  BY NoneIsNoLevel DEF NoneIsNoLevel, PushSends, Intends
<1> QED BY <1>1, TellsWitness DEF Tells

-----------------------------------------------------------------------------
(* The steps of the tasks.                                                  *)

\* The first of a task's steps and the rest.
LEMMA HeadCourse ==
  ASSUME QueuesOK, CoursesOK, NEW t \in Tasks, todo[t] # <<>>
  PROVE  /\ Head(todo[t]) \in Courses(t, Unrecalled) /\ Head(todo[t]) \in Steps
         /\ Head(todo[t]) = todo[t][1] /\ 1 \in 1..Len(todo[t])
         /\ Tail(todo[t]) \in Seq(Courses(t, Unrecalled)) /\ PublishEnds(Tail(todo[t]))
         /\ \A i \in 1..Len(Tail(todo[t])) : i + 1 \in 1..Len(todo[t]) /\ Tail(todo[t])[i] = todo[t][i + 1]
         /\ Continue(t, <<>>) => todo' = [todo EXCEPT ![t] = Tail(todo[t])]
         /\ Head(todo[t]).do = "publish" =>
              /\ todo[t] = <<Head(todo[t])>>
              /\ \A next \in Seq(Steps) : Continue(t, next) => todo' = [todo EXCEPT ![t] = next]
<1> DEFINE q == todo[t]
           C == Courses(t, Unrecalled)
<1>1. q \in Seq(C) /\ PublishEnds(q) /\ q # <<>>
  BY DEF CoursesOK
<1>2. \A s \in C : s \in Steps
  BY CourseKinds
<1>c. \A next : Continue(t, next) => todo' = [todo EXCEPT ![t] = next \o Tail(q)]
  BY DEF Continue
<1> HIDE DEF q, C
<1>3. /\ Head(q) \in C /\ Head(q) = q[1] /\ Tail(q) \in Seq(C) /\ Len(q) \in Nat \ {0}
      /\ Len(Tail(q)) \in Nat /\ Len(q) = Len(Tail(q)) + 1
      /\ \A i \in 1..Len(Tail(q)) : Tail(q)[i] = q[i + 1]
  BY <1>1, HeadTailProperties, LenProperties
<1>4. /\ \A i \in 1..Len(Tail(q)) : i + 1 \in 1..Len(q) /\ (i + 1 = Len(q) => i = Len(Tail(q)))
      /\ Len(q) = 1 => Len(Tail(q)) = 0
  <2> DEFINE n == Len(q)
             m == Len(Tail(q))
  <2>1. n \in Nat /\ m \in Nat /\ n = m + 1
    BY <1>3
  <2> HIDE DEF n, m
  <2>2. (\A i \in 1..m : i + 1 \in 1..n /\ (i + 1 = n => i = m)) /\ (n = 1 => m = 0)
    BY <2>1
  <2> QED BY <2>2 DEF n, m
<1>5. PublishEnds(Tail(q))
  BY <1>1, <1>3, <1>4 DEF PublishEnds
<1>6. <<>> \o Tail(q) = Tail(q)
  BY <1>3, ConcatEmptySeq
<1>7. ASSUME Head(q).do = "publish"
      PROVE  /\ q = <<Head(q)>>
             /\ \A next \in Seq(Steps) : next \o Tail(q) = next
  <2>1. 1 \in 1..Len(q)
    BY <1>3
  <2>2. Len(q) = 1
    BY <1>1, <1>3, <1>7, <2>1 DEF PublishEnds
  <2>3. q = <<Head(q)>>
    <3> DEFINE e == Head(q)
    <3>1. q \in Seq(C) /\ Len(q) = 1 /\ q[1] = e /\ e \in C
      BY <1>1, <1>3, <2>2
    <3> HIDE DEF e
    <3>2. <<e>> \in Seq(C) /\ Len(<<e>>) = 1 /\ <<e>>[1] = e
      BY <3>1
    <3>3. q = <<e>>
      BY <3>1, <3>2, SeqEqual
    <3> QED BY <3>3 DEF e
  <2>4. Tail(q) = <<>>
    <3>1. Len(Tail(q)) = 0
      BY <1>4, <2>2
    <3> QED BY <1>3, <3>1, EmptySeq
  <2> QED BY <2>3, <2>4, ConcatEmptySeq
<1>8. 1 \in 1..Len(q)
  BY <1>3
<1> QED BY <1>2, <1>3, <1>4, <1>5, <1>6, <1>7, <1>8, <1>c DEF q, C

\* A task goes on with steps about rooms it works on already.
LEMMA NextCourses ==
  ASSUME QueuesOK, CoursesOK, NEW t \in Tasks, NEW next \in Seq(Courses(t, Unrecalled)), PublishEnds(next),
         todo' = [todo EXCEPT ![t] = next], UNCHANGED <<cycle, spent>>,
         \A i \in 1..Len(next), r \in Rooms :
           next[i].do \in {"send", "publish"} /\ next[i].room = r => Working(t, r)
  PROVE  /\ \A u \in Tasks : todo'[u] \in Seq(Courses(u, Unrecalled')) /\ PublishEnds(todo'[u])
         /\ \A u \in Tasks, r \in Rooms : Engages(u, r)' => Engages(u, r)
         /\ \A r \in Rooms : Alone(r) => Alone(r)'
<1>1. todo'[t] = next /\ \A u \in Tasks \ {t} : todo'[u] = todo[u]
  BY DEF QueuesOK
<1>2. Unrecalled' = Unrecalled
  BY DEF Unrecalled
<1>3. ASSUME NEW u \in Tasks
      PROVE  todo'[u] \in Seq(Courses(u, Unrecalled')) /\ PublishEnds(todo'[u])
  <2>1. CASE u = t
    BY <1>1, <1>2, <2>1
  <2>2. CASE u # t
    BY <1>1, <1>2, <2>2 DEF CoursesOK
  <2> QED BY <2>1, <2>2
<1>4. ASSUME NEW u \in Tasks, NEW r \in Rooms, Engages(u, r)'
      PROVE  Engages(u, r)
  <2>1. Working(u, r)' => Working(u, r)
    <3>1. CASE u = t
      BY <1>1, <3>1 DEF Working
    <3>2. CASE u # t
      BY <1>1, <3>2 DEF Working
    <3> QED BY <3>1, <3>2
  <2> QED BY <1>4, <2>1 DEF Engages
<1>5. ASSUME NEW r \in Rooms, Alone(r)
      PROVE  Alone(r)'
  BY <1>4, <1>5 DEF Alone
<1> QED BY <1>3, <1>4, <1>5

\* A step leaves what is still to be said of the lights, or of what is intended.
KeepsLit(r) ==
  \A on, fact :
    Chain(todo, rx, LitSteps(r), TrueSteps(r, on), LitCommands(r), TrueCommands(r, on), fact)
      => Chain(todo', rx', LitSteps(r), TrueSteps(r, on), LitCommands(r), TrueCommands(r, on), fact)
KeepsIntended(r) ==
  \A level \in Levels : \A fact :
    Chain(todo, rx, PushSends(r, Levels), PushSends(r, {level}), PushCommands(r, Levels),
          PushCommands(r, {level}), fact)
      => Chain(todo', rx', PushSends(r, Levels), PushSends(r, {level}), PushCommands(r, Levels),
               PushCommands(r, {level}), fact)

\* What a step leaves of a room when it changes neither the record nor the
\* lights of the room.
LEMMA FollowedOn ==
  ASSUME NEW r \in Rooms, Followed(r),
         Alone(r)', Engages("circadian", r)' => Engages("circadian", r),
         ReportsTrue(r)', Quiet(r)' => Quiet(r), Untouched' => Untouched,
         rooms'[r] = rooms[r], bulb'[r] = bulb[r],
         \A level \in Levels : \A fact :
           Tells(outq, MessagesOf(r, Levels), MessagesOf(r, {level}), fact)
             => Tells(outq', MessagesOf(r, Levels), MessagesOf(r, {level}), fact),
         KeepsLit(r), KeepsIntended(r)
  PROVE  Followed(r)'
<1>1. ASSUME Quiet(r)'
      PROVE  Foreseen(r)' /\ (Engages("circadian", r)' => bulb'[r].on)
  <2> DEFINE fact == rooms[r].lightsOn = bulb[r].on
             on == bulb[r].on
  <2>1. Foreseen(r) /\ (Engages("circadian", r) => bulb[r].on)
    BY <1>1 DEF Followed
  <2>2. Chain(todo, rx, LitSteps(r), TrueSteps(r, on), LitCommands(r), TrueCommands(r, on), fact)
    BY <2>1 DEF Foreseen
  <2>3. Chain(todo', rx', LitSteps(r), TrueSteps(r, on), LitCommands(r), TrueCommands(r, on), fact)
    <3> HIDE DEF fact, on
    <3> QED BY <2>2 DEF KeepsLit
  <2>4. Foreseen(r)'
    BY <2>3 DEF Foreseen
  <2> QED BY <2>1, <2>4
<1>2. ASSUME Untouched'
      PROVE  \E level \in Levels : IntendedAs(r, level)'
  <2>1. PICK level \in Levels : IntendedAs(r, level)
    BY <1>2 DEF Followed
  <2> DEFINE lit == bulb[r].level = level
             fact == rooms[r].intended \in {None, level}
  <2>2. /\ Tells(outq, MessagesOf(r, Levels), MessagesOf(r, {level}), lit)
        /\ Chain(todo, rx, PushSends(r, Levels), PushSends(r, {level}), PushCommands(r, Levels),
                 PushCommands(r, {level}), fact)
    BY <2>1 DEF IntendedAs
  <2>3. /\ Tells(outq', MessagesOf(r, Levels), MessagesOf(r, {level}), lit)
        /\ Chain(todo', rx', PushSends(r, Levels), PushSends(r, {level}), PushCommands(r, Levels),
                 PushCommands(r, {level}), fact)
    <3> HIDE DEF lit, fact
    <3> QED BY <2>2 DEF KeepsIntended
  <2>4. IntendedAs(r, level)'
    BY <2>3 DEF IntendedAs
  <2> QED BY <2>4
<1> QED BY <1>1, <1>2 DEF Followed

\* The actor is sent a command.
LEMMA SendKeeps ==
  ASSUME TypeOK, RecordInv, NEW t \in Tasks, SendStep(t), UNCHANGED <<cycle, raced, spent>>
  PROVE  RecordInv'
<1> DEFINE s == Head(todo[t])
           c == IF s.do = "send" THEN [from |-> t, room |-> s.room, update |-> s.update]
                ELSE [from |-> t, connected |-> s.up]
<1>0. QueuesOK /\ CoursesOK /\ todo \in [Tasks -> Seq(Steps)] /\ rx \in Seq(Commands)
  BY TypeParts DEF TypeOK, RecordInv, QueuesOK
<1>1. /\ todo[t] # <<>> /\ s.do \in {"send", "connected"} /\ rx' = Append(rx, c)
      /\ todo' = [todo EXCEPT ![t] = Tail(todo[t])]
      /\ UNCHANGED <<rooms, bulb, outq, reports>>
  BY <1>0, HeadCourse DEF SendStep, HeadIs, shared, world
<1>2. s \in Courses(t, Unrecalled) /\ s \in Steps
  BY <1>0, <1>1, HeadCourse
<1>3. /\ c \in Commands /\ c.from = t
      /\ "room" \in DOMAIN c => c.update \in SaidBy(t, Unrecalled)
      /\ \A r \in Rooms : \A on : /\ s \in LitSteps(r) <=> c \in LitCommands(r)
                                  /\ s \in LitSteps(r) /\ s \in TrueSteps(r, on) => c \in TrueCommands(r, on)
      /\ \A r \in Rooms : \A S : s \in PushSends(r, S) <=> c \in PushCommands(r, S)
  <2>1. CASE s.do = "send"
    <3>1. c = [from |-> t, room |-> s.room, update |-> s.update]
      BY <2>1
    <3>2. s.update \in SaidBy(t, Unrecalled)
      BY <1>2, <2>1, CourseKinds
    <3> QED BY <1>2, <2>1, <3>1, <3>2, SendSays
  <2>2. CASE s.do # "send"
    <3>1. s.do = "connected" /\ c = [from |-> t, connected |-> s.up] /\ s.up \in BOOLEAN
      BY <1>1, <1>2, <2>2, StepFields
    <3>2. "room" \notin DOMAIN c /\ c.from = t
      BY <3>1
    <3> QED BY <1>2, <3>1, <3>2, OthersSay
  <2> QED BY <2>1, <2>2
<1> HIDE DEF c
<1>4. /\ \A u \in Tasks : todo'[u] \in Seq(Courses(u, Unrecalled')) /\ PublishEnds(todo'[u])
      /\ \A u \in Tasks, r \in Rooms : Engages(u, r)' => Engages(u, r)
      /\ \A r \in Rooms : Alone(r) => Alone(r)'
  <2> DEFINE next == Tail(todo[t])
  <2>1. next \in Seq(Courses(t, Unrecalled)) /\ PublishEnds(next)
    BY <1>0, <1>1, HeadCourse
  <2>2. \A i \in 1..Len(next), r \in Rooms :
          next[i].do \in {"send", "publish"} /\ next[i].room = r => Working(t, r)
    BY <1>0, <1>1, HeadCourse DEF Working
  <2> HIDE DEF next
  <2>3. todo' = [todo EXCEPT ![t] = next]
    BY <1>1 DEF next
  <2> QED BY <1>0, <2>1, <2>2, <2>3, NextCourses
<1>5. CoursesOK'
  <2>1. \A i \in 1..Len(rx') : rx'[i] = c \/ (i \in 1..Len(rx) /\ rx'[i] = rx[i])
    BY <1>0, <1>1, <1>3, AppendProperties, LenProperties
  <2>2. Unrecalled' = Unrecalled
    BY DEF Unrecalled
  <2>3. \A i \in 1..Len(rx') : "room" \in DOMAIN rx'[i] => rx'[i].update \in SaidBy(rx'[i].from, Unrecalled')
    BY <1>0, <1>3, <2>1, <2>2 DEF CoursesOK
  <2> QED BY <1>4, <2>3 DEF CoursesOK
<1>6. ASSUME NEW r \in Rooms, ~raced'[r]
      PROVE  Followed(r)'
  <2>1. Followed(r)
    BY <1>6 DEF RecordInv
  <2>2. Alone(r)' /\ (Engages("circadian", r)' => Engages("circadian", r))
    BY <1>4, <2>1, EngineAssumption DEF Followed, EngineAssumption
  <2>3. ReportsTrue(r)' /\ (Quiet(r)' => Quiet(r)) /\ (Untouched' => Untouched)
    BY <1>1, <2>1 DEF Followed, ReportsTrue, Quiet, Reported, Outstanding, Untouched
  <2>4. KeepsLit(r)
    BY <1>0, <1>1, <1>3, ChainSays DEF KeepsLit
  <2>5. KeepsIntended(r)
    BY <1>0, <1>1, <1>3, ChainSays DEF KeepsIntended
  <2>6. rooms'[r] = rooms[r] /\ bulb'[r] = bulb[r] /\ outq' = outq
    BY <1>1
  <2> QED BY <2>1, <2>2, <2>3, <2>4, <2>5, <2>6, FollowedOn
<1> QED BY <1>5, <1>6 DEF RecordInv

\* An event goes out.
LEMMA AnnounceKeeps ==
  ASSUME TypeOK, RecordInv, NEW t \in Tasks, AnnounceStep(t), UNCHANGED <<cycle, raced, spent>>
  PROVE  RecordInv'
<1> DEFINE s == Head(todo[t])
           next == Tail(todo[t])
<1>0. QueuesOK /\ CoursesOK /\ todo \in [Tasks -> Seq(Steps)]
  BY TypeParts DEF TypeOK, RecordInv, QueuesOK
<1>1. /\ todo[t] # <<>> /\ s.do = "announce" /\ todo' = [todo EXCEPT ![t] = next]
      /\ UNCHANGED <<rooms, bulb, outq, reports, rx>>
  BY <1>0, HeadCourse DEF AnnounceStep, HeadIs, shared, world
<1>2. \A r \in Rooms : s \notin LitSteps(r) /\ \A S : s \notin PushSends(r, S)
  <2>1. s \in Steps /\ s.do = "announce"
    BY <1>0, <1>1, HeadCourse
  <2> HIDE DEF s
  <2> QED BY <2>1, OthersSay
<1>3. /\ \A u \in Tasks : todo'[u] \in Seq(Courses(u, Unrecalled')) /\ PublishEnds(todo'[u])
      /\ \A u \in Tasks, r \in Rooms : Engages(u, r)' => Engages(u, r)
      /\ \A r \in Rooms : Alone(r) => Alone(r)'
  <2>1. next \in Seq(Courses(t, Unrecalled)) /\ PublishEnds(next)
    BY <1>0, <1>1, HeadCourse
  <2>2. \A i \in 1..Len(next), r \in Rooms :
          next[i].do \in {"send", "publish"} /\ next[i].room = r => Working(t, r)
    BY <1>0, <1>1, HeadCourse DEF Working
  <2>3. todo' = [todo EXCEPT ![t] = next]
    BY <1>1
  <2> HIDE DEF next
  <2> QED BY <1>0, <2>1, <2>2, <2>3, NextCourses
<1>4. CoursesOK'
  BY <1>0, <1>1, <1>3 DEF CoursesOK, Unrecalled
<1>5. ASSUME NEW r \in Rooms, ~raced'[r]
      PROVE  Followed(r)'
  <2>1. Followed(r)
    BY <1>5 DEF RecordInv
  <2>2. Alone(r)' /\ (Engages("circadian", r)' => Engages("circadian", r))
    BY <1>3, <2>1, EngineAssumption DEF Followed, EngineAssumption
  <2>3. ReportsTrue(r)' /\ (Quiet(r)' => Quiet(r)) /\ (Untouched' => Untouched)
    BY <1>1, <2>1 DEF Followed, ReportsTrue, Quiet, Reported, Outstanding, Untouched
  <2>4. KeepsLit(r) /\ KeepsIntended(r)
    BY <1>0, <1>1, <1>2, ChainPasses DEF KeepsLit, KeepsIntended
  <2>5. rooms'[r] = rooms[r] /\ bulb'[r] = bulb[r] /\ outq' = outq
    BY <1>1
  <2> QED BY <2>1, <2>2, <2>3, <2>4, <2>5, FollowedOn
<1> QED BY <1>4, <1>5 DEF RecordInv

\* A publish was tried: the task goes on with what follows.
LEMMA PublishTurn ==
  ASSUME TypeOK, RecordInv, NEW t \in Tasks, HeadIs(t, "publish"), NEW p, p = Head(todo[t]),
         NEW next \in {p.ok, p.err}, Continue(t, next), UNCHANGED <<rx, cycle, spent>>
  PROVE  /\ p \in Publishes(t, Unrecalled) /\ p.room \in Rooms /\ Working(t, p.room)
         /\ todo[t] = <<p>> /\ todo' = [todo EXCEPT ![t] = next]
         /\ next \in Seq(SendsFrom(t, Unrecalled, p.room))
         /\ CoursesOK'
         /\ \A u \in Tasks, r \in Rooms : Engages(u, r)' => Engages(u, r)
         /\ \A r \in Rooms : Alone(r) => Alone(r)'
         /\ \A r \in Rooms : NoneIn(next, PushSends(r, Levels)) => KeepsIntended(r)
         /\ \A r \in Rooms : r # p.room => KeepsLit(r) /\ KeepsIntended(r)
         /\ next = p.err => \A r \in Rooms : KeepsLit(r) /\ KeepsIntended(r)
<1> DEFINE o == p.room
<1>0. QueuesOK /\ CoursesOK /\ todo \in [Tasks -> Seq(Steps)] /\ todo[t] # <<>> /\ p.do = "publish"
  BY TypeParts DEF TypeOK, RecordInv, QueuesOK, HeadIs
<1>1. /\ p \in Courses(t, Unrecalled) /\ todo[t] = <<p>> /\ p = todo[t][1] /\ 1 \in 1..Len(todo[t])
      /\ \A n \in Seq(Steps) : Continue(t, n) => todo' = [todo EXCEPT ![t] = n]
  BY <1>0, HeadCourse
<1>2. p \in Publishes(t, Unrecalled) /\ p \in PublishSteps /\ p.room \in Rooms
  BY <1>0, <1>1, CourseKinds, PublishCourse
<1>3. next \in Seq(SendsFrom(t, Unrecalled, o))
  BY <1>2, PublishCourse
<1>4. Working(t, o)
  BY <1>0, <1>1 DEF Working
<1>5. next \in Seq(Courses(t, Unrecalled)) /\ next \in Seq(Steps) /\ PublishEnds(next)
      /\ \A i \in 1..Len(next) : next[i].do = "send" /\ next[i].room = o
  <2>1. \A x \in SendsFrom(t, Unrecalled, o) :
          x \in Courses(t, Unrecalled) /\ x \in Steps /\ x.do = "send" /\ x.room = o
    BY <1>2, CourseKinds DEF SendsFrom, Courses
  <2>2. next \in Seq(Courses(t, Unrecalled)) /\ next \in Seq(Steps)
    <3>1. SendsFrom(t, Unrecalled, o) \subseteq Courses(t, Unrecalled)
          /\ SendsFrom(t, Unrecalled, o) \subseteq Steps
      BY <2>1
    <3> QED BY <1>3, <3>1, SeqMonotonic
  <2>3. \A i \in 1..Len(next) : next[i].do = "send" /\ next[i].room = o
    BY <1>3, <2>1
  <2> QED BY <2>2, <2>3 DEF PublishEnds
<1>6. todo' = [todo EXCEPT ![t] = next]
  BY <1>1, <1>5
<1>7. /\ \A u \in Tasks : todo'[u] \in Seq(Courses(u, Unrecalled')) /\ PublishEnds(todo'[u])
      /\ \A u \in Tasks, r \in Rooms : Engages(u, r)' => Engages(u, r)
      /\ \A r \in Rooms : Alone(r) => Alone(r)'
  BY <1>0, <1>4, <1>5, <1>6, NextCourses
<1>8. CoursesOK'
  BY <1>0, <1>7 DEF CoursesOK, Unrecalled
<1>9. ASSUME NEW r \in Rooms, NoneIn(next, PushSends(r, Levels))
      PROVE  KeepsIntended(r)
  <2>1. NoneIn(todo[t], PushSends(r, Levels))
    <3>1. p \notin PushSends(r, Levels)
      BY <1>2, PublishSays
    <3>2. NoneIn(<<p>>, PushSends(r, Levels))
      BY <3>1, OneTells
    <3> QED BY <1>1, <3>2
  <2>2. \A T : LastIn(next, PushSends(r, Levels), T)
    BY <1>5, <1>9, NoneTells
  <2> QED BY <1>0, <1>6, <2>1, <2>2, ChainReplaced DEF KeepsIntended
<1>10. ASSUME NEW r \in Rooms, r # o
       PROVE  KeepsLit(r) /\ NoneIn(next, PushSends(r, Levels))
  <2>1. NoneIn(next, LitSteps(r)) /\ NoneIn(next, PushSends(r, Levels))
    BY <1>2, <1>3, <1>10, SendsSay
  <2>2. NoneIn(todo[t], LitSteps(r))
    BY <1>1, <1>2, <1>10, PublishSays, OneTells
  <2>3. \A T : LastIn(next, LitSteps(r), T)
    BY <1>5, <2>1, NoneTells
  <2> QED BY <1>0, <1>6, <2>1, <2>2, <2>3, ChainReplaced DEF KeepsLit
<1>11. ASSUME next = p.err
       PROVE  KeepsLit(o) /\ NoneIn(next, PushSends(o, Levels))
  <2>1. NoneIn(next, PushSends(o, Levels))
    BY <1>2, <1>11, PublishCourse
  <2> DEFINE S == LitSteps(o)
             L == LitSends(o)
             Q == Seq(SendsFrom(t, Unrecalled, o))
  <2>2. NoneIn(next, S) => NoneIn(todo[t], S)
    <3>1. NoneIn(next, S) => NoneIn(next, L)
      BY <1>2, <1>3, SendsSay
    <3>2. NoneIn(next, L) => p \notin S
      BY <1>2, <1>11, PublishSays
    <3> QED BY <1>1, <3>1, <3>2, OneTells
  <2>3. \A on : LastIn(todo[t], S, TrueSteps(o, on)) => LastIn(next, S, TrueSteps(o, on))
    <3> TAKE on
    <3> HAVE LastIn(todo[t], S, TrueSteps(o, on))
    <3>1. p \in S => p \in TrueSteps(o, on)
      BY <1>1, OneTells
    <3>2. p \in S => LastIn(next, L, TrueSends(o, on))
      BY <1>2, <1>11, <3>1, PublishSays
    <3>3. p \notin S => NoneIn(next, L)
      BY <1>2, <1>11, PublishSays
    <3>4. LastIn(next, L, TrueSends(o, on))
      BY <1>5, <3>2, <3>3, NoneTells
    <3> QED BY <1>2, <1>3, <3>4, SendsSay
  <2>4. KeepsLit(o)
    <3> SUFFICES ASSUME NEW on, NEW fact,
                        Chain(todo, rx, S, TrueSteps(o, on), LitCommands(o), TrueCommands(o, on), fact)
                 PROVE  Chain(todo', rx, S, TrueSteps(o, on), LitCommands(o), TrueCommands(o, on), fact)
      BY DEF KeepsLit
    <3>1. LastIn(next, S, TrueSteps(o, on))
      BY <2>3 DEF Chain
    <3> QED BY <1>0, <1>6, <2>2, <3>1, ChainReplaced
  <2> QED BY <2>1, <2>4
<1> QED BY <1>1, <1>2, <1>3, <1>4, <1>6, <1>7, <1>8, <1>9, <1>10, <1>11

\* After a publish that succeeded the task says what it published, if it was a
\* level.
LEMMA PublishIntends ==
  ASSUME TypeOK, RecordInv, NEW t \in Tasks, HeadIs(t, "publish"), NEW p, p = Head(todo[t]),
         Continue(t, p.ok), UNCHANGED <<rx, cycle, spent>>, Unrecalled, Alone(p.room)
  PROVE  /\ p.level = None => KeepsIntended(p.room)
         /\ \A level \in Levels : \A fact : p.level = level =>
              Chain(todo', rx', PushSends(p.room, Levels), PushSends(p.room, {level}),
                    PushCommands(p.room, Levels), PushCommands(p.room, {level}), fact)
<1> DEFINE o == p.room
           next == p.ok
           P == PushSends(o, Levels)
<1>0. QueuesOK /\ CoursesOK /\ todo \in [Tasks -> Seq(Steps)]
  BY TypeParts DEF TypeOK, RecordInv, QueuesOK
<1>1. /\ p \in Publishes(t, Unrecalled) /\ o \in Rooms /\ Working(t, o)
      /\ todo' = [todo EXCEPT ![t] = next] /\ next \in Seq(SendsFrom(t, Unrecalled, o))
      /\ \A r \in Rooms : NoneIn(next, PushSends(r, Levels)) => KeepsIntended(r)
  BY PublishTurn
<1>2. Tells(next, P, PushSends(o, {p.level}), p.level = None)
  BY <1>1, PublishCourse
<1> HIDE DEF next, o
<1>3. ASSUME p.level = None
      PROVE  KeepsIntended(o)
  <2>1. Tells(next, P, PushSends(o, {None}), TRUE)
    BY <1>2, <1>3 DEF Tells
  <2>2. NoneIn(next, P)
    BY <1>1, <2>1, NoLevelTold
  <2> QED BY <1>1, <2>2
<1>4. ASSUME NEW level \in Levels, NEW fact, p.level = level
      PROVE  Chain(todo', rx', P, PushSends(o, {level}), PushCommands(o, Levels), PushCommands(o, {level}), fact)
  <2>1. LastIn(next, P, PushSends(o, {level})) /\ ~NoneIn(next, P)
    BY <1>2, <1>4, NoneIsNoLevel DEF Tells
  <2>2. \A u \in Tasks \ {t} : NoneIn(todo[u], P)
    <3> SUFFICES ASSUME NEW u \in Tasks \ {t} PROVE NoneIn(todo[u], P)
      OBVIOUS
    <3>1. ~Working(u, o)
      BY <1>1 DEF Alone, Engages, o
    <3> QED BY <1>1, <3>1, NotWorking
  <2> QED BY <1>0, <1>1, <2>1, <2>2, ChainFresh
<1> QED BY <1>3, <1>4 DEF o

\* A command that reaches the lights is reported.
LEMMA DeliverSays ==
  ASSUME WorldOK, NEW m \in Outgoing, Deliver(m)
  PROVE  /\ \A r \in Rooms : Reported(r) => Reported(r)'
         /\ \A r \in Rooms : r # m.room => bulb'[r] = bulb[r] /\ (ReportsTrue(r) => ReportsTrue(r)')
         /\ bulb'[m.room].level = Or(m.level, bulb[m.room].level)
         /\ Reported(m.room)' /\ ReportsTrue(m.room)'
<1>1. PICK lit \in BOOLEAN :
        LET b == After(bulb[m.room], m.power, m.level, lit)
        IN  /\ bulb' = [bulb EXCEPT ![m.room] = b]
            /\ reports' = Append(reports, [room |-> m.room, on |-> b.on, level |-> b.level])
  BY DEF Deliver
<1> DEFINE b == After(bulb[m.room], m.power, m.level, lit)
           e == [room |-> m.room, on |-> b.on, level |-> b.level]
<1>2. m.room \in Rooms /\ m.power \in Power /\ m.level \in MaybeLevel /\ bulb[m.room] \in Bulb
  BY DEF WorldOK, Outgoing
<1>3. b \in Bulb /\ b.level = Or(m.level, bulb[m.room].level)
  <2>1. b \in Bulb
    BY <1>2, Zenon, SMTT(20) DEF After, Bulb, Or, MaybeLevel, Power
  <2> QED BY <2>1 DEF After
<1>4. bulb' = [bulb EXCEPT ![m.room] = b] /\ bulb \in [Rooms -> Bulb]
  BY <1>1 DEF WorldOK
<1>5. e \in Report /\ e.room = m.room /\ e.on = b.on
  BY <1>2, <1>3 DEF Report, Bulb
<1>6. reports' = Append(reports, e) /\ reports \in Seq(Report)
  BY <1>1 DEF WorldOK
<1> HIDE DEF b, e
<1>7. /\ Len(reports) \in Nat /\ Len(reports') = Len(reports) + 1 /\ reports'[Len(reports) + 1] = e
      /\ \A i \in 1..Len(reports) : reports'[i] = reports[i] /\ i \in 1..Len(reports')
      /\ Len(reports) + 1 \in 1..Len(reports')
  BY <1>5, <1>6, AppendProperties, LenProperties
<1>8. /\ \A r \in Rooms : Reported(r) => Reported(r)'
      /\ Reported(m.room)'
  BY <1>5, <1>7 DEF Reported
<1>9. bulb'[m.room] = b /\ \A r \in Rooms : r # m.room => bulb'[r] = bulb[r]
  BY <1>2, <1>4
<1>10. ReportsTrue(m.room)'
  <2> DEFINE S == ReportsOf(m.room, BOOLEAN)
             T == ReportsOf(m.room, {b.on})
  <2>1. e \in S /\ e \in T
    BY <1>3, <1>5 DEF ReportsOf, Bulb
  <2> HIDE DEF S, T
  <2>2. Tells(reports', S, T, TRUE)
    BY <1>5, <1>6, <2>1, TellsAppend
  <2>3. LastIn(reports', ReportsOf(m.room, BOOLEAN), ReportsOf(m.room, {b.on}))
    BY <2>2 DEF Tells, S, T
  <2> QED BY <1>9, <2>3 DEF ReportsTrue
<1>11. ASSUME NEW r \in Rooms, r # m.room, ReportsTrue(r)
       PROVE  ReportsTrue(r)'
  <2> DEFINE S == ReportsOf(r, BOOLEAN)
             T == ReportsOf(r, {bulb[r].on})
  <2>1. e \notin S
    BY <1>5, <1>11 DEF ReportsOf
  <2>2. Tells(reports, S, T, TRUE)
    BY <1>11 DEF ReportsTrue, Tells
  <2> HIDE DEF S, T
  <2>3. Tells(reports', S, T, TRUE)
    BY <1>5, <1>6, <2>1, <2>2, TellsAppend
  <2>4. LastIn(reports', ReportsOf(r, BOOLEAN), ReportsOf(r, {bulb[r].on}))
    BY <2>3 DEF Tells, S, T
  <2> QED BY <1>9, <1>11, <2>4 DEF ReportsTrue
<1> QED BY <1>3, <1>8, <1>9, <1>10, <1>11

\* A publish fails.
LEMMA TimeoutKeeps ==
  ASSUME TypeOK, RecordInv, NEW t \in Tasks, PublishTimeoutStep(t), UNCHANGED <<cycle, raced, spent>>
  PROVE  RecordInv'
<1> DEFINE p == Head(todo[t])
           next == p.err
<1>1. /\ HeadIs(t, "publish") /\ Continue(t, next)
      /\ UNCHANGED <<rooms, bulb, outq, reports, rx>>
  BY DEF PublishTimeoutStep, shared, world
<1> HIDE DEF p
<1>2. /\ CoursesOK'
      /\ \A u \in Tasks, r \in Rooms : Engages(u, r)' => Engages(u, r)
      /\ \A r \in Rooms : Alone(r) => Alone(r)'
      /\ \A r \in Rooms : KeepsLit(r) /\ KeepsIntended(r)
  BY <1>1, PublishTurn DEF p
<1>3. ASSUME NEW r \in Rooms, ~raced'[r]
      PROVE  Followed(r)'
  <2>1. Followed(r)
    BY <1>3 DEF RecordInv
  <2>2. Alone(r)' /\ (Engages("circadian", r)' => Engages("circadian", r))
    BY <1>2, <2>1, EngineAssumption DEF Followed, EngineAssumption
  <2>3. ReportsTrue(r)' /\ (Quiet(r)' => Quiet(r)) /\ (Untouched' => Untouched)
    BY <1>1, <2>1 DEF Followed, ReportsTrue, Quiet, Reported, Outstanding, Untouched
  <2>4. rooms'[r] = rooms[r] /\ bulb'[r] = bulb[r] /\ outq' = outq
    BY <1>1
  <2> QED BY <1>2, <2>1, <2>2, <2>3, <2>4, FollowedOn
<1> QED BY <1>2, <1>3 DEF RecordInv

\* A publish reaches Z2M.
LEMMA PublishKeeps ==
  ASSUME TypeOK, RecordInv, NEW t \in Tasks, PublishStep(t), UNCHANGED <<cycle, raced, spent>>
  PROVE  RecordInv'
<1>p. PICK p : p = Head(todo[t])
  OBVIOUS
<1> DEFINE o == p.room
           m == Message(p)
           next == p.ok
<1>0. WorldOK /\ RecordOK /\ CoursesOK
  BY TypeParts DEF TypeOK, RecordInv
<1>1. /\ HeadIs(t, "publish") /\ Continue(t, next) /\ Deliver(m) /\ outq = <<>>
      /\ UNCHANGED <<rooms, outq, rx>>
  BY <1>p DEF PublishStep, shared
<1>2. /\ CoursesOK' /\ o \in Rooms /\ p \in Publishes(t, Unrecalled)
      /\ \A u \in Tasks, r \in Rooms : Engages(u, r)' => Engages(u, r)
      /\ \A r \in Rooms : Alone(r) => Alone(r)'
      /\ \A r \in Rooms : r # o => KeepsLit(r) /\ KeepsIntended(r)
  BY <1>1, <1>p, PublishTurn
<1>3. p \in PublishSteps /\ p.level \in MaybeLevel
  BY <1>2, PublishCourse
<1>4. m \in Outgoing /\ m.room = o /\ m.level = p.level
  BY <1>3, PublishFields DEF Message, Outgoing
<1> HIDE DEF m
<1>5. /\ \A r \in Rooms : Reported(r) => Reported(r)'
      /\ \A r \in Rooms : r # o => bulb'[r] = bulb[r] /\ (ReportsTrue(r) => ReportsTrue(r)')
      /\ bulb'[o].level = Or(p.level, bulb[o].level)
      /\ Reported(m.room)' /\ ReportsTrue(m.room)'
  BY <1>0, <1>1, <1>4, DeliverSays
<1>6. ASSUME NEW r \in Rooms, ~raced'[r], r # o
      PROVE  Followed(r)'
  <2>1. Followed(r)
    BY <1>6 DEF RecordInv
  <2>2. Alone(r)' /\ (Engages("circadian", r)' => Engages("circadian", r))
    BY <1>2, <2>1, EngineAssumption DEF Followed, EngineAssumption
  <2>3. ReportsTrue(r)' /\ (Quiet(r)' => Quiet(r)) /\ (Untouched' => Untouched)
    BY <1>1, <1>5, <1>6, <2>1 DEF Followed, Quiet, Outstanding, Untouched
  <2>4. rooms'[r] = rooms[r] /\ bulb'[r] = bulb[r] /\ outq' = outq
    BY <1>1, <1>5, <1>6
  <2> QED BY <1>2, <1>6, <2>1, <2>2, <2>3, <2>4, FollowedOn
<1>7. ASSUME NEW r \in Rooms, ~raced'[r], r = o
      PROVE  Followed(r)'
  <2>1. Followed(r) /\ Alone(o)
    BY <1>7 DEF RecordInv, Followed
  <2>2. m.room = r
    BY <1>4, <1>7
  <2>3. ReportsTrue(r)' /\ ~Quiet(r)' /\ Alone(r)'
    BY <1>2, <1>5, <1>7, <2>1, <2>2 DEF Quiet
  <2>4. ASSUME Untouched'
        PROVE  \E level \in Levels : IntendedAs(r, level)'
    <3>1. Untouched /\ Unrecalled
      <4>1. spent.external \in Nat /\ spent.returns \in Nat /\ spent.recalls \in Nat
        BY DEF TypeOK
      <4> QED BY <2>4, <4>1 DEF Untouched, Unrecalled
    <3>2. PICK level \in Levels : IntendedAs(r, level)
      BY <2>1, <3>1 DEF Followed
    <3>3. /\ p.level = None => KeepsIntended(o)
          /\ \A l \in Levels : \A fact : p.level = l =>
               Chain(todo', rx', PushSends(o, Levels), PushSends(o, {l}),
                     PushCommands(o, Levels), PushCommands(o, {l}), fact)
      BY <1>1, <1>p, <2>1, <3>1, PublishIntends
    <3>4. CASE p.level = None
      <4> DEFINE fact == rooms[r].intended \in {None, level}
      <4>1. Chain(todo, rx, PushSends(r, Levels), PushSends(r, {level}), PushCommands(r, Levels),
                  PushCommands(r, {level}), fact)
        BY <3>2 DEF IntendedAs
      <4>2. KeepsIntended(r)
        BY <1>7, <3>3, <3>4
      <4>3. Chain(todo', rx', PushSends(r, Levels), PushSends(r, {level}), PushCommands(r, Levels),
                  PushCommands(r, {level}), fact)
        <5> HIDE DEF fact
        <5> QED BY <4>1, <4>2 DEF KeepsIntended
      <4>4. Tells(outq', MessagesOf(r, Levels), MessagesOf(r, {level}), bulb'[r].level = level)
        <5>1. bulb'[r].level = bulb[r].level
          BY <1>5, <1>7, <3>4 DEF Or
        <5> QED BY <1>1, <3>2, <5>1 DEF IntendedAs
      <4> QED BY <1>1, <4>3, <4>4 DEF IntendedAs
    <3>5. CASE p.level # None
      <4>1. p.level \in Levels
        BY <1>3, <3>5 DEF MaybeLevel
      <4> DEFINE l == p.level
                 fact == rooms'[r].intended \in {None, l}
      <4>2. Chain(todo', rx', PushSends(r, Levels), PushSends(r, {l}), PushCommands(r, Levels),
                  PushCommands(r, {l}), fact)
        <5> HIDE DEF fact
        <5> QED BY <1>7, <3>3, <4>1
      <4>3. Tells(outq', MessagesOf(r, Levels), MessagesOf(r, {l}), bulb'[r].level = l)
        <5>1. bulb'[r].level = l
          BY <1>5, <1>7, <3>5 DEF Or
        <5> QED BY <1>1, <5>1, EmptyTells
      <4> HIDE DEF l
      <4>4. \A level_1 \in Levels : level_1 = l => IntendedAs(r, level_1)'
        BY <4>2, <4>3 DEF IntendedAs
      <4> QED BY <4>1, <4>4 DEF l
    <3> QED BY <3>4, <3>5
  <2> QED BY <2>3, <2>4 DEF Followed
<1> QED BY <1>2, <1>6, <1>7 DEF RecordInv

\* A publish is queued.
LEMMA QueuedKeeps ==
  ASSUME TypeOK, RecordInv, NEW t \in Tasks, PublishQueuedStep(t), UNCHANGED <<cycle, raced, spent>>
  PROVE  RecordInv'
<1>p. PICK p : p = Head(todo[t])
  OBVIOUS
<1> DEFINE o == p.room
           m == Message(p)
           next == p.ok
<1>0. WorldOK /\ RecordOK /\ CoursesOK
  BY TypeParts DEF TypeOK, RecordInv
<1>1. /\ HeadIs(t, "publish") /\ Continue(t, next) /\ outq' = Append(outq, m)
      /\ UNCHANGED <<rooms, bulb, reports, rx>> /\ outq \in Seq(Outgoing)
  BY <1>0, <1>p DEF PublishQueuedStep, shared, WorldOK
<1>2. /\ CoursesOK' /\ o \in Rooms /\ p \in Publishes(t, Unrecalled)
      /\ \A u \in Tasks, r \in Rooms : Engages(u, r)' => Engages(u, r)
      /\ \A r \in Rooms : Alone(r) => Alone(r)'
      /\ \A r \in Rooms : r # o => KeepsLit(r) /\ KeepsIntended(r)
  BY <1>1, <1>p, PublishTurn
<1>3. p \in PublishSteps /\ p.level \in MaybeLevel
  BY <1>2, PublishCourse
<1>4. m \in Outgoing /\ m.room = o /\ m.level = p.level
  BY <1>3, PublishFields DEF Message, Outgoing
<1> HIDE DEF m
<1>5. /\ Outstanding(m.room)' /\ \A r \in Rooms : Outstanding(r) => Outstanding(r)'
      /\ \A r \in Rooms : ReportsTrue(r) => ReportsTrue(r)'
      /\ \A r \in Rooms : Reported(r)' <=> Reported(r)
  <2>1. /\ Len(outq) \in Nat /\ Len(outq') = Len(outq) + 1 /\ outq'[Len(outq) + 1] = m
        /\ \A i \in 1..Len(outq) : outq'[i] = outq[i] /\ i \in 1..Len(outq')
        /\ Len(outq) + 1 \in 1..Len(outq')
    BY <1>1, <1>4, AppendProperties, LenProperties
  <2>2. Outstanding(m.room)' /\ \A r \in Rooms : Outstanding(r) => Outstanding(r)'
    BY <2>1 DEF Outstanding
  <2> QED BY <1>1, <2>2 DEF ReportsTrue, Reported
<1>6. ASSUME NEW r \in Rooms, ~raced'[r], r # o
      PROVE  Followed(r)'
  <2>1. Followed(r)
    BY <1>6 DEF RecordInv
  <2>2. Alone(r)' /\ (Engages("circadian", r)' => Engages("circadian", r))
    BY <1>2, <2>1, EngineAssumption DEF Followed, EngineAssumption
  <2>3. ReportsTrue(r)' /\ (Quiet(r)' => Quiet(r)) /\ (Untouched' => Untouched)
    BY <1>5, <2>1 DEF Followed, Quiet, Untouched
  <2>4. rooms'[r] = rooms[r] /\ bulb'[r] = bulb[r]
    BY <1>1
  <2>5. \A level \in Levels : \A fact :
           Tells(outq, MessagesOf(r, Levels), MessagesOf(r, {level}), fact)
             => Tells(outq', MessagesOf(r, Levels), MessagesOf(r, {level}), fact)
    <3>1. m \notin MessagesOf(r, Levels)
      BY <1>4, <1>6 DEF MessagesOf
    <3> QED BY <1>1, <1>4, <3>1, TellsAppend
  <2> QED BY <1>2, <1>6, <2>1, <2>2, <2>3, <2>4, <2>5, FollowedOn
<1>7. ASSUME NEW r \in Rooms, ~raced'[r], r = o
      PROVE  Followed(r)'
  <2>1. Followed(r) /\ Alone(o)
    BY <1>7 DEF RecordInv, Followed
  <2>2. m.room = r
    BY <1>4, <1>7
  <2>3. ReportsTrue(r)' /\ ~Quiet(r)' /\ Alone(r)'
    BY <1>2, <1>5, <2>1, <2>2 DEF Quiet, Followed
  <2>4. ASSUME Untouched'
        PROVE  \E level \in Levels : IntendedAs(r, level)'
    <3>1. Untouched /\ Unrecalled
      <4>1. spent.external \in Nat /\ spent.returns \in Nat /\ spent.recalls \in Nat
        BY DEF TypeOK
      <4> QED BY <2>4, <4>1 DEF Untouched, Unrecalled
    <3>2. PICK level \in Levels : IntendedAs(r, level)
      BY <2>1, <3>1 DEF Followed
    <3>3. /\ p.level = None => KeepsIntended(o)
          /\ \A l \in Levels : \A fact : p.level = l =>
               Chain(todo', rx', PushSends(o, Levels), PushSends(o, {l}),
                     PushCommands(o, Levels), PushCommands(o, {l}), fact)
      BY <1>1, <1>p, <2>1, <3>1, PublishIntends
    <3>4. CASE p.level = None
      <4> DEFINE fact == rooms[r].intended \in {None, level}
                 lit == bulb[r].level = level
      <4>1. Chain(todo, rx, PushSends(r, Levels), PushSends(r, {level}), PushCommands(r, Levels),
                  PushCommands(r, {level}), fact)
        BY <3>2 DEF IntendedAs
      <4>2. KeepsIntended(r)
        BY <1>7, <3>3, <3>4
      <4>3. Chain(todo', rx', PushSends(r, Levels), PushSends(r, {level}), PushCommands(r, Levels),
                  PushCommands(r, {level}), fact)
        <5> HIDE DEF fact
        <5> QED BY <4>1, <4>2 DEF KeepsIntended
      <4>4. Tells(outq', MessagesOf(r, Levels), MessagesOf(r, {level}), lit)
        <5>1. m \notin MessagesOf(r, Levels)
          BY <1>4, <3>4, NoneIsNoLevel DEF MessagesOf
        <5>2. Tells(outq, MessagesOf(r, Levels), MessagesOf(r, {level}), lit)
          BY <3>2 DEF IntendedAs
        <5> HIDE DEF lit
        <5> QED BY <1>1, <1>4, <5>1, <5>2, TellsAppend
      <4> QED BY <1>1, <4>3, <4>4 DEF IntendedAs
    <3>5. CASE p.level # None
      <4>1. p.level \in Levels
        BY <1>3, <3>5 DEF MaybeLevel
      <4> DEFINE l == p.level
                 fact == rooms'[r].intended \in {None, l}
                 lit == bulb'[r].level = l
      <4>2. Chain(todo', rx', PushSends(r, Levels), PushSends(r, {l}), PushCommands(r, Levels),
                  PushCommands(r, {l}), fact)
        <5> HIDE DEF fact
        <5> QED BY <1>7, <3>3, <4>1
      <4>3. Tells(outq', MessagesOf(r, Levels), MessagesOf(r, {l}), lit)
        <5>1. m \in MessagesOf(r, Levels) /\ m \in MessagesOf(r, {l})
          BY <1>4, <2>2, <4>1 DEF MessagesOf
        <5> HIDE DEF lit
        <5> QED BY <1>1, <1>4, <5>1, TellsAppend
      <4> HIDE DEF l
      <4>4. \A level_1 \in Levels : level_1 = l => IntendedAs(r, level_1)'
        BY <4>2, <4>3 DEF IntendedAs
      <4> QED BY <4>1, <4>4 DEF l
    <3> QED BY <3>4, <3>5
  <2> QED BY <2>3, <2>4 DEF Followed
<1> QED BY <1>2, <1>6, <1>7 DEF RecordInv

\* A task takes a step.
LEMMA TasksKeep ==
  ASSUME TypeOK, RecordInv, NEW t \in Tasks, Step(t)
  PROVE  RecordInv'
BY SendKeeps, AnnounceKeeps, PublishKeeps, QueuedKeeps, TimeoutKeeps DEF Step, TaskStep

-----------------------------------------------------------------------------
(* The actor keeps the invariant.                                           *)

\* What the actor makes of an update.
LEMMA UpdateApplies ==
  ASSUME NEW room \in Room, NEW u \in Updates, u.update \in RequestKinds \union {"RestoreLights"},
         NEW i \in Nat, NEW next, next = ApplyUpdate(room, u, i)
  PROVE  /\ next.lightsOn = IF Lights(u) THEN SaysOn(u) ELSE room.lightsOn
         /\ u.update # "RestoreLights" =>
              next.intended = IF Intends(u, Levels) THEN u.level ELSE room.intended
<1>1. u.update \in {"CircadianPause", "LightsOn", "ManualOverrideTtl", "JehaPush", "LightsOff", "ExternalChange",
                    "RestoreLights"}
  BY DEF RequestKinds, EngineKinds
<1> USE DEF ApplyUpdate, Lights, SaysOn, Intends
<1>2. CASE u.update = "LightsOn"
  BY <1>2 DEF Room, ApplyLightsOn
<1>3. CASE u.update = "LightsOff"
  BY <1>3 DEF Room, ApplyLightsOff
<1>4. CASE u.update \in {"CircadianPause", "ManualOverrideTtl"}
  BY <1>4 DEF Room
<1>5. CASE u.update = "JehaPush"
  BY <1>5, UpdateFields, NoneIsNoLevel DEF Room, ApplyJehaPush, Or, MaybeLevel
<1>6. CASE u.update = "ExternalChange"
  BY <1>6 DEF Room, ApplyExternalChange
<1>7. CASE u.update = "RestoreLights"
  <2>1. u.snapshot \in Room
    BY <1>7, UpdateFields
  <2>2. next = ApplyRestoreLights(room, u.snapshot)
    BY <1>7
  <2>3. next.lightsOn = u.snapshot.lightsOn
    BY <2>2 DEF ApplyRestoreLights, Room
  <2> QED BY <1>1, <1>7, <2>1, <2>3 DEF Room
<1> QED BY <1>1, <1>2, <1>3, <1>4, <1>5, <1>6, <1>7

\* What the actor changes of a room.
LEMMA ActorSays ==
  ASSUME QueuesOK, RecordOK, CoursesOK, rx # <<>>, ApplyRoomUpdate \/ ApplyConnected,
         NEW c, c = Head(rx)
  PROVE  /\ c \in Commands
         /\ \A r \in Rooms : \A on :
              /\ c \in LitCommands(r) /\ c \in TrueCommands(r, on) => rooms'[r].lightsOn = on
              /\ c \notin LitCommands(r) => rooms'[r].lightsOn = rooms[r].lightsOn
         /\ Unrecalled => \A r \in Rooms : \A level \in Levels :
              /\ c \in PushCommands(r, Levels) /\ c \in PushCommands(r, {level}) => rooms'[r].intended = level
              /\ c \notin PushCommands(r, Levels) => rooms'[r].intended = rooms[r].intended
<1>1. c \in Commands /\ ("room" \in DOMAIN c => c.room \in Rooms /\ c.update \in Updates /\ c.from \in Tasks)
  <2>1. c \in Commands
    BY HeadCommand
  <2> QED BY <2>1, HeadCommand DEF Commands
<1>2. CASE ApplyRoomUpdate
  <2>1. "room" \in DOMAIN c /\ rooms' = [rooms EXCEPT ![c.room] = ApplyUpdate(rooms[c.room], c.update, now)]
    BY <1>2 DEF ApplyRoomUpdate
  <2> DEFINE o == c.room
             u == c.update
             next == ApplyUpdate(rooms[o], u, now)
  <2>2. /\ next.lightsOn = IF Lights(u) THEN SaysOn(u) ELSE rooms[o].lightsOn
        /\ Unrecalled => next.intended = IF Intends(u, Levels) THEN u.level ELSE rooms[o].intended
    <3>1. u \in SaidBy(c.from, Unrecalled)
      <4>1. Len(rx) \in Nat /\ Len(rx) # 0 /\ c = rx[1]
        BY EmptySeq, LenProperties, HeadTailProperties DEF QueuesOK
      <4>2. 1 \in 1..Len(rx)
        BY <4>1
      <4> QED BY <2>1, <4>1, <4>2 DEF CoursesOK
    <3>2. rooms[o] \in Room /\ now \in Nat
      BY <1>1, <2>1 DEF RecordOK
    <3>3. /\ u \in Updates /\ u.update \in RequestKinds \union {"RestoreLights"}
          /\ Unrecalled => u.update # "RestoreLights"
      BY <3>1 DEF SaidBy, Kinds, RequestKinds, EngineKinds
    <3>4. next = ApplyUpdate(rooms[o], u, now)
      OBVIOUS
    <3> HIDE DEF next, u
    <3> QED BY <3>2, <3>3, <3>4, UpdateApplies
  <2>3. rooms'[o] = next /\ \A r \in Rooms : r # o => rooms'[r] = rooms[r]
    BY <1>1, <2>1 DEF RecordOK
  <2> HIDE DEF next
  <2>4. \A r : /\ c \in CommandsOf(r) <=> r = o
    <3>1. c \in [from : Tasks, room : Rooms, update : Updates]
      BY <1>1, <2>1 DEF Commands
    <3> QED BY <1>1, <2>1, <3>1 DEF CommandsOf
  <2>5. ASSUME NEW r \in Rooms, NEW on
        PROVE  /\ c \in LitCommands(r) /\ c \in TrueCommands(r, on) => rooms'[r].lightsOn = on
               /\ c \notin LitCommands(r) => rooms'[r].lightsOn = rooms[r].lightsOn
    BY <2>2, <2>3, <2>4 DEF LitCommands, TrueCommands
  <2>6. ASSUME Unrecalled, NEW r \in Rooms, NEW level \in Levels
        PROVE  /\ c \in PushCommands(r, Levels) /\ c \in PushCommands(r, {level}) => rooms'[r].intended = level
               /\ c \notin PushCommands(r, Levels) => rooms'[r].intended = rooms[r].intended
    BY <2>2, <2>3, <2>4, <2>6 DEF PushCommands, Intends
  <2> QED BY <1>1, <2>5, <2>6
<1>3. CASE ApplyConnected
  <2>1. "connected" \in DOMAIN c /\ rooms' = rooms
    BY <1>3 DEF ApplyConnected
  <2>2. \A r : c \notin CommandsOf(r)
    BY <2>1 DEF CommandsOf
  <2> QED BY <1>1, <2>1, <2>2 DEF LitCommands, PushCommands
<1> QED BY <1>2, <1>3

LEMMA ActorKeeps ==
  ASSUME TypeOK, RecordInv, Actor
  PROVE  RecordInv'
<1>0. QueuesOK /\ RecordOK /\ CoursesOK
  BY TypeParts DEF TypeOK, RecordInv
<1>1. /\ rx # <<>> /\ rx' = Tail(rx) /\ (ApplyRoomUpdate \/ ApplyConnected)
      /\ UNCHANGED <<todo, cycle, raced, spent, bulb, outq, reports>>
  BY DEF Actor, ApplyRoomUpdate, ApplyConnected, world
<1>2. PICK c : c = Head(rx)
  OBVIOUS
<1>3. /\ c \in Commands
      /\ \A r \in Rooms : \A on :
           /\ c \in LitCommands(r) /\ c \in TrueCommands(r, on) => rooms'[r].lightsOn = on
           /\ c \notin LitCommands(r) => rooms'[r].lightsOn = rooms[r].lightsOn
      /\ Unrecalled => \A r \in Rooms : \A level \in Levels :
           /\ c \in PushCommands(r, Levels) /\ c \in PushCommands(r, {level}) => rooms'[r].intended = level
           /\ c \notin PushCommands(r, Levels) => rooms'[r].intended = rooms[r].intended
  BY <1>0, <1>1, <1>2, ActorSays
<1>4. CoursesOK'
  <2>1. \A i \in 1..Len(rx') : i + 1 \in 1..Len(rx) /\ rx'[i] = rx[i + 1]
    BY <1>0, <1>1, HeadTailProperties, LenProperties DEF QueuesOK
  <2> QED BY <1>0, <1>1, <2>1 DEF CoursesOK, Unrecalled
<1>5. ASSUME NEW r \in Rooms, ~raced'[r]
      PROVE  Followed(r)'
  <2>1. Followed(r)
    BY <1>1, <1>5 DEF RecordInv
  <2>2. /\ \A t \in Tasks : Engages(t, r)' <=> Engages(t, r)
        /\ Alone(r)' /\ ReportsTrue(r)' /\ (Quiet(r)' <=> Quiet(r)) /\ (Untouched' <=> Untouched)
    BY <1>1, <2>1 DEF Followed, Alone, Engages, Working, ReportsTrue, Quiet, Reported, Outstanding, Untouched
  <2>3. ASSUME Quiet(r)'
        PROVE  Foreseen(r)' /\ (Engages("circadian", r)' => bulb'[r].on)
    <3> DEFINE old == rooms[r].lightsOn = bulb[r].on
               fact == rooms'[r].lightsOn = bulb[r].on
               on == bulb[r].on
    <3>1. Foreseen(r) /\ (Engages("circadian", r) => bulb[r].on)
      BY <2>1, <2>2, <2>3 DEF Followed
    <3>2. Chain(todo, rx, LitSteps(r), TrueSteps(r, on), LitCommands(r), TrueCommands(r, on), old)
      BY <3>1 DEF Foreseen
    <3>3. /\ c \in LitCommands(r) /\ c \in TrueCommands(r, on) => fact
          /\ c \notin LitCommands(r) /\ old => fact
      BY <1>3
    <3> HIDE DEF old, fact, on
    <3>4. Chain(todo, rx', LitSteps(r), TrueSteps(r, on), LitCommands(r), TrueCommands(r, on), fact)
      BY <1>0, <1>1, <1>2, <3>2, <3>3, ChainApplies DEF QueuesOK
    <3>5. Foreseen(r)'
      BY <1>1, <3>4 DEF Foreseen, fact, on
    <3> QED BY <1>1, <2>2, <3>1, <3>5, EngineAssumption DEF EngineAssumption
  <2>4. ASSUME Untouched'
        PROVE  \E level \in Levels : IntendedAs(r, level)'
    <3>0. Unrecalled
      <4>1. spent.external \in Nat /\ spent.returns \in Nat /\ spent.recalls \in Nat
        BY DEF TypeOK
      <4> QED BY <2>2, <2>4, <4>1 DEF Untouched, Unrecalled
    <3>1. PICK level \in Levels : IntendedAs(r, level)
      BY <2>1, <2>2, <2>4 DEF Followed
    <3> DEFINE old == rooms[r].intended \in {None, level}
               fact == rooms'[r].intended \in {None, level}
    <3>2. Chain(todo, rx, PushSends(r, Levels), PushSends(r, {level}), PushCommands(r, Levels),
                PushCommands(r, {level}), old)
      BY <3>1 DEF IntendedAs
    <3>3. /\ c \in PushCommands(r, Levels) /\ c \in PushCommands(r, {level}) => fact
          /\ c \notin PushCommands(r, Levels) /\ old => fact
      BY <1>3, <3>0
    <3> HIDE DEF old, fact
    <3>4. Chain(todo, rx', PushSends(r, Levels), PushSends(r, {level}), PushCommands(r, Levels),
                PushCommands(r, {level}), fact)
      BY <1>0, <1>1, <1>2, <3>2, <3>3, ChainApplies DEF QueuesOK
    <3> QED BY <1>1, <3>1, <3>4 DEF IntendedAs, fact
  <2> QED BY <2>2, <2>3, <2>4 DEF Followed
<1> QED BY <1>4, <1>5 DEF RecordInv

-----------------------------------------------------------------------------
(* The outside keeps the invariant.                                         *)

LEMMA Unraced ==
  ASSUME NEW rs, Overlap(rs), NEW r \in Rooms, ~raced'[r]
  PROVE  ~raced[r] /\ r \notin rs
BY DEF Overlap

LEMMA SpentNat ==
  ASSUME TypeOK
  PROVE  /\ Untouched => Unrecalled
         /\ spent.external \in Nat /\ spent.returns \in Nat /\ spent.recalls \in Nat
BY DEF TypeOK, Untouched, Unrecalled

LEMMA SpendSays ==
  ASSUME TypeOK, NEW kind, Spend(kind)
  PROVE  /\ kind \in {"external", "returns"} => ~Untouched' /\ (Unrecalled' <=> Unrecalled)
         /\ kind \in {"requests", "outages"} => (Untouched' <=> Untouched) /\ (Unrecalled' <=> Unrecalled)
         /\ kind = "recalls" => ~Untouched' /\ ~Unrecalled'
<1>1. /\ spent.external \in Nat /\ spent.returns \in Nat /\ spent.recalls \in Nat
      /\ spent \in [requests : Nat, recalls : Nat, external : Nat, returns : Nat, outages : Nat]
      /\ spent' = [spent EXCEPT ![kind] = @ + 1]
  BY DEF TypeOK, Spend, SpendFor
<1> QED BY <1>1 DEF Untouched, Unrecalled

\* A request is not a touch, and a recall counts as one.
LEMMA SpendRequestSays ==
  ASSUME TypeOK, NEW op, SpendRequest(op)
  PROVE  /\ op # "recall" => (Unrecalled' <=> Unrecalled) /\ (Untouched' <=> Untouched)
         /\ op = "recall" => ~Unrecalled' /\ ~Untouched'
<1>1. CASE op \in Unpaired /\ SpendFor("requests", MaxEvents)
  <2>1. op # "recall"
    <3>1. Unpaired \subseteq AllOps \ {"recall"}
      BY ControlAssumption, Zenon DEF ControlAssumption
    <3> QED BY <1>1, <3>1
  <2>2. spent' = [spent EXCEPT !["requests"] = @ + MaxEvents]
    BY <1>1 DEF SpendFor
  <2>3. /\ spent'.external = spent.external /\ spent'.returns = spent.returns
        /\ spent'.recalls = spent.recalls
    BY <2>2 DEF TypeOK
  <2> QED BY <2>1, <2>3 DEF Untouched, Unrecalled
<1>2. CASE op = "recall" /\ Spend("recalls")
  BY <1>2, SpendSays
<1>3. CASE op \notin Unpaired \union {"recall"} /\ Spend("requests")
  BY <1>3, SpendSays
<1> QED BY <1>1, <1>2, <1>3 DEF SpendRequest

\* What the outside leaves of a room.
LEMMA OutsideLeaves ==
  ASSUME NEW r \in Rooms, Followed(r), UNCHANGED <<todo, rx, cycle, rooms>>,
         ReportsTrue(r)',
         Quiet(r)' => Quiet(r) /\ bulb'[r].on = bulb[r].on,
         Untouched' => Untouched /\ \A level \in Levels :
           Tells(outq, MessagesOf(r, Levels), MessagesOf(r, {level}), bulb[r].level = level)
             => Tells(outq', MessagesOf(r, Levels), MessagesOf(r, {level}), bulb'[r].level = level)
  PROVE  Followed(r)'
<1>1. Alone(r)' /\ \A t \in Tasks : Engages(t, r)' <=> Engages(t, r)
  BY DEF Followed, Alone, Engages, Working
<1>2. Quiet(r)' => Foreseen(r)' /\ (Engages("circadian", r)' => bulb'[r].on)
  BY <1>1, EngineAssumption DEF Followed, Foreseen, EngineAssumption
<1>3. Untouched' => \E level \in Levels : IntendedAs(r, level)'
  <2> HAVE Untouched'
  <2>1. PICK level \in Levels : IntendedAs(r, level)
    BY DEF Followed
  <2>2. IntendedAs(r, level)'
    BY <2>1 DEF IntendedAs
  <2> QED BY <2>2
<1> QED BY <1>1, <1>2, <1>3 DEF Followed

LEMMA CoursesStay ==
  ASSUME CoursesOK, UNCHANGED <<todo, rx>>, Unrecalled' <=> Unrecalled
  PROVE  CoursesOK'
<1>1. Unrecalled' = Unrecalled
  BY DEF Unrecalled
<1> QED BY <1>1 DEF CoursesOK

LEMMA TouchKeeps ==
  ASSUME TypeOK, RecordInv, NEW o \in Rooms, ExternalSet(o)
  PROVE  RecordInv'
<1>0. WorldOK /\ CoursesOK
  BY TypeParts DEF TypeOK, RecordInv
<1>1. /\ ~Untouched' /\ (Unrecalled' <=> Unrecalled)
      /\ UNCHANGED <<todo, rx, cycle, rooms, outq>>
  BY SpendSays DEF ExternalSet, TouchLight, shared
<1>2. PICK b \in {[bulb[o] EXCEPT !.on = FALSE, !.ramp = "none"],
                  [on |-> TRUE, level |-> "external", ramp |-> "none"]} :
        /\ bulb' = [bulb EXCEPT ![o] = b]
        /\ reports' = IF link # "up" THEN reports
                      ELSE Append(reports, [room |-> o, on |-> b.on, level |-> b.level])
  BY DEF ExternalSet, TouchLight
<1> DEFINE e == [room |-> o, on |-> b.on, level |-> b.level]
<1>3. b \in Bulb /\ e \in Report
  <2>1. bulb[o] \in Bulb /\ "external" \in Levels
    BY <1>0, DaemonAssumption DEF WorldOK, DaemonAssumption
  <2> DEFINE dark == [bulb[o] EXCEPT !.on = FALSE]
  <2>2. dark \in Bulb
    BY <2>1 DEF Bulb
  <2>3. [dark EXCEPT !.ramp = "none"] \in Bulb
    <3> HIDE DEF dark
    <3> QED BY <2>2 DEF Bulb
  <2>4. [on |-> TRUE, level |-> "external", ramp |-> "none"] \in Bulb
    BY <2>1 DEF Bulb
  <2>5. b \in Bulb
    BY <2>3, <2>4
  <2> QED BY <2>5 DEF Bulb, Report
<1>4. bulb'[o] = b /\ \A r \in Rooms : r # o => bulb'[r] = bulb[r]
  BY <1>0, <1>2 DEF WorldOK
<1>5. e.room = o /\ e.on = b.on
  OBVIOUS
<1> HIDE DEF e
<1>6. CoursesOK'
  BY <1>0, <1>1, CoursesStay
<1>7. ASSUME NEW r \in Rooms, ~raced'[r]
      PROVE  Followed(r)'
  <2>1. Followed(r) /\ (r = o => link = "up")
    BY <1>7, Unraced DEF RecordInv, ExternalSet
  <2>2. CASE reports' = reports /\ r # o
    <3>1. bulb'[r] = bulb[r]
      BY <1>4, <2>2
    <3>2. ReportsTrue(r)' /\ (Quiet(r)' => Quiet(r))
      BY <1>1, <2>1, <2>2, <3>1 DEF Followed, ReportsTrue, Quiet, Reported, Outstanding
    <3> QED BY <1>1, <2>1, <3>1, <3>2, OutsideLeaves
  <2>3. CASE reports' = Append(reports, e)
    <3> DEFINE S == ReportsOf(r, BOOLEAN)
               T == ReportsOf(r, {bulb'[r].on})
    <3>1. /\ Len(reports) \in Nat /\ Len(reports') = Len(reports) + 1 /\ reports'[Len(reports) + 1] = e
          /\ \A i \in 1..Len(reports) : reports'[i] = reports[i] /\ i \in 1..Len(reports')
          /\ Len(reports) + 1 \in 1..Len(reports')
      BY <1>0, <1>3, <2>3, AppendProperties, LenProperties DEF WorldOK
    <3>2. LastIn(reports', S, T)
      <4>1. CASE r = o
        <5>1. e \in S /\ e \in T
          BY <1>3, <1>4, <1>5, <4>1 DEF ReportsOf, Bulb
        <5> HIDE DEF S, T
        <5>2. Tells(reports', S, T, TRUE)
          BY <1>0, <1>3, <2>3, <5>1, TellsAppend DEF WorldOK
        <5> QED BY <5>2 DEF Tells
      <4>2. CASE r # o
        <5>1. e \notin S
          BY <1>5, <4>2 DEF ReportsOf
        <5>2. Tells(reports, S, T, TRUE)
          BY <1>4, <2>1, <4>2 DEF Followed, ReportsTrue, Tells
        <5> HIDE DEF S, T
        <5>3. Tells(reports', S, T, TRUE)
          BY <1>0, <1>3, <2>3, <5>1, <5>2, TellsAppend DEF WorldOK
        <5> QED BY <5>3 DEF Tells
      <4> QED BY <4>1, <4>2
    <3>3. ReportsTrue(r)'
      BY <3>2 DEF ReportsTrue
    <3>4. Quiet(r)' => Quiet(r) /\ r # o
      BY <1>1, <1>5, <3>1 DEF Quiet, Reported, Outstanding
    <3>5. Quiet(r)' => Quiet(r) /\ bulb'[r].on = bulb[r].on
      BY <1>4, <3>4
    <3> HIDE DEF S, T
    <3> QED BY <1>1, <2>1, <3>3, <3>5, OutsideLeaves
  <2> QED BY <1>2, <2>1, <2>2, <2>3 DEF e
<1> QED BY <1>6, <1>7 DEF RecordInv

LEMMA ReturnKeeps ==
  ASSUME TypeOK, RecordInv, NEW o \in Rooms, BulbReturns(o)
  PROVE  RecordInv'
<1>0. WorldOK /\ CoursesOK
  BY TypeParts DEF TypeOK, RecordInv
<1>1. /\ ~Untouched' /\ (Unrecalled' <=> Unrecalled)
      /\ UNCHANGED <<todo, rx, cycle, rooms, outq, reports>>
  BY SpendSays DEF BulbReturns, shared
<1>2. \A r \in Rooms : bulb'[r].on = bulb[r].on
  BY <1>0 DEF BulbReturns, WorldOK, Bulb
<1>3. CoursesOK'
  BY <1>0, <1>1, CoursesStay
<1>4. ASSUME NEW r \in Rooms, ~raced'[r]
      PROVE  Followed(r)'
  <2>1. Followed(r)
    BY <1>4, Unraced DEF RecordInv, BulbReturns
  <2>2. ReportsTrue(r)' /\ (Quiet(r)' => Quiet(r))
    BY <1>1, <1>2, <2>1 DEF Followed, ReportsTrue, Quiet, Reported, Outstanding
  <2> QED BY <1>1, <1>2, <2>1, <2>2, OutsideLeaves
<1> QED BY <1>3, <1>4 DEF RecordInv

LEMMA OutageKeeps ==
  ASSUME TypeOK, RecordInv, LinkLost
  PROVE  RecordInv'
<1>1. /\ (Untouched' <=> Untouched) /\ (Unrecalled' <=> Unrecalled)
      /\ UNCHANGED <<todo, rx, cycle, rooms, outq, bulb>> /\ reports' = <<>>
  BY SpendSays DEF LinkLost, LoseLink, shared
<1>2. CoursesOK'
  BY <1>1, CoursesStay DEF RecordInv
<1>3. ASSUME NEW r \in Rooms, ~raced'[r]
      PROVE  Followed(r)'
  <2>1. Followed(r) /\ ~Reported(r)
    BY <1>3, Unraced DEF RecordInv, LinkLost
  <2>2. \A i \in 1..Len(reports') : FALSE
    BY <1>1
  <2>3. ReportsTrue(r)'
    BY <2>2 DEF ReportsTrue, LastIn
  <2>4. Quiet(r)' => Quiet(r)
    BY <1>1, <2>1 DEF Quiet, Outstanding
  <2> QED BY <1>1, <2>1, <2>3, <2>4, OutsideLeaves
<1> QED BY <1>2, <1>3 DEF RecordInv

LEMMA TickKeeps ==
  ASSUME TypeOK, RecordInv, Tick
  PROVE  RecordInv'
<1>1. UNCHANGED <<todo, rx, cycle, rooms, outq, bulb, reports, raced, spent>>
  BY DEF Tick, PassTime, Elapse, shared
<1>2. (Untouched' <=> Untouched) /\ (Unrecalled' <=> Unrecalled)
  BY <1>1 DEF Untouched, Unrecalled
<1>3. CoursesOK'
  BY <1>1, <1>2, CoursesStay DEF RecordInv
<1>4. ASSUME NEW r \in Rooms, ~raced'[r]
      PROVE  Followed(r)'
  <2>1. Followed(r)
    BY <1>1, <1>4 DEF RecordInv
  <2>2. ReportsTrue(r)' /\ (Quiet(r)' => Quiet(r))
    BY <1>1, <2>1 DEF Followed, ReportsTrue, Quiet, Reported, Outstanding
  <2> QED BY <1>1, <1>2, <2>1, <2>2, OutsideLeaves
<1> QED BY <1>3, <1>4 DEF RecordInv

\* A command of the backlog reaches Z2M.
LEMMA BacklogKeeps ==
  ASSUME TypeOK, RecordInv, DeliverQueued, UNCHANGED <<cycle, raced, spent>>
  PROVE  RecordInv'
<1>0. WorldOK /\ CoursesOK
  BY TypeParts DEF TypeOK, RecordInv
<1>m. PICK m : m = Head(outq)
  OBVIOUS
<1>1. /\ UNCHANGED <<todo, rx, cycle, rooms, raced, spent>>
      /\ outq # <<>> /\ outq' = Tail(outq) /\ Deliver(m) /\ outq \in Seq(Outgoing)
  BY <1>0, <1>m DEF DeliverQueued, shared, WorldOK
<1>2. /\ Len(outq) \in Nat /\ Len(outq) = Len(outq') + 1 /\ Len(outq') \in Nat
      /\ outq[1] = m /\ m \in Outgoing /\ \A i \in 1..Len(outq') : outq'[i] = outq[i + 1]
  BY <1>m, <1>1, HeadTailProperties, LenProperties
<1>3. m.room \in Rooms /\ m.level \in MaybeLevel
  BY <1>2 DEF Outgoing
<1>4. /\ \A r \in Rooms : Reported(r) => Reported(r)'
      /\ \A r \in Rooms : r # m.room => bulb'[r] = bulb[r] /\ (ReportsTrue(r) => ReportsTrue(r)')
      /\ bulb'[m.room].level = Or(m.level, bulb[m.room].level)
      /\ Reported(m.room)' /\ ReportsTrue(m.room)'
  BY <1>0, <1>1, <1>2, DeliverSays
<1>5. (Untouched' <=> Untouched) /\ (Unrecalled' <=> Unrecalled)
  BY <1>1 DEF Untouched, Unrecalled
<1>6. CoursesOK'
  BY <1>0, <1>1, <1>5, CoursesStay
<1>7. ASSUME NEW r \in Rooms, ~raced'[r]
      PROVE  Followed(r)'
  <2>1. Followed(r)
    BY <1>1, <1>7 DEF RecordInv
  <2>2. ReportsTrue(r)'
    BY <1>4, <2>1 DEF Followed
  <2>3. r # m.room /\ Outstanding(r) => Outstanding(r)'
    <3> SUFFICES ASSUME r # m.room, NEW i \in 1..Len(outq), outq[i].room = r
                 PROVE  Outstanding(r)'
      BY DEF Outstanding
    <3>1. i - 1 \in 1..Len(outq') /\ outq'[i - 1] = outq[i]
      BY <1>2
    <3> QED BY <3>1 DEF Outstanding
  <2>4. Quiet(r)' => Quiet(r) /\ bulb'[r].on = bulb[r].on
    BY <1>4, <2>3 DEF Quiet
  <2>5. ASSUME NEW level \in Levels,
               Tells(outq, MessagesOf(r, Levels), MessagesOf(r, {level}), bulb[r].level = level)
        PROVE  Tells(outq', MessagesOf(r, Levels), MessagesOf(r, {level}), bulb'[r].level = level)
    <3> DEFINE old == bulb[r].level = level
               fact == bulb'[r].level = level
    <3>1. /\ m \in MessagesOf(r, Levels) /\ m \in MessagesOf(r, {level}) => fact
          /\ m \notin MessagesOf(r, Levels) /\ old => fact
      <4>1. CASE r = m.room
        BY <1>2, <1>3, <1>4, <4>1, NoneIsNoLevel DEF MessagesOf, Or, MaybeLevel
      <4>2. CASE r # m.room
        BY <1>4, <4>2 DEF MessagesOf
      <4> QED BY <4>1, <4>2
    <3>2. Tells(outq, MessagesOf(r, Levels), MessagesOf(r, {level}), old)
      BY <2>5
    <3> HIDE DEF old, fact
    <3>3. Tells(outq', MessagesOf(r, Levels), MessagesOf(r, {level}), fact)
      BY <1>m, <1>1, <3>1, <3>2, TellsTail
    <3> QED BY <3>3 DEF fact
  <2> QED BY <1>1, <1>5, <2>1, <2>2, <2>4, <2>5, OutsideLeaves
<1> QED BY <1>6, <1>7 DEF RecordInv

-----------------------------------------------------------------------------
(* A task that has nothing to do puts steps down.                           *)

\* Steps about some of the rooms, which intend nothing before a publish.
About(steps, t, os, plain) ==
  /\ steps \in Seq(Courses(t, plain)) /\ PublishEnds(steps)
  /\ \A i \in 1..Len(steps) : steps[i].do \in {"send", "publish"} => steps[i].room \in os
  /\ \A r \in Rooms : NoneIn(steps, PushSends(r, Levels)) /\ (r \notin os => NoneIn(steps, LitSteps(r)))

LEMMA CourseAbout ==
  ASSUME NEW steps, NEW t, NEW o \in Rooms, NEW plain, CourseIn(steps, t, o, plain)
  PROVE  About(steps, t, {o}, plain)
<1>1. \A r \in Rooms : NoneIn(steps, PushSends(r, Levels)) /\ (r # o => NoneIn(steps, LitSteps(r)))
  BY CourseElsewhere DEF CourseIn
<1> QED BY <1>1 DEF CourseIn, About

KeepsLitAs(r, on) ==
  \A fact :
    Chain(todo, rx, LitSteps(r), TrueSteps(r, on), LitCommands(r), TrueCommands(r, on), fact)
      => Chain(todo', rx', LitSteps(r), TrueSteps(r, on), LitCommands(r), TrueCommands(r, on), fact)

LEMMA PutDown ==
  ASSUME QueuesOK, CoursesOK, NEW t \in Tasks, todo[t] = <<>>, NEW steps, NEW os,
         About(steps, t, os, Unrecalled'), Unrecalled' => Unrecalled,
         todo' = [todo EXCEPT ![t] = steps], rx' = rx
  PROVE  /\ CoursesOK'
         /\ \A u \in Tasks, r \in Rooms : Working(u, r)' => Working(u, r) \/ (u = t /\ r \in os)
         /\ \A r \in Rooms : KeepsIntended(r) /\ (r \notin os => KeepsLit(r))
         /\ \A r \in Rooms : \A on :
              LastIn(steps, LitSteps(r), TrueSteps(r, on)) => KeepsLitAs(r, on)
<1>0. /\ todo \in [Tasks -> Seq(Steps)] /\ todo'[t] = steps
      /\ \A u \in Tasks \ {t} : todo'[u] = todo[u]
  BY DEF QueuesOK
<1>1. \A u \in Tasks : todo'[u] \in Seq(Courses(u, Unrecalled')) /\ PublishEnds(todo'[u])
  <2> SUFFICES ASSUME NEW u \in Tasks
               PROVE  todo'[u] \in Seq(Courses(u, Unrecalled')) /\ PublishEnds(todo'[u])
    OBVIOUS
  <2>1. CASE u = t
    BY <1>0, <2>1 DEF About
  <2>2. CASE u # t
    <3>1. todo[u] \in Seq(Courses(u, Unrecalled)) /\ PublishEnds(todo[u])
      BY DEF CoursesOK
    <3>2. Courses(u, Unrecalled) \subseteq Courses(u, Unrecalled')
      BY CoursesGrow DEF Unrecalled
    <3>3. todo[u] \in Seq(Courses(u, Unrecalled'))
      BY <3>1, <3>2, SeqMonotonic
    <3> QED BY <1>0, <2>2, <3>1, <3>3
  <2> QED BY <2>1, <2>2
<1>2. \A u : SaidBy(u, Unrecalled) \subseteq SaidBy(u, Unrecalled')
  BY CoursesGrow DEF Unrecalled
<1>3. CoursesOK'
  BY <1>1, <1>2 DEF CoursesOK
<1>4. ASSUME NEW u \in Tasks, NEW r \in Rooms, Working(u, r)'
      PROVE  Working(u, r) \/ (u = t /\ r \in os)
  BY <1>0, <1>4 DEF Working, About
<1>5. \A S : NoneIn(todo[t], S)
  <2>1. \A i \in 1..Len(<<>>) : FALSE
    OBVIOUS
  <2> QED BY <2>1 DEF NoneIn
<1>6. ASSUME NEW r \in Rooms, NEW on, LastIn(steps, LitSteps(r), TrueSteps(r, on))
      PROVE  KeepsLitAs(r, on)
  BY <1>0, <1>5, <1>6, ChainReplaced DEF KeepsLitAs
<1>7. ASSUME NEW r \in Rooms
      PROVE  KeepsIntended(r) /\ (r \notin os => KeepsLit(r))
  <2>1. \A S, T : NoneIn(steps, S) => LastIn(steps, S, T)
    BY NoneTells DEF About
  <2>2. KeepsIntended(r)
    <3>1. NoneIn(steps, PushSends(r, Levels))
      BY DEF About
    <3> QED BY <1>0, <1>5, <2>1, <3>1, ChainReplaced DEF KeepsIntended
  <2>3. ASSUME r \notin os
        PROVE  KeepsLit(r)
    <3>1. NoneIn(steps, LitSteps(r))
      BY <2>3 DEF About
    <3> QED BY <1>0, <1>5, <2>1, <3>1, ChainReplaced DEF KeepsLit
  <2> QED BY <2>2, <2>3
<1> QED BY <1>3, <1>4, <1>6, <1>7

\* What is left of a room about which a task puts steps down.
LEMMA FollowedAfter ==
  ASSUME NEW r \in Rooms, Followed(r), Alone(r)', ReportsTrue(r)',
         Quiet(r)' => Foreseen(r)' /\ (Engages("circadian", r)' => bulb'[r].on),
         Untouched' => Untouched,
         rooms'[r] = rooms[r], bulb'[r] = bulb[r], outq' = outq, KeepsIntended(r)
  PROVE  Followed(r)'
<1>1. ASSUME Untouched'
      PROVE  \E level \in Levels : IntendedAs(r, level)'
  <2>1. PICK level \in Levels : IntendedAs(r, level)
    BY <1>1 DEF Followed
  <2> DEFINE fact == rooms[r].intended \in {None, level}
  <2>2. Chain(todo, rx, PushSends(r, Levels), PushSends(r, {level}), PushCommands(r, Levels),
              PushCommands(r, {level}), fact)
    BY <2>1 DEF IntendedAs
  <2>3. Chain(todo', rx', PushSends(r, Levels), PushSends(r, {level}), PushCommands(r, Levels),
              PushCommands(r, {level}), fact)
    <3> HIDE DEF fact
    <3> QED BY <2>2 DEF KeepsIntended
  <2>4. IntendedAs(r, level)'
    BY <2>1, <2>3 DEF IntendedAs
  <2> QED BY <2>4
<1> QED BY <1>1 DEF Followed

\* The lights on or off as foreseen, when what was put down says at most that.
LEMMA ForeseenOn ==
  ASSUME NEW r \in Rooms, Foreseen(r), rooms'[r] = rooms[r], bulb'[r] = bulb[r],
         KeepsLitAs(r, bulb[r].on)
  PROVE  Foreseen(r)'
<1> DEFINE fact == rooms[r].lightsOn = bulb[r].on
           on == bulb[r].on
<1>1. Chain(todo, rx, LitSteps(r), TrueSteps(r, on), LitCommands(r), TrueCommands(r, on), fact)
  BY DEF Foreseen
<1>2. Chain(todo', rx', LitSteps(r), TrueSteps(r, on), LitCommands(r), TrueCommands(r, on), fact)
  <2> HIDE DEF fact
  <2> QED BY <1>1 DEF KeepsLitAs
<1> QED BY <1>2 DEF Foreseen

\* Nothing about a room is on its way, or nothing but the engine's.
LEMMA NobodyElse ==
  ASSUME NEW r \in Rooms, ~MqttBusy(r), ~RequestBusy(r)
  PROVE  \A u \in Tasks \ {"circadian"} : ~Working(u, r) /\ ~Queued(u, r)
BY ControlAssumption DEF ControlAssumption, MqttBusy, RequestBusy, Busy

LEMMA NobodySettled ==
  ASSUME NEW r \in Rooms, Settled(r)
  PROVE  /\ \A u \in Tasks : ~Working(u, r) /\ ~Queued(u, r) /\ ~Engages(u, r)
         /\ Quiet(r)
<1>1. ~MqttBusy(r) /\ ~RequestBusy(r) /\ ~EngineBusy(r) /\ Quiet(r)
  BY DEF Settled, Quiet
<1> QED BY <1>1, NobodyElse DEF EngineBusy, Busy, Engages

\* Once all has settled, the record has whether the lights are on.
LEMMA SettledSeen ==
  ASSUME QueuesOK, NEW r \in Rooms, Followed(r), Settled(r)
  PROVE  rooms[r].lightsOn = bulb[r].on
<1> DEFINE fact == rooms[r].lightsOn = bulb[r].on
           on == bulb[r].on
<1>1. Chain(todo, rx, LitSteps(r), TrueSteps(r, on), LitCommands(r), TrueCommands(r, on), fact)
  BY NobodySettled DEF Followed, Foreseen
<1>2. (\A t \in Tasks : NoneIn(todo[t], LitSteps(r))) /\ NoneIn(rx, LitCommands(r))
  BY NobodySettled, NotWorking, NotQueued
<1>3. fact
  <2> HIDE DEF fact, on
  <2> QED BY <1>1, <1>2, ChainEnds
<1> QED BY <1>3

\* The engine that looks at a room nobody else works on sees right, or sees lit
\* what will be recorded as lit.
LEMMA EngineSees ==
  ASSUME TypeOK, CoursesOK, NEW r \in Rooms, Followed(r), Quiet(r), ~MqttBusy(r), ~RequestBusy(r),
         todo["circadian"] = <<>>, rooms[r].lightsOn
  PROVE  bulb[r].on
<1> DEFINE fact == rooms[r].lightsOn = bulb[r].on
           on == bulb[r].on
           C == LitCommands(r)
           D == TrueCommands(r, on)
<1>0. QueuesOK /\ WorldOK
  BY TypeParts DEF TypeOK
<1>1. Chain(todo, rx, LitSteps(r), TrueSteps(r, on), C, D, fact)
  BY DEF Followed, Foreseen
<1>2. \A u \in Tasks : ~Working(u, r)
  <2>1. ~Working("circadian", r)
    <3>1. \A i \in 1..Len(<<>>) : FALSE
      OBVIOUS
    <3> QED BY <3>1 DEF Working
  <2> QED BY <2>1, NobodyElse
<1>3. Tells(rx, C, D, fact)
  BY <1>1, <1>2, NotWorking DEF Chain
<1>4. CASE NoneIn(rx, C)
  BY <1>3, <1>4 DEF Tells
<1>5. CASE ~NoneIn(rx, C)
  <2>1. PICK i \in 1..Len(rx) : rx[i] \in C /\ rx[i] \in D
    <3> HIDE DEF C, D, fact
    <3> QED BY <1>0, <1>3, <1>5, TellsWitness DEF Tells, QueuesOK
  <2>2. PICK c : c = rx[i]
    OBVIOUS
  <2>3. c \in CommandsOf(r) /\ Lights(c.update) /\ SaysOn(c.update) = on
    BY <2>1, <2>2 DEF LitCommands, TrueCommands
  <2>4. c.from \in Tasks /\ c.room = r /\ "room" \in DOMAIN c
    BY <2>3 DEF CommandsOf
  <2>5. Queued(c.from, r)
    BY <2>1, <2>2, <2>4 DEF Queued
  <2>6. c.from = "circadian"
    BY <2>4, <2>5, NobodyElse
  <2>7. c.update \in SaidBy("circadian", Unrecalled)
    BY <2>1, <2>2, <2>4, <2>6 DEF CoursesOK
  <2>8. c.update.update = "LightsOn"
    BY <2>3, <2>7 DEF SaidBy, Kinds, EngineKinds, Lights
  <2>9. bulb[r].on \in BOOLEAN
    BY <1>0 DEF WorldOK, Bulb
  <2> QED BY <2>3, <2>8, <2>9 DEF SaysOn
<1> QED BY <1>4, <1>5

\* What a request puts down about its room.
RequestedFor(q, r, steps) ==
  /\ todo[q] = <<>> /\ todo' = [todo EXCEPT ![q] = steps]
  /\ CourseIn(steps, q, r, Unrecalled')
  /\ LastIn(steps, LitSteps(r), TrueSteps(r, rooms[r].lightsOn))

LEMMA RequestMade ==
  ASSUME TypeOK, NEW q \in Requests, NEW r \in Rooms, NEW op, NEW steps, Request(q, r, op, steps)
  PROVE  /\ op \in Ops
         /\ op # "recall" => (Unrecalled' <=> Unrecalled) /\ (Untouched' <=> Untouched)
         /\ op = "recall" => ~Unrecalled' /\ ~Untouched'
         /\ CourseIn(steps, q, r, Unrecalled')
              /\ LastIn(steps, LitSteps(r), TrueSteps(r, rooms[r].lightsOn)) => RequestedFor(q, r, steps)
<1>1. SpendRequest(op)
  BY DEF Request
<1> QED BY <1>1, SpendRequestSays DEF Request, RequestedFor

LEMMA RequestSays ==
  ASSUME TypeOK, "resume_dark" \notin Ops, NEW q \in Requests, NEW r \in Rooms, Api(q, r)
  PROVE  /\ \E steps : RequestedFor(q, r, steps)
         /\ Unrecalled' => Unrecalled
         /\ Untouched' => Untouched
<1>0. RecordOK /\ q \in Tasks \ {"circadian"} /\ Unrecalled' \in BOOLEAN
  BY TypeParts, ControlAssumption DEF TypeOK, ControlAssumption, Unrecalled
<1>1. now + Ttl \in MaybeInstant /\ None \in MaybeInstant
  BY <1>0, ControlAssumption DEF RecordOK, MaybeInstant, ControlAssumption
<1>2. Deadlines \subseteq MaybeInstant
  BY <1>1 DEF Deadlines
<1>3. ASSUME NEW until \in MaybeInstant, NEW op, op # "recall",
             NEW steps \in {OnRequest(r), SetRequest(r, until), OffRequest(r), PauseRequest(r),
                            SnoozeRequest(r, until), SceneRequest(r, until)},
             Request(q, r, op, steps)
      PROVE  /\ \E s : RequestedFor(q, r, s)
             /\ Unrecalled' => Unrecalled
             /\ Untouched' => Untouched
  <2>1. CourseIn(steps, q, r, Unrecalled') /\ NoneIn(steps, LitSteps(r))
    BY <1>0, RequestCourses
  <2>2. LastIn(steps, LitSteps(r), TrueSteps(r, rooms[r].lightsOn))
    BY <2>1, NoneTells DEF CourseIn
  <2> QED BY <1>3, <2>1, <2>2, RequestMade
<1>4. ASSUME NEW until \in MaybeInstant, Request(q, r, "recall", RecallRequest(r, until))
      PROVE  /\ \E s : RequestedFor(q, r, s)
             /\ Unrecalled' => Unrecalled
             /\ Untouched' => Untouched
  <2> DEFINE steps == RecallRequest(r, until)
             plain == Unrecalled'
  <2>1. ~plain /\ ~Untouched'
    BY <1>4, RequestMade
  <2>2. CourseIn(steps, q, r, plain) /\ LastIn(steps, LitSteps(r), TrueSteps(r, rooms[r].lightsOn))
    <3> HIDE DEF plain
    <3> QED BY <1>0, <2>1, RecallCourse
  <2> QED BY <1>4, <2>1, <2>2, RequestMade
<1>5. ASSUME Request(q, r, Resume(r), ResumeRequest(r))
      PROVE  /\ \E s : RequestedFor(q, r, s)
             /\ Unrecalled' => Unrecalled
             /\ Untouched' => Untouched
  <2>1. Resume(r) \in Ops
    BY <1>5, RequestMade
  <2>2. rooms[r].lightsOn = TRUE /\ Resume(r) # "recall"
    <3>1. rooms[r].lightsOn \in BOOLEAN
      BY <1>0 DEF RecordOK, Room
    <3> QED BY <2>1, <3>1 DEF Resume
  <2>3. /\ CourseIn(ResumeRequest(r), q, r, Unrecalled')
        /\ LastIn(ResumeRequest(r), LitSteps(r), TrueSteps(r, TRUE))
    BY <1>0, ResumeCourse
  <2> QED BY <1>5, <2>2, <2>3, RequestMade
<1>6. CASE Request(q, r, "on", OnRequest(r))
  BY <1>1, <1>3, <1>6
<1>7. CASE \E until \in Deadlines : \/ Request(q, r, "set", SetRequest(r, until))
                                   \/ Request(q, r, "scene", SceneRequest(r, until))
                                   \/ Request(q, r, "recall", RecallRequest(r, until))
  <2>1. PICK until \in MaybeInstant : \/ Request(q, r, "set", SetRequest(r, until))
                                     \/ Request(q, r, "scene", SceneRequest(r, until))
                                     \/ Request(q, r, "recall", RecallRequest(r, until))
    BY <1>2, <1>7
  <2> QED BY <1>3, <1>4, <2>1
<1>8. CASE Request(q, r, "off", OffRequest(r))
  BY <1>1, <1>3, <1>8
<1>9. CASE Request(q, r, "pause", PauseRequest(r))
  BY <1>1, <1>3, <1>9
<1>10. CASE Request(q, r, "snooze", SnoozeRequest(r, now + Ttl))
  BY <1>1, <1>3, <1>10
<1> QED BY <1>5, <1>6, <1>7, <1>8, <1>9, <1>10, Zenon DEF Api

LEMMA ApiKeeps ==
  ASSUME TypeOK, RecordInv, "resume_dark" \notin Ops, NEW q \in Requests, NEW o \in Rooms, Api(q, o)
  PROVE  RecordInv'
<1>0. QueuesOK /\ CoursesOK /\ q \in Tasks /\ q # "circadian"
  BY TypeParts, ControlAssumption DEF TypeOK, RecordInv, ControlAssumption
<1>1. UNCHANGED <<rooms, rx, outq, bulb, reports, cycle>> /\ Overlap(IF Settled(o) THEN {} ELSE {o})
  BY DEF Api, Request, shared, world
<1>2. (Unrecalled' => Unrecalled) /\ (Untouched' => Untouched)
  BY RequestSays
<1>3. PICK steps : RequestedFor(q, o, steps)
  BY RequestSays
<1>4. /\ CoursesOK'
      /\ \A u \in Tasks, r \in Rooms : Working(u, r)' => Working(u, r) \/ (u = q /\ r = o)
      /\ \A r \in Rooms : KeepsIntended(r) /\ (r # o => KeepsLit(r))
      /\ \A on : LastIn(steps, LitSteps(o), TrueSteps(o, on)) => KeepsLitAs(o, on)
  <2> DEFINE os == {o}
  <2>1. About(steps, q, os, Unrecalled')
    BY <1>3, CourseAbout DEF RequestedFor
  <2>2. todo[q] = <<>> /\ todo' = [todo EXCEPT ![q] = steps]
    BY <1>3 DEF RequestedFor
  <2> HIDE DEF os
  <2>3. /\ CoursesOK'
        /\ \A u \in Tasks, r \in Rooms : Working(u, r)' => Working(u, r) \/ (u = q /\ r \in os)
        /\ \A r \in Rooms : KeepsIntended(r) /\ (r \notin os => KeepsLit(r))
        /\ \A r \in Rooms : \A on : LastIn(steps, LitSteps(r), TrueSteps(r, on)) => KeepsLitAs(r, on)
    BY <1>0, <1>1, <1>2, <2>1, <2>2, PutDown
  <2> QED BY <2>3 DEF os
<1>5. ASSUME NEW r \in Rooms, ~raced'[r]
      PROVE  Followed(r)'
  <2>1. Followed(r)
    BY <1>1, <1>5, Unraced DEF RecordInv
  <2>2. ReportsTrue(r)' /\ (Quiet(r)' => Quiet(r))
    BY <1>1, <2>1 DEF Followed, ReportsTrue, Quiet, Reported, Outstanding
  <2>3. \A u \in Tasks : Engages(u, r)' => Engages(u, r) \/ (u = q /\ r = o)
    BY <1>1, <1>4 DEF Engages
  <2>4. CASE r # o
    <3>1. Alone(r)' /\ (Engages("circadian", r)' => Engages("circadian", r))
      BY <2>1, <2>3, <2>4, EngineAssumption DEF Followed, Alone, EngineAssumption
    <3> QED BY <1>1, <1>2, <1>4, <2>1, <2>2, <2>4, <3>1, FollowedOn
  <2>5. CASE r = o
    <3>1. Settled(r)
      BY <1>1, <1>5, <2>5, Unraced
    <3>2. \A u \in Tasks : ~Engages(u, r)
      BY <3>1, NobodySettled
    <3>3. Alone(r)' /\ ~Engages("circadian", r)'
      BY <1>0, <2>3, <3>2, EngineAssumption DEF Alone, EngineAssumption
    <3>4. Foreseen(r)'
      <4>1. rooms[r].lightsOn = bulb[r].on /\ Foreseen(r)
        BY <1>0, <2>1, <3>1, SettledSeen, NobodySettled DEF Followed
      <4>2. LastIn(steps, LitSteps(r), TrueSteps(r, bulb[r].on))
        BY <1>3, <2>5, <4>1 DEF RequestedFor
      <4> QED BY <1>1, <1>4, <2>5, <4>1, <4>2, ForeseenOn
    <3> QED BY <1>1, <1>2, <1>4, <2>1, <2>2, <3>3, <3>4, FollowedAfter
  <2> QED BY <2>4, <2>5
<1> QED BY <1>4, <1>5 DEF RecordInv

\* The engine turns to the next room of its cycle.
LEMMA CycleKeeps ==
  ASSUME TypeOK, RecordInv, NEW o \in Rooms, CyclesRoom(o)
  PROVE  RecordInv'
<1> DEFINE t == "circadian"
           steps == RoomSteps(o, cycle.view[o])
           os == {o}
<1>0. QueuesOK /\ CoursesOK /\ t \in Tasks
  BY TypeParts, EngineAssumption DEF TypeOK, RecordInv, EngineAssumption
<1>1. /\ UNCHANGED <<rooms, rx, outq, bulb, reports, raced, spent>>
      /\ todo[t] = <<>> /\ todo' = [todo EXCEPT ![t] = steps]
  BY DEF CyclesRoom, CycleRoom, shared, world
<1>2. o \in cycle.left /\ cycle'.left \subseteq cycle.left
  BY DEF CyclesRoom, CycleRoom, TypeOK, EngineTypeOK
<1>3. (Unrecalled' <=> Unrecalled) /\ (Untouched' <=> Untouched)
  BY <1>1 DEF Unrecalled, Untouched
<1>4. About(steps, t, os, Unrecalled') /\ LastIn(steps, LitSteps(o), TrueSteps(o, TRUE))
  BY EngineCourses, CourseAbout
<1> HIDE DEF t, steps, os
<1>5. /\ CoursesOK'
      /\ \A u \in Tasks, r \in Rooms : Working(u, r)' => Working(u, r) \/ (u = t /\ r \in os)
      /\ \A r \in Rooms : KeepsIntended(r) /\ (r \notin os => KeepsLit(r))
      /\ \A r \in Rooms : \A on : LastIn(steps, LitSteps(r), TrueSteps(r, on)) => KeepsLitAs(r, on)
  BY <1>0, <1>1, <1>3, <1>4, PutDown
<1>6. ASSUME NEW r \in Rooms, ~raced'[r]
      PROVE  Followed(r)'
  <2>1. Followed(r)
    BY <1>1, <1>6 DEF RecordInv
  <2>2. ReportsTrue(r)' /\ (Quiet(r)' => Quiet(r))
    BY <1>1, <2>1 DEF Followed, ReportsTrue, Quiet, Reported, Outstanding
  <2>3. \A u \in Tasks : Engages(u, r)' => Engages(u, r)
    BY <1>2, <1>5 DEF Engages, t, os
  <2>4. Alone(r)' /\ (Engages("circadian", r)' => Engages("circadian", r))
    BY <1>0, <2>1, <2>3 DEF Followed, Alone, t
  <2>5. CASE r # o
    BY <1>1, <1>3, <1>5, <2>1, <2>2, <2>4, <2>5, FollowedOn DEF os
  <2>6. CASE r = o
    <3>1. ASSUME Quiet(r)'
          PROVE  Foreseen(r)' /\ (Engages("circadian", r)' => bulb'[r].on)
      <4>1. Foreseen(r) /\ bulb[r].on
        BY <1>2, <2>1, <2>2, <2>6, <3>1 DEF Followed, Engages
      <4>2. LastIn(steps, LitSteps(r), TrueSteps(r, bulb[r].on))
        <5>1. bulb[r].on = TRUE
          BY <4>1, TypeParts DEF TypeOK, WorldOK, Bulb
        <5> QED BY <1>4, <2>6, <5>1
      <4>3. Foreseen(r)'
        BY <1>1, <1>5, <4>1, <4>2, ForeseenOn
      <4> QED BY <1>1, <4>1, <4>3
    <3> QED BY <1>1, <1>3, <1>5, <2>1, <2>2, <2>4, <3>1, FollowedAfter
  <2> QED BY <2>5, <2>6
<1> QED BY <1>5, <1>6 DEF RecordInv

\* The engine begins a cycle.
LEMMA BeginKeeps ==
  ASSUME TypeOK, RecordInv, BeginsCycle
  PROVE  RecordInv'
<1>1. /\ UNCHANGED <<rooms, rx, todo, outq, bulb, reports, spent>>
      /\ EngineIdle /\ BeginCycle /\ CycleOverlap
  BY DEF BeginsCycle, CycleTick, HandleMqttConnected, EngineTakes, daemon, shared, world
<1>2. (Unrecalled' <=> Unrecalled) /\ (Untouched' <=> Untouched)
  BY <1>1 DEF Unrecalled, Untouched
<1>3. CoursesOK'
  BY <1>1, <1>2, CoursesStay DEF RecordInv
<1>4. cycle.left = {} /\ todo["circadian"] = <<>>
      /\ \A r \in cycle'.left : r \in Lit /\ connected
  BY <1>1 DEF EngineIdle, BeginCycle
<1>5. ASSUME NEW r \in Rooms, ~raced'[r]
      PROVE  Followed(r)'
  <2>1. Followed(r)
    BY <1>1, <1>5, Unraced DEF RecordInv, CycleOverlap
  <2>2. ReportsTrue(r)' /\ (Quiet(r)' => Quiet(r)) /\ KeepsIntended(r) /\ KeepsLit(r)
    BY <1>1, <2>1 DEF Followed, ReportsTrue, Quiet, Reported, Outstanding, KeepsIntended, KeepsLit
  <2>3. \A u \in Tasks : Working(u, r)' <=> Working(u, r)
    BY <1>1 DEF Working
  <2>4. CASE r \notin cycle'.left
    <3>1. \A u \in Tasks : Engages(u, r)' <=> Engages(u, r)
      BY <1>4, <2>3, <2>4 DEF Engages
    <3>2. Alone(r)' /\ (Engages("circadian", r)' => Engages("circadian", r))
      BY <2>1, <3>1, EngineAssumption DEF Followed, Alone, EngineAssumption
    <3> QED BY <1>1, <1>2, <2>1, <2>2, <3>2, FollowedOn
  <2>5. CASE r \in cycle'.left
    <3>1. rooms[r].lightsOn /\ ~MqttBusy(r) /\ ~RequestBusy(r)
      BY <1>1, <1>4, <1>5, <2>5, Unraced DEF CycleOverlap, Lit
    <3>2. \A u \in Tasks : Engages(u, r)' => u = "circadian"
      BY <2>3, <3>1, NobodyElse DEF Engages
    <3>3. Alone(r)'
      BY <3>2 DEF Alone
    <3>4. ASSUME Quiet(r)'
          PROVE  Foreseen(r)' /\ bulb'[r].on
      <4>1. bulb[r].on
        BY <1>4, <2>1, <2>2, <3>1, <3>4, EngineSees DEF RecordInv
      <4>2. Foreseen(r)'
        BY <1>1, <2>1, <2>2, <3>4 DEF Followed, Foreseen
      <4> QED BY <1>1, <4>1, <4>2
    <3> QED BY <1>1, <1>2, <2>1, <2>2, <3>3, <3>4, FollowedAfter
  <2> QED BY <2>4, <2>5
<1> QED BY <1>3, <1>5 DEF RecordInv

\* The engine is told of a device that is back.
LEMMA OnlineKeeps ==
  ASSUME TypeOK, RecordInv, DeviceOnline
  PROVE  RecordInv'
<1> DEFINE t == "circadian"
<1>0. QueuesOK /\ CoursesOK /\ RecordOK /\ t \in Tasks
  BY TypeParts, EngineAssumption DEF TypeOK, RecordInv, EngineAssumption
<1>o. PICK o : o = Head(inbox["circadian"]).room
  OBVIOUS
<1>1. o \in Rooms
  <2>1. Head(inbox["circadian"]) \in Events /\ Head(inbox["circadian"]).event = "DeviceOnline"
    BY EngineTakesType DEF DeviceOnline, HandleDeviceOnline, EngineTakes
  <2> QED BY <1>o, <2>1 DEF Events
<1> DEFINE steps == << Publish(o, "keep", "circadian", None, << Send(o, JehaPush("circadian")) >>, <<>>) >>
           os == {o}
<1>2. /\ UNCHANGED <<rooms, rx, outq, bulb, reports, cycle, spent>>
      /\ todo[t] = <<>> /\ cycle.left = {}
      /\ Overlap(IF todo' # todo /\ (MqttBusy(o) \/ RequestBusy(o)) THEN {o} ELSE {})
      /\ todo' = todo \/ (rooms[o].lightsOn /\ todo' = [todo EXCEPT ![t] = steps])
  BY <1>o DEF DeviceOnline, HandleDeviceOnline, EngineTakes, EngineIdle, shared, world
<1>3. (Unrecalled' <=> Unrecalled) /\ (Untouched' <=> Untouched)
  BY <1>2 DEF Unrecalled, Untouched
<1>4. About(steps, t, os, Unrecalled') /\ NoneIn(steps, LitSteps(o))
  <2>1. CourseIn(steps, t, o, Unrecalled') /\ NoneIn(steps, LitSteps(o))
    BY <1>1, EngineCourses
  <2> QED BY <1>1, <2>1, CourseAbout
<1>5. steps # <<>>
  OBVIOUS
<1> HIDE DEF t, steps, os
<1>6. ASSUME NEW r \in Rooms, ~raced'[r]
      PROVE  Followed(r) /\ ReportsTrue(r)' /\ (Quiet(r)' <=> Quiet(r))
  <2>1. Followed(r)
    BY <1>2, <1>6, Unraced DEF RecordInv
  <2> QED BY <1>2, <2>1 DEF Followed, ReportsTrue, Quiet, Reported, Outstanding
<1>7. CASE todo' = todo
  <2>1. CoursesOK'
    BY <1>0, <1>2, <1>3, <1>7, CoursesStay
  <2>2. ASSUME NEW r \in Rooms, ~raced'[r]
        PROVE  Followed(r)'
    BY <1>2, <1>3, <1>6, <1>7, <2>2, OutsideLeaves
  <2> QED BY <2>1, <2>2 DEF RecordInv
<1>8. CASE todo' # todo
  <2>0. rooms[o].lightsOn /\ todo' = [todo EXCEPT ![t] = steps]
    BY <1>2, <1>8
  <2>1. /\ CoursesOK'
        /\ \A u \in Tasks, r \in Rooms : Working(u, r)' => Working(u, r) \/ (u = t /\ r \in os)
        /\ \A r \in Rooms : KeepsIntended(r) /\ (r \notin os => KeepsLit(r))
        /\ \A r \in Rooms : \A on : LastIn(steps, LitSteps(r), TrueSteps(r, on)) => KeepsLitAs(r, on)
    BY <1>0, <1>2, <1>3, <1>4, <2>0, PutDown
  <2>2. ASSUME NEW r \in Rooms, ~raced'[r]
        PROVE  Followed(r)'
    <3>1. \A u \in Tasks : Engages(u, r)' => Engages(u, r) \/ (u = t /\ r = o)
      BY <1>2, <2>1 DEF Engages, os
    <3>2. CASE r # o
      <4>1. Alone(r)' /\ (Engages("circadian", r)' => Engages("circadian", r))
        BY <1>0, <1>6, <2>2, <3>1, <3>2 DEF Followed, Alone, t
      <4> QED BY <1>2, <1>3, <1>6, <2>1, <2>2, <3>2, <4>1, FollowedOn DEF os
    <3>3. CASE r = o
      <4>1. ~MqttBusy(r) /\ ~RequestBusy(r)
        BY <1>2, <1>8, <2>2, <3>3, Unraced
      <4>2. \A u \in Tasks : Engages(u, r)' => u = t
        BY <3>1, <4>1, NobodyElse DEF Engages, t
      <4>3. Alone(r)'
        BY <4>2 DEF Alone
      <4>4. ASSUME Quiet(r)'
            PROVE  Foreseen(r)' /\ bulb'[r].on
        <5>1. Followed(r) /\ Quiet(r)
          BY <1>6, <2>2, <4>4
        <5>2. bulb[r].on
          BY <1>2, <2>0, <3>3, <4>1, <5>1, EngineSees DEF RecordInv, t
        <5>3. LastIn(steps, LitSteps(r), TrueSteps(r, bulb[r].on))
          BY <1>4, <3>3, NoneTells DEF About
        <5>4. Foreseen(r)'
          BY <1>2, <2>1, <5>1, <5>3, ForeseenOn DEF Followed
        <5> QED BY <1>2, <5>2, <5>4
      <4> QED BY <1>2, <1>3, <1>6, <2>1, <2>2, <4>3, <4>4, FollowedAfter
    <3> QED BY <3>2, <3>3
  <2> QED BY <2>1, <2>2 DEF RecordInv
<1> QED BY <1>7, <1>8

-----------------------------------------------------------------------------
(* The MQTT loop keeps the invariant.                                       *)

\* The loop takes up a report.
LEMMA ReportKeeps ==
  ASSUME TypeOK, RecordInv, ReadReport
  PROVE  RecordInv'
<1> DEFINE t == "mqtt"
<1>0. /\ QueuesOK /\ CoursesOK /\ RecordOK /\ WorldOK
      /\ t \in Tasks /\ t # "circadian" /\ "circadian" \in Tasks
  BY TypeParts, MqttIsTask, EngineAssumption DEF TypeOK, RecordInv, EngineAssumption
<1>m. PICK m : m = Head(reports)
  OBVIOUS
<1>1. PICK external : todo' = [todo EXCEPT ![t] = ReportSteps(m, rooms[m.room], external)]
  BY <1>m DEF ReadReport, HandleReport, LoopDoes
<1> DEFINE o == m.room
           steps == ReportSteps(m, rooms[m.room], external)
           os == {o}
<1>2. /\ UNCHANGED <<rooms, rx, outq, bulb, cycle, spent>>
      /\ todo[t] = <<>> /\ reports # <<>> /\ reports' = Tail(reports) /\ reports \in Seq(Report)
      /\ todo' = [todo EXCEPT ![t] = steps]
      /\ Overlap(IF EngineBusy(o) \/ RequestBusy(o) THEN {o} ELSE {})
  BY <1>0, <1>m, <1>1 DEF ReadReport, HandleReport, LoopIdle, shared, WorldOK
<1>3. /\ Len(reports) \in Nat /\ Len(reports) = Len(reports') + 1 /\ Len(reports') \in Nat
      /\ reports[1] = m /\ m \in Report /\ \A i \in 1..Len(reports') : reports'[i] = reports[i + 1]
  BY <1>m, <1>2, HeadTailProperties, LenProperties
<1>4. o \in Rooms /\ m.on \in BOOLEAN /\ rooms[m.room] \in Room
  BY <1>0, <1>3 DEF Report, RecordOK
<1>5. (Unrecalled' <=> Unrecalled) /\ (Untouched' <=> Untouched)
  BY <1>2 DEF Unrecalled, Untouched
<1>6. /\ About(steps, t, os, Unrecalled')
      /\ LastIn(steps, LitSteps(o), TrueSteps(o, m.on)) /\ ~NoneIn(steps, LitSteps(o))
  <2>1. /\ CourseIn(steps, t, o, Unrecalled')
        /\ LastIn(steps, LitSteps(o), TrueSteps(o, m.on)) /\ ~NoneIn(steps, LitSteps(o))
    BY <1>3, <1>4, ReportCourse
  <2> QED BY <1>4, <2>1, CourseAbout
<1> HIDE DEF t, steps, os
<1>7. /\ CoursesOK'
      /\ \A u \in Tasks, r \in Rooms : Working(u, r)' => Working(u, r) \/ (u = t /\ r \in os)
      /\ \A r \in Rooms : KeepsIntended(r) /\ (r \notin os => KeepsLit(r))
      /\ \A r \in Rooms : \A on : LastIn(steps, LitSteps(r), TrueSteps(r, on)) => KeepsLitAs(r, on)
  BY <1>0, <1>2, <1>5, <1>6, PutDown
<1>8. ASSUME NEW r \in Rooms, ~raced'[r]
      PROVE  Followed(r)'
  <2>1. Followed(r)
    BY <1>2, <1>8, Unraced DEF RecordInv
  <2>2. ReportsTrue(r)'
    <3> DEFINE S == ReportsOf(r, BOOLEAN)
               T == ReportsOf(r, {bulb[r].on})
    <3>1. Tells(reports, S, T, TRUE)
      BY <2>1 DEF Followed, ReportsTrue, Tells
    <3>2. Tells(reports', S, T, TRUE)
      <4> HIDE DEF S, T
      <4> QED BY <1>2, <3>1, TellsTail
    <3> QED BY <1>2, <3>2 DEF ReportsTrue, Tells
  <2>3. \A u \in Tasks : Engages(u, r)' => Engages(u, r) \/ (u = t /\ r = o)
    BY <1>2, <1>7 DEF Engages, os
  <2>4. CASE r # o
    <3>1. Quiet(r)' => Quiet(r)
      <4>1. Reported(r) => Reported(r)'
        <5> SUFFICES ASSUME NEW i \in 1..Len(reports), reports[i].room = r
                     PROVE  Reported(r)'
          BY DEF Reported
        <5>1. i - 1 \in 1..Len(reports') /\ reports'[i - 1] = reports[i]
          BY <1>3, <2>4
        <5> QED BY <5>1 DEF Reported
      <4> QED BY <1>2, <4>1 DEF Quiet, Outstanding
    <3>2. Alone(r)' /\ (Engages("circadian", r)' => Engages("circadian", r))
      BY <1>0, <2>1, <2>3, <2>4 DEF Followed, Alone
    <3> QED BY <1>2, <1>5, <1>7, <2>1, <2>2, <2>4, <3>1, <3>2, FollowedOn DEF os
  <2>5. CASE r = o
    <3>1. ~EngineBusy(r) /\ ~RequestBusy(r)
      BY <1>2, <1>8, <2>5, Unraced
    <3>2. \A u \in Tasks \ {t} : ~Working(u, r) /\ ~Engages(u, r)
      BY <3>1, ControlAssumption DEF ControlAssumption, EngineBusy, RequestBusy, Busy, Engages, t
    <3>3. Alone(r)' /\ ~Engages("circadian", r)'
      BY <1>0, <2>3, <3>2 DEF Alone
    <3>4. ASSUME Quiet(r)'
          PROVE  Foreseen(r)'
      <4>1. m.on = bulb[r].on
        <5>1. m \in ReportsOf(r, BOOLEAN)
          BY <1>3, <1>4, <2>5 DEF ReportsOf
        <5>2. \A j \in (1 + 1)..Len(reports) : reports[j] \notin ReportsOf(r, BOOLEAN)
          <6> SUFFICES ASSUME NEW j \in (1 + 1)..Len(reports)
                       PROVE  reports[j].room # r
            BY DEF ReportsOf
          <6>1. j - 1 \in 1..Len(reports') /\ reports'[j - 1] = reports[j]
            BY <1>3
          <6>2. ~Reported(r)'
            BY <3>4 DEF Quiet
          <6> QED BY <6>1, <6>2 DEF Reported
        <5>3. 1 \in 1..Len(reports)
          BY <1>3
        <5>4. reports[1] \in ReportsOf(r, {bulb[r].on})
          BY <1>3, <2>1, <5>1, <5>2, <5>3 DEF Followed, ReportsTrue, LastIn
        <5> QED BY <1>3, <5>4 DEF ReportsOf
      <4> DEFINE on == bulb[r].on
                 fact == rooms[r].lightsOn = bulb[r].on
      <4>2. Chain(todo', rx, LitSteps(r), TrueSteps(r, on), LitCommands(r), TrueCommands(r, on), fact)
        <5>1. \A u \in Tasks \ {t} : NoneIn(todo[u], LitSteps(r))
          BY <3>2, NotWorking
        <5>2. LastIn(steps, LitSteps(r), TrueSteps(r, on)) /\ ~NoneIn(steps, LitSteps(r))
          BY <1>6, <2>5, <4>1
        <5> HIDE DEF on, fact
        <5> QED BY <1>0, <1>2, <5>1, <5>2, ChainFresh DEF QueuesOK
      <4> QED BY <1>2, <4>2 DEF Foreseen
    <3> QED BY <1>2, <1>5, <1>7, <2>1, <2>2, <3>3, <3>4, FollowedAfter
  <2> QED BY <2>4, <2>5
<1> QED BY <1>7, <1>8 DEF RecordInv

\* The loop notices that the connection is lost, or back.
LEMMA NoticeKeeps ==
  ASSUME TypeOK, RecordInv, PollError \/ ConnAck, UNCHANGED <<cycle, raced, spent>>
  PROVE  RecordInv'
<1> DEFINE t == "mqtt"
           plain == Unrecalled'
           C == [do : {"connected"}, up : BOOLEAN] \union [do : {"announce"}, event : Events]
<1>0. QueuesOK /\ CoursesOK /\ t \in Tasks /\ "circadian" \in Tasks
  BY TypeParts, MqttIsTask, EngineAssumption DEF TypeOK, RecordInv, EngineAssumption
<1>1. PICK steps \in Seq(C) : todo' = [todo EXCEPT ![t] = steps]
  <2>1. SendConnected(FALSE) \in C /\ SendConnected(TRUE) \in C /\ Announce(MqttConnected) \in C
    BY DEF SendConnected, Announce, MqttConnected, Events
  <2> HIDE DEF C
  <2>2. << SendConnected(FALSE) >> \in Seq(C) /\ << Announce(MqttConnected), SendConnected(TRUE) >> \in Seq(C)
    BY <2>1, ShortSeqs
  <2> QED BY <2>2 DEF PollError, ConnAck, LoopDoes
<1>2. UNCHANGED <<rooms, rx, outq, bulb, reports, cycle, raced, spent>> /\ todo[t] = <<>>
  BY DEF PollError, ConnAck, LoopIdle, shared
<1>3. (Unrecalled' <=> Unrecalled) /\ (Untouched' <=> Untouched)
  BY <1>2 DEF Unrecalled, Untouched
<1>4. About(steps, t, {}, Unrecalled')
  <2>1. C \subseteq Courses(t, Unrecalled') /\ C \subseteq Steps
    BY DEF Courses, Steps, SimpleSteps
  <2>2. \A i \in 1..Len(steps) : steps[i] \in C
    BY <1>1
  <2>3. \A i \in 1..Len(steps) : steps[i].do \in {"connected", "announce"} /\ steps[i] \in Steps
    BY <2>1, <2>2
  <2>4. \A r \in Rooms : NoneIn(steps, PushSends(r, Levels)) /\ NoneIn(steps, LitSteps(r))
    BY <2>3, OthersSay DEF NoneIn
  <2>5. steps \in Seq(Courses(t, Unrecalled'))
    BY <1>1, <2>1, SeqMonotonic
  <2> QED BY <2>3, <2>4, <2>5 DEF About, PublishEnds
<1> HIDE DEF t
<1>5. /\ CoursesOK'
      /\ \A u \in Tasks, r \in Rooms : Working(u, r)' => Working(u, r) \/ (u = t /\ r \in {})
      /\ \A r \in Rooms : KeepsIntended(r) /\ (r \notin {} => KeepsLit(r))
  <2> DEFINE os == {}
  <2>1. About(steps, t, os, Unrecalled')
    BY <1>4
  <2> HIDE DEF os
  <2>2. /\ CoursesOK'
        /\ \A u \in Tasks, r \in Rooms : Working(u, r)' => Working(u, r) \/ (u = t /\ r \in os)
        /\ \A r \in Rooms : KeepsIntended(r) /\ (r \notin os => KeepsLit(r))
    BY <1>0, <1>1, <1>2, <1>3, <2>1, PutDown
  <2> QED BY <2>2 DEF os
<1>6. ASSUME NEW r \in Rooms, ~raced'[r]
      PROVE  Followed(r)'
  <2>1. Followed(r)
    BY <1>2, <1>6 DEF RecordInv
  <2>2. ReportsTrue(r)' /\ (Quiet(r)' => Quiet(r))
    BY <1>2, <2>1 DEF Followed, ReportsTrue, Quiet, Reported, Outstanding
  <2>3. \A u \in Tasks : Engages(u, r)' => Engages(u, r)
    BY <1>2, <1>5 DEF Engages
  <2>4. Alone(r)' /\ (Engages("circadian", r)' => Engages("circadian", r))
    BY <1>0, <2>1, <2>3 DEF Followed, Alone
  <2>5. KeepsLit(r) /\ KeepsIntended(r) /\ rooms'[r] = rooms[r] /\ bulb'[r] = bulb[r] /\ outq' = outq
    BY <1>2, <1>5
  <2> QED BY <1>3, <2>1, <2>2, <2>4, <2>5, FollowedOn
<1> QED BY <1>5, <1>6 DEF RecordInv

-----------------------------------------------------------------------------
(* The invariant, and what it implies.                                      *)

LEMMA InitRecord == Init => RecordInv
<1> SUFFICES ASSUME Init
             PROVE  RecordInv
  OBVIOUS
<1>1. /\ todo = [t \in Tasks |-> <<>>] /\ rx = <<>> /\ outq = <<>> /\ reports = <<>>
      /\ rooms \in [Rooms -> {DarkRoom, LitRoom}] /\ cycle.left = {} /\ Untouched
      /\ bulb = [r \in Rooms |-> [on |-> rooms[r].lightsOn, level |-> Or(rooms[r].current, "circadian"),
                                  ramp |-> "none"]]
  BY DEF Init, DaemonInit, EngineInit, Untouched
<1>2. \A i \in 1..Len(<<>>) : FALSE
  OBVIOUS
<1>3. \A S, T : NoneIn(<<>>, S) /\ LastIn(<<>>, S, T)
  BY <1>2 DEF NoneIn, LastIn
<1>4. \A t \in Tasks : todo[t] = <<>>
  BY <1>1
<1>5. CoursesOK
  <2>1. \A C : <<>> \in Seq(C)
    BY ShortSeqs
  <2> QED BY <1>1, <1>2, <1>4, <2>1 DEF CoursesOK, PublishEnds
<1>6. ASSUME NEW r \in Rooms
      PROVE  Followed(r)
  <2>1. \A t \in Tasks : ~Engages(t, r)
    BY <1>1, <1>2, <1>4 DEF Engages, Working
  <2>2. "circadian" \in Levels /\ "circadian" # None
    BY DaemonAssumption, NoneIsNoLevel DEF DaemonAssumption
  <2>3. /\ bulb[r].on = rooms[r].lightsOn /\ bulb[r].level = "circadian"
        /\ rooms[r].intended \in {None, "circadian"}
    <3>1. /\ bulb[r].on = rooms[r].lightsOn
          /\ bulb[r].level = IF rooms[r].current = None THEN "circadian" ELSE rooms[r].current
      BY <1>1 DEF Or
    <3>2. CASE rooms[r] = DarkRoom
      BY <3>1, <3>2 DEF DarkRoom, DefaultRoom
    <3>3. CASE rooms[r] = LitRoom
      BY <3>1, <3>3 DEF LitRoom, DefaultRoom
    <3> QED BY <1>1, <3>1, <3>2, <3>3
  <2>4. ReportsTrue(r)
    BY <1>1, <1>3 DEF ReportsTrue
  <2>5. Foreseen(r)
    BY <1>1, <1>3, <1>4, <2>3 DEF Foreseen, Chain, Tells
  <2>6. IntendedAs(r, "circadian")
    BY <1>1, <1>3, <1>4, <2>3 DEF IntendedAs, Chain, Tells
  <2> QED BY <2>1, <2>2, <2>4, <2>5, <2>6, EngineAssumption DEF Followed, Alone, EngineAssumption
<1> QED BY <1>5, <1>6 DEF RecordInv

LEMMA RestKeeps ==
  ASSUME TypeOK, RecordInv, UNCHANGED vars
  PROVE  RecordInv'
<1>1. UNCHANGED <<todo, rx, cycle, rooms, outq, bulb, reports, raced, spent>>
  BY DEF vars, daemon, shared, world
<1>2. (Untouched' <=> Untouched) /\ (Unrecalled' <=> Unrecalled)
  BY <1>1 DEF Untouched, Unrecalled
<1>3. CoursesOK'
  BY <1>1, <1>2, CoursesStay DEF RecordInv
<1>4. ASSUME NEW r \in Rooms, ~raced'[r]
      PROVE  Followed(r)'
  <2>1. Followed(r)
    BY <1>1, <1>4 DEF RecordInv
  <2>2. ReportsTrue(r)' /\ (Quiet(r)' => Quiet(r))
    BY <1>1, <2>1 DEF Followed, ReportsTrue, Quiet, Reported, Outstanding
  <2> QED BY <1>1, <1>2, <2>1, <2>2, OutsideLeaves
<1> QED BY <1>3, <1>4 DEF RecordInv

LEMMA StepKeepsRecord ==
  ASSUME "resume_dark" \notin Ops, TypeOK, RecordInv, [Next]_vars
  PROVE  RecordInv'
<1>1. CASE Actor
  BY <1>1, ActorKeeps
<1>2. CASE \E t \in Tasks : Step(t)
  BY <1>2, TasksKeep
<1>3. CASE \E q \in Requests, r \in Rooms : Api(q, r)
  BY <1>3, ApiKeeps
<1>4. CASE BeginsCycle
  BY <1>4, BeginKeeps
<1>5. CASE \E r \in Rooms : CyclesRoom(r) \/ ExternalSet(r) \/ BulbReturns(r)
  BY <1>5, CycleKeeps, TouchKeeps, ReturnKeeps
<1>6. CASE DeviceOnline
  BY <1>6, OnlineKeeps
<1>7. CASE ReadReport
  BY <1>7, ReportKeeps
<1>8. CASE Connection
  BY <1>8, NoticeKeeps, BacklogKeeps DEF Connection
<1>9. CASE LinkLost
  BY <1>9, OutageKeeps
<1>10. CASE Tick
  BY <1>10, TickKeeps
<1>11. CASE UNCHANGED vars
  BY <1>11, RestKeeps
<1> QED BY <1>1, <1>2, <1>3, <1>4, <1>5, <1>6, <1>7, <1>8, <1>9, <1>10, <1>11 DEF Next

LEMMA RecordImplies == TypeOK /\ RecordInv => RecordSound
<1> SUFFICES ASSUME TypeOK, RecordInv
             PROVE  RecordSound
  OBVIOUS
<1>0. QueuesOK /\ WorldOK
  BY TypeParts DEF TypeOK
<1>1. BeliefMatchesLight
  BY <1>0, SettledSeen DEF BeliefMatchesLight, RecordInv
<1>2. ASSUME NEW r \in Rooms, Settled(r), ~raced[r], Untouched
      PROVE  rooms[r].intended \in {None, bulb[r].level}
  <2>1. PICK level \in Levels : IntendedAs(r, level)
    BY <1>2 DEF RecordInv, Followed
  <2> DEFINE fact == rooms[r].intended \in {None, level}
  <2>2. Chain(todo, rx, PushSends(r, Levels), PushSends(r, {level}), PushCommands(r, Levels),
              PushCommands(r, {level}), fact)
    BY <2>1 DEF IntendedAs
  <2>3. (\A t \in Tasks : NoneIn(todo[t], PushSends(r, Levels))) /\ NoneIn(rx, PushCommands(r, Levels))
    BY <1>0, <1>2, NobodySettled, NotWorking, NotQueued
  <2>4. fact
    <3> HIDE DEF fact
    <3> QED BY <2>2, <2>3, ChainEnds
  <2>5. NoneIn(outq, MessagesOf(r, Levels))
    BY <1>2, NobodySettled DEF Quiet, Outstanding, NoneIn, MessagesOf
  <2>6. bulb[r].level = level
    BY <2>1, <2>5 DEF IntendedAs, Tells
  <2> QED BY <2>4, <2>6
<1>3. IntendedMatchesLight
  BY <1>2 DEF IntendedMatchesLight, Untouched
<1> QED BY <1>1, <1>3 DEF RecordSound

\* What the shared state says of a room's lights is true of them, and so is the
\* level it keeps as intended (handle_device_state, StateManager::run and all
\* handlers together), once everything about the room has settled, unless two
\* tasks overlapped on it, provided that nobody resumes a dark room.
THEOREM RecordIsSound ==
  ASSUME "resume_dark" \notin Ops
  PROVE  Spec => []RecordSound
<1>1. Init => RecordInv
  BY InitRecord
<1>2. TypeOK /\ RecordInv /\ [Next]_vars => RecordInv'
  BY StepKeepsRecord
<1> QED BY <1>1, <1>2, RecordImplies, TypeCorrect, PTL DEF Spec

LEMMA PushesLit ==
  ASSUME TypeOK, RecordInv
  PROVE  \A r \in Rooms : Pushes(r) /\ ~raced[r] /\ ~Reported(r) /\ ~Outstanding(r) => bulb[r].on
<1> SUFFICES ASSUME NEW r \in Rooms, Pushes(r), ~raced[r], ~Reported(r), ~Outstanding(r)
             PROVE  bulb[r].on
  OBVIOUS
<1>1. QueuesOK /\ CoursesOK /\ "circadian" \in Tasks
  BY TypeParts, EngineAssumption DEF TypeOK, RecordInv, EngineAssumption
<1>2. Working("circadian", r)
  <2>1. /\ todo["circadian"] # <<>> /\ Head(todo["circadian"]).do = "publish"
        /\ Head(todo["circadian"]).room = r
    BY DEF Pushes, HeadIs
  <2> QED BY <1>1, <2>1, HeadCourse DEF Working
<1> QED BY <1>2 DEF RecordInv, Followed, Quiet, Engages

\* The circadian engine hands no push to the MQTT client for lights that are off
\* (update_all_rooms and push_for_device, between the state they read and the
\* publish), once the room's reports are in, unless two tasks overlapped on the
\* room, provided that nobody resumes a dark room.
THEOREM PushesReachLitLights ==
  ASSUME "resume_dark" \notin Ops
  PROVE  Spec => PushesOnlyLitLights
<1>1. Init => RecordInv
  BY InitRecord
<1>2. TypeOK /\ RecordInv /\ [Next]_vars => RecordInv'
  BY StepKeepsRecord
<1>3. TypeOK /\ RecordInv /\ [Next]_vars =>
        [\A r \in Rooms : Pushes(r) /\ ~raced[r] /\ ~Reported(r) /\ ~Outstanding(r) => bulb[r].on]_vars
  BY PushesLit
<1> QED BY <1>1, <1>2, <1>3, TypeCorrect, PTL DEF Spec, PushesOnlyLitLights

-----------------------------------------------------------------------------
(* What a room keeps of what was asked of it: vocabulary.                   *)

\* What lasts until then is over; i is the time.
Over(until, i) == until # None /\ i >= until

\* What the record of a room has to show of a wish, whoever looks at it; late
\* when an echo can pass for somebody's doing.
Kept(w, room, i, late) ==
  w # None =>
    /\ w.op = "on" /\ room.source = "Manual" => late
    /\ w.op = "set" => Over(w.until, i) \/ (room.source = "Manual" /\ room.overrideUntil = w.until)
    /\ w.op = "off" => ~room.lightsOn /\ ~room.paused
    /\ w.op = "pause" => room.paused /\ room.pausedUntil = None
    /\ w.op = "snooze" => Over(w.until, i) \/ (room.paused /\ room.pausedUntil = w.until)
    /\ w.op = "resume" => ~room.paused /\ room.source # "Manual"
    /\ w.op = "scene" => room.source = "Manual" /\ room.paused /\ room.pausedUntil = None

\* An update that takes nothing away, whatever it finds.
Harmless(w, u, i, late) ==
  \A room \in Room, j \in Nat : Kept(w, room, i, late) => Kept(w, ApplyUpdate(room, u, j), i, late)

PublishFor(r, s) == s.do = "publish" /\ s.room = r

\* What goes out for a wish.
Asks(power, level, w) ==
  \/ w.op = "on" /\ power = "ON" /\ level = None
  \/ w.op \in {"set", "scene"} /\ power = "ON" /\ level = "user"
  \/ w.op = "off" /\ power = "OFF"

\* A request's publish: if it fails, what the room was asked before is kept; if
\* it succeeds, what this request asks will be.
Offers(p, r, record, w, i, late) ==
  /\ p.goal \in Goal /\ Asks(p.power, p.level, p.goal)
  /\ \E e \in Room : Leads(p.err, SendsOf(r), record, e) /\ Kept(w, e, i, late)
  /\ \E o \in Room : Leads(p.ok, SendsOf(r), record, o) /\ Kept(p.goal, o, i, late)
  /\ \A k \in 1..Len(p.err) : p.err[k].update.update # "JehaPush"
  /\ \A k \in 1..Len(p.ok) : p.ok[k].update.update # "RestoreLights"
  /\ p.goal.op = "on" => \E k \in 1..Len(p.ok) : p.ok[k] = Send(r, JehaPush(None))

\* What a request in progress will make of a record, by what it has said (queue)
\* and what it has still to do (plan).
Promise(r, record, queue, plan, quiet, w, i, late) ==
  \E f, g \in Room :
    /\ Leads(queue, CommandsOf(r), record, f)
    /\ Leads(plan, SendsOf(r), f, g)
    /\ (\A k \in 1..Len(plan) : ~PublishFor(r, plan[k])) => Kept(w, g, i, late)
    /\ \A k \in 1..Len(plan) : PublishFor(r, plan[k]) => quiet /\ Offers(plan[k], r, g, w, i, late)
Promised(q, r) ==
  Promise(r, rooms[r], rx, todo[q], Quiet(r), wish[r], now, EchoOfOthers)

-----------------------------------------------------------------------------
(* The invariant.                                                           *)

\* One task at a time attends to a room, until the actor has done what it said.
Attends(t, r) == Busy(t, r) \/ (t = "circadian" /\ r \in cycle.left)
OneAttends(r) == \A t, u \in Tasks : Attends(t, r) /\ Attends(u, r) => t = u

\* A light that is back ends what was asked.
ReturnKnown(r) == Returned(r) => wish[r] = None /\ ~RequestBusy(r)

\* A request in progress keeps its promise, and without one the record shows
\* what was asked.
WordKept(r) ==
  /\ \A q \in Requests : Busy(q, r) => Promised(q, r)
  /\ ~RequestBusy(r) => Kept(wish[r], rooms[r], now, EchoOfOthers)

\* The engine's pushes, and the wishes that leave room for them.
EnginePushes(r) ==
  {Publish(r, "keep", "circadian", None, ok, <<>>) :
     ok \in {<< Send(r, LightsOn("circadian", "Circadian")), Send(r, JehaPush("circadian")) >>,
             << Send(r, JehaPush("circadian")) >>}}
MayPush(w, i) ==
  w # None => w.op \in {"on", "resume"} \/ (w.op \in {"set", "snooze"} /\ Over(w.until, i))

\* The engine and the loop mean no harm.
Careful(r) ==
  /\ r \in cycle.left =>
       cycle.view[r].lightsOn /\ Kept(wish[r], cycle.view[r], now, EchoOfOthers)
  /\ \A t \in {"circadian", "mqtt"} : \A u \in Pending(t, r) : Harmless(wish[r], u, now, EchoOfOthers)
  /\ \A u \in Pending("mqtt", r) : u.update \in {"LightsOn", "LightsOff", "ExternalChange"}
  /\ \A p \in Goings("circadian", r) : p \in EnginePushes(r) /\ MayPush(wish[r], now)

\* What is on its way from and to the lights fits the wish.
Fits(r, w, i, light, queue, told) ==
  w # None =>
    /\ w.op = "on" =>
         /\ \A k \in 1..Len(told) : told[k].room = r => told[k].on
         /\ \A k \in 1..Len(queue) : queue[k].room = r => queue[k].power \in {"ON", "keep"}
         /\ \/ light.on
            \/ \E k \in 1..Len(queue) : /\ queue[k].room = r /\ queue[k].power = "ON"
                                        /\ \A l \in 1..(k - 1) : queue[l].room # r
    /\ w.op = "scene" \/ (w.op = "set" /\ ~Over(w.until, i)) =>
         /\ \A k \in 1..Len(told) : told[k].room = r => told[k].on
         /\ \A k \in 1..Len(queue) : queue[k].room = r => queue[k].power = "ON" /\ queue[k].level = "user"
         /\ (light.on /\ light.level = "user") \/ \E k \in 1..Len(queue) : queue[k].room = r
    /\ w.op = "off" =>
         /\ \A k \in 1..Len(told) : told[k].room = r => ~told[k].on
         /\ \A k \in 1..Len(queue) : queue[k].room = r => queue[k].power = "OFF"
    /\ w.op = "pause" \/ (w.op = "snooze" /\ ~Over(w.until, i)) =>
         /\ \A k \in 1..Len(told) : told[k].room # r
         /\ \A k \in 1..Len(queue) : queue[k].room # r
    /\ w.op = "resume" =>
         /\ \A k \in 1..Len(told) : told[k].room = r => told[k].level = "circadian"
         /\ \A k \in 1..Len(queue) : queue[k].room = r => queue[k].level = "circadian"
Shown(r) == Fits(r, wish[r], now, bulb[r], outq, reports)

\* The echoes of jeha's own commands are known as such.
PushPending(r, S) == \E t \in Tasks : \E u \in Pending(t, r) : Intends(u, S)
Echoes(r) ==
  /\ \A t \in Tasks : \A u \in Pending(t, r) : u.update = "RestoreLights" => Quiet(r) /\ Goings(t, r) = {}
  /\ wish[r] # None /\ wish[r].op = "on" /\ ~EchoOfOthers /\ Reported(r) =>
       PushPending(r, MaybeLevel) \/ rooms[r].lastPush = now
  /\ wish[r] # None /\ wish[r].op = "resume" =>
       /\ \A t \in Tasks : \A u \in Pending(t, r) : u.update = "JehaPush" => u.level = "circadian"
       /\ Quiet(r) \/ PushPending(r, {"circadian"}) \/ rooms[r].intended = "circadian"

Heeded(r) ==
  OneAttends(r) /\ ReturnKnown(r) /\ WordKept(r) /\ Careful(r) /\ Shown(r) /\ Echoes(r)

HonourInv ==
  /\ ~EchoOfOthers => link = "up" /\ outq = <<>>
  /\ \A r \in Rooms : ~raced[r] => Heeded(r)

-----------------------------------------------------------------------------
(* Faces and wishes.                                                        *)

\* A wish is about the face of a room.
LEMMA KeptFace ==
  ASSUME NEW a, NEW b, Alike(a, b), NEW w, NEW i, NEW late, Kept(w, a, i, late)
  PROVE  Kept(w, b, i, late)
BY DEF Kept, Alike, Face

\* As time passes and outages come, less is asked.
LEMMA KeptGrows ==
  ASSUME NEW w \in Goal \union {None}, NEW i \in Nat, NEW j \in Nat, i <= j, 
         NEW late \in BOOLEAN, NEW later \in BOOLEAN, late => later
  PROVE  /\ \A room : Kept(w, room, i, late) => Kept(w, room, j, later)
         /\ \/ \A room : Kept(w, room, j, later)
            \/ \A room : Kept(w, room, j, later) <=> Kept(w, room, i, late)
         /\ \A u : Harmless(w, u, i, late) => Harmless(w, u, j, later)
         /\ MayPush(w, i) => MayPush(w, j)
<1>1. w # None /\ Over(w.until, i) => Over(w.until, j)
  <2>1. w # None /\ w.until # None => w.until \in Nat
    BY DEF Goal, MaybeInstant
  <2> QED BY <2>1 DEF Over
<1>2. \A room : Kept(w, room, i, late) => Kept(w, room, j, later)
  BY <1>1 DEF Kept
<1>3. \/ \A room : Kept(w, room, j, later)
      \/ \A room : Kept(w, room, j, later) <=> Kept(w, room, i, late)
  <2>1. CASE w = None \/ w.op \notin {"on", "set", "snooze"}
    BY <2>1 DEF Kept
  <2>2. CASE w # None /\ w.op = "on"
    BY <2>2 DEF Kept
  <2>3. CASE w # None /\ w.op \in {"set", "snooze"} /\ Over(w.until, j)
    BY <2>3 DEF Kept
  <2>4. CASE w # None /\ w.op \in {"set", "snooze"} /\ ~Over(w.until, j)
    BY <1>1, <2>4 DEF Kept
  <2> QED BY <2>1, <2>2, <2>3, <2>4
<1>6. ASSUME NEW u, Harmless(w, u, i, late)
      PROVE  Harmless(w, u, j, later)
  BY <1>3, <1>6 DEF Harmless
<1>4. MayPush(w, i) => MayPush(w, j)
  BY <1>1 DEF MayPush
<1> QED BY <1>2, <1>3, <1>4, <1>6

-----------------------------------------------------------------------------
(* What requests promise.                                                   *)

\* What a send makes of a record, and the command it becomes.
LEMMA MadeSays ==
  ASSUME NEW r \in Rooms, NEW room \in Room
  PROVE  /\ \A s \in SendsOf(r) : Made(SendsOf(r), s, room) = ApplyUpdate(room, s.update, 0)
                                  /\ Made(SendsOf(r), s, room) \in Room
         /\ \A s : s \notin SendsOf(r) => Made(SendsOf(r), s, room) = room
         /\ \A c \in CommandsOf(r) : Made(CommandsOf(r), c, room) = ApplyUpdate(room, c.update, 0)
                                     /\ Made(CommandsOf(r), c, room) \in Room
         /\ \A c : c \notin CommandsOf(r) => Made(CommandsOf(r), c, room) = room
<1>1. \A s \in SendsOf(r) : s.update \in Updates
  BY DEF SendsOf
<1>2. \A c \in CommandsOf(r) : c.update \in Updates
  BY DEF CommandsOf
<1> QED BY <1>1, <1>2, ApplyUpdateType DEF Made

\* The first thing a queue says reaches the record.
LEMMA HeadReaches ==
  ASSUME NEW r \in Rooms, NEW S \in {SendsOf(r), CommandsOf(r)}, NEW e, NEW a \in Room, NEW i \in Nat,
         NEW next, next = IF e \in S THEN ApplyUpdate(a, e.update, i) ELSE a
  PROVE  \A room \in Room : Alike(room, a) /\ (e \in S => e.update.update \in TimelessKinds)
                              => Alike(Made(S, e, room), next)
<1> SUFFICES ASSUME NEW room \in Room, Alike(room, a), e \in S => e.update.update \in TimelessKinds
             PROVE  Alike(Made(S, e, room), next)
  OBVIOUS
<1>1. CASE e \in S
  <2>0. (\A s \in SendsOf(r) : s.update \in Updates) /\ \A c \in CommandsOf(r) : c.update \in Updates
    BY DEF SendsOf, CommandsOf
  <2>1. e.update \in Updates
    BY <1>1, <2>0
  <2>2. Alike(ApplyUpdate(room, e.update, 0), ApplyUpdate(a, e.update, i))
    BY <1>1, <2>1, FaceFollows
  <2> QED BY <1>1, <2>2 DEF Made
<1>2. CASE e \notin S
  BY <1>2 DEF Made
<1> QED BY <1>1, <1>2

\* The task sends the first of its steps.
LEMMA PromiseSays ==
  ASSUME NEW r \in Rooms, NEW record, NEW N, NEW queue \in Seq(N), NEW c \in N,
         NEW M, NEW plan \in Seq(M), plan # <<>>, NEW quiet, NEW w, NEW i, NEW late,
         Promise(r, record, queue, plan, quiet, w, i, late),
         Head(plan).do # "publish",
         Head(plan) \in SendsOf(r) <=> c \in CommandsOf(r),
         c \in CommandsOf(r) => c.update = Head(plan).update
  PROVE  Promise(r, record, Append(queue, c), Tail(plan), quiet, w, i, late)
<1> DEFINE s == Head(plan)
           S == SendsOf(r)
           C == CommandsOf(r)
<1>1. PICK f \in Room, g \in Room :
        /\ Leads(queue, C, record, f)
        /\ Leads(plan, S, f, g)
        /\ (\A k \in 1..Len(plan) : ~PublishFor(r, plan[k])) => Kept(w, g, i, late)
        /\ \A k \in 1..Len(plan) : PublishFor(r, plan[k]) => quiet /\ Offers(plan[k], r, g, w, i, late)
  BY DEF Promise
<1>2. /\ Len(plan) \in Nat /\ Len(Tail(plan)) \in Nat /\ Len(plan) = Len(Tail(plan)) + 1 /\ s = plan[1]
      /\ \A k \in 1..Len(Tail(plan)) : Tail(plan)[k] = plan[k + 1]
  BY HeadTailProperties, LenProperties
<1>3. \E k \in 1..Len(plan) : k = 1
  BY <1>2
<1>4. PICK l \in Room : l = Made(C, c, f)
  BY MadeSays DEF Made
<1>5. l = IF s \in S THEN ApplyUpdate(f, s.update, 0) ELSE f
  BY <1>4 DEF Made
<1>6. s \in S => s.update.update \in TimelessKinds
  BY <1>1, <1>2, <1>3 DEF Leads
<1>7. Leads(Append(queue, c), C, record, l)
  <2>1. c \in C => c.update.update \in TimelessKinds
    BY <1>6
  <2> HIDE DEF C
  <2> QED BY <1>1, <1>4, <2>1, LeadsAppend
<1>8. Leads(Tail(plan), S, l, g)
  <2>1. \A room \in Room : Alike(room, f) /\ (s \in S => s.update.update \in TimelessKinds)
                             => Alike(Made(S, s, room), l)
    BY <1>5, HeadReaches
  <2> HIDE DEF S
  <2> QED BY <1>1, <2>1, LeadsTail
<1>9. \A k \in 1..Len(Tail(plan)) : k + 1 \in 1..Len(plan)
  BY <1>2
<1>10. ASSUME \A k \in 1..Len(Tail(plan)) : ~PublishFor(r, Tail(plan)[k])
       PROVE  Kept(w, g, i, late)
  <2>1. \A k \in 1..Len(plan) : k = 1 \/ (k - 1 \in 1..Len(Tail(plan)) /\ (k - 1) + 1 = k)
    BY <1>2
  <2>2. ~PublishFor(r, plan[1])
    BY <1>2 DEF PublishFor
  <2>3. \A k \in 1..Len(plan) : ~PublishFor(r, plan[k])
    BY <1>2, <1>10, <2>1, <2>2
  <2> QED BY <1>1, <2>3
<1>11. \A k \in 1..Len(Tail(plan)) : PublishFor(r, Tail(plan)[k]) => quiet /\ Offers(Tail(plan)[k], r, g, w, i, late)
  BY <1>1, <1>2, <1>9
<1> QED BY <1>7, <1>8, <1>10, <1>11 DEF Promise

\* Somebody else sends something, but not about the room.
LEMMA PromiseBeside ==
  ASSUME NEW r \in Rooms, NEW record, NEW N, NEW queue \in Seq(N), NEW c \in N,
         NEW plan, NEW quiet, NEW w, NEW i, NEW late,
         Promise(r, record, queue, plan, quiet, w, i, late), c \notin CommandsOf(r)
  PROVE  Promise(r, record, Append(queue, c), plan, quiet, w, i, late)
<1> DEFINE C == CommandsOf(r)
           rest(f, g) ==
             /\ Leads(plan, SendsOf(r), f, g)
             /\ (\A k \in 1..Len(plan) : ~PublishFor(r, plan[k])) => Kept(w, g, i, late)
             /\ \A k \in 1..Len(plan) : PublishFor(r, plan[k]) => quiet /\ Offers(plan[k], r, g, w, i, late)
<1>1. PICK f \in Room, g \in Room : Leads(queue, C, record, f) /\ rest(f, g)
  BY DEF Promise
<1>2. c \notin C /\ f = Made(C, c, f)
  BY DEF Made
<1> HIDE DEF C
<1>3. Leads(Append(queue, c), C, record, f)
  BY <1>1, <1>2, LeadsAppend
<1> QED BY <1>1, <1>3 DEF Promise, C

\* The actor does what it was told first.
LEMMA PromiseReached ==
  ASSUME NEW r \in Rooms, NEW record \in Room, NEW N, NEW queue \in Seq(N), queue # <<>>,
         NEW plan, NEW quiet, NEW w, NEW i, NEW late,
         Promise(r, record, queue, plan, quiet, w, i, late), NEW j \in Nat, NEW next,
         next = IF Head(queue) \in CommandsOf(r) THEN ApplyUpdate(record, Head(queue).update, j) ELSE record
  PROVE  Promise(r, next, Tail(queue), plan, quiet, w, i, late)
<1> DEFINE C == CommandsOf(r)
           e == Head(queue)
           rest(f, g) ==
             /\ Leads(plan, SendsOf(r), f, g)
             /\ (\A k \in 1..Len(plan) : ~PublishFor(r, plan[k])) => Kept(w, g, i, late)
             /\ \A k \in 1..Len(plan) : PublishFor(r, plan[k]) => quiet /\ Offers(plan[k], r, g, w, i, late)
<1>1. PICK f \in Room, g \in Room : Leads(queue, C, record, f) /\ rest(f, g)
  BY DEF Promise
<1>2. \A room \in Room : Alike(room, record) /\ (e \in C => e.update.update \in TimelessKinds)
                           => Alike(Made(C, e, room), next)
  <2> HIDE DEF e
  <2>1. next = IF e \in C THEN ApplyUpdate(record, e.update, j) ELSE record
    BY DEF e
  <2> QED BY <2>1, HeadReaches
<1> HIDE DEF C
<1>3. Leads(Tail(queue), C, next, f)
  BY <1>1, <1>2, LeadsTail
<1> QED BY <1>1, <1>3 DEF Promise, C

\* When all has been said and done, the promise is kept.
LEMMA PromiseEnds ==
  ASSUME NEW r \in Rooms, NEW record, NEW N, NEW queue \in Seq(N), NEW M, NEW plan \in Seq(M),
         NEW quiet, NEW w, NEW i, NEW late, Promise(r, record, queue, plan, quiet, w, i, late),
         NoneIn(queue, CommandsOf(r)), NoneIn(plan, SendsOf(r)),
         \A k \in 1..Len(plan) : ~PublishFor(r, plan[k])
  PROVE  Kept(w, record, i, late)
<1>1. PICK f \in Room, g \in Room :
        /\ Leads(queue, CommandsOf(r), record, f) /\ Leads(plan, SendsOf(r), f, g)
        /\ Kept(w, g, i, late)
  BY DEF Promise
<1>2. Alike(f, record)
  BY <1>1, LeadsEnds
<1>3. Alike(g, f)
  BY <1>1, LeadsEnds
<1> QED BY <1>1, <1>2, <1>3, AlikeTwice, KeptFace

\* A promise with nothing left to do about the room is none of the plan's.
LEMMA PromiseElsewhere ==
  ASSUME NEW r \in Rooms, NEW record, NEW queue, NEW M, NEW plan \in Seq(M), NEW L, NEW later \in Seq(L),
         NEW quiet, NEW w, NEW i, NEW late, Promise(r, record, queue, plan, quiet, w, i, late),
         NoneIn(plan, SendsOf(r)), \A k \in 1..Len(plan) : ~PublishFor(r, plan[k]),
         NoneIn(later, SendsOf(r)), \A k \in 1..Len(later) : ~PublishFor(r, later[k]), NEW still
  PROVE  Promise(r, record, queue, later, still, w, i, late)
<1>1. PICK f \in Room, g \in Room :
        /\ Leads(queue, CommandsOf(r), record, f) /\ Leads(plan, SendsOf(r), f, g)
        /\ Kept(w, g, i, late)
  BY DEF Promise
<1>2. Alike(g, f)
  BY <1>1, LeadsEnds
<1>3. Kept(w, f, i, late)
  BY <1>1, <1>2, KeptFace
<1>4. Leads(later, SendsOf(r), f, f)
  BY LeadsNothing
<1> QED BY <1>1, <1>3, <1>4 DEF Promise

\* The publish was tried.
LEMMA PromisePublished ==
  ASSUME NEW r \in Rooms, NEW record, NEW queue, NEW p, PublishFor(r, p),
         NEW quiet, NEW w, NEW i, NEW late, Promise(r, record, queue, <<p>>, quiet, w, i, late), NEW still,
         \A k \in 1..Len(p.ok) : ~PublishFor(r, p.ok[k]), \A k \in 1..Len(p.err) : ~PublishFor(r, p.err[k])
  PROVE  /\ quiet /\ p.goal \in Goal /\ Asks(p.power, p.level, p.goal)
         /\ \A k \in 1..Len(p.err) : p.err[k].update.update # "JehaPush"
         /\ \A k \in 1..Len(p.ok) : p.ok[k].update.update # "RestoreLights"
         /\ p.goal.op = "on" => \E k \in 1..Len(p.ok) : p.ok[k] = Send(r, JehaPush(None))
         /\ Promise(r, record, queue, p.ok, still, p.goal, i, late)
         /\ Promise(r, record, queue, p.err, still, w, i, late)
<1> DEFINE plan == <<p>>
           S == SendsOf(r)
<1>1. plan \in Seq({p}) /\ Len(plan) = 1 /\ plan[1] = p /\ 1 \in 1..Len(plan) /\ p \notin S
  BY DEF PublishFor, SendsOf
<1> HIDE DEF plan
<1>2. PICK f \in Room, g \in Room :
        /\ Leads(queue, CommandsOf(r), record, f) /\ Leads(plan, S, f, g)
        /\ quiet /\ Offers(p, r, g, w, i, late)
  BY <1>1 DEF Promise, plan
<1>3. NoneIn(plan, S)
  BY <1>1 DEF NoneIn
<1>4. Alike(g, f)
  BY <1>1, <1>2, <1>3, LeadsEnds
<1>5. PICK e \in Room, o \in Room :
        /\ Leads(p.err, S, g, e) /\ Kept(w, e, i, late)
        /\ Leads(p.ok, S, g, o) /\ Kept(p.goal, o, i, late)
  BY <1>2 DEF Offers
<1>6. Leads(p.err, S, f, e) /\ Leads(p.ok, S, f, o)
  <2> HIDE DEF S
  <2> QED BY <1>4, <1>5, LeadsFrom
<1>7. /\ quiet /\ p.goal \in Goal /\ Asks(p.power, p.level, p.goal)
      /\ \A k \in 1..Len(p.err) : p.err[k].update.update # "JehaPush"
      /\ \A k \in 1..Len(p.ok) : p.ok[k].update.update # "RestoreLights"
      /\ p.goal.op = "on" => \E k \in 1..Len(p.ok) : p.ok[k] = Send(r, JehaPush(None))
  BY <1>2 DEF Offers
<1>8. Promise(r, record, queue, p.ok, still, p.goal, i, late)
  BY <1>2, <1>5, <1>6 DEF Promise
<1>9. Promise(r, record, queue, p.err, still, w, i, late)
  BY <1>2, <1>5, <1>6 DEF Promise
<1> QED BY <1>7, <1>8, <1>9

\* Time passes.
LEMMA PromiseGrows ==
  ASSUME NEW r, NEW record, NEW queue, NEW plan, NEW quiet \in BOOLEAN, NEW still \in BOOLEAN, quiet => still,
         NEW w \in Goal \union {None}, NEW i \in Nat, NEW j \in Nat, i <= j,
         NEW late \in BOOLEAN, NEW later \in BOOLEAN, late => later,
         Promise(r, record, queue, plan, quiet, w, i, late)
  PROVE  Promise(r, record, queue, plan, still, w, j, later)
<1>1. PICK f \in Room, g \in Room :
        /\ Leads(queue, CommandsOf(r), record, f) /\ Leads(plan, SendsOf(r), f, g)
        /\ (\A k \in 1..Len(plan) : ~PublishFor(r, plan[k])) => Kept(w, g, i, late)
        /\ \A k \in 1..Len(plan) : PublishFor(r, plan[k]) => quiet /\ Offers(plan[k], r, g, w, i, late)
  BY DEF Promise
<1>2. \A u \in Goal \union {None} : \A room : Kept(u, room, i, late) => Kept(u, room, j, later)
  BY KeptGrows
<1>3. \A p : Offers(p, r, g, w, i, late) => Offers(p, r, g, w, j, later)
  BY <1>2 DEF Offers
<1> QED BY <1>1, <1>2, <1>3 DEF Promise

-----------------------------------------------------------------------------
(* Each request keeps its promise.                                          *)

\* What up to three sends lead to.
LEMMA LeadsShort ==
  ASSUME NEW r \in Rooms, NEW x \in Room, NEW a \in Updates, NEW b \in Updates, NEW c \in Updates,
         a.update \in TimelessKinds, b.update \in TimelessKinds, c.update \in TimelessKinds,
         NEW y \in Room, NEW z \in Room, NEW v \in Room,
         y = ApplyUpdate(x, a, 0), z = ApplyUpdate(y, b, 0), v = ApplyUpdate(z, c, 0)
  PROVE  /\ Leads(<<>>, SendsOf(r), x, x)
         /\ Leads(<<Send(r, a)>>, SendsOf(r), x, y)
         /\ Leads(<<Send(r, a), Send(r, b)>>, SendsOf(r), x, z)
         /\ Leads(<<Send(r, a), Send(r, b), Send(r, c)>>, SendsOf(r), x, v)
<1> DEFINE S == SendsOf(r)
<1>1. \A u \in Updates : Send(r, u) \in S /\ Send(r, u).update = u
  BY DEF SendsOf, Send
<1>2. y = Made(S, Send(r, a), x) /\ z = Made(S, Send(r, b), y) /\ v = Made(S, Send(r, c), z)
  BY <1>1 DEF Made
<1>3. PICK s1, s2, s3 :
        /\ s1 = Send(r, a) /\ s2 = Send(r, b) /\ s3 = Send(r, c)
        /\ s1 \in S /\ s2 \in S /\ s3 \in S
        /\ s1.update = a /\ s2.update = b /\ s3.update = c
        /\ y = Made(S, s1, x) /\ z = Made(S, s2, y) /\ v = Made(S, s3, z)
  BY <1>1, <1>2
<1> HIDE DEF S
<1>4. /\ Leads(<<>>, S, x, x) /\ Leads(<<s1>>, S, x, y)
      /\ Leads(<<s1, s2>>, S, x, z) /\ Leads(<<s1, s2, s3>>, S, x, v)
  BY <1>3, LeadsUpTo
<1> QED BY <1>3, <1>4 DEF S

\* Sends, and a publish that offers.
LEMMA PromiseMade ==
  ASSUME NEW r \in Rooms, NEW record \in Room, NEW N, NEW queue \in Seq(N), NoneIn(queue, CommandsOf(r)),
         NEW sends \in Seq(SendsOf(r)), NEW g \in Room, Leads(sends, SendsOf(r), record, g),
         NEW w, NEW i, NEW late
  PROVE  /\ Kept(w, g, i, late) => Promise(r, record, queue, sends, TRUE, w, i, late)
         /\ \A p : PublishFor(r, p) /\ Offers(p, r, g, w, i, late)
                     => Promise(r, record, queue, Append(sends, p), TRUE, w, i, late)
<1> DEFINE S == SendsOf(r)
<1>1. Leads(queue, CommandsOf(r), record, record)
  BY LeadsNothing
<1>2. \A k \in 1..Len(sends) : ~PublishFor(r, sends[k])
  <2>1. \A s \in S : ~PublishFor(r, s)
    BY DEF SendsOf, PublishFor
  <2> QED BY <2>1
<1>3. ASSUME NEW p, PublishFor(r, p), Offers(p, r, g, w, i, late)
      PROVE  Promise(r, record, queue, Append(sends, p), TRUE, w, i, late)
  <2> DEFINE M == S \union {p}
             plan == Append(sends, p)
  <2>1. p \notin S
    BY <1>3 DEF PublishFor, SendsOf
  <2>2. sends \in Seq(M)
    BY SeqMonotonic
  <2>3. /\ Len(sends) \in Nat /\ Len(plan) = Len(sends) + 1 /\ plan[Len(sends) + 1] = p
        /\ \A k \in 1..Len(sends) : plan[k] = sends[k]
    BY <2>2, AppendProperties, LenProperties
  <2>4. Leads(plan, S, record, g)
    <3>1. g = Made(S, p, g) /\ p \in M /\ Leads(sends, S, record, g)
      BY <2>1 DEF Made
    <3>2. p \in S => p.update.update \in TimelessKinds
      BY <2>1
    <3> HIDE DEF S, M
    <3> QED BY <2>2, <3>1, <3>2, LeadsAppend
  <2> HIDE DEF plan
  <2>5. \E k \in 1..Len(plan) : PublishFor(r, plan[k])
    BY <1>3, <2>3
  <2>6. \A k \in 1..Len(plan) : PublishFor(r, plan[k]) => plan[k] = p
    BY <1>2, <2>3
  <2>7. Promise(r, record, queue, plan, TRUE, w, i, late)
    BY <1>1, <1>3, <2>4, <2>5, <2>6 DEF Promise
  <2> QED BY <2>7 DEF plan
<1>4. Kept(w, g, i, late) => Promise(r, record, queue, sends, TRUE, w, i, late)
  BY <1>1, <1>2 DEF Promise
<1> QED BY <1>3, <1>4

\* The updates that requests send are timeless.
LEMMA AskedUpdates ==
  /\ \A level \in MaybeLevel, source \in Sources :
       LightsOn(level, source) \in Updates /\ LightsOn(level, source).update \in TimelessKinds
  /\ \A level \in MaybeLevel : JehaPush(level) \in Updates /\ JehaPush(level).update \in TimelessKinds
  /\ LightsOff \in Updates /\ LightsOff.update \in TimelessKinds
  /\ \A b \in BOOLEAN, until \in MaybeInstant :
       CircadianPause(b, until) \in Updates /\ CircadianPause(b, until).update \in TimelessKinds
  /\ \A until \in MaybeInstant :
       ManualOverrideTtl(until) \in Updates /\ ManualOverrideTtl(until).update \in TimelessKinds
  /\ \A room \in Room : RestoreLights(room) \in Updates /\ RestoreLights(room).update \in TimelessKinds
BY UpdateTypes DEF TimelessKinds, LightsOn, JehaPush, LightsOff, CircadianPause, ManualOverrideTtl, RestoreLights

\* What they make of the face of a room.
LEMMA FaceAsked ==
  ASSUME NEW room \in Room
  PROVE  /\ \A level \in MaybeLevel, source \in Sources :
              LET next == ApplyUpdate(room, LightsOn(level, source), 0) IN
              next \in Room /\ Face(next, TRUE, source, room.overrideUntil, room.paused, room.pausedUntil)
         /\ \A level \in MaybeLevel :
              LET next == ApplyUpdate(room, JehaPush(level), 0) IN
              next \in Room /\ Alike(next, room)
         /\ LET next == ApplyUpdate(room, LightsOff, 0) IN
            next \in Room /\ Face(next, FALSE, room.source, room.overrideUntil, FALSE, None)
         /\ \A b \in BOOLEAN, until \in MaybeInstant :
              LET next == ApplyUpdate(room, CircadianPause(b, until), 0) IN
              next \in Room /\ Face(next, room.lightsOn, room.source, room.overrideUntil, b, until)
         /\ \A until \in MaybeInstant :
              LET next == ApplyUpdate(room, ManualOverrideTtl(until), 0) IN
              next \in Room /\ Face(next, room.lightsOn, room.source, until, room.paused, room.pausedUntil)
         /\ \A old \in Room :
              LET next == ApplyUpdate(room, RestoreLights(old), 0) IN
              /\ next \in Room
              /\ room.overrideUntil = old.overrideUntil => Alike(next, old)
<1>1. ASSUME NEW level \in MaybeLevel, NEW source \in Sources, NEW next,
             next = ApplyUpdate(room, LightsOn(level, source), 0)
      PROVE  next \in Room /\ Face(next, TRUE, source, room.overrideUntil, room.paused, room.pausedUntil)
  <2>1. PICK u \in Updates : u = LightsOn(level, source)
    BY AskedUpdates
  <2>2. u.update = "LightsOn" /\ u.source = source
    BY <2>1 DEF LightsOn
  <2>3. next \in Room /\ Face(next, TRUE, u.source, room.overrideUntil, room.paused, room.pausedUntil)
    BY <1>1, <2>1, <2>2, FaceApplies
  <2> QED BY <2>2, <2>3
<1>2. ASSUME NEW level \in MaybeLevel, NEW next, next = ApplyUpdate(room, JehaPush(level), 0)
      PROVE  next \in Room /\ Alike(next, room)
  <2>1. PICK u \in Updates : u = JehaPush(level)
    BY AskedUpdates
  <2>2. u.update = "JehaPush"
    BY <2>1 DEF JehaPush
  <2> QED BY <1>2, <2>1, <2>2, FaceApplies
<1>3. ASSUME NEW next, next = ApplyUpdate(room, LightsOff, 0)
      PROVE  next \in Room /\ Face(next, FALSE, room.source, room.overrideUntil, FALSE, None)
  <2>1. PICK u \in Updates : u = LightsOff
    BY AskedUpdates
  <2>2. u.update = "LightsOff"
    BY <2>1 DEF LightsOff
  <2> QED BY <1>3, <2>1, <2>2, FaceApplies
<1>4. ASSUME NEW b \in BOOLEAN, NEW until \in MaybeInstant, NEW next,
             next = ApplyUpdate(room, CircadianPause(b, until), 0)
      PROVE  next \in Room /\ Face(next, room.lightsOn, room.source, room.overrideUntil, b, until)
  <2>1. PICK u \in Updates : u = CircadianPause(b, until)
    BY AskedUpdates
  <2>2. u.update = "CircadianPause" /\ u.paused = b /\ u.until = until
    BY <2>1 DEF CircadianPause
  <2>3. next \in Room /\ Face(next, room.lightsOn, room.source, room.overrideUntil, u.paused, u.until)
    BY <1>4, <2>1, <2>2, FaceApplies
  <2> QED BY <2>2, <2>3
<1>5. ASSUME NEW until \in MaybeInstant, NEW next, next = ApplyUpdate(room, ManualOverrideTtl(until), 0)
      PROVE  next \in Room /\ Face(next, room.lightsOn, room.source, until, room.paused, room.pausedUntil)
  <2>1. PICK u \in Updates : u = ManualOverrideTtl(until)
    BY AskedUpdates
  <2>2. u.update = "ManualOverrideTtl" /\ u.until = until
    BY <2>1 DEF ManualOverrideTtl
  <2>3. next \in Room /\ Face(next, room.lightsOn, room.source, u.until, room.paused, room.pausedUntil)
    BY <1>5, <2>1, <2>2, FaceApplies
  <2> QED BY <2>2, <2>3
<1>6. ASSUME NEW old \in Room, NEW next, next = ApplyUpdate(room, RestoreLights(old), 0)
      PROVE  next \in Room /\ (room.overrideUntil = old.overrideUntil => Alike(next, old))
  <2>1. PICK u \in Updates : u = RestoreLights(old)
    BY AskedUpdates
  <2>2. u.update = "RestoreLights" /\ u.snapshot = old
    BY <2>1 DEF RestoreLights
  <2> DEFINE s == u.snapshot
  <2>3. /\ next \in Room
        /\ Face(next, s.lightsOn, IF room.overrideUntil = s.overrideUntil THEN s.source ELSE room.source,
                room.overrideUntil, s.paused, s.pausedUntil)
    BY <1>6, <2>1, <2>2, FaceApplies
  <2> QED BY <2>2, <2>3 DEF Alike, Face
<1> QED BY <1>1, <1>2, <1>3, <1>4, <1>5, <1>6

LEMMA OneMore ==
  ASSUME NEW a, NEW b, NEW c, NEW p
  PROVE  <<a, p>> = Append(<<a>>, p) /\ <<a, b, c, p>> = Append(<<a, b, c>>, p)
<1>1. <<a, p>> = Append(<<a>>, p)
  OBVIOUS
<1>2. <<a, b, c, p>> = Append(<<a, b, c>>, p)
  OBVIOUS
<1> QED BY <1>1, <1>2

\* The updates requests send are of their kinds.
LEMMA AskedKinds ==
  ASSUME NEW r
  PROVE  /\ \A u : Send(r, u).update = u
         /\ \A level, source : LightsOn(level, source).update = "LightsOn"
         /\ \A level : JehaPush(level).update = "JehaPush"
         /\ LightsOff.update = "LightsOff"
         /\ \A b, until : CircadianPause(b, until).update = "CircadianPause"
         /\ \A until : ManualOverrideTtl(until).update = "ManualOverrideTtl"
         /\ \A room : RestoreLights(room).update = "RestoreLights"
BY DEF Send, LightsOn, JehaPush, LightsOff, CircadianPause, ManualOverrideTtl, RestoreLights

LEMMA OfferMade ==
  ASSUME NEW r \in Rooms, NEW record \in Room, NEW N, NEW queue \in Seq(N), NoneIn(queue, CommandsOf(r)),
         NEW w, NEW i, NEW late, NEW p, PublishFor(r, p), Offers(p, r, record, w, i, late)
  PROVE  Promise(r, record, queue, <<p>>, TRUE, w, i, late)
<1>1. NoneIn(<<>>, SendsOf(r)) /\ <<>> \in Seq(SendsOf(r)) /\ Append(<<>>, p) = <<p>>
  BY DEF NoneIn
<1>2. Leads(<<>>, SendsOf(r), record, record)
  BY <1>1, LeadsNothing
<1>3. Promise(r, record, queue, Append(<<>>, p), TRUE, w, i, late)
  BY <1>1, <1>2, PromiseMade
<1> QED BY <1>1, <1>3

\* light_on without values.
LEMMA OnPromises ==
  ASSUME NEW r \in Rooms, NEW record \in Room, NEW N, NEW queue \in Seq(N), NoneIn(queue, CommandsOf(r)),
         NEW w, NEW i, NEW late, Kept(w, record, i, late)
  PROVE  Promise(r, record, queue, OnRequest(r), TRUE, w, i, late)
<1> DEFINE a == LightsOn(None, "Circadian")
           b == JehaPush(None)
           goal == [op |-> "on", until |-> None]
           p == Publish(r, "ON", None, goal, <<Send(r, a), Send(r, b)>>, <<>>)
           S == SendsOf(r)
<1>1. /\ a \in Updates /\ b \in Updates /\ a.update \in TimelessKinds /\ b.update \in TimelessKinds
  BY AskedUpdates DEF MaybeLevel, Sources
<1>2. PICK y \in Room : y = ApplyUpdate(record, a, 0)
  BY <1>1, ApplyUpdateType
<1>3. PICK z \in Room : z = ApplyUpdate(y, b, 0)
  BY <1>1, ApplyUpdateType
<1>4. PICK v \in Room : v = ApplyUpdate(z, b, 0)
  BY <1>1, ApplyUpdateType
<1>5. Leads(<<>>, S, record, record) /\ Leads(<<Send(r, a), Send(r, b)>>, S, record, z)
  <2> HIDE DEF a, b, S
  <2>1. Leads(<<>>, SendsOf(r), record, record) /\ Leads(<<Send(r, a), Send(r, b)>>, SendsOf(r), record, z)
    BY <1>1, <1>2, <1>3, <1>4, LeadsShort
  <2> QED BY <2>1 DEF S
<1>6. z.source = "Circadian"
  <2>1. Face(y, TRUE, "Circadian", record.overrideUntil, record.paused, record.pausedUntil)
    BY <1>2, FaceAsked DEF MaybeLevel, Sources
  <2>2. Alike(z, y)
    BY <1>3, FaceAsked DEF MaybeLevel
  <2> QED BY <2>1, <2>2 DEF Alike, Face
<1>7. goal \in Goal /\ Kept(goal, z, i, late) /\ Asks("ON", None, goal)
  BY <1>6 DEF Goal, MaybeInstant, Kept, Asks
<1>8. /\ PublishFor(r, p) /\ p.goal = goal /\ p.power = "ON" /\ p.level = None
      /\ p.ok = <<Send(r, a), Send(r, b)>> /\ p.err = <<>>
  BY DEF PublishFor, Publish
<1>11. /\ \A k \in 1..Len(p.err) : p.err[k].update.update # "JehaPush"
       /\ \A k \in 1..Len(p.ok) : p.ok[k].update.update # "RestoreLights"
       /\ \E k \in 1..Len(p.ok) : p.ok[k] = Send(r, JehaPush(None))
  <2> HIDE DEF p, a, b
  <2>1. a.update # "RestoreLights" /\ b.update # "RestoreLights" /\ b = JehaPush(None)
    BY AskedKinds DEF a, b
  <2>2. \A u : Send(r, u).update = u
    BY AskedKinds
  <2> QED BY <1>8, <2>1, <2>2, ShortSays
<1> HIDE DEF p, S, goal, a, b
<1>9. Offers(p, r, record, w, i, late)
  BY <1>5, <1>7, <1>8, <1>11 DEF Offers, S
<1>10. Promise(r, record, queue, <<p>>, TRUE, w, i, late)
  BY <1>8, <1>9, OfferMade
<1> QED BY <1>10 DEF OnRequest, p, a, b, goal

\* light_off.
LEMMA OffPromises ==
  ASSUME NEW r \in Rooms, NEW record \in Room, NEW N, NEW queue \in Seq(N), NoneIn(queue, CommandsOf(r)),
         NEW w, NEW i, NEW late, Kept(w, record, i, late)
  PROVE  Promise(r, record, queue, OffRequest(r), TRUE, w, i, late)
<1> DEFINE a == LightsOff
           goal == [op |-> "off", until |-> None]
           p == Publish(r, "OFF", None, goal, <<Send(r, a)>>, <<>>)
           S == SendsOf(r)
<1>1. a \in Updates /\ a.update \in TimelessKinds
  BY AskedUpdates
<1>2. PICK y \in Room : y = ApplyUpdate(record, a, 0)
  BY <1>1, ApplyUpdateType
<1>3. PICK z \in Room : z = ApplyUpdate(y, a, 0)
  BY <1>1, ApplyUpdateType
<1>4. PICK v \in Room : v = ApplyUpdate(z, a, 0)
  BY <1>1, ApplyUpdateType
<1>5. Leads(<<>>, S, record, record) /\ Leads(<<Send(r, a)>>, S, record, y)
  <2> HIDE DEF a, S
  <2>1. Leads(<<>>, SendsOf(r), record, record) /\ Leads(<<Send(r, a)>>, SendsOf(r), record, y)
    BY <1>1, <1>2, <1>3, <1>4, LeadsShort
  <2> QED BY <2>1 DEF S
<1>6. y.lightsOn = FALSE /\ y.paused = FALSE
  BY <1>2, FaceAsked DEF Face
<1>7. goal \in Goal /\ Kept(goal, y, i, late) /\ Asks("OFF", None, goal)
  BY <1>6 DEF Goal, MaybeInstant, Kept, Asks
<1>8. /\ PublishFor(r, p) /\ p.goal = goal /\ p.power = "OFF" /\ p.level = None
      /\ p.ok = <<Send(r, a)>> /\ p.err = <<>>
  BY DEF PublishFor, Publish
<1>11. /\ \A k \in 1..Len(p.err) : p.err[k].update.update # "JehaPush"
       /\ \A k \in 1..Len(p.ok) : p.ok[k].update.update # "RestoreLights"
       /\ goal.op # "on"
  <2>1. goal.op # "on"
    OBVIOUS
  <2> HIDE DEF p, a
  <2>2. a.update # "RestoreLights" /\ \A u : Send(r, u).update = u
    BY AskedKinds DEF a
  <2> QED BY <1>8, <2>1, <2>2, ShortSays
<1> HIDE DEF p, S, goal, a
<1>9. Offers(p, r, record, w, i, late)
  BY <1>5, <1>7, <1>8, <1>11 DEF Offers, S
<1>10. Promise(r, record, queue, <<p>>, TRUE, w, i, late)
  BY <1>8, <1>9, OfferMade
<1> QED BY <1>10 DEF OffRequest, p, a, goal

\* What a user's values make of a record.
LEMMA ValuesLead ==
  ASSUME NEW r \in Rooms, NEW record \in Room, NEW until \in MaybeInstant, "user" \in Levels
  PROVE  \E o \in Room :
           /\ Leads(<< Send(r, LightsOn("user", "Manual")), Send(r, JehaPush("user")),
                       Send(r, ManualOverrideTtl(until)) >>, SendsOf(r), record, o)
           /\ Face(o, TRUE, "Manual", until, record.paused, record.pausedUntil)
<1> DEFINE a == LightsOn("user", "Manual")
           b == JehaPush("user")
           c == ManualOverrideTtl(until)
<1>1. /\ a \in Updates /\ b \in Updates /\ c \in Updates
      /\ a.update \in TimelessKinds /\ b.update \in TimelessKinds /\ c.update \in TimelessKinds
  BY AskedUpdates DEF MaybeLevel, Sources
<1>2. PICK y \in Room : y = ApplyUpdate(record, a, 0)
  BY <1>1, ApplyUpdateType
<1>3. PICK z \in Room : z = ApplyUpdate(y, b, 0)
  BY <1>1, ApplyUpdateType
<1>4. PICK v \in Room : v = ApplyUpdate(z, c, 0)
  BY <1>1, ApplyUpdateType
<1>5. Face(v, TRUE, "Manual", until, record.paused, record.pausedUntil)
  <2>1. Face(y, TRUE, "Manual", record.overrideUntil, record.paused, record.pausedUntil)
    BY <1>2, FaceAsked DEF MaybeLevel, Sources
  <2>2. Alike(z, y)
    BY <1>3, FaceAsked DEF MaybeLevel
  <2>3. Face(v, z.lightsOn, z.source, until, z.paused, z.pausedUntil)
    BY <1>4, FaceAsked
  <2> QED BY <2>1, <2>2, <2>3 DEF Alike, Face
<1> HIDE DEF a, b, c
<1>6. Leads(<<Send(r, a), Send(r, b), Send(r, c)>>, SendsOf(r), record, v)
  BY <1>1, <1>2, <1>3, <1>4, LeadsShort
<1> QED BY <1>5, <1>6 DEF a, b, c

LEMMA ValuesSay ==
  ASSUME NEW r, NEW until, NEW ok,
         ok = << Send(r, LightsOn("user", "Manual")), Send(r, JehaPush("user")),
                 Send(r, ManualOverrideTtl(until)) >>
  PROVE  \A k \in 1..Len(ok) : ok[k].update.update # "RestoreLights"
<1>1. PICK x, y, z : /\ x = Send(r, LightsOn("user", "Manual")) /\ y = Send(r, JehaPush("user"))
                     /\ z = Send(r, ManualOverrideTtl(until))
  OBVIOUS
<1>2. x.update.update # "RestoreLights" /\ y.update.update # "RestoreLights" /\ z.update.update # "RestoreLights"
  BY <1>1, AskedKinds
<1>3. ok = <<x, y, z>>
  BY <1>1
<1> QED BY <1>2, <1>3, ShortSays

\* light_on with values.
LEMMA SetPromises ==
  ASSUME NEW r \in Rooms, NEW record \in Room, NEW N, NEW queue \in Seq(N), NoneIn(queue, CommandsOf(r)),
         NEW w, NEW i, NEW late, Kept(w, record, i, late), NEW until \in MaybeInstant, "user" \in Levels
  PROVE  Promise(r, record, queue, SetRequest(r, until), TRUE, w, i, late)
<1> DEFINE goal == [op |-> "set", until |-> until]
           ok == << Send(r, LightsOn("user", "Manual")), Send(r, JehaPush("user")),
                    Send(r, ManualOverrideTtl(until)) >>
           p == Publish(r, "ON", "user", goal, ok, <<>>)
<1>1. Leads(<<>>, SendsOf(r), record, record)
  <2>1. NoneIn(<<>>, SendsOf(r)) /\ <<>> \in Seq(SendsOf(r))
    BY DEF NoneIn
  <2> QED BY <2>1, LeadsNothing
<1>2. PICK o \in Room : /\ Leads(ok, SendsOf(r), record, o)
                        /\ Face(o, TRUE, "Manual", until, record.paused, record.pausedUntil)
  BY ValuesLead
<1>3. goal \in Goal /\ Kept(goal, o, i, late) /\ Asks("ON", "user", goal)
  BY <1>2 DEF Goal, Kept, Asks, Face
<1>4. /\ PublishFor(r, p) /\ p.goal = goal /\ p.power = "ON" /\ p.level = "user"
      /\ p.ok = ok /\ p.err = <<>>
  BY DEF PublishFor, Publish
<1>7. goal.op # "on"
  OBVIOUS
<1>8. \A k \in 1..Len(ok) : ok[k].update.update # "RestoreLights"
  BY ValuesSay
<1> HIDE DEF p, goal, ok
<1>9. \A k \in 1..Len(<<>>) : FALSE
  BY ShortSays
<1>5. Offers(p, r, record, w, i, late)
  BY <1>1, <1>2, <1>3, <1>4, <1>7, <1>8, <1>9 DEF Offers
<1>6. Promise(r, record, queue, <<p>>, TRUE, w, i, late)
  BY <1>4, <1>5, OfferMade
<1> QED BY <1>6 DEF SetRequest, p, ok, goal

\* set_scene.
LEMMA ScenePromises ==
  ASSUME NEW r \in Rooms, rooms[r] \in Room, NEW N, NEW queue \in Seq(N), NoneIn(queue, CommandsOf(r)),
         NEW w, NEW i, NEW late, Kept(w, rooms[r], i, late), NEW until \in MaybeInstant, "user" \in Levels
  PROVE  Promise(r, rooms[r], queue, SceneRequest(r, until), TRUE, w, i, late)
<1> DEFINE goal == [op |-> "scene", until |-> until]
           room == rooms[r]
           back == CircadianPause(room.paused, room.pausedUntil)
           a == CircadianPause(TRUE, None)
           ok == << Send(r, LightsOn("user", "Manual")), Send(r, JehaPush("user")),
                    Send(r, ManualOverrideTtl(until)) >>
           err == << Send(r, back) >>
           p == Publish(r, "ON", "user", goal, ok, err)
<1>0. room.paused \in BOOLEAN /\ room.pausedUntil \in MaybeInstant
  BY DEF Room
<1>1. a \in Updates /\ a.update \in TimelessKinds /\ back \in Updates /\ back.update \in TimelessKinds
  BY <1>0, AskedUpdates DEF MaybeInstant
<1>2. PICK g \in Room : g = ApplyUpdate(room, a, 0)
  BY <1>1, ApplyUpdateType
<1>3. Face(g, room.lightsOn, room.source, room.overrideUntil, TRUE, None)
  BY <1>2, FaceAsked DEF MaybeInstant
<1>4. PICK e \in Room : e = ApplyUpdate(g, back, 0)
  BY <1>1, ApplyUpdateType
<1>5. Face(e, g.lightsOn, g.source, g.overrideUntil, room.paused, room.pausedUntil)
  BY <1>0, <1>4, FaceAsked
<1>6. Alike(room, e)
  BY <1>3, <1>5 DEF Alike, Face
<1>7. Kept(w, e, i, late)
  BY <1>6, KeptFace
<1>8. PICK o \in Room : Leads(ok, SendsOf(r), g, o) /\ Face(o, TRUE, "Manual", until, g.paused, g.pausedUntil)
  BY ValuesLead
<1>9. goal \in Goal /\ Kept(goal, o, i, late) /\ Asks("ON", "user", goal)
  BY <1>3, <1>8 DEF Goal, Kept, Asks, Face
<1>10. /\ PublishFor(r, p) /\ p.goal = goal /\ p.power = "ON" /\ p.level = "user"
       /\ p.ok = ok /\ p.err = err
  BY DEF PublishFor, Publish
<1>16. goal.op # "on"
  OBVIOUS
<1>17. \A k \in 1..Len(ok) : ok[k].update.update # "RestoreLights"
  BY ValuesSay
<1> HIDE DEF p, goal, ok, a, back, room
<1>18. \A k \in 1..Len(err) : err[k].update.update # "JehaPush"
  <2>1. Send(r, back).update.update # "JehaPush"
    BY AskedKinds DEF back
  <2> QED BY <2>1, ShortSays
<1>11. Leads(<<Send(r, a)>>, SendsOf(r), room, g) /\ Leads(err, SendsOf(r), g, e)
  <2>1. room \in Room
    BY DEF room
  <2>2. PICK x \in Room : x = ApplyUpdate(g, a, 0)
    BY <1>1, ApplyUpdateType
  <2>3. PICK y \in Room : y = ApplyUpdate(x, a, 0)
    BY <1>1, ApplyUpdateType
  <2>4. PICK z \in Room : z = ApplyUpdate(e, back, 0)
    BY <1>1, ApplyUpdateType
  <2>5. PICK v \in Room : v = ApplyUpdate(z, back, 0)
    BY <1>1, ApplyUpdateType
  <2>6. Leads(<<Send(r, a)>>, SendsOf(r), room, g)
    BY <1>1, <1>2, <2>1, <2>2, <2>3, LeadsShort
  <2>7. Leads(<<Send(r, back)>>, SendsOf(r), g, e)
    BY <1>1, <1>4, <2>4, <2>5, LeadsShort
  <2> QED BY <2>6, <2>7
<1> HIDE DEF err
<1>12. Offers(p, r, g, w, i, late)
  BY <1>7, <1>8, <1>9, <1>10, <1>11, <1>16, <1>17, <1>18 DEF Offers
<1>13. /\ <<Send(r, a)>> \in Seq(SendsOf(r)) /\ Append(<<Send(r, a)>>, p) = <<Send(r, a), p>>
  <2>1. Send(r, a) \in SendsOf(r)
    BY <1>1 DEF Send, SendsOf
  <2>2. PICK s \in SendsOf(r) : s = Send(r, a)
    BY <2>1
  <2>3. <<s>> \in Seq(SendsOf(r))
    <3> HIDE DEF SendsOf
    <3> QED OBVIOUS
  <2>4. Append(<<s>>, p) = <<s, p>>
    BY OneMore
  <2> QED BY <2>2, <2>3, <2>4
<1>14. Promise(r, room, queue, Append(<<Send(r, a)>>, p), TRUE, w, i, late)
  BY <1>10, <1>11, <1>12, <1>13, PromiseMade DEF room
<1>15. Promise(r, room, queue, <<Send(r, a), p>>, TRUE, w, i, late)
  BY <1>13, <1>14
<1> QED BY <1>15 DEF SceneRequest, p, ok, goal, a, back, room, err

\* recall_z2m_scene.
LEMMA RecallPromises ==
  ASSUME NEW r \in Rooms, rooms[r] \in Room, NEW N, NEW queue \in Seq(N), NoneIn(queue, CommandsOf(r)),
         NEW w, NEW i, NEW late, Kept(w, rooms[r], i, late), NEW until \in MaybeInstant
  PROVE  Promise(r, rooms[r], queue, RecallRequest(r, until), TRUE, w, i, late)
<1> DEFINE goal == [op |-> "scene", until |-> until]
           room == rooms[r]
           a == CircadianPause(TRUE, None)
           b == LightsOn(None, "Manual")
           c == ManualOverrideTtl(until)
           ok == << Send(r, JehaPush(None)) >>
           back == ManualOverrideTtl(room.overrideUntil)
           old == RestoreLights(room)
           err == << Send(r, back), Send(r, old) >>
           p == Publish(r, "ON", "user", goal, ok, err)
<1>0. room \in Room /\ room.overrideUntil \in MaybeInstant
  BY DEF Room
<1>1. /\ a \in Updates /\ a.update \in TimelessKinds /\ b \in Updates /\ b.update \in TimelessKinds
      /\ c \in Updates /\ c.update \in TimelessKinds
      /\ back \in Updates /\ back.update \in TimelessKinds /\ old \in Updates /\ old.update \in TimelessKinds
      /\ JehaPush(None) \in Updates /\ JehaPush(None).update \in TimelessKinds
  BY <1>0, AskedUpdates DEF MaybeInstant, MaybeLevel, Sources
<1>2. PICK y \in Room : y = ApplyUpdate(room, a, 0)
  BY <1>0, <1>1, ApplyUpdateType
<1>3. PICK z \in Room : z = ApplyUpdate(y, b, 0)
  BY <1>1, ApplyUpdateType
<1>4. PICK g \in Room : g = ApplyUpdate(z, c, 0)
  BY <1>1, ApplyUpdateType
<1>5. Face(g, TRUE, "Manual", until, TRUE, None)
  <2>1. Face(y, room.lightsOn, room.source, room.overrideUntil, TRUE, None)
    BY <1>0, <1>2, FaceAsked DEF MaybeInstant
  <2>2. Face(z, TRUE, "Manual", y.overrideUntil, y.paused, y.pausedUntil)
    BY <1>3, FaceAsked DEF MaybeLevel, Sources
  <2>3. Face(g, z.lightsOn, z.source, until, z.paused, z.pausedUntil)
    BY <1>4, FaceAsked
  <2> QED BY <2>1, <2>2, <2>3 DEF Face
<1>6. PICK o \in Room : o = ApplyUpdate(g, JehaPush(None), 0)
  BY <1>1, ApplyUpdateType
<1>7. Alike(o, g)
  BY <1>6, FaceAsked DEF MaybeLevel
<1>8. goal \in Goal /\ Kept(goal, o, i, late) /\ Asks("ON", "user", goal)
  BY <1>5, <1>7 DEF Goal, Kept, Asks, Face, Alike
<1>9. PICK d \in Room : d = ApplyUpdate(g, back, 0)
  BY <1>1, ApplyUpdateType
<1>10. PICK e \in Room : e = ApplyUpdate(d, old, 0)
  BY <1>1, ApplyUpdateType
<1>11. Alike(e, room)
  <2>1. d.overrideUntil = room.overrideUntil
    <3>1. Face(d, g.lightsOn, g.source, room.overrideUntil, g.paused, g.pausedUntil)
      BY <1>0, <1>9, FaceAsked
    <3> QED BY <3>1 DEF Face
  <2> QED BY <1>0, <1>10, <2>1, FaceAsked
<1>12. Kept(w, e, i, late)
  <2>1. Alike(room, e)
    BY <1>11 DEF Alike, Face
  <2> QED BY <2>1, KeptFace
<1>13. /\ PublishFor(r, p) /\ p.goal = goal /\ p.power = "ON" /\ p.level = "user"
       /\ p.ok = ok /\ p.err = err
  BY DEF PublishFor, Publish
<1>14. Leads(ok, SendsOf(r), g, o)
  <2> DEFINE u == JehaPush(None)
  <2>1. PICK x \in Room : x = ApplyUpdate(o, u, 0)
    BY <1>1, ApplyUpdateType
  <2>2. PICK v \in Room : v = ApplyUpdate(x, u, 0)
    BY <1>1, ApplyUpdateType
  <2>3. u \in Updates /\ u.update \in TimelessKinds /\ o = ApplyUpdate(g, u, 0)
    BY <1>1, <1>6
  <2> HIDE DEF u
  <2>4. Leads(<<Send(r, u)>>, SendsOf(r), g, o)
    BY <2>1, <2>2, <2>3, LeadsShort
  <2> QED BY <2>4 DEF u
<1>21. goal.op # "on"
  OBVIOUS
<1>22. \A k \in 1..Len(ok) : ok[k].update.update # "RestoreLights"
  <2>1. Send(r, JehaPush(None)).update.update # "RestoreLights"
    BY AskedKinds
  <2> QED BY <2>1, ShortSays
<1> HIDE DEF p, goal, ok, a, b, c, back, old, room
<1>23. \A k \in 1..Len(err) : err[k].update.update # "JehaPush"
  <2>1. Send(r, back).update.update # "JehaPush" /\ Send(r, old).update.update # "JehaPush"
    BY AskedKinds DEF back, old
  <2> QED BY <2>1, ShortSays
<1>15. Leads(<<Send(r, a), Send(r, b), Send(r, c)>>, SendsOf(r), room, g)
  BY <1>0, <1>1, <1>2, <1>3, <1>4, LeadsShort
<1>16. Leads(err, SendsOf(r), g, e)
  <2>1. PICK v \in Room : v = ApplyUpdate(e, old, 0)
    BY <1>1, ApplyUpdateType
  <2>2. Leads(<<Send(r, back), Send(r, old)>>, SendsOf(r), g, e)
    BY <1>1, <1>9, <1>10, <2>1, LeadsShort
  <2> QED BY <2>2
<1> HIDE DEF err
<1>17. Offers(p, r, g, w, i, late)
  BY <1>8, <1>12, <1>13, <1>14, <1>16, <1>21, <1>22, <1>23 DEF Offers
<1> DEFINE sends == <<Send(r, a), Send(r, b), Send(r, c)>>
<1>18. sends \in Seq(SendsOf(r)) /\ Append(sends, p) = <<Send(r, a), Send(r, b), Send(r, c), p>>
  <2>1. \A u \in Updates : Send(r, u) \in SendsOf(r)
    BY DEF Send, SendsOf
  <2>2. PICK s1 \in SendsOf(r), s2 \in SendsOf(r), s3 \in SendsOf(r) :
          s1 = Send(r, a) /\ s2 = Send(r, b) /\ s3 = Send(r, c)
    BY <1>1, <2>1
  <2>3. <<s1, s2, s3>> \in Seq(SendsOf(r))
    <3> HIDE DEF SendsOf
    <3> QED OBVIOUS
  <2>4. Append(<<s1, s2, s3>>, p) = <<s1, s2, s3, p>>
    BY OneMore
  <2> QED BY <2>2, <2>3, <2>4
<1> HIDE DEF sends
<1>19. Promise(r, room, queue, Append(sends, p), TRUE, w, i, late)
  BY <1>0, <1>13, <1>15, <1>17, <1>18, PromiseMade DEF sends
<1>20. Promise(r, room, queue, <<Send(r, a), Send(r, b), Send(r, c), p>>, TRUE, w, i, late)
  BY <1>18, <1>19
<1> QED BY <1>20 DEF RecallRequest, p, ok, goal, a, b, c, back, old, room, err

\* pause_circadian and snooze_circadian.
LEMMA PausePromises ==
  ASSUME NEW r \in Rooms, NEW record \in Room, NEW N, NEW queue \in Seq(N), NoneIn(queue, CommandsOf(r)),
         NEW i, NEW late, NEW until \in MaybeInstant
  PROVE  /\ Promise(r, record, queue, PauseRequest(r), TRUE, [op |-> "pause", until |-> None], i, late)
         /\ Promise(r, record, queue, SnoozeRequest(r, until), TRUE, [op |-> "snooze", until |-> until], i, late)
<1>1. ASSUME NEW till \in MaybeInstant, NEW w, NEW u, u = CircadianPause(TRUE, till),
             \A room \in Room : room.paused /\ room.pausedUntil = till => Kept(w, room, i, late)
      PROVE  Promise(r, record, queue, <<Send(r, u)>>, TRUE, w, i, late)
  <2>1. u \in Updates /\ u.update \in TimelessKinds
    BY <1>1, AskedUpdates
  <2>2. PICK g \in Room : g = ApplyUpdate(record, u, 0)
    BY <2>1, ApplyUpdateType
  <2>3. PICK x \in Room : x = ApplyUpdate(g, u, 0)
    BY <2>1, ApplyUpdateType
  <2>4. PICK y \in Room : y = ApplyUpdate(x, u, 0)
    BY <2>1, ApplyUpdateType
  <2>5. Face(g, record.lightsOn, record.source, record.overrideUntil, TRUE, till)
    BY <1>1, <2>2, FaceAsked
  <2>6. Kept(w, g, i, late)
    BY <1>1, <2>5 DEF Face
  <2>7. Leads(<<Send(r, u)>>, SendsOf(r), record, g)
    BY <2>1, <2>2, <2>3, <2>4, LeadsShort
  <2>8. <<Send(r, u)>> \in Seq(SendsOf(r))
    <3>1. PICK s \in SendsOf(r) : s = Send(r, u)
      BY <2>1 DEF Send, SendsOf
    <3>2. <<s>> \in Seq(SendsOf(r))
      <4> HIDE DEF SendsOf
      <4> QED OBVIOUS
    <3> QED BY <3>1, <3>2
  <2> QED BY <2>6, <2>7, <2>8, PromiseMade
<1>2. Promise(r, record, queue, <<Send(r, CircadianPause(TRUE, None))>>, TRUE,
              [op |-> "pause", until |-> None], i, late)
  <2>1. \A room \in Room : room.paused /\ room.pausedUntil = None => Kept([op |-> "pause", until |-> None], room, i, late)
    BY DEF Kept
  <2> QED BY <1>1, <2>1 DEF MaybeInstant
<1>3. Promise(r, record, queue, <<Send(r, CircadianPause(TRUE, until))>>, TRUE,
              [op |-> "snooze", until |-> until], i, late)
  <2>1. \A room \in Room : room.paused /\ room.pausedUntil = until => Kept([op |-> "snooze", until |-> until], room, i, late)
    BY DEF Kept
  <2> QED BY <1>1, <2>1
<1> QED BY <1>2, <1>3 DEF PauseRequest, SnoozeRequest

\* resume_circadian.
LEMMA ResumePromises ==
  ASSUME NEW r \in Rooms, NEW record \in Room, NEW N, NEW queue \in Seq(N), NoneIn(queue, CommandsOf(r)),
         NEW i, NEW late
  PROVE  Promise(r, record, queue, ResumeRequest(r), TRUE, [op |-> "resume", until |-> None], i, late)
<1> DEFINE a == CircadianPause(FALSE, None)
           b == LightsOn(None, "Circadian")
           w == [op |-> "resume", until |-> None]
<1>1. a \in Updates /\ a.update \in TimelessKinds /\ b \in Updates /\ b.update \in TimelessKinds
  BY AskedUpdates DEF MaybeInstant, MaybeLevel, Sources
<1>2. PICK y \in Room : y = ApplyUpdate(record, a, 0)
  BY <1>1, ApplyUpdateType
<1>3. PICK z \in Room : z = ApplyUpdate(y, b, 0)
  BY <1>1, ApplyUpdateType
<1>4. PICK v \in Room : v = ApplyUpdate(z, b, 0)
  BY <1>1, ApplyUpdateType
<1>5. z.paused = FALSE /\ z.source = "Circadian"
  <2>1. Face(y, record.lightsOn, record.source, record.overrideUntil, FALSE, None)
    BY <1>2, FaceAsked DEF MaybeInstant
  <2>2. Face(z, TRUE, "Circadian", y.overrideUntil, y.paused, y.pausedUntil)
    BY <1>3, FaceAsked DEF MaybeLevel, Sources
  <2> QED BY <2>1, <2>2 DEF Face
<1>6. Kept(w, z, i, late)
  BY <1>5 DEF Kept
<1> HIDE DEF a, b, w
<1>7. Leads(<<Send(r, a), Send(r, b)>>, SendsOf(r), record, z)
  BY <1>1, <1>2, <1>3, <1>4, LeadsShort
<1>8. <<Send(r, a), Send(r, b)>> \in Seq(SendsOf(r))
  <2>1. PICK s1 \in SendsOf(r), s2 \in SendsOf(r) : s1 = Send(r, a) /\ s2 = Send(r, b)
    BY <1>1 DEF Send, SendsOf
  <2>2. <<s1, s2>> \in Seq(SendsOf(r))
    <3> HIDE DEF SendsOf
    <3> QED OBVIOUS
  <2> QED BY <2>1, <2>2
<1>9. Promise(r, record, queue, <<Send(r, a), Send(r, b)>>, TRUE, w, i, late)
  BY <1>6, <1>7, <1>8, PromiseMade
<1> QED BY <1>9 DEF ResumeRequest, a, b, w

-----------------------------------------------------------------------------
(* What a step leaves of what a room keeps.                                 *)

\* Requests, the engine and the loop are tasks, and there are no others.
LEMMA WhoIsWho ==
  /\ Requests \subseteq Tasks /\ "circadian" \in Tasks /\ "mqtt" \in Tasks
  /\ \A t \in Tasks : t \in Requests \/ t \in {"circadian", "mqtt"}
  /\ "circadian" \notin Requests /\ "mqtt" \notin Requests
BY ControlAssumption DEF ControlAssumption

\* A step elsewhere.
LEMMA HeededOn ==
  ASSUME QueuesOK, QueuesOK', NEW r \in Rooms, Heeded(r), \A t \in Tasks : Leaves(t, r),
         rooms'[r] = rooms[r], wish'[r] = wish[r], now' = now, EchoOfOthers' = EchoOfOthers,
         r \in cycle'.left => r \in cycle.left /\ cycle'.view[r] = cycle.view[r],
         Returned(r)' => Returned(r), Reported(r)' => Reported(r) \/ EchoOfOthers, Quiet(r)' <=> Quiet(r), Shown(r)',
         \A q \in Requests : Busy(q, r) /\ Promised(q, r) => Promised(q, r)'
  PROVE  Heeded(r)'
<1>1. \A t \in Tasks : Busy(t, r)' <=> Busy(t, r)
  BY BusyOn
<1>2. RequestBusy(r)' <=> RequestBusy(r)
  BY <1>1, WhoIsWho DEF RequestBusy
<1>3. OneAttends(r)'
  BY <1>1 DEF Heeded, OneAttends, Attends
<1>4. ReturnKnown(r)'
  BY <1>2 DEF Heeded, ReturnKnown
<1>5. WordKept(r)'
  <2>1. \A q \in Requests : Busy(q, r)' => Promised(q, r)'
    BY <1>1, WhoIsWho DEF Heeded, WordKept
  <2>2. ~RequestBusy(r) => Kept(wish[r], rooms[r], now, EchoOfOthers)
    BY DEF Heeded, WordKept
  <2>3. ~RequestBusy(r)' => Kept(wish'[r], rooms'[r], now', EchoOfOthers')
    BY <1>2, <2>2
  <2> QED BY <2>1, <2>3 DEF WordKept
<1>6. Careful(r)'
  <2>1. /\ r \in cycle.left =>
             cycle.view[r].lightsOn /\ Kept(wish[r], cycle.view[r], now, EchoOfOthers)
        /\ \A t \in {"circadian", "mqtt"} : \A u \in Pending(t, r) : Harmless(wish[r], u, now, EchoOfOthers)
        /\ \A u \in Pending("mqtt", r) : u.update \in {"LightsOn", "LightsOff", "ExternalChange"}
        /\ \A p \in Goings("circadian", r) : p \in EnginePushes(r) /\ MayPush(wish[r], now)
    BY DEF Heeded, Careful
  <2>2. \A t \in {"circadian", "mqtt"} : Pending(t, r)' = Pending(t, r) /\ Goings(t, r)' = Goings(t, r)
    BY WhoIsWho DEF Leaves
  <2>3. r \in cycle'.left =>
          cycle'.view[r].lightsOn /\ Kept(wish'[r], cycle'.view[r], now', EchoOfOthers')
    BY <2>1
  <2>4. \A t \in {"circadian", "mqtt"} : \A u \in Pending(t, r)' : Harmless(wish'[r], u, now', EchoOfOthers')
    BY <2>1, <2>2
  <2>5. \A u \in Pending("mqtt", r)' : u.update \in {"LightsOn", "LightsOff", "ExternalChange"}
    BY <2>1, <2>2
  <2>6. \A p \in Goings("circadian", r)' : p \in EnginePushes(r) /\ MayPush(wish'[r], now')
    BY <2>1, <2>2
  <2> QED BY <2>3, <2>4, <2>5, <2>6 DEF Careful, EnginePushes
<1>7. Echoes(r)'
  <2>1. \A S : PushPending(r, S)' <=> PushPending(r, S)
    BY DEF PushPending, Leaves
  <2>2. Echoes(r)
    BY DEF Heeded
  <2>3. \A t \in Tasks : \A u \in Pending(t, r)' : u.update = "RestoreLights" => Quiet(r)' /\ Goings(t, r)' = {}
    BY <2>2 DEF Leaves, Echoes
  <2>4. \A t \in Tasks : \A u \in Pending(t, r)' : u \in Pending(t, r)
    BY DEF Leaves
  <2> QED BY <2>1, <2>2, <2>3, <2>4 DEF Echoes
<1> QED BY <1>3, <1>4, <1>5, <1>6, <1>7 DEF Heeded

\* What is on its way elsewhere, and what has been reported.
LEMMA FitsOn ==
  ASSUME NEW r \in Rooms, NEW w, NEW i, NEW light, NEW queue \in Seq(Outgoing), NEW told \in Seq(Report),
         Fits(r, w, i, light, queue, told), NEW longer, NEW later,
         \/ longer = queue
         \/ \E m \in Outgoing : longer = Append(queue, m) /\ m.room # r
         \/ queue # <<>> /\ longer = Tail(queue) /\ Head(queue).room # r,
         \/ later = told
         \/ \E m \in Report : later = Append(told, m) /\ m.room # r
         \/ told # <<>> /\ later = Tail(told)
  PROVE  Fits(r, w, i, light, longer, later)
<1>1. \A k \in 1..Len(later) : later[k].room = r => \E l \in 1..Len(told) : told[l] = later[k]
  <2>1. \A e : Has(later, e) => Has(told, e) \/ e.room # r
    <3>1. CASE later = told
      BY <3>1
    <3>2. ASSUME NEW m \in Report, later = Append(told, m), m.room # r
          PROVE  \A e : Has(later, e) => Has(told, e) \/ e.room # r
      BY <3>2, HasSeq
    <3>3. CASE told # <<>> /\ later = Tail(told)
      BY <3>3, HasSeq
    <3> QED BY <3>1, <3>2, <3>3
  <2> QED BY <2>1 DEF Has
<1>2. /\ \A k \in 1..Len(longer) : longer[k].room = r => \E l \in 1..Len(queue) : queue[l] = longer[k]
      /\ \A l \in 1..Len(queue) : queue[l].room = r => \E k \in 1..Len(longer) : longer[k] = queue[l]
  <2>1. \A e : e.room = r => (Has(longer, e) <=> Has(queue, e))
    <3>1. CASE longer = queue
      BY <3>1
    <3>2. ASSUME NEW m \in Outgoing, longer = Append(queue, m), m.room # r
          PROVE  \A e : e.room = r => (Has(longer, e) <=> Has(queue, e))
      BY <3>2, HasSeq
    <3>3. CASE queue # <<>> /\ longer = Tail(queue) /\ Head(queue).room # r
      BY <3>3, HasSeq
    <3> QED BY <3>1, <3>2, <3>3
  <2> QED BY <2>1 DEF Has
<1>3. ASSUME NEW l \in 1..Len(queue), queue[l].room = r, \A j \in 1..(l - 1) : queue[j].room # r
      PROVE  \E k \in 1..Len(longer) : longer[k] = queue[l] /\ \A j \in 1..(k - 1) : longer[j].room # r
  <2>1. CASE longer = queue
    BY <1>3, <2>1
  <2>2. CASE \E m \in Outgoing : longer = Append(queue, m) /\ m.room # r
    <3>1. PICK m \in Outgoing : longer = Append(queue, m)
      BY <2>2
    <3>2. /\ Len(queue) \in Nat /\ Len(longer) = Len(queue) + 1
          /\ \A j \in 1..Len(queue) : longer[j] = queue[j]
      BY <3>1, AppendProperties, LenProperties
    <3>3. l \in 1..Len(longer) /\ \A j \in 1..(l - 1) : j \in 1..Len(queue)
      BY <3>2
    <3> QED BY <1>3, <3>2, <3>3
  <2>3. CASE queue # <<>> /\ longer = Tail(queue) /\ Head(queue).room # r
    <3>1. /\ Len(longer) \in Nat /\ Len(queue) = Len(longer) + 1 /\ Head(queue) = queue[1]
          /\ \A j \in 1..Len(longer) : longer[j] = queue[j + 1]
      BY <2>3, HeadTailProperties, LenProperties
    <3>2. l # 1
      BY <1>3, <2>3, <3>1
    <3>3. l - 1 \in 1..Len(longer) /\ (l - 1) + 1 = l
          /\ \A j \in 1..((l - 1) - 1) : j \in 1..Len(longer) /\ j + 1 \in 1..(l - 1)
      BY <3>1, <3>2
    <3> QED BY <1>3, <3>1, <3>3
  <2> QED BY <2>1, <2>2, <2>3
<1>4. w # None /\ w.op = "on" =>
        \/ light.on
        \/ \E k \in 1..Len(longer) : /\ longer[k].room = r /\ longer[k].power = "ON"
                                     /\ \A l \in 1..(k - 1) : longer[l].room # r
  <2>1. SUFFICES ASSUME w # None, w.op = "on", ~light.on
                 PROVE  \E k \in 1..Len(longer) : /\ longer[k].room = r /\ longer[k].power = "ON"
                                                  /\ \A l \in 1..(k - 1) : longer[l].room # r
    OBVIOUS
  <2>2. PICK k \in 1..Len(queue) : /\ queue[k].room = r /\ queue[k].power = "ON"
                                   /\ \A l \in 1..(k - 1) : queue[l].room # r
    BY <2>1 DEF Fits
  <2> QED BY <1>3, <2>2
<1>5. (\E k \in 1..Len(queue) : queue[k].room = r) => \E k \in 1..Len(longer) : longer[k].room = r
  BY <1>2
<1>6. \A k \in 1..Len(later) : later[k].room = r => \E l \in 1..Len(told) : told[l].room = r /\ told[l] = later[k]
  BY <1>1
<1>7. \A k \in 1..Len(longer) : longer[k].room = r => \E l \in 1..Len(queue) : queue[l].room = r /\ queue[l] = longer[k]
  BY <1>2
<1> SUFFICES ASSUME w # None PROVE Fits(r, w, i, light, longer, later)
  BY DEF Fits
<1>8. CASE w.op = "on"
  <2>1. \A k \in 1..Len(later) : later[k].room = r => later[k].on
    BY <1>6, <1>8 DEF Fits
  <2>2. \A k \in 1..Len(longer) : longer[k].room = r => longer[k].power \in {"ON", "keep"}
    BY <1>7, <1>8 DEF Fits
  <2> QED BY <1>4, <1>8, <2>1, <2>2 DEF Fits
<1>9. CASE w.op = "scene" \/ w.op = "set"
  <2> SUFFICES ASSUME w.op = "scene" \/ (w.op = "set" /\ ~Over(w.until, i))
               PROVE  Fits(r, w, i, light, longer, later)
    BY <1>9 DEF Fits
  <2>1. \A k \in 1..Len(later) : later[k].room = r => later[k].on
    BY <1>6 DEF Fits
  <2>2. \A k \in 1..Len(longer) : longer[k].room = r => longer[k].power = "ON" /\ longer[k].level = "user"
    BY <1>7 DEF Fits
  <2>3. (light.on /\ light.level = "user") \/ \E k \in 1..Len(longer) : longer[k].room = r
    BY <1>5 DEF Fits
  <2> QED BY <1>9, <2>1, <2>2, <2>3 DEF Fits
<1>10. CASE w.op = "off"
  <2>1. \A k \in 1..Len(later) : later[k].room = r => ~later[k].on
    BY <1>6, <1>10 DEF Fits
  <2>2. \A k \in 1..Len(longer) : longer[k].room = r => longer[k].power = "OFF"
    BY <1>7, <1>10 DEF Fits
  <2> QED BY <1>10, <2>1, <2>2 DEF Fits
<1>11. CASE w.op = "pause" \/ w.op = "snooze"
  <2> SUFFICES ASSUME w.op = "pause" \/ (w.op = "snooze" /\ ~Over(w.until, i))
               PROVE  Fits(r, w, i, light, longer, later)
    BY <1>11 DEF Fits
  <2>1. \A k \in 1..Len(told) : told[k].room # r
    BY DEF Fits
  <2>2. \A k \in 1..Len(queue) : queue[k].room # r
    BY DEF Fits
  <2>3. /\ \A k \in 1..Len(later) : later[k].room # r
        /\ \A k \in 1..Len(longer) : longer[k].room # r
    BY <1>6, <1>7, <2>1, <2>2
  <2> QED BY <1>11, <2>3 DEF Fits
<1>12. CASE w.op = "resume"
  <2>1. \A k \in 1..Len(later) : later[k].room = r => later[k].level = "circadian"
    BY <1>6, <1>12 DEF Fits
  <2>2. \A k \in 1..Len(longer) : longer[k].room = r => longer[k].level = "circadian"
    BY <1>7, <1>12 DEF Fits
  <2> QED BY <1>12, <2>1, <2>2 DEF Fits
<1> QED BY <1>8, <1>9, <1>10, <1>11, <1>12 DEF Fits

-----------------------------------------------------------------------------
(* The tasks say what they have to say.                                     *)

\* Lights that come back are only announced by their coming back.
LEMMA BroadcastReturns ==
  ASSUME QueuesOK, NEW e \in Events, Broadcast(e), NEW r \in Rooms, e # [event |-> "DeviceOnline", room |-> r]
  PROVE  Returned(r)' => Returned(r)
<1> DEFINE old == inbox["circadian"]
<1>1. "circadian" \in Subscribers /\ old \in Seq(Events)
  BY EngineAssumption DEF EngineAssumption, QueuesOK
<1>2. inbox'["circadian"] \in {old, Append(old, e), Append(Tail(old), e)} /\ (Len(old) < BusCap \/ old # <<>>)
  BY <1>1, DaemonAssumption DEF Broadcast, DaemonAssumption
<1>3. \A x : Has(inbox'["circadian"], x) => Has(old, x) \/ x = e
  <2> HIDE DEF old
  <2>1. CASE inbox'["circadian"] = old
    BY <2>1
  <2>2. CASE inbox'["circadian"] = Append(old, e)
    BY <1>1, <2>2, HasSeq
  <2>3. CASE inbox'["circadian"] = Append(Tail(old), e) /\ old # <<>>
    <3> DEFINE rest == Tail(old)
    <3>1. rest \in Seq(Events)
      BY <1>1, <2>3, HeadTailProperties
    <3>2. \A x : Has(old, x) <=> x = Head(old) \/ Has(rest, x)
      BY <1>1, <2>3, HasSeq
    <3> HIDE DEF rest
    <3>3. \A x : Has(Append(rest, e), x) <=> x = e \/ Has(rest, x)
      BY <3>1, HasSeq
    <3> QED BY <2>3, <3>2, <3>3 DEF rest
  <2>4. CASE inbox'["circadian"] = Append(Tail(old), e) /\ old = <<>>
    <3>1. Tail(<<>>) = <<>>
      OBVIOUS
    <3>2. inbox'["circadian"] = Append(old, e)
      BY <2>4, <3>1
    <3> QED BY <1>1, <3>2, HasSeq
  <2> QED BY <1>2, <2>1, <2>2, <2>3, <2>4
<1> QED BY <1>3 DEF Returned, Has

LEMMA SendHeeds ==
  ASSUME TypeOK, TypeOK', CoursesOK, HonourInv, NEW t \in Tasks, SendStep(t), UNCHANGED <<cycle, raced, spent>>
  PROVE  HonourInv'
<1>0. QueuesOK /\ QueuesOK' /\ todo \in [Tasks -> Seq(Steps)] /\ rx \in Seq(Commands)
  BY TypeParts DEF TypeOK, QueuesOK
<1>1. UNCHANGED <<rooms, inbox, outq, bulb, link, reports, now, wish>>
  BY DEF SendStep, shared, world
<1>2. EchoOfOthers' = EchoOfOthers
  BY DEF EchoOfOthers
<1> DEFINE s == Head(todo[t])
<1>3. /\ todo[t] # <<>> /\ todo' = [todo EXCEPT ![t] = Tail(todo[t])] /\ s.do # "publish" /\ todo[t] \in Seq(Steps)
  BY <1>0, SendCommand
<1>4. PICK c \in Commands :
        /\ rx' = Append(rx, c)
        /\ \A r \in Rooms : /\ s \in SendsOf(r) <=> c \in CommandsOf(r)
                            /\ c \in CommandsOf(r) => c.update = s.update
  BY <1>0, SendCommand
<1>5. ASSUME NEW r \in Rooms, ~raced[r]
      PROVE  Heeded(r)'
  <2>1. Heeded(r)
    BY <1>5 DEF HonourInv
  <2>2. \A u \in Tasks : Leaves(u, r)
    BY <1>0, SendLeaves
  <2>3. Quiet(r)' = Quiet(r)
    BY <1>1 DEF Quiet, Reported, Outstanding
  <2>4. ASSUME NEW q \in Requests, Busy(q, r), Promised(q, r)
        PROVE  Promised(q, r)'
    <3>1. Promise(r, rooms[r], rx, todo[q], Quiet(r), wish[r], now, EchoOfOthers)
      BY <2>4 DEF Promised
    <3>2. Promise(r, rooms[r], rx', todo'[q], Quiet(r), wish[r], now, EchoOfOthers)
      <4>1. CASE q = t
        <5>1. Promise(r, rooms[r], Append(rx, c), Tail(todo[t]), Quiet(r), wish[r], now, EchoOfOthers)
          <6> DEFINE plan == todo[t]
                     record == rooms[r]
                     quiet == Quiet(r)
          <6>1. Promise(r, record, rx, plan, quiet, wish[r], now, EchoOfOthers) /\ s = Head(plan)
            BY <3>1, <4>1
          <6>2. plan \in Seq(Steps) /\ plan # <<>>
            BY <1>3
          <6> HIDE DEF plan, record, s, quiet
          <6>3. Promise(r, record, Append(rx, c), Tail(plan), quiet, wish[r], now, EchoOfOthers)
            BY <1>0, <1>3, <1>4, <6>1, <6>2, PromiseSays
          <6> QED BY <6>3 DEF plan, record, quiet
        <5>2. todo'[q] = Tail(todo[t])
          BY <1>0, <1>3, <4>1
        <5> QED BY <1>4, <5>1, <5>2
      <4>2. CASE q # t
        <5>1. c \notin CommandsOf(r)
          <6> SUFFICES ASSUME s \in SendsOf(r) PROVE FALSE
            BY <1>4
          <6>1. PICK u \in Updates : s = Send(r, u)
            BY DEF SendsOf, Send
          <6>2. Has(todo[t], s)
            BY <1>3, HasSeq
          <6>3. Busy(t, r)
            BY <1>0, <6>1, <6>2, BusyIs DEF Pending
          <6> QED BY <2>1, <2>4, <4>2, <6>3, WhoIsWho DEF Heeded, OneAttends, Attends
        <5>2. todo'[q] = todo[q]
          BY <1>0, <1>3, <4>2, WhoIsWho
        <5> DEFINE record == rooms[r]
                   quiet == Quiet(r)
        <5> HIDE DEF record, quiet
        <5>3. Promise(r, record, Append(rx, c), todo[q], quiet, wish[r], now, EchoOfOthers)
          BY <1>0, <3>1, <5>1, PromiseBeside DEF record, quiet
        <5> QED BY <1>4, <5>2, <5>3 DEF record, quiet
      <4> QED BY <4>1, <4>2
    <3> QED BY <1>1, <1>2, <2>3, <3>2 DEF Promised
  <2>5. /\ Returned(r)' => Returned(r)
        /\ Reported(r)' <=> Reported(r)
        /\ Shown(r)'
    BY <1>1, <2>1 DEF Returned, Reported, Shown, Heeded
  <2> QED BY <1>0, <1>1, <1>2, <2>1, <2>2, <2>3, <2>4, <2>5, HeededOn
<1> QED BY <1>1, <1>2, <1>5 DEF HonourInv

\* Nobody but the loop announces, and only the connection.
LEMMA AnnounceSays ==
  ASSUME TypeOK, ConnInv, NEW t \in Tasks, AnnounceStep(t)
  PROVE  t = "mqtt" /\ Head(todo[t]).event = MqttConnected
<1> DEFINE s == Head(todo[t])
<1>1. todo[t] # <<>> /\ s.do = "announce"
  BY DEF AnnounceStep, HeadIs
<1>2. ASSUME NEW M, todo[t] \in Seq(M), \A x \in M : x.do # "announce"
      PROVE  FALSE
  <2>1. s \in M
    BY <1>1, <1>2, HeadTailProperties
  <2> QED BY <1>1, <1>2, <2>1
<1>3. \A x \in StepsOver(Sends) : x.do # "announce"
  BY PublishFields DEF StepsOver, Sends
<1>4. \A x \in Sends : x.do # "announce"
  BY DEF Sends
<1>5. t = "mqtt"
  BY <1>2, <1>3 DEF ConnInv
<1>6. CASE todo["mqtt"] \in {<< Announce(MqttConnected), SendConnected(TRUE) >>}
  <2>1. \A x, y : Head(<<x, y>>) = x
    OBVIOUS
  <2>2. Head(todo[t]) = Announce(MqttConnected)
    BY <1>5, <1>6, <2>1
  <2> QED BY <1>5, <2>2 DEF Announce
<1>7. CASE todo["mqtt"] \in {<< SendConnected(TRUE) >>, << SendConnected(FALSE) >>}
  BY <1>1, <1>5, <1>7 DEF SendConnected
<1>8. CASE todo["mqtt"] \in Seq(Sends)
  BY <1>2, <1>4, <1>5, <1>8
<1> QED BY <1>5, <1>6, <1>7, <1>8 DEF ConnInv

LEMMA AnnounceHeeds ==
  ASSUME TypeOK, TypeOK', CoursesOK, ConnInv, HonourInv, NEW t \in Tasks, AnnounceStep(t),
         UNCHANGED <<cycle, raced, spent>>
  PROVE  HonourInv'
<1>0. QueuesOK /\ QueuesOK' /\ todo \in [Tasks -> Seq(Steps)]
  BY TypeParts DEF TypeOK, QueuesOK
<1>1. UNCHANGED <<rooms, rx, outq, bulb, link, reports, now, wish>>
  BY DEF AnnounceStep, shared, world
<1>2. EchoOfOthers' = EchoOfOthers
  BY DEF EchoOfOthers
<1>3. t = "mqtt" /\ Broadcast(MqttConnected)
  BY AnnounceSays DEF AnnounceStep
<1>4. \A q \in Requests : todo'[q] = todo[q]
  BY <1>0, <1>3, WhoIsWho DEF AnnounceStep, Continue
<1>5. ASSUME NEW r \in Rooms, ~raced[r]
      PROVE  Heeded(r)'
  <2>1. Heeded(r)
    BY <1>5 DEF HonourInv
  <2>2. \A u \in Tasks : Leaves(u, r)
    BY <1>0, AnnounceLeaves
  <2>3. (Quiet(r)' <=> Quiet(r)) /\ Quiet(r)' = Quiet(r) /\ (Reported(r)' <=> Reported(r)) /\ Shown(r)'
    BY <1>1, <2>1 DEF Quiet, Reported, Outstanding, Shown, Heeded
  <2>4. \A q \in Requests : Promised(q, r) => Promised(q, r)'
    BY <1>1, <1>2, <1>4, <2>3 DEF Promised
  <2>5. Returned(r)' => Returned(r)
    <3>1. MqttConnected \in Events /\ MqttConnected # [event |-> "DeviceOnline", room |-> r]
      BY DEF MqttConnected, Events
    <3> HIDE DEF MqttConnected
    <3> QED BY <1>0, <1>3, <3>1, BroadcastReturns
  <2> QED BY <1>0, <1>1, <1>2, <2>1, <2>2, <2>3, <2>4, <2>5, HeededOn
<1> QED BY <1>1, <1>2, <1>5 DEF HonourInv

-----------------------------------------------------------------------------
(* What goes out fits what was asked.                                       *)

\* What a request publishes to a room that nothing is on its way to or from.
LEMMA AskedFits ==
  ASSUME NEW r \in Rooms, NEW w \in Goal, NEW i, NEW light, NEW queue \in Seq(Outgoing), NEW told \in Seq(Report),
         \A k \in 1..Len(queue) : queue[k].room # r, \A k \in 1..Len(told) : told[k].room # r,
         NEW m \in Outgoing, m.room = r, Asks(m.power, m.level, w)
  PROVE  Fits(r, w, i, light, Append(queue, m), told)
<1> DEFINE longer == Append(queue, m)
           n == Len(queue) + 1
<1>1. /\ Len(queue) \in Nat /\ Len(longer) = n /\ longer[n] = m
      /\ \A k \in 1..Len(queue) : longer[k] = queue[k]
  BY AppendProperties, LenProperties
<1>2. /\ n \in 1..Len(longer) /\ \A l \in 1..(n - 1) : l \in 1..Len(queue) /\ longer[l] = queue[l]
      /\ \A k \in 1..Len(longer) : k = n \/ (k \in 1..Len(queue) /\ longer[k] = queue[k])
  BY <1>1
<1> HIDE DEF longer, n
<1>3. \A k \in 1..Len(longer) : longer[k].room = r => longer[k] = m
  BY <1>1, <1>2
<1>4. longer[n].room = r /\ longer[n] = m /\ \A l \in 1..(n - 1) : longer[l].room # r
  BY <1>1, <1>2
<1>5. CASE w.op = "on"
  <2>1. m.power = "ON"
    BY <1>5 DEF Asks
  <2> QED BY <1>2, <1>3, <1>4, <1>5, <2>1 DEF Fits, longer
<1>6. CASE w.op \in {"set", "scene"}
  <2>1. m.power = "ON" /\ m.level = "user"
    BY <1>6 DEF Asks
  <2>2. \A k \in 1..Len(longer) : longer[k].room = r => longer[k].power = "ON" /\ longer[k].level = "user"
    BY <1>3, <2>1
  <2>3. \E k \in 1..Len(longer) : longer[k].room = r
    BY <1>2, <1>4
  <2> QED BY <1>6, <2>2, <2>3 DEF Fits, longer
<1>7. CASE w.op = "off"
  <2>1. m.power = "OFF"
    BY <1>7 DEF Asks
  <2> QED BY <1>3, <1>7, <2>1 DEF Fits, longer
<1> QED BY <1>5, <1>6, <1>7 DEF Asks

\* What the engine publishes.
LEMMA PushedFits ==
  ASSUME NEW r \in Rooms, NEW w, NEW i, NEW light, NEW queue \in Seq(Outgoing), NEW told \in Seq(Report),
         Fits(r, w, i, light, queue, told), MayPush(w, i),
         NEW m \in Outgoing, m.room = r, m.power = "keep", m.level = "circadian"
  PROVE  Fits(r, w, i, light, Append(queue, m), told)
<1> DEFINE longer == Append(queue, m)
<1>1. /\ Len(queue) \in Nat /\ Len(longer) = Len(queue) + 1 /\ longer[Len(queue) + 1] = m
      /\ \A k \in 1..Len(queue) : longer[k] = queue[k]
  BY AppendProperties, LenProperties
<1>2. /\ \A k \in 1..Len(longer) : longer[k] = m \/ (k \in 1..Len(queue) /\ longer[k] = queue[k])
      /\ \A k \in 1..Len(queue) : /\ k \in 1..Len(longer) /\ longer[k] = queue[k]
                                  /\ \A l \in 1..(k - 1) : l \in 1..Len(queue) /\ longer[l] = queue[l]
  BY <1>1
<1> HIDE DEF longer
<1> SUFFICES ASSUME w # None PROVE Fits(r, w, i, light, longer, told)
  BY DEF Fits, longer
<1>3. CASE w.op = "on"
  <2>1. \A k \in 1..Len(longer) : longer[k].room = r => longer[k].power \in {"ON", "keep"}
    BY <1>2, <1>3 DEF Fits
  <2>2. \/ light.on
        \/ \E k \in 1..Len(queue) : /\ queue[k].room = r /\ queue[k].power = "ON"
                                    /\ \A l \in 1..(k - 1) : queue[l].room # r
    BY <1>3 DEF Fits
  <2>3. \/ light.on
        \/ \E k \in 1..Len(longer) : /\ longer[k].room = r /\ longer[k].power = "ON"
                                     /\ \A l \in 1..(k - 1) : longer[l].room # r
    BY <1>2, <2>2
  <2>4. \A k \in 1..Len(told) : told[k].room = r => told[k].on
    BY <1>3 DEF Fits
  <2> QED BY <1>3, <2>1, <2>3, <2>4 DEF Fits
<1>4. CASE w.op = "resume"
  <2>1. \A k \in 1..Len(longer) : longer[k].room = r => longer[k].level = "circadian"
    BY <1>2, <1>4 DEF Fits
  <2>2. \A k \in 1..Len(told) : told[k].room = r => told[k].level = "circadian"
    BY <1>4 DEF Fits
  <2> QED BY <1>4, <2>1, <2>2 DEF Fits
<1>5. CASE w.op \in {"set", "snooze"} /\ Over(w.until, i)
  BY <1>5 DEF Fits
<1> QED BY <1>3, <1>4, <1>5 DEF MayPush

\* What the lights make of the first of it.
LEMMA DeliveredFits ==
  ASSUME NEW r \in Rooms, NEW w, NEW i, NEW light \in Bulb, NEW queue \in Seq(Outgoing), queue # <<>>,
         NEW told \in Seq(Report), Fits(r, w, i, light, queue, told),
         NEW m, m = Head(queue), m.room = r, NEW lit \in BOOLEAN, NEW b, b = After(light, m.power, m.level, lit),
         NEW m2 \in Report, m2.on = b.on, m2.level = b.level, "user" \in Levels
  PROVE  Fits(r, w, i, b, Tail(queue), Append(told, m2))
<1> DEFINE rest == Tail(queue)
           later == Append(told, m2)
<1>1. /\ Len(rest) \in Nat /\ Len(queue) = Len(rest) + 1 /\ queue[1] = m
      /\ \A k \in 1..Len(rest) : rest[k] = queue[k + 1]
  BY HeadTailProperties, LenProperties
<1>2. /\ 1 \in 1..Len(queue)
      /\ \A k \in 1..Len(rest) : k + 1 \in 1..Len(queue) /\ rest[k] = queue[k + 1]
      /\ \A k \in 1..Len(queue) : k # 1 => 1 \in 1..(k - 1)
  BY <1>1
<1>3. /\ Len(told) \in Nat /\ Len(later) = Len(told) + 1 /\ later[Len(told) + 1] = m2
      /\ \A k \in 1..Len(told) : later[k] = told[k]
  BY AppendProperties, LenProperties
<1>4. \A k \in 1..Len(later) : later[k] = m2 \/ (k \in 1..Len(told) /\ later[k] = told[k])
  BY <1>3
<1>5. "circadian" # None /\ "user" # None
  BY DaemonAssumption, NoneIsNoLevel DEF DaemonAssumption, NoneIsNoLevel
<1>6. /\ b.on = CASE m.power = "ON" -> TRUE [] m.power = "OFF" -> FALSE [] OTHER -> light.on \/ lit
      /\ b.level = Or(m.level, light.level)
  BY DEF After
<1> HIDE DEF rest, later
<1> SUFFICES ASSUME w # None PROVE Fits(r, w, i, b, rest, later)
  BY DEF Fits, rest, later
<1>7. CASE w.op = "on"
  <2>1. m.power \in {"ON", "keep"}
    BY <1>1, <1>2, <1>7 DEF Fits
  <2>2. m.power = "ON" \/ light.on
    BY <1>1, <1>2, <1>7 DEF Fits
  <2>3. b.on
    BY <1>6, <2>1, <2>2 DEF Bulb
  <2>4. \A k \in 1..Len(rest) : rest[k].room = r => rest[k].power \in {"ON", "keep"}
    BY <1>2, <1>7 DEF Fits
  <2>5. \A k \in 1..Len(later) : later[k].room = r => later[k].on
    BY <1>4, <1>7, <2>3 DEF Fits
  <2> QED BY <1>7, <2>3, <2>4, <2>5 DEF Fits
<1>8. CASE w.op = "scene" \/ w.op = "set"
  <2> SUFFICES ASSUME w.op = "scene" \/ (w.op = "set" /\ ~Over(w.until, i))
               PROVE  Fits(r, w, i, b, rest, later)
    BY <1>8 DEF Fits
  <2>1. m.power = "ON" /\ m.level = "user"
    BY <1>1, <1>2 DEF Fits
  <2>2. b.on /\ b.level = "user"
    BY <1>5, <1>6, <2>1 DEF Or
  <2>3. \A k \in 1..Len(rest) : rest[k].room = r => rest[k].power = "ON" /\ rest[k].level = "user"
    BY <1>2 DEF Fits
  <2>4. \A k \in 1..Len(later) : later[k].room = r => later[k].on
    BY <1>4, <2>2 DEF Fits
  <2> QED BY <1>8, <2>2, <2>3, <2>4 DEF Fits
<1>9. CASE w.op = "off"
  <2>1. m.power = "OFF"
    BY <1>1, <1>2, <1>9 DEF Fits
  <2>2. ~b.on
    BY <1>6, <2>1
  <2>3. \A k \in 1..Len(rest) : rest[k].room = r => rest[k].power = "OFF"
    BY <1>2, <1>9 DEF Fits
  <2>4. \A k \in 1..Len(later) : later[k].room = r => ~later[k].on
    BY <1>4, <1>9, <2>2 DEF Fits
  <2> QED BY <1>9, <2>3, <2>4 DEF Fits
<1>10. CASE w.op = "pause" \/ w.op = "snooze"
  <2> SUFFICES ASSUME w.op = "pause" \/ (w.op = "snooze" /\ ~Over(w.until, i))
               PROVE  FALSE
    BY <1>10 DEF Fits
  <2> QED BY <1>1, <1>2 DEF Fits
<1>11. CASE w.op = "resume"
  <2>1. b.level = "circadian"
    <3>1. m.level = "circadian"
      BY <1>1, <1>2, <1>11 DEF Fits
    <3> QED BY <1>5, <1>6, <3>1 DEF Or
  <2>2. \A k \in 1..Len(rest) : rest[k].room = r => rest[k].level = "circadian"
    <3>1. \A k \in 1..Len(queue) : queue[k].room = r => queue[k].level = "circadian"
      BY <1>11 DEF Fits
    <3> QED BY <1>2, <3>1
  <2>3. \A k \in 1..Len(later) : later[k].room = r => later[k].level = "circadian"
    BY <1>4, <1>11, <2>1 DEF Fits
  <2> QED BY <1>11, <2>2, <2>3 DEF Fits
<1>12. CASE w.op \notin {"on", "set", "scene", "off", "pause", "snooze", "resume"}
  BY <1>12 DEF Fits
<1> QED BY <1>7, <1>8, <1>9, <1>10, <1>11, <1>12

-----------------------------------------------------------------------------
(* A publish.                                                               *)

\* When no task is busy with a room, nothing is left to say of it.
LEMMA NothingLeft ==
  ASSUME NEW r \in Rooms
  PROVE  /\ \A t \in Tasks : ~Busy(t, r) =>
              NoneIn(todo[t], SendsOf(r)) /\ \A k \in 1..Len(todo[t]) : ~PublishFor(r, todo[t][k])
         /\ (\A t \in Tasks : ~Busy(t, r)) => NoneIn(rx, CommandsOf(r))
         /\ \A t \in Tasks : ~Busy(t, r)' =>
              NoneIn(todo'[t], SendsOf(r)) /\ \A k \in 1..Len(todo'[t]) : ~PublishFor(r, todo'[t][k])
         /\ (\A t \in Tasks : ~Busy(t, r)') => NoneIn(rx', CommandsOf(r))
<1>1. /\ \A s \in SendsOf(r) : s.do = "send" /\ s.room = r
      /\ \A c \in CommandsOf(r) : c.from \in Tasks /\ "room" \in DOMAIN c /\ c.room = r
  BY DEF SendsOf, CommandsOf
<1>2. ASSUME NEW t \in Tasks, ~Busy(t, r)
      PROVE  NoneIn(todo[t], SendsOf(r)) /\ \A k \in 1..Len(todo[t]) : ~PublishFor(r, todo[t][k])
  BY <1>1, <1>2 DEF Busy, Working, NoneIn, PublishFor
<1>3. ASSUME NEW t \in Tasks, ~Busy(t, r)'
      PROVE  NoneIn(todo'[t], SendsOf(r)) /\ \A k \in 1..Len(todo'[t]) : ~PublishFor(r, todo'[t][k])
  BY <1>1, <1>3 DEF Busy, Working, NoneIn, PublishFor
<1>4. (\A t \in Tasks : ~Busy(t, r)) => NoneIn(rx, CommandsOf(r))
  BY <1>1 DEF Busy, Queued, NoneIn
<1>5. (\A t \in Tasks : ~Busy(t, r)') => NoneIn(rx', CommandsOf(r))
  BY <1>1 DEF Busy, Queued, NoneIn
<1> QED BY <1>2, <1>3, <1>4, <1>5

\* A request that has done its part leaves what was asked.
LEMMA WordEnds ==
  ASSUME QueuesOK', NEW r \in Rooms, NEW q \in Requests, Promised(q, r)', \A t \in Tasks : ~Busy(t, r)'
  PROVE  Kept(wish'[r], rooms'[r], now', EchoOfOthers')
<1>1. /\ NoneIn(rx', CommandsOf(r)) /\ NoneIn(todo'[q], SendsOf(r))
      /\ \A k \in 1..Len(todo'[q]) : ~PublishFor(r, todo'[q][k])
  BY NothingLeft, WhoIsWho
<1>2. rx' \in Seq(Commands) /\ todo'[q] \in Seq(Steps)
  BY WhoIsWho DEF QueuesOK
<1>3. \E quiet : Promise(r, rooms'[r], rx', todo'[q], quiet, wish'[r], now', EchoOfOthers')
  BY DEF Promised
<1> QED BY <1>1, <1>2, <1>3, PromiseEnds

\* A command reaches the lights, which report.
LEMMA Delivered ==
  ASSUME WorldOK, NEW m \in Outgoing, Deliver(m)
  PROVE  \E lit \in BOOLEAN, m2 \in Report : \E b :
           /\ b = After(bulb[m.room], m.power, m.level, lit)
           /\ bulb' = [bulb EXCEPT ![m.room] = b] /\ reports' = Append(reports, m2)
           /\ m2.room = m.room /\ m2.on = b.on /\ m2.level = b.level
           /\ bulb[m.room] \in Bulb /\ m.room \in Rooms
<1>1. m.room \in Rooms /\ m.level \in MaybeLevel /\ bulb[m.room] \in Bulb
  BY DEF Outgoing, WorldOK
<1>2. PICK lit \in BOOLEAN :
        LET b == After(bulb[m.room], m.power, m.level, lit)
        IN  /\ bulb' = [bulb EXCEPT ![m.room] = b]
            /\ reports' = Append(reports, [room |-> m.room, on |-> b.on, level |-> b.level])
  BY DEF Deliver
<1>3. PICK b : b = After(bulb[m.room], m.power, m.level, lit)
  OBVIOUS
<1>4. b.on \in BOOLEAN /\ b.level \in Levels
  <2>1. /\ b.on = CASE m.power = "ON" -> TRUE [] m.power = "OFF" -> FALSE [] OTHER -> bulb[m.room].on \/ lit
        /\ b.level = Or(m.level, bulb[m.room].level)
    BY <1>3 DEF After
  <2>2. bulb[m.room].on \in BOOLEAN /\ bulb[m.room].level \in Levels
    BY <1>1 DEF Bulb
  <2>3. b.level \in Levels
    BY <1>1, <2>1, <2>2, OrType DEF MaybeLevel
  <2> QED BY <2>1, <2>2, <2>3
<1>5. [room |-> m.room, on |-> b.on, level |-> b.level] \in Report
  BY <1>1, <1>4 DEF Report
<1> QED BY <1>1, <1>2, <1>3, <1>5

\* What a task leaves that publishes p and goes on with next.
Published(t, p, next) ==
  /\ p \in PublishSteps /\ p.room \in Rooms /\ t # "mqtt" /\ Busy(t, p.room)
  /\ todo[t] = <<p>> /\ todo' = [todo EXCEPT ![t] = next]
  /\ Goings(t, p.room) = {p} /\ Goings(t, p.room)' = {}
  /\ Pending(t, p.room)' = Pending(t, p.room) \union {u \in Updates : Has(next, Send(p.room, u))}
  /\ \A u \in Tasks, r \in Rooms : u # t \/ r # p.room => Leaves(u, r)
  /\ \A r \in Rooms : r # p.room => ~Working(t, r) /\ ~Working(t, r)'

LEMMA PublishLeaves ==
  ASSUME TypeOK, RecordInv, ConnInv, NEW t \in Tasks, HeadIs(t, "publish"), NEW p, p = Head(todo[t]),
         NEW next \in {p.ok, p.err}, Continue(t, next), UNCHANGED <<rx, cycle, spent>>
  PROVE  Published(t, p, next)
<1>0. QueuesOK /\ CoursesOK
  BY TypeParts DEF TypeOK, RecordInv
<1>1. /\ p \in Publishes(t, Unrecalled) /\ p.room \in Rooms /\ Working(t, p.room)
      /\ todo[t] = <<p>> /\ todo' = [todo EXCEPT ![t] = next]
      /\ next \in Seq(SendsFrom(t, Unrecalled, p.room))
  BY PublishTurn
<1>2. p \in PublishSteps /\ p.do = "publish"
  BY <1>1, PublishFields DEF Publishes
<1>3. t # "mqtt"
  <2> SUFFICES ASSUME t = "mqtt" PROVE FALSE
    OBVIOUS
  <2>1. todo[t] # <<>> /\ Head(todo[t]).do = "publish"
    BY DEF HeadIs
  <2>2. CASE todo["mqtt"] \in Seq(Sends)
    <3>1. p \in Sends
      BY <2>1, <2>2, HeadTailProperties
    <3> QED BY <1>2, <3>1 DEF Sends
  <2>3. CASE todo["mqtt"] \in {<< Announce(MqttConnected), SendConnected(TRUE) >>,
                               << SendConnected(TRUE) >>, << SendConnected(FALSE) >>}
    <3>1. \A x, y : Head(<<x, y>>) = x /\ Head(<<x>>) = x
      OBVIOUS
    <3>2. p \in {Announce(MqttConnected), SendConnected(TRUE), SendConnected(FALSE)}
      BY <2>3, <3>1
    <3> QED BY <1>2, <3>2 DEF Announce, SendConnected
  <2> QED BY <2>2, <2>3 DEF ConnInv
<1>4. \A e : Has(<<p>>, e) <=> e = p
  BY DEF Has
<1>5. \A r, u : Send(r, u) # p
  BY <1>2 DEF Send
<1>6. \A r \in Rooms : Goings(t, r) = IF r = p.room THEN {p} ELSE {}
  BY <1>1, <1>2, <1>4 DEF Goings
<1>7. \A r \in Rooms, u \in Updates : ~Has(todo[t], Send(r, u))
  BY <1>1, <1>4, <1>5
<1>8. \A r \in Rooms :
        /\ \A u \in Tasks : u # t => Leaves(u, r)
        /\ Pending(t, r)' = Pending(t, r) \union {u \in Updates : Has(next, Send(r, u))}
        /\ Goings(t, r)' = {x \in PublishSteps : x.room = r /\ Has(next, x)}
  BY <1>0, <1>1, <1>7, TakesUp
<1>9. \A e : Has(next, e) => e.do = "send" /\ e.room = p.room
  <2>1. \A e : Has(next, e) => e \in SendsFrom(t, Unrecalled, p.room)
    BY <1>1, HasSeq
  <2> QED BY <2>1 DEF SendsFrom
<1>10. \A r \in Rooms : Goings(t, r)' = {}
  BY <1>8, <1>9, PublishFields
<1>11. \A r \in Rooms : r # p.room => Leaves(t, r)
  <2>1. \A r, u : Send(r, u).room = r
    BY DEF Send
  <2>2. ASSUME NEW r \in Rooms, r # p.room
        PROVE  Leaves(t, r)
    <3>1. {u \in Updates : Has(next, Send(r, u))} = {}
      BY <1>9, <2>1, <2>2
    <3>2. Pending(t, r)' = Pending(t, r)
      BY <1>8, <3>1
    <3>3. Goings(t, r)' = Goings(t, r)
      BY <1>6, <1>10, <2>2
    <3> QED BY <3>2, <3>3 DEF Leaves
  <2> QED BY <2>2
<1>12. \A r \in Rooms : r # p.room => ~Working(t, r) /\ ~Working(t, r)'
  <2>1. todo'[t] = next
    BY <1>0, <1>1 DEF QueuesOK
  <2>2. \A k \in 1..Len(next) : next[k].room = p.room
    BY <1>9 DEF Has
  <2>3. \A k \in 1..Len(<<p>>) : <<p>>[k] = p
    BY <1>4 DEF Has
  <2> QED BY <1>1, <2>1, <2>2, <2>3 DEF Working
<1> QED BY <1>1, <1>2, <1>3, <1>6, <1>8, <1>10, <1>11, <1>12 DEF Busy, Published

\* Where a publish does not go.
LEMMA PublishedElsewhere ==
  ASSUME TypeOK, TypeOK', RecordInv, ConnInv, NEW t \in Tasks, HeadIs(t, "publish"), NEW p, p = Head(todo[t]),
         NEW next \in {p.ok, p.err}, Continue(t, next), UNCHANGED <<rooms, rx, inbox, now, cycle, spent>>,
         NEW r \in Rooms, r # p.room, Heeded(r), wish'[r] = wish[r], Shown(r)', Quiet(r)' = Quiet(r),
         Reported(r)' <=> Reported(r)
  PROVE  Heeded(r)'
<1>0. QueuesOK /\ QueuesOK'
  BY TypeParts DEF TypeOK
<1>1. /\ \A u \in Tasks : Leaves(u, r)
      /\ todo' = [todo EXCEPT ![t] = next] /\ ~Working(t, r) /\ ~Working(t, r)'
  <2>1. Published(t, p, next)
    BY PublishLeaves
  <2> QED BY <2>1 DEF Published, Leaves
<1>2. EchoOfOthers' = EchoOfOthers /\ (Returned(r)' => Returned(r))
  BY DEF EchoOfOthers, Returned
<1>3. ASSUME NEW q \in Requests, Promised(q, r)
      PROVE  Promised(q, r)'
  <2>1. Promise(r, rooms[r], rx, todo[q], Quiet(r), wish[r], now, EchoOfOthers)
    BY <1>3 DEF Promised
  <2>2. Promise(r, rooms[r], rx, todo'[q], Quiet(r), wish[r], now, EchoOfOthers)
    <3>1. CASE q = t
      <4> DEFINE plan == todo[t]
                 later == todo'[t]
                 quiet == Quiet(r)
      <4>1. plan \in Seq(Steps) /\ later \in Seq(Steps)
        BY <1>0 DEF QueuesOK
      <4>2. /\ NoneIn(plan, SendsOf(r)) /\ \A k \in 1..Len(plan) : ~PublishFor(r, plan[k])
            /\ NoneIn(later, SendsOf(r)) /\ \A k \in 1..Len(later) : ~PublishFor(r, later[k])
        <5>1. \A s \in SendsOf(r) : s.do = "send" /\ s.room = r
          BY DEF SendsOf
        <5> QED BY <1>1, <5>1 DEF Working, NoneIn, PublishFor
      <4>3. Promise(r, rooms[r], rx, plan, quiet, wish[r], now, EchoOfOthers)
        BY <2>1, <3>1
      <4> HIDE DEF plan, later, quiet
      <4>4. Promise(r, rooms[r], rx, later, quiet, wish[r], now, EchoOfOthers)
        BY <4>1, <4>2, <4>3, PromiseElsewhere
      <4> QED BY <3>1, <4>4 DEF later, quiet
    <3>2. CASE q # t
      <4>1. todo'[q] = todo[q]
        BY <1>0, <1>1, <3>2, WhoIsWho DEF QueuesOK
      <4> QED BY <2>1, <4>1
    <3> QED BY <3>1, <3>2
  <2> QED BY <1>2, <2>2 DEF Promised
<1> QED BY <1>0, <1>1, <1>2, <1>3, HeededOn

\* A request has published.
LEMMA RequestPublished ==
  ASSUME TypeOK, TypeOK', RecordInv, ConnInv, NEW t \in Requests, HeadIs(t, "publish"), NEW p, p = Head(todo[t]),
         NEW next \in {p.ok, p.err}, Continue(t, next), UNCHANGED <<rooms, rx, inbox, now, cycle, spent>>,
         NEW r \in Rooms, r = p.room, Heeded(r), Shown(r)',
         \/ next = p.ok /\ wish'[r] = p.goal
         \/ next = p.err /\ wish'[r] = wish[r] /\ Quiet(r)' = Quiet(r) /\ EchoOfOthers
  PROVE  Heeded(r)'
<1>0. QueuesOK /\ QueuesOK' /\ t \in Tasks
  BY TypeParts, WhoIsWho DEF TypeOK
<1>1. /\ p \in PublishSteps /\ Busy(t, r)
      /\ todo[t] = <<p>> /\ todo' = [todo EXCEPT ![t] = next]
      /\ Goings(t, r) = {p} /\ Goings(t, r)' = {}
      /\ Pending(t, r)' = Pending(t, r) \union {u \in Updates : Has(next, Send(r, u))}
      /\ \A u \in Tasks : u # t => Leaves(u, r)
  <2>1. Published(t, p, next)
    BY <1>0, PublishLeaves
  <2> QED BY <2>1 DEF Published
<1>2. PublishFor(r, p) /\ p.ok \in Seq(SimpleSteps) /\ p.err \in Seq(SimpleSteps)
  BY <1>1, PublishFields DEF PublishFor
<1>3. Promise(r, rooms[r], rx, <<p>>, Quiet(r), wish[r], now, EchoOfOthers)
  BY <1>1 DEF Heeded, WordKept, Promised
<1>4. /\ Quiet(r) /\ p.goal \in Goal /\ Asks(p.power, p.level, p.goal)
      /\ \A k \in 1..Len(p.err) : p.err[k].update.update # "JehaPush"
      /\ \A k \in 1..Len(p.ok) : p.ok[k].update.update # "RestoreLights"
      /\ p.goal.op = "on" => \E k \in 1..Len(p.ok) : p.ok[k] = Send(r, JehaPush(None))
      /\ Promise(r, rooms[r], rx, p.ok, Quiet(r)', p.goal, now, EchoOfOthers)
      /\ Promise(r, rooms[r], rx, p.err, Quiet(r)', wish[r], now, EchoOfOthers)
  <2>1. \A k \in 1..Len(p.ok) : ~PublishFor(r, p.ok[k])
    BY <1>2 DEF PublishFor, SimpleSteps
  <2>2. \A k \in 1..Len(p.err) : ~PublishFor(r, p.err[k])
    BY <1>2 DEF PublishFor, SimpleSteps
  <2>5. PICK quiet, still, record, w, late :
          /\ quiet = Quiet(r) /\ still = Quiet(r)' /\ record = rooms[r] /\ w = wish[r] /\ late = EchoOfOthers
    OBVIOUS
  <2>3. Promise(r, record, rx, <<p>>, quiet, w, now, late)
    BY <1>3, <2>5
  <2>10. Quiet(r)
    <3>1. 1 \in 1..Len(<<p>>) /\ <<p>>[1] = p
      OBVIOUS
    <3> DEFINE plan == <<p>>
    <3>2. Promise(r, rooms[r], rx, plan, Quiet(r), wish[r], now, EchoOfOthers)
      BY <1>3
    <3>3. 1 \in 1..Len(plan) /\ PublishFor(r, plan[1])
      BY <1>2, <3>1
    <3> HIDE DEF plan
    <3> QED BY <3>2, <3>3 DEF Promise
  <2>4. p.goal \in Goal /\ Asks(p.power, p.level, p.goal)
    BY <1>2, <2>1, <2>2, <2>3, PromisePublished
  <2>6. /\ \A k \in 1..Len(p.err) : p.err[k].update.update # "JehaPush"
        /\ \A k \in 1..Len(p.ok) : p.ok[k].update.update # "RestoreLights"
    BY <1>2, <2>1, <2>2, <2>3, PromisePublished
  <2>7. p.goal.op = "on" => \E k \in 1..Len(p.ok) : p.ok[k] = Send(r, JehaPush(None))
    BY <1>2, <2>1, <2>2, <2>3, PromisePublished
  <2>8. Promise(r, record, rx, p.ok, still, p.goal, now, late)
    BY <1>2, <2>1, <2>2, <2>3, PromisePublished
  <2>9. Promise(r, record, rx, p.err, still, w, now, late)
    BY <1>2, <2>1, <2>2, <2>3, PromisePublished
  <2> QED BY <2>4, <2>5, <2>6, <2>7, <2>8, <2>9, <2>10
<1>5. /\ \A u \in Tasks : u # t => ~Busy(u, r) /\ ~Busy(u, r)'
      /\ r \notin cycle.left /\ r \notin cycle'.left
  BY <1>0, <1>1, BusyOn, WhoIsWho DEF Heeded, OneAttends, Attends
<1>6. \A u \in Tasks : u # t => Pending(u, r)' = {} /\ Goings(u, r)' = {}
  BY <1>0, <1>5, BusyIs
<1>7. OneAttends(r)'
  BY <1>5 DEF OneAttends, Attends
<1>8. ReturnKnown(r)'
  BY <1>1 DEF Heeded, ReturnKnown, Returned, RequestBusy
<1>9. EchoOfOthers' = EchoOfOthers /\ todo'[t] = next
  BY <1>0, <1>1 DEF EchoOfOthers, QueuesOK
<1>10. Promised(t, r)'
  <2>1. Promise(r, rooms[r], rx, next, Quiet(r)', wish'[r], now, EchoOfOthers)
    BY <1>4
  <2> QED BY <1>9, <2>1 DEF Promised
<1>11. WordKept(r)'
  <2>1. \A q \in Requests : Busy(q, r)' => q = t
    BY <1>5, WhoIsWho
  <2>2. ASSUME ~RequestBusy(r)'
        PROVE  Kept(wish'[r], rooms'[r], now', EchoOfOthers')
    <3>1. \A u \in Tasks : ~Busy(u, r)'
      BY <1>5, <2>2 DEF RequestBusy
    <3> QED BY <1>0, <1>10, <3>1, WordEnds
  <2> QED BY <1>10, <2>1, <2>2 DEF WordKept
<1>12. Careful(r)'
  BY <1>5, <1>6, WhoIsWho DEF Careful
<1>13. \A u \in Pending(t, r)' : u \in Pending(t, r) \/ \E k \in 1..Len(next) : next[k] = Send(r, u)
  BY <1>1 DEF Has
<1>14. \A u : Send(r, u).update = u
  BY DEF Send
<1>15. Echoes(r)'
  <2>1. CASE next = p.ok /\ wish'[r] = p.goal
    <3>1. \A u \in Pending(t, r)' : u.update # "RestoreLights"
      <4>1. \A u \in Pending(t, r) : u.update # "RestoreLights"
        BY <1>0, <1>1 DEF Heeded, Echoes
      <4>2. ASSUME NEW u \in Pending(t, r)', u \notin Pending(t, r)
            PROVE  u.update # "RestoreLights"
        <5>1. PICK k \in 1..Len(p.ok) : p.ok[k] = Send(r, u)
          BY <1>13, <2>1, <4>2
        <5>2. p.ok[k].update.update # "RestoreLights"
          BY <1>4
        <5> QED BY <1>14, <5>1, <5>2
      <4> QED BY <4>1, <4>2
    <3>2. p.goal.op # "resume"
      BY <1>4 DEF Asks
    <3>3. p.goal.op = "on" => PushPending(r, MaybeLevel)'
      <4> SUFFICES ASSUME p.goal.op = "on" PROVE PushPending(r, MaybeLevel)'
        OBVIOUS
      <4>1. JehaPush(None) \in Updates /\ Intends(JehaPush(None), MaybeLevel)
        BY UpdateTypes DEF MaybeLevel, Intends, JehaPush
      <4>2. JehaPush(None) \in Pending(t, r)'
        BY <1>1, <1>4, <2>1, <4>1 DEF Has
      <4> QED BY <1>0, <4>1, <4>2 DEF PushPending
    <3> QED BY <1>6, <2>1, <3>1, <3>2, <3>3 DEF Echoes
  <2>2. CASE next = p.err /\ wish'[r] = wish[r] /\ Quiet(r)' = Quiet(r) /\ EchoOfOthers
    <3>1. ASSUME NEW u \in Pending(t, r)', u \notin Pending(t, r)
          PROVE  u.update # "JehaPush"
      <4>1. PICK k \in 1..Len(p.err) : p.err[k] = Send(r, u)
        BY <1>13, <2>2, <3>1
      <4>2. p.err[k].update.update # "JehaPush"
        BY <1>4
      <4> QED BY <1>14, <4>1, <4>2
    <3>2. \A u \in Tasks : Pending(u, r) \subseteq Pending(u, r)'
      BY <1>1 DEF Leaves
    <3>3. \A S : PushPending(r, S) => PushPending(r, S)'
      BY <3>2 DEF PushPending
    <3>4. wish[r] # None /\ wish[r].op = "resume" =>
            /\ \A u \in Tasks : \A x \in Pending(u, r)' : x.update = "JehaPush" => x.level = "circadian"
            /\ Quiet(r)' \/ PushPending(r, {"circadian"})' \/ rooms'[r].intended = "circadian"
      BY <1>0, <1>6, <2>2, <3>1, <3>3 DEF Heeded, Echoes
    <3> QED BY <1>1, <1>4, <1>6, <1>9, <2>2, <3>4 DEF Echoes
  <2> QED BY <2>1, <2>2
<1> QED BY <1>7, <1>8, <1>11, <1>12, <1>15 DEF Heeded

\* What the engine says of its pushes does no harm where it may push.
LEMMA PushHarmless ==
  ASSUME NEW w, NEW i, NEW late, MayPush(w, i), NEW u \in {LightsOn("circadian", "Circadian"), JehaPush("circadian")}
  PROVE  Harmless(w, u, i, late)
<1>1. "circadian" \in MaybeLevel /\ "Circadian" \in Sources
  BY DaemonAssumption DEF DaemonAssumption, MaybeLevel, Sources
<1>2. u \in Updates /\ u.update \in {"LightsOn", "JehaPush"} /\ (u.update = "LightsOn" => u.source = "Circadian")
  BY <1>1, UpdateTypes DEF LightsOn, JehaPush
<1>3. ASSUME NEW room \in Room, NEW j \in Nat, Kept(w, room, i, late)
      PROVE  Kept(w, ApplyUpdate(room, u, j), i, late)
  <2>3. PICK next : next = ApplyUpdate(room, u, j)
    OBVIOUS
  <2>1. CASE u.update = "JehaPush"
    <3>1. Alike(next, room)
      BY <1>2, <2>1, <2>3, FaceApplies
    <3>2. Alike(room, next)
      BY <3>1 DEF Alike, Face
    <3>3. Kept(w, next, i, late)
      BY <1>3, <3>2, KeptFace
    <3> QED BY <2>3, <3>3
  <2>2. CASE u.update = "LightsOn"
    <3>1. Face(next, TRUE, u.source, room.overrideUntil, room.paused, room.pausedUntil)
      BY <1>2, <2>2, <2>3, FaceApplies
    <3>2. Face(next, TRUE, "Circadian", room.overrideUntil, room.paused, room.pausedUntil)
      BY <1>2, <2>2, <3>1
    <3>3. Kept(w, next, i, late)
      BY <1>3, <3>2 DEF Kept, Face, MayPush
    <3> QED BY <2>3, <3>3
  <2> QED BY <1>2, <2>1, <2>2
<1> QED BY <1>3 DEF Harmless

\* What the engine's pushes say.
LEMMA EnginePushSays ==
  ASSUME NEW r \in Rooms, NEW p \in EnginePushes(r)
  PROVE  /\ p.room = r /\ p.power = "keep" /\ p.level = "circadian" /\ p.goal = None /\ p.err = <<>>
         /\ \A u : Has(p.ok, Send(r, u)) => u \in {LightsOn("circadian", "Circadian"), JehaPush("circadian")}
         /\ Has(p.ok, Send(r, JehaPush("circadian")))
<1> DEFINE a == Send(r, LightsOn("circadian", "Circadian"))
           b == Send(r, JehaPush("circadian"))
<1>1. PICK ok \in {<<a, b>>, <<b>>} : p = Publish(r, "keep", "circadian", None, ok, <<>>)
  BY DEF EnginePushes
<1>2. p.room = r /\ p.power = "keep" /\ p.level = "circadian" /\ p.goal = None /\ p.err = <<>> /\ p.ok = ok
  BY <1>1 DEF Publish
<1>3. (\A e : Has(ok, e) => e \in {a, b}) /\ Has(ok, b)
  <2>1. PICK x, y : x = a /\ y = b
    OBVIOUS
  <2>2. /\ \A k \in 1..Len(<<y>>) : <<y>>[k] = y
        /\ \A k \in 1..Len(<<x, y>>) : <<x, y>>[k] \in {x, y}
        /\ 2 \in 1..Len(<<x, y>>) /\ <<x, y>>[2] = y /\ 1 \in 1..Len(<<y>>) /\ <<y>>[1] = y
    OBVIOUS
  <2>3. ok = <<x, y>> \/ ok = <<y>>
    BY <2>1
  <2>4. (\A e : Has(ok, e) => e \in {x, y}) /\ Has(ok, y)
    BY <2>2, <2>3 DEF Has
  <2> QED BY <2>1, <2>4
<1>4. \A u : Send(r, u).update = u
  BY DEF Send
<1>5. \A u : Has(p.ok, Send(r, u)) => u \in {LightsOn("circadian", "Circadian"), JehaPush("circadian")}
  BY <1>2, <1>3, <1>4
<1> QED BY <1>2, <1>3, <1>5

\* The engine has published.
LEMMA EnginePublished ==
  ASSUME TypeOK, TypeOK', RecordInv, ConnInv, NEW t, t = "circadian", HeadIs(t, "publish"), NEW p, p = Head(todo[t]),
         NEW next \in {p.ok, p.err}, Continue(t, next), UNCHANGED <<rooms, rx, inbox, now, cycle, spent>>,
         NEW r \in Rooms, r = p.room, Heeded(r), Shown(r)', wish'[r] = wish[r],
         next = p.ok \/ (Quiet(r)' = Quiet(r) /\ EchoOfOthers)
  PROVE  Heeded(r)'
<1>0. QueuesOK /\ QueuesOK' /\ t \in Tasks
  BY TypeParts, WhoIsWho DEF TypeOK
<1>1. /\ p \in PublishSteps /\ Busy(t, r)
      /\ todo[t] = <<p>> /\ todo' = [todo EXCEPT ![t] = next]
      /\ Goings(t, r) = {p} /\ Goings(t, r)' = {}
      /\ Pending(t, r)' = Pending(t, r) \union {u \in Updates : Has(next, Send(r, u))}
      /\ \A u \in Tasks : u # t => Leaves(u, r)
  <2>1. Published(t, p, next)
    BY <1>0, PublishLeaves
  <2> QED BY <2>1 DEF Published
<1>2. p \in EnginePushes(r) /\ MayPush(wish[r], now)
  BY <1>1 DEF Heeded, Careful
<1>3. /\ p.err = <<>>
      /\ \A u : Has(p.ok, Send(r, u)) => u \in {LightsOn("circadian", "Circadian"), JehaPush("circadian")}
      /\ Has(p.ok, Send(r, JehaPush("circadian")))
  BY <1>2, EnginePushSays
<1>4. \A e : ~Has(<<>>, e)
  BY DEF Has
<1>5. /\ \A u \in Tasks : u # t => ~Busy(u, r) /\ ~Busy(u, r)'
      /\ \A u \in Tasks : Attends(u, r)' => u = t
  <2>1. \A u \in Tasks : u # t => ~Busy(u, r) /\ ~Busy(u, r)'
    BY <1>0, <1>1, BusyOn, WhoIsWho DEF Heeded, OneAttends, Attends
  <2> QED BY <2>1 DEF Attends
<1>6. \A u \in Tasks : u # t => Pending(u, r)' = {} /\ Goings(u, r)' = {}
  BY <1>0, <1>5, BusyIs
<1>7. EchoOfOthers' = EchoOfOthers
  BY DEF EchoOfOthers
<1>8. ~RequestBusy(r) /\ ~RequestBusy(r)'
  BY <1>5, WhoIsWho DEF RequestBusy
<1>9. OneAttends(r)' /\ ReturnKnown(r)'
  BY <1>5, <1>8 DEF OneAttends, Heeded, ReturnKnown, Returned
<1>10. WordKept(r)'
  BY <1>7, <1>8 DEF Heeded, WordKept, RequestBusy
<1>11. \A u \in Pending(t, r)' : u \in Pending(t, r) \/ u \in {LightsOn("circadian", "Circadian"), JehaPush("circadian")}
  BY <1>1, <1>3, <1>4
<1>12. Careful(r)'
  <2>1. r \in cycle'.left => cycle'.view[r].lightsOn /\ Kept(wish'[r], cycle'.view[r], now', EchoOfOthers')
    BY <1>7 DEF Heeded, Careful
  <2>2. \A u \in Pending("circadian", r)' : Harmless(wish'[r], u, now', EchoOfOthers')
    <3>1. \A u \in Pending("circadian", r) : Harmless(wish[r], u, now, EchoOfOthers)
      BY DEF Heeded, Careful
    <3>2. \A u \in {LightsOn("circadian", "Circadian"), JehaPush("circadian")} : Harmless(wish[r], u, now, EchoOfOthers)
      BY <1>2, PushHarmless
    <3> QED BY <1>7, <1>11, <3>1, <3>2
  <2>3. Pending("mqtt", r)' = {}
    BY <1>6, WhoIsWho
  <2> QED BY <1>1, <2>1, <2>2, <2>3 DEF Careful
<1>13. Echoes(r)'
  <2>1. /\ LightsOn("circadian", "Circadian").update = "LightsOn"
        /\ JehaPush("circadian").update = "JehaPush" /\ JehaPush("circadian").level = "circadian"
    BY DEF LightsOn, JehaPush
  <2>2. \A u \in Pending(t, r)' : u.update # "RestoreLights"
    <3>1. \A u \in Pending(t, r) : u.update # "RestoreLights"
      BY <1>0, <1>1 DEF Heeded, Echoes
    <3> QED BY <1>11, <2>1, <3>1
  <2>3. wish[r] # None /\ wish[r].op = "resume" =>
          \A u \in Tasks : \A x \in Pending(u, r)' : x.update = "JehaPush" => x.level = "circadian"
    <3>1. wish[r] # None /\ wish[r].op = "resume" =>
            \A x \in Pending(t, r) : x.update = "JehaPush" => x.level = "circadian"
      BY <1>0 DEF Heeded, Echoes
    <3> QED BY <1>6, <1>11, <2>1, <3>1
  <2>4. next = p.ok => \A S : "circadian" \in S => PushPending(r, S)'
    <3>1. "circadian" \in MaybeLevel
      BY DaemonAssumption DEF DaemonAssumption, MaybeLevel
    <3>2. JehaPush("circadian") \in Updates
      BY <3>1, UpdateTypes
    <3>3. next = p.ok => JehaPush("circadian") \in Pending(t, r)'
      BY <1>1, <1>3, <3>2
    <3> QED BY <1>0, <2>1, <3>3 DEF PushPending, Intends
  <2>5. wish[r] # None /\ wish[r].op = "resume" /\ next # p.ok =>
          Quiet(r)' \/ PushPending(r, {"circadian"})' \/ rooms'[r].intended = "circadian"
    <3>1. \A u \in Tasks : Pending(u, r) \subseteq Pending(u, r)'
      BY <1>1 DEF Leaves
    <3>2. \A S : PushPending(r, S) => PushPending(r, S)'
      BY <3>1 DEF PushPending
    <3> QED BY <3>2 DEF Heeded, Echoes
  <2>6. "circadian" \in MaybeLevel /\ "circadian" \in {"circadian"}
    BY DaemonAssumption DEF DaemonAssumption, MaybeLevel
  <2> QED BY <1>6, <1>7, <2>2, <2>3, <2>4, <2>5, <2>6 DEF Echoes
<1> QED BY <1>9, <1>10, <1>12, <1>13 DEF Heeded

\* What is on its way to or from a room, while something else moves.
LEMMA OnTheWay ==
  ASSUME NEW r, NEW M, NEW q \in Seq(M), NEW later,
         \/ later = q
         \/ \E m \in M : later = Append(q, m) /\ m.room # r
         \/ q # <<>> /\ later = Tail(q) /\ Head(q).room # r
  PROVE  (\E i \in 1..Len(later) : later[i].room = r) <=> (\E i \in 1..Len(q) : q[i].room = r)
<1>1. \A e : e.room = r => (Has(later, e) <=> Has(q, e))
  <2>1. CASE later = q
    BY <2>1
  <2>2. ASSUME NEW m \in M, later = Append(q, m), m.room # r
        PROVE  \A e : e.room = r => (Has(later, e) <=> Has(q, e))
    BY <2>2, HasSeq
  <2>3. CASE q # <<>> /\ later = Tail(q) /\ Head(q).room # r
    BY <2>3, HasSeq
  <2> QED BY <2>1, <2>2, <2>3
<1>2. \A p : (\E i \in 1..Len(p) : p[i].room = r) <=> \E e : e.room = r /\ Has(p, e)
  BY DEF Has
<1> QED BY <1>1, <1>2

\* What a request that publishes has promised, and what the engine may publish.
LEMMA PublisherSays ==
  ASSUME TypeOK, RecordInv, ConnInv, NEW t \in Tasks, NEW p, NEW next, Published(t, p, next),
         NEW r \in Rooms, r = p.room, Heeded(r)
  PROVE  \/ t \in Requests /\ Quiet(r) /\ p.goal \in Goal /\ p.goal # None /\ Asks(p.power, p.level, p.goal)
         \/ t = "circadian" /\ p \in EnginePushes(r) /\ MayPush(wish[r], now) /\ p.goal = None
<1>1. /\ p \in PublishSteps /\ t # "mqtt" /\ Busy(t, r) /\ todo[t] = <<p>> /\ Goings(t, r) = {p}
  BY DEF Published
<1>2. CASE t \in Requests
  <2>1. 1 \in 1..Len(<<p>>) /\ <<p>>[1] = p
    OBVIOUS
  <2> DEFINE plan == <<p>>
  <2>2. Promise(r, rooms[r], rx, plan, Quiet(r), wish[r], now, EchoOfOthers)
    BY <1>1, <1>2 DEF Heeded, WordKept, Promised
  <2>3. 1 \in 1..Len(plan) /\ plan[1] = p /\ PublishFor(r, plan[1])
    BY <1>1, <2>1, PublishFields DEF PublishFor
  <2> HIDE DEF plan
  <2>4. Quiet(r) /\ \E g : Offers(p, r, g, wish[r], now, EchoOfOthers)
    BY <2>2, <2>3 DEF Promise
  <2>5. p.goal \in Goal /\ Asks(p.power, p.level, p.goal)
    BY <2>4 DEF Offers
  <2> QED BY <1>2, <2>4, <2>5, NoneIsNoGoal DEF NoneIsNoGoal
<1>3. CASE t = "circadian"
  <2>1. p \in EnginePushes(r) /\ MayPush(wish[r], now)
    BY <1>1, <1>3 DEF Heeded, Careful
  <2> QED BY <1>3, <2>1, EnginePushSays
<1> QED BY <1>1, <1>2, <1>3, WhoIsWho

\* What it publishes fits what is asked from then on.
LEMMA SentFits ==
  ASSUME TypeOK, RecordInv, ConnInv, NEW t \in Tasks, NEW p, NEW next, Published(t, p, next),
         NEW r \in Rooms, r = p.room, Heeded(r), Grant(p), NEW m, m = Message(p)
  PROVE  m \in Outgoing /\ m.room = r /\ Fits(r, wish'[r], now, bulb[r], Append(outq, m), reports)
<1>0. WorldOK /\ RecordOK
  BY TypeParts DEF TypeOK
<1>1. p \in PublishSteps
  BY DEF Published
<1>2. m \in Outgoing /\ m.room = r /\ m.power = p.power /\ m.level = p.level
  BY <1>1, PublishFields DEF Message, Outgoing
<1>3. outq \in Seq(Outgoing) /\ reports \in Seq(Report)
  BY <1>0 DEF WorldOK
<1>4. CASE t \in Requests /\ Quiet(r) /\ p.goal \in Goal /\ p.goal # None /\ Asks(p.power, p.level, p.goal)
  <2>1. wish'[r] = p.goal
    BY <1>0, <1>4 DEF Grant, RecordOK
  <2>2. \A k \in 1..Len(outq) : outq[k].room # r
    BY <1>4 DEF Quiet, Outstanding
  <2>3. \A k \in 1..Len(reports) : reports[k].room # r
    BY <1>4 DEF Quiet, Reported
  <2>4. Asks(m.power, m.level, p.goal)
    BY <1>2, <1>4
  <2>5. Fits(r, p.goal, now, bulb[r], Append(outq, m), reports)
    BY <1>2, <1>3, <1>4, <2>2, <2>3, <2>4, AskedFits
  <2> QED BY <1>2, <2>1, <2>5
<1>5. CASE t = "circadian" /\ p \in EnginePushes(r) /\ MayPush(wish[r], now) /\ p.goal = None
  <2>1. wish'[r] = wish[r]
    BY <1>5 DEF Grant
  <2>2. p.power = "keep" /\ p.level = "circadian"
    BY <1>5, EnginePushSays
  <2>3. Fits(r, wish[r], now, bulb[r], outq, reports)
    BY DEF Heeded, Shown
  <2>4. Fits(r, wish[r], now, bulb[r], Append(outq, m), reports)
    BY <1>2, <1>3, <1>5, <2>2, <2>3, PushedFits
  <2> QED BY <1>2, <2>1, <2>4
<1> QED BY <1>4, <1>5, PublisherSays

\* A publish that succeeds, where it goes.
LEMMA PublishedHere ==
  ASSUME TypeOK, TypeOK', RecordInv, ConnInv, NEW t \in Tasks, HeadIs(t, "publish"), NEW p, p = Head(todo[t]),
         Continue(t, p.ok), Grant(p), UNCHANGED <<rooms, rx, inbox, now, cycle, spent>>,
         NEW r \in Rooms, r = p.room, Heeded(r), Shown(r)'
  PROVE  Heeded(r)'
<1>1. PICK next : next = p.ok /\ next \in {p.ok, p.err}
  OBVIOUS
<1>2. Continue(t, next)
  BY <1>1
<1>3. Published(t, p, next)
  BY <1>1, <1>2, PublishLeaves
<1>4. wish \in [Rooms -> Goal \union {None}]
  BY TypeParts DEF TypeOK, RecordOK
<1>5. CASE t \in Requests /\ p.goal # None
  <2>1. wish'[r] = p.goal
    BY <1>4, <1>5 DEF Grant
  <2> QED BY <1>1, <1>2, <1>5, <2>1, RequestPublished
<1>6. CASE t = "circadian" /\ p.goal = None
  <2>1. wish'[r] = wish[r]
    BY <1>6 DEF Grant
  <2> QED BY <1>1, <1>2, <1>6, <2>1, EnginePublished
<1> QED BY <1>3, <1>5, <1>6, PublisherSays

LEMMA PublishHeeds ==
  ASSUME TypeOK, TypeOK', RecordInv, ConnInv, HonourInv, NEW t \in Tasks, PublishStep(t),
         UNCHANGED <<cycle, raced, spent>>
  PROVE  HonourInv'
<1>0. QueuesOK /\ WorldOK /\ RecordOK
  BY TypeParts DEF TypeOK
<1>1. PICK p : p = Head(todo[t])
  OBVIOUS
<1>2. PICK m : m = Message(p)
  OBVIOUS
<1>3. /\ HeadIs(t, "publish") /\ link = "up" /\ outq = <<>> /\ Deliver(m) /\ Continue(t, p.ok) /\ Grant(p)
      /\ UNCHANGED <<rooms, rx, inbox, link, outq, now, cycle, raced, spent>>
  BY <1>1, <1>2 DEF PublishStep, shared
<1>4. PICK next : next = p.ok /\ next \in {p.ok, p.err} /\ Continue(t, next)
  BY <1>3
<1>5. Published(t, p, next)
  BY <1>1, <1>3, <1>4, PublishLeaves
<1>6. m \in Outgoing /\ m.room = p.room /\ p.room \in Rooms
  <2>1. p \in PublishSteps
    BY <1>5 DEF Published
  <2> QED BY <1>2, <2>1, PublishFields DEF Message, Outgoing
<1>7. PICK lit, m2, b :
        /\ lit \in BOOLEAN /\ m2 \in Report
        /\ b = After(bulb[m.room], m.power, m.level, lit)
        /\ bulb' = [bulb EXCEPT ![m.room] = b] /\ reports' = Append(reports, m2)
        /\ m2.room = m.room /\ m2.on = b.on /\ m2.level = b.level
  BY <1>0, <1>3, <1>6, Delivered
<1>8. outq \in Seq(Outgoing) /\ reports \in Seq(Report) /\ bulb \in [Rooms -> Bulb]
  BY <1>0 DEF WorldOK
<1>9. ASSUME NEW r \in Rooms, ~raced[r]
      PROVE  Heeded(r)'
  <2>1. Heeded(r)
    BY <1>9 DEF HonourInv
  <2>2. CASE r = p.room
    <3>1. Fits(r, wish'[r], now, bulb[r], Append(outq, m), reports)
      BY <1>2, <1>3, <1>5, <2>1, <2>2, SentFits
    <3>2. PICK queue : queue = <<m>>
      OBVIOUS
    <3>3. Append(outq, m) = queue /\ queue # <<>> /\ Head(queue) = m /\ Tail(queue) = <<>>
      BY <1>3, <3>2
    <3>4. queue \in Seq(Outgoing)
      BY <1>6, <3>2
    <3>5. Fits(r, wish'[r], now, bulb[r], queue, reports)
      BY <3>1, <3>3
    <3>6. bulb[r] \in Bulb /\ b = After(bulb[r], m.power, m.level, lit)
      BY <1>6, <1>7, <1>8, <2>2
    <3>7. Fits(r, wish'[r], now, b, Tail(queue), Append(reports, m2))
      BY <1>6, <1>7, <1>8, <2>2, <3>3, <3>4, <3>5, <3>6, DeliveredFits, RequestsAssumption DEF RequestsAssumption
    <3>8. bulb'[r] = b
      BY <1>6, <1>7, <1>8, <2>2
    <3>9. Shown(r)'
      BY <1>3, <1>7, <3>3, <3>7, <3>8 DEF Shown
    <3> QED BY <1>1, <1>3, <2>1, <2>2, <3>9, PublishedHere
  <2>3. CASE r # p.room
    <3>1. wish'[r] = wish[r] /\ bulb'[r] = bulb[r]
      BY <1>0, <1>3, <1>6, <1>7, <1>8, <2>3 DEF Grant, RecordOK
    <3>2. \E x \in Report : reports' = Append(reports, x) /\ x.room # r
      BY <1>6, <1>7, <2>3
    <3>3. Reported(r)' <=> Reported(r)
      BY <1>8, <3>2, OnTheWay DEF Reported
    <3>4. Quiet(r)' = Quiet(r)
      BY <1>3, <3>3 DEF Quiet, Outstanding
    <3>5. Shown(r)'
      <4>1. Fits(r, wish[r], now, bulb[r], outq, reports)
        BY <2>1 DEF Heeded, Shown
      <4>2. Fits(r, wish[r], now, bulb[r], outq, reports')
        BY <1>8, <3>2, <4>1, FitsOn
      <4> QED BY <1>3, <3>1, <4>2 DEF Shown
    <3> QED BY <1>1, <1>3, <1>4, <2>1, <2>3, <3>1, <3>3, <3>4, <3>5, PublishedElsewhere
  <2> QED BY <2>2, <2>3
<1> QED BY <1>3, <1>9 DEF HonourInv, EchoOfOthers

LEMMA QueuedHeeds ==
  ASSUME TypeOK, TypeOK', RecordInv, ConnInv, HonourInv, NEW t \in Tasks, PublishQueuedStep(t),
         UNCHANGED <<cycle, raced, spent>>
  PROVE  HonourInv'
<1>0. QueuesOK /\ WorldOK /\ RecordOK
  BY TypeParts DEF TypeOK
<1>1. PICK p : p = Head(todo[t])
  OBVIOUS
<1>2. PICK m : m = Message(p)
  OBVIOUS
<1>3. /\ HeadIs(t, "publish") /\ outq' = Append(outq, m) /\ Continue(t, p.ok) /\ Grant(p)
      /\ link # "up" \/ outq # <<>>
      /\ UNCHANGED <<rooms, rx, inbox, bulb, link, reports, now, cycle, raced, spent>>
  BY <1>1, <1>2 DEF PublishQueuedStep, shared
<1>4. PICK next : next = p.ok /\ next \in {p.ok, p.err} /\ Continue(t, next)
  BY <1>3
<1>5. Published(t, p, next)
  BY <1>1, <1>3, <1>4, PublishLeaves
<1>6. m \in Outgoing /\ m.room = p.room /\ p.room \in Rooms
  <2>1. p \in PublishSteps
    BY <1>5 DEF Published
  <2> QED BY <1>2, <2>1, PublishFields DEF Message, Outgoing
<1>7. EchoOfOthers
  BY <1>3 DEF HonourInv
<1>8. outq \in Seq(Outgoing) /\ reports \in Seq(Report) /\ bulb \in [Rooms -> Bulb]
  BY <1>0 DEF WorldOK
<1>9. ASSUME NEW r \in Rooms, ~raced[r]
      PROVE  Heeded(r)'
  <2>1. Heeded(r)
    BY <1>9 DEF HonourInv
  <2>2. CASE r = p.room
    <3>1. Fits(r, wish'[r], now, bulb[r], Append(outq, m), reports)
      BY <1>2, <1>3, <1>5, <2>1, <2>2, SentFits
    <3>2. Shown(r)'
      BY <1>3, <3>1 DEF Shown
    <3> QED BY <1>1, <1>3, <2>1, <2>2, <3>2, PublishedHere
  <2>3. CASE r # p.room
    <3>1. wish'[r] = wish[r]
      BY <1>0, <1>3, <1>6, <2>3 DEF Grant, RecordOK
    <3>2. \E x \in Outgoing : outq' = Append(outq, x) /\ x.room # r
      BY <1>3, <1>6, <2>3
    <3>3. Outstanding(r)' <=> Outstanding(r)
      BY <1>8, <3>2, OnTheWay DEF Outstanding
    <3>4. Quiet(r)' = Quiet(r) /\ (Reported(r)' <=> Reported(r))
      BY <1>3, <3>3 DEF Quiet, Reported
    <3>5. Shown(r)'
      <4>1. Fits(r, wish[r], now, bulb[r], outq, reports)
        BY <2>1 DEF Heeded, Shown
      <4>2. Fits(r, wish[r], now, bulb[r], outq', reports)
        BY <1>8, <3>2, <4>1, FitsOn
      <4> QED BY <1>3, <3>1, <4>2 DEF Shown
    <3> QED BY <1>1, <1>3, <1>4, <2>1, <2>3, <3>1, <3>4, <3>5, PublishedElsewhere
  <2> QED BY <2>2, <2>3
<1>10. EchoOfOthers'
  BY <1>3, <1>7 DEF EchoOfOthers
<1> QED BY <1>3, <1>9, <1>10 DEF HonourInv

\* A publish that times out leaves everything outside, and what was asked.
LEMMA TimeoutHeeds ==
  ASSUME TypeOK, TypeOK', RecordInv, ConnInv, HonourInv, NEW t \in Tasks, PublishTimeoutStep(t),
         UNCHANGED <<cycle, raced, spent>>
  PROVE  HonourInv'
<1>1. PICK p : p = Head(todo[t])
  OBVIOUS
<1>2. /\ HeadIs(t, "publish") /\ Continue(t, p.err) /\ link # "up"
      /\ UNCHANGED <<rooms, rx, inbox, outq, bulb, link, reports, now, wish, cycle, raced, spent>>
  BY <1>1 DEF PublishTimeoutStep, shared, world
<1>3. PICK next : next = p.err /\ next \in {p.ok, p.err} /\ Continue(t, next)
  BY <1>2
<1>4. Published(t, p, next)
  BY <1>1, <1>2, <1>3, PublishLeaves
<1>5. EchoOfOthers /\ EchoOfOthers'
  BY <1>2 DEF HonourInv, EchoOfOthers
<1>6. ASSUME NEW r \in Rooms, ~raced[r]
      PROVE  Heeded(r)'
  <2>1. Heeded(r)
    BY <1>6 DEF HonourInv
  <2>2. Quiet(r)' = Quiet(r) /\ (Reported(r)' <=> Reported(r)) /\ Shown(r)' /\ wish'[r] = wish[r]
    BY <1>2, <2>1 DEF Quiet, Reported, Outstanding, Heeded, Shown
  <2>3. CASE r = p.room /\ t \in Requests
    BY <1>1, <1>2, <1>3, <1>5, <2>1, <2>2, <2>3, RequestPublished
  <2>4. CASE r = p.room /\ t = "circadian"
    BY <1>1, <1>2, <1>3, <1>5, <2>1, <2>2, <2>4, EnginePublished
  <2>5. CASE r # p.room
    BY <1>1, <1>2, <1>3, <2>1, <2>2, <2>5, PublishedElsewhere
  <2>6. t \in Requests \/ t = "circadian"
    BY <1>4, WhoIsWho DEF Published
  <2> QED BY <2>3, <2>4, <2>5, <2>6
<1> QED BY <1>2, <1>5, <1>6 DEF HonourInv

\* So a step of a task keeps what was asked.
LEMMA TaskHeeds ==
  ASSUME TypeOK, TypeOK', RecordInv, ConnInv, HonourInv, NEW t \in Tasks, Step(t)
  PROVE  HonourInv'
<1>1. UNCHANGED <<cycle, raced, spent>> /\ TaskStep(t)
  BY DEF Step
<1>2. CASE SendStep(t)
  BY <1>1, <1>2, SendHeeds DEF RecordInv
<1>3. CASE AnnounceStep(t)
  BY <1>1, <1>3, AnnounceHeeds DEF RecordInv
<1>4. CASE PublishStep(t)
  BY <1>1, <1>4, PublishHeeds
<1>5. CASE PublishQueuedStep(t)
  BY <1>1, <1>5, QueuedHeeds
<1>6. CASE PublishTimeoutStep(t)
  BY <1>1, <1>6, TimeoutHeeds
<1> QED BY <1>1, <1>2, <1>3, <1>4, <1>5, <1>6 DEF TaskStep

-----------------------------------------------------------------------------
(* The actor.                                                               *)

\* It takes a command that is about another room, or about none.
LEMMA ActorElsewhere ==
  ASSUME TypeOK, TypeOK', rx # <<>>, rx' = Tail(rx), UNCHANGED <<inbox, todo, world, now, wish, cycle, raced, spent>>,
         NEW r \in Rooms, Heeded(r), rooms'[r] = rooms[r], Head(rx) \notin CommandsOf(r)
  PROVE  Heeded(r)'
<1>0. QueuesOK /\ QueuesOK' /\ RecordOK
  BY TypeParts DEF TypeOK
<1>1. \A t \in Tasks : Leaves(t, r)
  <2>1. \A t \in Tasks, u \in Updates : Head(rx) # [from |-> t, room |-> r, update |-> u]
    BY DEF CommandsOf
  <2>2. \A t \in Tasks :
          /\ Goings(t, r)' = Goings(t, r) /\ Pending(t, r)' \subseteq Pending(t, r)
          /\ Pending(t, r) \subseteq
               Pending(t, r)' \union {u \in Updates : Head(rx) = [from |-> t, room |-> r, update |-> u]}
    BY <1>0, ActorLeaves
  <2>3. \A t \in Tasks : Pending(t, r)' = Pending(t, r)
    BY <2>1, <2>2
  <2> QED BY <2>2, <2>3 DEF Leaves
<1>2. /\ EchoOfOthers' = EchoOfOthers /\ (Returned(r)' => Returned(r)) /\ (Reported(r)' <=> Reported(r))
      /\ Quiet(r)' = Quiet(r) /\ Shown(r)'
  BY DEF EchoOfOthers, Returned, Reported, Quiet, Outstanding, world, Heeded, Shown
<1>3. ASSUME NEW q \in Requests, Promised(q, r)
      PROVE  Promised(q, r)'
  <2>1. PICK record, plan, quiet, w, late :
          record = rooms[r] /\ plan = todo[q] /\ quiet = Quiet(r) /\ w = wish[r] /\ late = EchoOfOthers
    OBVIOUS
  <2>2. Promise(r, record, rx, plan, quiet, w, now, late) /\ record \in Room /\ rx \in Seq(Commands) /\ now \in Nat
    BY <1>0, <1>3, <2>1 DEF Promised, QueuesOK, RecordOK
  <2>3. Promise(r, record, Tail(rx), plan, quiet, w, now, late)
    BY <2>2, PromiseReached
  <2> QED BY <1>2, <2>1, <2>3 DEF Promised
<1> QED BY <1>0, <1>1, <1>2, <1>3, HeededOn

\* The updates that the tasks say.
LEMMA SaidKinds ==
  ASSUME QueuesOK, CoursesOK, rx # <<>>, "room" \in DOMAIN Head(rx)
  PROVE  Head(rx).update.update \in
           {"CircadianPause", "LightsOn", "ManualOverrideTtl", "JehaPush", "LightsOff", "ExternalChange", "RestoreLights"}
<1>1. Head(rx) = rx[1] /\ 1 \in 1..Len(rx)
  <2>1. rx \in Seq(Commands)
    BY DEF QueuesOK
  <2> QED BY <2>1, HeadTailProperties, LenProperties
<1>2. rx[1].update \in SaidBy(rx[1].from, Unrecalled)
  BY <1>1 DEF CoursesOK
<1> QED BY <1>1, <1>2 DEF SaidBy, Kinds, RequestKinds, EngineKinds

\* It takes one that is about the room.
LEMMA ActorHere ==
  ASSUME TypeOK, TypeOK', CoursesOK, rx # <<>>, rx' = Tail(rx),
         UNCHANGED <<inbox, todo, world, now, wish, cycle, raced, spent>>,
         NEW r \in Rooms, Heeded(r), NEW s \in Tasks, NEW u \in Updates,
         Head(rx) = [from |-> s, room |-> r, update |-> u], rooms'[r] = ApplyUpdate(rooms[r], u, now)
  PROVE  Heeded(r)'
<1>0. QueuesOK /\ QueuesOK' /\ RecordOK
  BY TypeParts DEF TypeOK
<1>1. rooms[r] \in Room /\ now \in Nat /\ rx \in Seq(Commands)
  BY <1>0 DEF RecordOK, QueuesOK
<1>2. PICK next : next = rooms'[r] /\ next = ApplyUpdate(rooms[r], u, now)
  OBVIOUS
<1>3. \A t \in Tasks :
        /\ Goings(t, r)' = Goings(t, r) /\ Pending(t, r)' \subseteq Pending(t, r)
        /\ \A x \in Pending(t, r) : x \in Pending(t, r)' \/ (t = s /\ x = u)
  <2>1. \A t \in Tasks, x \in Updates :
          Head(rx) = [from |-> t, room |-> r, update |-> x] => t = s /\ x = u
    <3>1. \A t, x, t2, x2 : [from |-> t, room |-> r, update |-> x] = [from |-> t2, room |-> r, update |-> x2]
                               => t = t2 /\ x = x2
      <4> SUFFICES ASSUME NEW t, NEW x, NEW t2, NEW x2,
                          [from |-> t, room |-> r, update |-> x] = [from |-> t2, room |-> r, update |-> x2]
                   PROVE  t = t2 /\ x = x2
        OBVIOUS
      <4>1. /\ [from |-> t, room |-> r, update |-> x].from = [from |-> t2, room |-> r, update |-> x2].from
            /\ [from |-> t, room |-> r, update |-> x].update = [from |-> t2, room |-> r, update |-> x2].update
        OBVIOUS
      <4> QED BY <4>1
    <3> QED BY <3>1
  <2>2. \A t \in Tasks :
          /\ Goings(t, r)' = Goings(t, r) /\ Pending(t, r)' \subseteq Pending(t, r)
          /\ Pending(t, r) \subseteq
               Pending(t, r)' \union {x \in Updates : Head(rx) = [from |-> t, room |-> r, update |-> x]}
    BY <1>0, ActorLeaves
  <2> QED BY <2>1, <2>2
<1>4. u \in Pending(s, r)
  <2>1. Has(rx, [from |-> s, room |-> r, update |-> u])
    BY <1>1, HasSeq
  <2> QED BY <2>1 DEF Pending
<1>5. /\ Busy(s, r)
      /\ \A t \in Tasks : /\ Busy(t, r)' => Busy(t, r)
                          /\ t # s => ~Busy(t, r) /\ ~Busy(t, r)'
  <2>1. Busy(s, r)
    BY <1>0, <1>4, BusyIs
  <2>2. \A t \in Tasks : Busy(t, r)' => Busy(t, r)
    BY <1>0, <1>3, BusyIs
  <2>3. \A t \in Tasks : t # s => ~Busy(t, r)
    BY <2>1 DEF Heeded, OneAttends, Attends
  <2> QED BY <2>1, <2>2, <2>3
<1>6. OneAttends(r)'
  BY <1>5 DEF Heeded, OneAttends, Attends
<1>7. EchoOfOthers' = EchoOfOthers /\ Shown(r)' /\ Quiet(r)' = Quiet(r) /\ (Reported(r)' <=> Reported(r))
  BY DEF EchoOfOthers, Heeded, Shown, Quiet, Reported, Outstanding, world
<1>8. ReturnKnown(r)'
  BY <1>5, WhoIsWho DEF Heeded, ReturnKnown, Returned, RequestBusy
<1>9. WordKept(r)'
  <2>1. CASE s \in Requests
    <3>1. PICK record, plan, quiet, w, late :
            record = rooms[r] /\ plan = todo[s] /\ quiet = Quiet(r) /\ w = wish[r] /\ late = EchoOfOthers
      OBVIOUS
    <3>2. Promise(r, record, rx, plan, quiet, w, now, late)
      BY <1>5, <2>1, <3>1 DEF Heeded, WordKept, Promised
    <3>3. next = IF Head(rx) \in CommandsOf(r) THEN ApplyUpdate(record, Head(rx).update, now) ELSE record
      BY <1>2, <3>1 DEF CommandsOf
    <3>4. Promise(r, next, Tail(rx), plan, quiet, w, now, late)
      BY <1>1, <3>1, <3>2, <3>3, PromiseReached
    <3>5. Promised(s, r)'
      BY <1>2, <1>7, <3>1, <3>4 DEF Promised
    <3>6. ASSUME ~RequestBusy(r)'
          PROVE  Kept(wish'[r], rooms'[r], now', EchoOfOthers')
      <4>1. \A t \in Tasks : ~Busy(t, r)'
        BY <1>5, <2>1, <3>6 DEF RequestBusy
      <4> QED BY <1>0, <2>1, <3>5, <4>1, WordEnds
    <3> QED BY <1>5, <3>5, <3>6, WhoIsWho DEF WordKept
  <2>2. CASE s \in {"circadian", "mqtt"}
    <3>1. ~RequestBusy(r) /\ ~RequestBusy(r)'
      BY <1>5, <2>2, WhoIsWho DEF RequestBusy
    <3>2. Kept(wish[r], rooms[r], now, EchoOfOthers)
      BY <3>1 DEF Heeded, WordKept
    <3>3. Harmless(wish[r], u, now, EchoOfOthers)
      BY <1>4, <2>2 DEF Heeded, Careful
    <3>4. Kept(wish[r], next, now, EchoOfOthers)
      BY <1>1, <1>2, <3>2, <3>3 DEF Harmless
    <3>5. Kept(wish'[r], rooms'[r], now', EchoOfOthers')
      BY <1>2, <1>7, <3>4
    <3> QED BY <3>1, <3>5 DEF WordKept, RequestBusy
  <2> QED BY <2>1, <2>2, WhoIsWho
<1>10. Careful(r)'
  <2>1. Careful(r)
    BY DEF Heeded
  <2>2. r \in cycle'.left => cycle'.view[r].lightsOn /\ Kept(wish'[r], cycle'.view[r], now', EchoOfOthers')
    BY <1>7, <2>1 DEF Careful
  <2>3. \A t \in {"circadian", "mqtt"} : \A x \in Pending(t, r)' : Harmless(wish'[r], x, now', EchoOfOthers')
    BY <1>3, <1>7, <2>1, WhoIsWho DEF Careful
  <2>4. \A x \in Pending("mqtt", r)' : x.update \in {"LightsOn", "LightsOff", "ExternalChange"}
    BY <1>3, <2>1, WhoIsWho DEF Careful
  <2>5. \A p \in Goings("circadian", r)' : p \in EnginePushes(r)' /\ MayPush(wish'[r], now')
    BY <1>3, <2>1, WhoIsWho DEF Careful, EnginePushes
  <2> QED BY <2>2, <2>3, <2>4, <2>5 DEF Careful
<1>11. Echoes(r)'
  <2>0. Echoes(r)
    BY DEF Heeded
  <2>1. u.update = "RestoreLights" => Quiet(r)
    BY <1>4, <2>0 DEF Echoes
  <2>8. PICK record \in Room, i \in Nat : record = rooms[r] /\ i = now /\ next = ApplyUpdate(record, u, i)
    BY <1>1, <1>2
  <2>2. u.update = "JehaPush" => next.lastPush = now /\ next.intended = Or(u.level, rooms[r].intended)
    <3>1. ASSUME u.update = "JehaPush"
          PROVE  next.lastPush = i /\ next.intended = Or(u.level, record.intended)
      <4>1. next = ApplyUpdate(record, u, i)
        BY <2>8
      <4> QED BY <3>1, <4>1, PushApplies
    <3> QED BY <2>8, <3>1
  <2>3. u.update \notin {"JehaPush", "RestoreLights"} =>
          next.lastPush = rooms[r].lastPush /\ next.intended = rooms[r].intended
    <3>1. Head(rx).update = u /\ "room" \in DOMAIN Head(rx)
      OBVIOUS
    <3>2. u.update \in {"CircadianPause", "LightsOn", "ManualOverrideTtl", "JehaPush", "LightsOff",
                        "ExternalChange", "RestoreLights"}
      BY <1>0, <3>1, SaidKinds
    <3>3. ASSUME u.update \notin {"JehaPush", "RestoreLights"}
          PROVE  next.lastPush = record.lastPush /\ next.intended = record.intended
      <4>1. next = ApplyUpdate(record, u, i)
        BY <2>8
      <4> QED BY <3>2, <3>3, <4>1, PushApplies
    <3> QED BY <2>8, <3>3
  <2>4. \A S : PushPending(r, S) => PushPending(r, S)' \/ Intends(u, S)
    BY <1>3 DEF PushPending
  <2>5. \A t \in Tasks : \A x \in Pending(t, r)' : x.update = "RestoreLights" => Quiet(r)' /\ Goings(t, r)' = {}
    BY <1>3, <1>7, <2>0 DEF Echoes
  <2>6. wish'[r] # None /\ wish'[r].op = "on" /\ ~EchoOfOthers' /\ Reported(r)' =>
          PushPending(r, MaybeLevel)' \/ rooms'[r].lastPush = now'
    <3> SUFFICES ASSUME wish[r] # None, wish[r].op = "on", ~EchoOfOthers, Reported(r)
                 PROVE  PushPending(r, MaybeLevel)' \/ next.lastPush = now
      BY <1>2, <1>7
    <3>1. PushPending(r, MaybeLevel) \/ rooms[r].lastPush = now
      BY <2>0 DEF Echoes
    <3>2. u.update # "RestoreLights"
      BY <2>1 DEF Quiet
    <3> QED BY <2>2, <2>3, <2>4, <3>1, <3>2 DEF Intends
  <2>7. wish'[r] # None /\ wish'[r].op = "resume" =>
          /\ \A t \in Tasks : \A x \in Pending(t, r)' : x.update = "JehaPush" => x.level = "circadian"
          /\ Quiet(r)' \/ PushPending(r, {"circadian"})' \/ rooms'[r].intended = "circadian"
    <3> SUFFICES ASSUME wish[r] # None, wish[r].op = "resume"
                 PROVE  /\ \A t \in Tasks : \A x \in Pending(t, r)' : x.update = "JehaPush" => x.level = "circadian"
                        /\ Quiet(r) \/ PushPending(r, {"circadian"})' \/ next.intended = "circadian"
      BY <1>2, <1>7
    <3>1. /\ \A t \in Tasks : \A x \in Pending(t, r) : x.update = "JehaPush" => x.level = "circadian"
          /\ Quiet(r) \/ PushPending(r, {"circadian"}) \/ rooms[r].intended = "circadian"
      BY <2>0 DEF Echoes
    <3>2. \A t \in Tasks : \A x \in Pending(t, r)' : x.update = "JehaPush" => x.level = "circadian"
      BY <1>3, <3>1
    <3>3. u.update = "JehaPush" => next.intended = "circadian"
      <4>1. "circadian" # None
        BY DaemonAssumption, NoneIsNoLevel DEF DaemonAssumption, NoneIsNoLevel
      <4> QED BY <1>4, <2>2, <3>1, <4>1 DEF Or
    <3> QED BY <2>1, <2>3, <2>4, <3>1, <3>2, <3>3 DEF Intends
  <2> QED BY <2>5, <2>6, <2>7 DEF Echoes
<1> QED BY <1>6, <1>7, <1>8, <1>9, <1>10, <1>11 DEF Heeded

LEMMA ActorHeeds ==
  ASSUME TypeOK, TypeOK', RecordInv, HonourInv, Actor
  PROVE  HonourInv'
<1>0. QueuesOK /\ RecordOK /\ CoursesOK
  BY TypeParts DEF TypeOK, RecordInv
<1>1. /\ rx # <<>> /\ rx' = Tail(rx) /\ UNCHANGED <<inbox, todo, world, now, wish, cycle, raced, spent>>
      /\ \/ "room" \in DOMAIN Head(rx)
            /\ rooms' = [rooms EXCEPT ![Head(rx).room] = ApplyUpdate(@, Head(rx).update, now)]
         \/ "connected" \in DOMAIN Head(rx) /\ rooms' = rooms
  BY DEF Actor, ApplyRoomUpdate, ApplyConnected
<1>2. rooms \in [Rooms -> Room] /\ Head(rx) \in Commands
  BY <1>0, <1>1, HeadCommand DEF RecordOK
<1>3. ASSUME NEW r \in Rooms, ~raced[r]
      PROVE  Heeded(r)'
  <2>1. Heeded(r)
    BY <1>3 DEF HonourInv
  <2>2. CASE Head(rx) \in CommandsOf(r)
    <3>1. PICK s \in Tasks, u \in Updates : Head(rx) = [from |-> s, room |-> r, update |-> u]
      BY <2>2 DEF CommandsOf
    <3>2. "connected" \notin DOMAIN Head(rx) /\ Head(rx).room = r /\ Head(rx).update = u
      BY <3>1
    <3>3. rooms'[r] = ApplyUpdate(rooms[r], u, now)
      BY <1>1, <1>2, <3>2
    <3> QED BY <1>0, <1>1, <2>1, <3>1, <3>3, ActorHere
  <2>3. CASE Head(rx) \notin CommandsOf(r)
    <3>1. rooms'[r] = rooms[r]
      <4>1. CASE "room" \in DOMAIN Head(rx)
        <5>1. Head(rx) \in [from : Tasks, room : Rooms, update : Updates]
          BY <1>2, <4>1 DEF Commands
        <5>2. Head(rx).room # r
          BY <2>3, <5>1 DEF CommandsOf
        <5> QED BY <1>1, <1>2, <5>2
      <4>2. CASE "room" \notin DOMAIN Head(rx)
        BY <1>1, <4>2
      <4> QED BY <4>1, <4>2
    <3> QED BY <1>1, <2>1, <2>3, <3>1, ActorElsewhere
  <2> QED BY <2>2, <2>3
<1> QED BY <1>1, <1>3 DEF HonourInv, EchoOfOthers, world

-----------------------------------------------------------------------------
(* The requests.                                                            *)

\* What a request puts down: steps for its room, the pushes of which come
\* after a publish.
Plain(o, steps) ==
  \A e : Has(steps, e) =>
    /\ e.room = o
    /\ e.do = "publish" \/ (e.do = "send" /\ e.update.update \notin {"RestoreLights", "JehaPush"})

LEMMA PlainRequests ==
  ASSUME NEW r, NEW until
  PROVE  /\ Plain(r, OnRequest(r)) /\ Plain(r, SetRequest(r, until)) /\ Plain(r, OffRequest(r))
         /\ Plain(r, PauseRequest(r)) /\ Plain(r, SnoozeRequest(r, until)) /\ Plain(r, ResumeRequest(r))
         /\ Plain(r, SceneRequest(r, until)) /\ Plain(r, RecallRequest(r, until))
<1> DEFINE Fine(e) ==
             /\ e.room = r
             /\ e.do = "publish" \/ (e.do = "send" /\ e.update.update \notin {"RestoreLights", "JehaPush"})
<1>1. \A power, level, goal, ok, err : Fine(Publish(r, power, level, goal, ok, err))
  BY DEF Publish
<1>2. /\ \A level, source : Fine(Send(r, LightsOn(level, source)))
      /\ \A b, u : Fine(Send(r, CircadianPause(b, u)))
      /\ \A u : Fine(Send(r, ManualOverrideTtl(u)))
  BY DEF Send, LightsOn, CircadianPause, ManualOverrideTtl
<1> HIDE DEF Fine
<1>3. \A a, b, c, d : /\ Fine(a) => \A e : Has(<<a>>, e) => Fine(e)
                      /\ Fine(a) /\ Fine(b) => \A e : Has(<<a, b>>, e) => Fine(e)
                      /\ Fine(a) /\ Fine(b) /\ Fine(c) /\ Fine(d) => \A e : Has(<<a, b, c, d>>, e) => Fine(e)
  <2> SUFFICES ASSUME NEW a, NEW b, NEW c, NEW d
               PROVE  /\ Fine(a) => \A e : Has(<<a>>, e) => Fine(e)
                      /\ Fine(a) /\ Fine(b) => \A e : Has(<<a, b>>, e) => Fine(e)
                      /\ Fine(a) /\ Fine(b) /\ Fine(c) /\ Fine(d) => \A e : Has(<<a, b, c, d>>, e) => Fine(e)
    OBVIOUS
  <2>1. \A e : Has(<<a>>, e) <=> e = a
    BY HasShort
  <2>2. \A e : Has(<<a, b>>, e) <=> e \in {a, b}
    BY HasShort
  <2>3. \A e : Has(<<a, b, c, d>>, e) <=> e \in {a, b, c, d}
    BY HasFour
  <2> QED BY <2>1, <2>2, <2>3
<1>4. \A steps : Plain(r, steps) <=> \A e : Has(steps, e) => Fine(e)
  BY DEF Plain, Fine
<1>5. Plain(r, OnRequest(r)) /\ Plain(r, SetRequest(r, until)) /\ Plain(r, OffRequest(r))
  BY <1>1, <1>3, <1>4 DEF OnRequest, SetRequest, OffRequest
<1>6. Plain(r, PauseRequest(r)) /\ Plain(r, SnoozeRequest(r, until)) /\ Plain(r, ResumeRequest(r))
  BY <1>2, <1>3, <1>4 DEF PauseRequest, SnoozeRequest, ResumeRequest
<1>7. Plain(r, SceneRequest(r, until)) /\ Plain(r, RecallRequest(r, until))
  BY <1>1, <1>2, <1>3, <1>4 DEF SceneRequest, RecallRequest
<1> QED BY <1>5, <1>6, <1>7

\* A request that finds its room settled and leaves a promise.
LEMMA RequestHeeds ==
  ASSUME TypeOK, TypeOK', HonourInv, NEW q \in Requests, NEW o \in Rooms, NEW op, NEW steps,
         Request(q, o, op, steps), Plain(o, steps), \A r \in Rooms : r # o => wish'[r] = wish[r],
         Settled(o) /\ ~raced[o] =>
           /\ Promise(o, rooms[o], rx, steps, TRUE, wish'[o], now, EchoOfOthers)
           /\ Fits(o, wish'[o], now, bulb[o], outq, reports)
  PROVE  HonourInv'
<1>0. QueuesOK /\ QueuesOK' /\ q \in Tasks
  BY TypeParts, WhoIsWho DEF TypeOK
<1>1. /\ todo[q] = <<>> /\ todo' = [todo EXCEPT ![q] = steps]
      /\ Overlap(IF Settled(o) THEN {} ELSE {o})
      /\ UNCHANGED <<rooms, rx, inbox, outq, bulb, link, reports, now, cycle>>
  BY DEF Request, shared, world
<1>2. EchoOfOthers' = EchoOfOthers
  <2>1. spent'.outages = spent.outages
    BY DEF Request, SpendRequest, Spend, SpendFor, TypeOK
  <2> QED BY <2>1 DEF EchoOfOthers
<1>3. \A e : ~Has(todo[q], e)
  BY <1>1 DEF Has
<1>4. /\ \A r \in Rooms, t \in Tasks : t # q => Leaves(t, r)
      /\ \A r \in Rooms : Pending(q, r)' = Pending(q, r) \union {u \in Updates : Has(steps, Send(r, u))}
      /\ \A r \in Rooms : Goings(q, r)' = {p \in PublishSteps : p.room = r /\ Has(steps, p)}
  <2>1. \A r \in Rooms, u \in Updates : ~Has(todo[q], Send(r, u))
    BY <1>3
  <2> HIDE DEF Leaves
  <2>2. \A r \in Rooms :
           /\ \A u \in Tasks : u # q => Leaves(u, r)
           /\ Pending(q, r)' = Pending(q, r) \union {u \in Updates : Has(steps, Send(r, u))}
           /\ Goings(q, r)' = {p \in PublishSteps : p.room = r /\ Has(steps, p)}
    BY <1>0, <1>1, <2>1, TakesUp
  <2> QED BY <2>2
<1>5. todo'[q] = steps /\ \A t \in Tasks : t # q => todo'[t] = todo[t]
  BY <1>0, <1>1 DEF QueuesOK
<1>6. \A r \in Rooms : Quiet(r)' = Quiet(r) /\ (Reported(r)' <=> Reported(r)) /\ (Returned(r)' => Returned(r))
  BY <1>1 DEF Quiet, Reported, Outstanding, Returned
<1>7. ASSUME NEW r \in Rooms, ~raced'[r], r # o
      PROVE  Heeded(r)'
  <2>1. Heeded(r)
    BY <1>1, <1>7, Unraced DEF HonourInv
  <2>2. \A e : Has(steps, e) => e.room # r
    BY <1>7 DEF Plain
  <2>3. Leaves(q, r)
    <3>1. {u \in Updates : Has(steps, Send(r, u))} = {}
      BY <2>2 DEF Send
    <3>2. Pending(q, r)' = Pending(q, r)
      BY <1>4, <3>1
    <3>3. Goings(q, r)' = {}
      BY <1>4, <2>2
    <3>4. Goings(q, r) = {}
      BY <1>3 DEF Goings
    <3> QED BY <3>2, <3>3, <3>4 DEF Leaves
  <2>4. Shown(r)'
    BY <1>1, <1>7, <2>1 DEF Heeded, Shown
  <2>5. ASSUME NEW t \in Requests, Promised(t, r)
        PROVE  Promised(t, r)'
    <3>1. PICK record, plan, quiet, w, late :
            record = rooms[r] /\ plan = todo[t] /\ quiet = Quiet(r) /\ w = wish[r] /\ late = EchoOfOthers
      OBVIOUS
    <3>2. Promise(r, record, rx, plan, quiet, w, now, late) /\ plan \in Seq(Steps)
      BY <1>0, <2>5, <3>1, WhoIsWho DEF Promised, QueuesOK
    <3>3. Promise(r, record, rx, todo'[t], quiet, w, now, late)
      <4>1. CASE t = q
        <5>1. \A s \in SendsOf(r) : s.room = r
          BY DEF SendsOf
        <5>2. NoneIn(plan, SendsOf(r)) /\ \A k \in 1..Len(plan) : ~PublishFor(r, plan[k])
          BY <1>3, <3>1, <4>1 DEF NoneIn, Has
        <5>3. NoneIn(steps, SendsOf(r)) /\ \A k \in 1..Len(steps) : ~PublishFor(r, steps[k])
          BY <2>2, <5>1 DEF NoneIn, Has, PublishFor
        <5>4. steps \in Seq(Steps)
          BY <1>0, <1>5 DEF QueuesOK
        <5>5. Promise(r, record, rx, steps, quiet, w, now, late)
          BY <3>2, <5>2, <5>3, <5>4, PromiseElsewhere
        <5> QED BY <1>5, <4>1, <5>5
      <4>2. CASE t # q
        BY <1>5, <3>1, <3>2, <4>2, WhoIsWho
      <4> QED BY <4>1, <4>2
    <3> QED BY <1>1, <1>2, <1>6, <1>7, <3>1, <3>3 DEF Promised
  <2>6. \A t \in Tasks : Leaves(t, r)
    BY <1>4, <2>3
  <2>7. rooms'[r] = rooms[r] /\ now' = now /\ wish'[r] = wish[r] /\ (r \in cycle'.left => r \in cycle.left /\ cycle'.view[r] = cycle.view[r])
    BY <1>1, <1>7
  <2> QED BY <1>0, <1>2, <1>6, <2>1, <2>4, <2>5, <2>6, <2>7, HeededOn
<1>8. ASSUME ~raced'[o]
      PROVE  Heeded(o)'
  <2>1. ~raced[o] /\ Settled(o)
    BY <1>1, <1>8, Unraced
  <2>2. /\ \A t \in Tasks : ~Busy(t, o) /\ Quiet(o) /\ o \notin cycle.left
        /\ ~Returned(o)
    BY <2>1, NobodySettled DEF Busy, Settled, EngineBusy
  <2>3. \A t \in Tasks : Pending(t, o) = {} /\ Goings(t, o) = {}
    BY <1>0, <2>2, BusyIs
  <2>4. \A t \in Tasks : t # q => ~Busy(t, o)' /\ Pending(t, o)' = {} /\ Goings(t, o)' = {}
    BY <1>0, <1>4, <2>2, <2>3, BusyOn DEF Leaves
  <2>5. \A u \in Pending(q, o)' : u.update \notin {"RestoreLights", "JehaPush"}
    <3>1. \A u \in Updates : Has(steps, Send(o, u)) => u.update \notin {"RestoreLights", "JehaPush"}
      BY DEF Plain, Send
    <3> QED BY <1>0, <1>4, <2>3, <3>1
  <2>6. Quiet(o)'
    BY <1>0, <1>6, <2>2
  <2>7. Promised(q, o)'
    <3>1. Promise(o, rooms[o], rx, steps, TRUE, wish'[o], now, EchoOfOthers)
      BY <2>1
    <3>2. Quiet(o)' = TRUE
      BY <2>6
    <3> QED BY <1>1, <1>2, <1>5, <3>1, <3>2 DEF Promised
  <2>8. OneAttends(o)'
    BY <1>1, <2>2, <2>4 DEF OneAttends, Attends
  <2>9. ReturnKnown(o)'
    BY <1>0, <1>6, <2>2 DEF ReturnKnown
  <2>10. WordKept(o)'
    <3>1. \A t \in Requests : Busy(t, o)' => t = q
      BY <2>4, WhoIsWho
    <3>2. ASSUME ~RequestBusy(o)'
          PROVE  Kept(wish'[o], rooms'[o], now', EchoOfOthers')
      <4>1. \A t \in Tasks : ~Busy(t, o)'
        BY <2>4, <3>2 DEF RequestBusy
      <4> QED BY <1>0, <2>7, <4>1, WordEnds
    <3> QED BY <2>7, <3>1, <3>2 DEF WordKept
  <2>11. Careful(o)'
    BY <1>0, <1>1, <2>2, <2>4, WhoIsWho DEF Careful
  <2>12. Shown(o)'
    BY <1>1, <2>1 DEF Shown
  <2>13. Echoes(o)'
    <3>1. \A t \in Tasks : \A u \in Pending(t, o)' : u.update \notin {"RestoreLights", "JehaPush"}
      BY <2>4, <2>5
    <3> QED BY <2>6, <3>1 DEF Echoes, Quiet
  <2> QED BY <2>8, <2>9, <2>10, <2>11, <2>12, <2>13 DEF Heeded
<1>9. \A r \in Rooms : ~raced'[r] => Heeded(r)'
  BY <1>7, <1>8
<1> QED BY <1>1, <1>2, <1>9 DEF HonourInv

\* What is read of a room whose affairs are settled.
LEMMA SettledKeeps ==
  ASSUME TypeOK, HonourInv, NEW o \in Rooms, Settled(o), ~raced[o]
  PROVE  /\ Kept(wish[o], rooms[o], now, EchoOfOthers)
         /\ NoneIn(rx, CommandsOf(o))
         /\ Fits(o, wish[o], now, bulb[o], outq, reports)
         /\ \A w \in Goal : w.op \in {"pause", "snooze", "resume"} => Fits(o, w, now, bulb[o], outq, reports)
<1>1. Heeded(o)
  BY DEF HonourInv
<1>2. \A t \in Tasks : ~Busy(t, o)
  BY NobodySettled DEF Busy
<1>3. ~RequestBusy(o)
  BY <1>2, WhoIsWho DEF RequestBusy
<1>4. /\ \A k \in 1..Len(outq) : outq[k].room # o
      /\ \A k \in 1..Len(reports) : reports[k].room # o
  BY NobodySettled DEF Quiet, Reported, Outstanding
<1>5. \A w \in Goal : w.op \in {"pause", "snooze", "resume"} => Fits(o, w, now, bulb[o], outq, reports)
  BY <1>4 DEF Fits
<1>6. NoneIn(rx, CommandsOf(o))
  BY <1>2, NothingLeft
<1> QED BY <1>1, <1>3, <1>5, <1>6 DEF Heeded, WordKept, Shown

LEMMA ApiHeeds ==
  ASSUME TypeOK, TypeOK', HonourInv, NEW q \in Requests, NEW o \in Rooms, Api(q, o)
  PROVE  HonourInv'
<1>1. /\ rooms[o] \in Room /\ wish \in [Rooms -> Goal \union {None}] /\ now \in Nat
      /\ rx \in Seq(Commands)
  BY TypeParts DEF TypeOK, DaemonTypeOK
<1>2. /\ \A until \in Deadlines : until \in MaybeInstant
      /\ now + Ttl \in MaybeInstant /\ "user" \in Levels
  BY <1>1, ControlAssumption, RequestsAssumption DEF Deadlines, MaybeInstant
<1>3. ASSUME NEW op, NEW steps, Request(q, o, op, steps), Plain(o, steps), wish' = wish,
             Settled(o) /\ ~raced[o] /\ Kept(wish[o], rooms[o], now, EchoOfOthers) /\ NoneIn(rx, CommandsOf(o))
               => Promise(o, rooms[o], rx, steps, TRUE, wish[o], now, EchoOfOthers)
      PROVE  HonourInv'
  BY <1>3, SettledKeeps, RequestHeeds
<1>4. ASSUME NEW op, NEW steps, Request(q, o, op, steps), Plain(o, steps),
             NEW w \in Goal, w.op \in {"pause", "snooze", "resume"}, wish' = [wish EXCEPT ![o] = w],
             NoneIn(rx, CommandsOf(o)) => Promise(o, rooms[o], rx, steps, TRUE, w, now, EchoOfOthers)
      PROVE  HonourInv'
  <2>1. wish'[o] = w /\ \A r \in Rooms : r # o => wish'[r] = wish[r]
    BY <1>1, <1>4
  <2> QED BY <1>4, <2>1, SettledKeeps, RequestHeeds
<1>5. CASE Request(q, o, "on", OnRequest(o)) /\ UNCHANGED wish
  BY <1>1, <1>3, <1>5, OnPromises, PlainRequests
<1>6. ASSUME NEW until \in Deadlines, Request(q, o, "set", SetRequest(o, until)), UNCHANGED wish
      PROVE  HonourInv'
  BY <1>1, <1>2, <1>3, <1>6, SetPromises, PlainRequests
<1>7. ASSUME NEW until \in Deadlines, Request(q, o, "scene", SceneRequest(o, until)), UNCHANGED wish
      PROVE  HonourInv'
  BY <1>1, <1>2, <1>3, <1>7, ScenePromises, PlainRequests
<1>8. ASSUME NEW until \in Deadlines, Request(q, o, "recall", RecallRequest(o, until)), UNCHANGED wish
      PROVE  HonourInv'
  BY <1>1, <1>2, <1>3, <1>8, RecallPromises, PlainRequests
<1>9. CASE Request(q, o, "off", OffRequest(o)) /\ UNCHANGED wish
  BY <1>1, <1>3, <1>9, OffPromises, PlainRequests
<1>10. None \in MaybeInstant
  BY DEF MaybeInstant
<1>11. CASE Request(q, o, "pause", PauseRequest(o)) /\ Ask(o, "pause", None)
  <2>1. [op |-> "pause", until |-> None] \in Goal
    BY <1>10, GoalType
  <2>2. NoneIn(rx, CommandsOf(o)) =>
          Promise(o, rooms[o], rx, PauseRequest(o), TRUE, [op |-> "pause", until |-> None], now, EchoOfOthers)
    BY <1>1, <1>10, PausePromises
  <2>3. wish' = [wish EXCEPT ![o] = [op |-> "pause", until |-> None]]
    BY <1>11 DEF Ask
  <2> QED BY <1>4, <1>11, <2>1, <2>2, <2>3, PlainRequests
<1>12. CASE Request(q, o, Resume(o), ResumeRequest(o)) /\ Ask(o, "resume", None)
  <2>1. [op |-> "resume", until |-> None] \in Goal
    BY <1>10, GoalType
  <2>2. NoneIn(rx, CommandsOf(o)) =>
          Promise(o, rooms[o], rx, ResumeRequest(o), TRUE, [op |-> "resume", until |-> None], now, EchoOfOthers)
    BY <1>1, ResumePromises
  <2>3. wish' = [wish EXCEPT ![o] = [op |-> "resume", until |-> None]]
    BY <1>12 DEF Ask
  <2> QED BY <1>4, <1>12, <2>1, <2>2, <2>3, PlainRequests
<1>13. CASE Request(q, o, "snooze", SnoozeRequest(o, now + Ttl)) /\ Ask(o, "snooze", now + Ttl)
  <2>1. [op |-> "snooze", until |-> now + Ttl] \in Goal
    BY <1>2, GoalType
  <2>2. NoneIn(rx, CommandsOf(o)) =>
          Promise(o, rooms[o], rx, SnoozeRequest(o, now + Ttl), TRUE, [op |-> "snooze", until |-> now + Ttl],
                  now, EchoOfOthers)
    BY <1>1, <1>2, PausePromises
  <2>3. wish' = [wish EXCEPT ![o] = [op |-> "snooze", until |-> now + Ttl]]
    BY <1>13 DEF Ask
  <2> QED BY <1>4, <1>13, <2>1, <2>2, <2>3, PlainRequests
<1> QED BY <1>5, <1>6, <1>7, <1>8, <1>9, <1>11, <1>12, <1>13 DEF Api

-----------------------------------------------------------------------------
(* The engine.                                                              *)

\* What the engine says of a lit room it has seen, and pushes to it, takes
\* nothing away of what the room was asked.
LEMMA CycleHarmless ==
  ASSUME NEW room \in Room, room.lightsOn, NEW w \in Goal \union {None}, NEW i \in Nat, NEW late,
         Kept(w, room, i, late), ~IsCircadianPaused(room, i)
  PROVE  /\ room.paused => Harmless(w, CircadianPause(FALSE, None), i, late)
         /\ ~IsManualOverrideActive(room, i) =>
              /\ MayPush(w, i)
              /\ room.source = "Manual" =>
                   /\ Harmless(w, LightsOn(None, "Circadian"), i, late)
                   /\ Harmless(w, ManualOverrideTtl(None), i, late)
<1>1. /\ room.paused => room.pausedUntil # None /\ room.pausedUntil \in Nat /\ i >= room.pausedUntil
      /\ room.paused \in BOOLEAN
  BY DEF IsCircadianPaused, Room, MaybeInstant
<1>2. w # None => w.op \notin {"off", "pause", "scene"}
  BY <1>1 DEF Kept
<1>3. w # None => w.op \in {"on", "set", "off", "pause", "resume", "snooze", "scene"}
  BY DEF Goal
<1>4. w # None /\ w.op = "snooze" => Over(w.until, i)
  BY <1>1 DEF Kept, Over
<1>5. /\ LightsOn(None, "Circadian") \in Updates /\ ManualOverrideTtl(None) \in Updates
      /\ CircadianPause(FALSE, None) \in Updates
      /\ LightsOn(None, "Circadian").update = "LightsOn" /\ LightsOn(None, "Circadian").source = "Circadian"
      /\ ManualOverrideTtl(None).update = "ManualOverrideTtl" /\ ManualOverrideTtl(None).until = None
      /\ CircadianPause(FALSE, None).update = "CircadianPause" /\ CircadianPause(FALSE, None).paused = FALSE
      /\ CircadianPause(FALSE, None).until = None
  BY UpdateTypes DEF LightsOn, ManualOverrideTtl, CircadianPause, MaybeLevel, MaybeInstant, Sources
<1>6. ASSUME room.paused
      PROVE  Harmless(w, CircadianPause(FALSE, None), i, late)
  <2>1. ASSUME NEW x \in Room, NEW j \in Nat, Kept(w, x, i, late),
               NEW next, next = ApplyUpdate(x, CircadianPause(FALSE, None), j)
        PROVE  Kept(w, next, i, late)
    <3>2. PICK u : u = CircadianPause(FALSE, None)
      OBVIOUS
    <3>3. u \in Updates /\ u.update = "CircadianPause" /\ u.paused = FALSE /\ u.until = None /\ next = ApplyUpdate(x, u, j)
      BY <1>5, <2>1, <3>2
    <3>4. Face(next, x.lightsOn, x.source, x.overrideUntil, u.paused, u.until)
      BY <2>1, <3>3, FaceApplies
    <3>1. Face(next, x.lightsOn, x.source, x.overrideUntil, FALSE, None)
      BY <3>3, <3>4
    <3> QED BY <1>2, <1>3, <1>4, <2>1, <3>1 DEF Kept, Face
  <2> QED BY <2>1 DEF Harmless
<1>7. ASSUME ~IsManualOverrideActive(room, i)
      PROVE  MayPush(w, i) /\ (w # None /\ w.op = "set" => Over(w.until, i))
  <2>1. w # None /\ w.op = "set" => Over(w.until, i)
    BY <1>7 DEF Kept, Over, IsManualOverrideActive, Room, MaybeInstant
  <2> QED BY <1>2, <1>3, <1>4, <2>1 DEF MayPush
<1>8. ASSUME ~IsManualOverrideActive(room, i)
      PROVE  Harmless(w, LightsOn(None, "Circadian"), i, late)
  <2>1. ASSUME NEW x \in Room, NEW j \in Nat, Kept(w, x, i, late),
               NEW next, next = ApplyUpdate(x, LightsOn(None, "Circadian"), j)
        PROVE  Kept(w, next, i, late)
    <3>2. PICK u : u = LightsOn(None, "Circadian")
      OBVIOUS
    <3>3. u \in Updates /\ u.update = "LightsOn" /\ u.source = "Circadian" /\ next = ApplyUpdate(x, u, j)
      BY <1>5, <2>1, <3>2
    <3>4. Face(next, TRUE, u.source, x.overrideUntil, x.paused, x.pausedUntil)
      BY <2>1, <3>3, FaceApplies
    <3>1. Face(next, TRUE, "Circadian", x.overrideUntil, x.paused, x.pausedUntil)
      BY <3>3, <3>4
    <3> QED BY <1>2, <1>3, <1>7, <1>8, <2>1, <3>1 DEF Kept, Face
  <2> QED BY <2>1 DEF Harmless
<1>9. ASSUME ~IsManualOverrideActive(room, i)
      PROVE  Harmless(w, ManualOverrideTtl(None), i, late)
  <2>1. ASSUME NEW x \in Room, NEW j \in Nat, Kept(w, x, i, late),
               NEW next, next = ApplyUpdate(x, ManualOverrideTtl(None), j)
        PROVE  Kept(w, next, i, late)
    <3>2. PICK u : u = ManualOverrideTtl(None)
      OBVIOUS
    <3>3. u \in Updates /\ u.update = "ManualOverrideTtl" /\ u.until = None /\ next = ApplyUpdate(x, u, j)
      BY <1>5, <2>1, <3>2
    <3>4. Face(next, x.lightsOn, x.source, u.until, x.paused, x.pausedUntil)
      BY <2>1, <3>3, FaceApplies
    <3>1. Face(next, x.lightsOn, x.source, None, x.paused, x.pausedUntil)
      BY <3>3, <3>4
    <3> QED BY <1>2, <1>3, <1>7, <1>9, <2>1, <3>1 DEF Kept, Face
  <2> QED BY <2>1 DEF Harmless
<1> QED BY <1>6, <1>7, <1>8, <1>9

\* What the engine puts down for a room.
Gentle(r, w, i, late, e) ==
  \/ e \in EnginePushes(r) /\ MayPush(w, i)
  \/ \E u \in Updates : e = Send(r, u) /\ Harmless(w, u, i, late)
                        /\ u.update \in {"CircadianPause", "LightsOn", "ManualOverrideTtl"}

LEMMA CycleGentle ==
  ASSUME NEW r \in Rooms, NEW room \in Room, room.lightsOn, NEW w \in Goal \union {None}, now \in Nat, NEW late,
         Kept(w, room, now, late)
  PROVE  \A e : Has(RoomSteps(r, room), e) => Gentle(r, w, now, late, e)
<1> DEFINE a == Send(r, CircadianPause(FALSE, None))
           b == Send(r, LightsOn(None, "Circadian"))
           c == Send(r, ManualOverrideTtl(None))
           p == Publish(r, "keep", "circadian", None,
                  << Send(r, LightsOn("circadian", "Circadian")), Send(r, JehaPush("circadian")) >>, <<>>)
           M == {a, b, c, p}
<1>1. /\ LightsOn(None, "Circadian") \in Updates /\ ManualOverrideTtl(None) \in Updates
      /\ CircadianPause(FALSE, None) \in Updates
      /\ LightsOn(None, "Circadian").update = "LightsOn"
      /\ ManualOverrideTtl(None).update = "ManualOverrideTtl"
      /\ CircadianPause(FALSE, None).update = "CircadianPause"
  BY UpdateTypes DEF LightsOn, ManualOverrideTtl, CircadianPause, MaybeLevel, MaybeInstant, Sources
<1>2. ASSUME ~IsCircadianPaused(room, now)
      PROVE  /\ room.paused => Gentle(r, w, now, late, a)
             /\ ~IsManualOverrideActive(room, now) =>
                  /\ Gentle(r, w, now, late, p)
                  /\ room.source = "Manual" => Gentle(r, w, now, late, b) /\ Gentle(r, w, now, late, c)
  <2>1. p \in EnginePushes(r)
    BY DEF EnginePushes
  <2>2. room.paused => Gentle(r, w, now, late, a)
    BY <1>1, <1>2, CycleHarmless DEF Gentle
  <2>3. ~IsManualOverrideActive(room, now) => Gentle(r, w, now, late, p)
    BY <1>2, <2>1, CycleHarmless DEF Gentle
  <2>4. ~IsManualOverrideActive(room, now) /\ room.source = "Manual" =>
          Gentle(r, w, now, late, b) /\ Gentle(r, w, now, late, c)
    BY <1>1, <1>2, CycleHarmless DEF Gentle
  <2> QED BY <2>2, <2>3, <2>4
<1>3. /\ ResumeSteps(r, room) = IF room.paused THEN <<a>> ELSE <<>>
      /\ OverrideSteps(r, room) = IF room.source = "Manual" THEN <<b, c>> ELSE <<>>
      /\ PushRoom(r) = <<p>>
  BY DEF ResumeSteps, OverrideSteps, PushRoom
<1> HIDE DEF a, b, c, p
<1>4. ResumeSteps(r, room) \in Seq(M) /\ OverrideSteps(r, room) \in Seq(M) /\ PushRoom(r) \in Seq(M)
  <2>1. <<a>> \in Seq(M) /\ <<b, c>> \in Seq(M) /\ <<p>> \in Seq(M) /\ <<>> \in Seq(M)
    OBVIOUS
  <2> HIDE DEF M
  <2> QED BY <1>3, <2>1
<1> DEFINE rest == IF IsManualOverrideActive(room, now) THEN <<>> ELSE OverrideSteps(r, room) \o PushRoom(r)
<1>5. rest \in Seq(M)
  BY <1>4
<1> HIDE DEF M
<1>6. /\ \A e : Has(ResumeSteps(r, room), e) => room.paused /\ e = a
      /\ \A e : Has(OverrideSteps(r, room), e) => room.source = "Manual" /\ e \in {b, c}
      /\ \A e : Has(PushRoom(r), e) => e = p
      /\ \A e : ~Has(<<>>, e)
  <2>1. \A e : Has(<<a>>, e) <=> e = a
    BY HasShort
  <2>2. \A e : Has(<<b, c>>, e) <=> e \in {b, c}
    BY HasShort
  <2>3. \A e : Has(<<p>>, e) <=> e = p
    BY HasShort
  <2>4. \A e : ~Has(<<>>, e)
    BY DEF Has
  <2>5. \A e : Has(ResumeSteps(r, room), e) => room.paused /\ e = a
    BY <1>3, <2>1, <2>4
  <2>6. \A e : Has(OverrideSteps(r, room), e) => room.source = "Manual" /\ e \in {b, c}
    BY <1>3, <2>2, <2>4
  <2> QED BY <1>3, <2>3, <2>4, <2>5, <2>6
<1>7. CASE IsCircadianPaused(room, now)
  <2>1. RoomSteps(r, room) = <<>>
    BY <1>7 DEF RoomSteps
  <2> QED BY <1>6, <2>1
<1>8. CASE ~IsCircadianPaused(room, now)
  <2>1. RoomSteps(r, room) = ResumeSteps(r, room) \o rest
    BY <1>8 DEF RoomSteps
  <2> HIDE DEF rest
  <2>2. \A e : Has(RoomSteps(r, room), e) <=> Has(ResumeSteps(r, room), e) \/ Has(rest, e)
    BY <1>4, <1>5, <2>1, HasConcat
  <2>3. \A e : Has(rest, e) => ~IsManualOverrideActive(room, now) /\ (Has(OverrideSteps(r, room), e) \/ Has(PushRoom(r), e))
    <3>1. CASE IsManualOverrideActive(room, now)
      BY <1>6, <3>1 DEF rest
    <3>2. CASE ~IsManualOverrideActive(room, now)
      BY <1>4, <3>2, HasConcat DEF rest
    <3> QED BY <3>1, <3>2
  <2> QED BY <1>2, <1>6, <1>8, <2>2, <2>3
<1> QED BY <1>7, <1>8

\* What has been promised stays promised when nothing it depends on changes.
LEMMA PromisedOn ==
  ASSUME NEW q, NEW r, todo'[q] = todo[q], rx' = rx, rooms'[r] = rooms[r], wish'[r] = wish[r], now' = now,
         EchoOfOthers' = EchoOfOthers, Quiet(r)' = Quiet(r), Promised(q, r)
  PROVE  Promised(q, r)'
BY DEF Promised

\* No engine takes anything back.
LEMMA EngineSays ==
  ASSUME CoursesOK, "circadian" \in Tasks, NEW r \in Rooms
  PROVE  todo["circadian"] = <<>> => \A u \in Pending("circadian", r) : u.update # "RestoreLights"
<1> SUFFICES ASSUME todo["circadian"] = <<>>, NEW u \in Pending("circadian", r)
             PROVE  u.update # "RestoreLights"
  OBVIOUS
<1>1. Has(rx, [from |-> "circadian", room |-> r, update |-> u])
  BY DEF Pending, Has
<1>2. PICK i \in 1..Len(rx) : rx[i] = [from |-> "circadian", room |-> r, update |-> u]
  BY <1>1 DEF Has
<1>3. u \in SaidBy("circadian", Unrecalled)
  <2>1. "room" \in DOMAIN rx[i] /\ rx[i].from = "circadian" /\ rx[i].update = u
    BY <1>2
  <2> QED BY <2>1 DEF CoursesOK
<1> QED BY <1>3 DEF SaidBy, Kinds, EngineKinds

\* The engine takes up a room that nobody else attends to.
LEMMA EngineHere ==
  ASSUME TypeOK, TypeOK', CoursesOK, NEW o \in Rooms, Heeded(o), todo["circadian"] = <<>>,
         NEW steps, todo' = [todo EXCEPT !["circadian"] = steps],
         \A e : Has(steps, e) => Gentle(o, wish[o], now, EchoOfOthers, e),
         UNCHANGED <<shared, rx, world, now, wish, spent>>,
         ~MqttBusy(o), ~RequestBusy(o), Returned(o)' => Returned(o), o \notin cycle'.left
  PROVE  Heeded(o)'
<1>0. QueuesOK /\ QueuesOK' /\ "circadian" \in Tasks
  BY TypeParts, WhoIsWho DEF TypeOK
<1> DEFINE t == "circadian"
<1>1. /\ \A u \in Tasks : u # t => Leaves(u, o) /\ todo'[u] = todo[u]
      /\ Pending(t, o)' = Pending(t, o) \union {u \in Updates : Has(steps, Send(o, u))}
      /\ Goings(t, o)' = {p \in PublishSteps : p.room = o /\ Has(steps, p)}
  <2>1. TakenUp("circadian", steps, o)
    BY <1>0, TookUp
  <2> QED BY <2>1 DEF TakenUp
<1>2. EchoOfOthers' = EchoOfOthers
  BY DEF EchoOfOthers
<1>3. \A p \in EnginePushes(o) : p.do = "publish"
  BY DEF EnginePushes, Publish
<1>4. ASSUME NEW u \in Updates, Has(steps, Send(o, u))
      PROVE  /\ Harmless(wish[o], u, now, EchoOfOthers)
             /\ u.update \in {"CircadianPause", "LightsOn", "ManualOverrideTtl"}
  <2>1. Gentle(o, wish[o], now, EchoOfOthers, Send(o, u))
    BY <1>4
  <2>2. Send(o, u) \notin EnginePushes(o)
    BY <1>3 DEF Send
  <2>3. PICK v \in Updates : /\ Send(o, u) = Send(o, v) /\ Harmless(wish[o], v, now, EchoOfOthers)
                             /\ v.update \in {"CircadianPause", "LightsOn", "ManualOverrideTtl"}
    BY <2>1, <2>2 DEF Gentle
  <2>4. u = v
    BY <2>3, AskedKinds
  <2> QED BY <2>3, <2>4
<1>5. ASSUME NEW p \in PublishSteps, Has(steps, p)
      PROVE  p \in EnginePushes(o) /\ MayPush(wish[o], now)
  <2>1. Gentle(o, wish[o], now, EchoOfOthers, p)
    BY <1>5
  <2>2. \A u : p # Send(o, u)
    BY DEF PublishSteps, Send
  <2> QED BY <2>1, <2>2 DEF Gentle
<1>6. \A u \in Tasks : u # t => ~Busy(u, o) /\ ~Busy(u, o)' /\ Pending(u, o)' = {} /\ Goings(u, o)' = {}
  <2>1. \A u \in Tasks : u # t => ~Busy(u, o)
    BY NobodyElse DEF Busy
  <2>2. \A u \in Tasks : u # t => ~Busy(u, o)'
    BY <1>0, <1>1, <2>1, BusyOn
  <2> QED BY <1>0, <2>1, <2>2, BusyIs
<1>7. OneAttends(o)'
  BY <1>6 DEF OneAttends, Attends
<1>8. ~RequestBusy(o)' /\ (\A q \in Requests : ~Busy(q, o)')
  BY <1>6, WhoIsWho DEF RequestBusy
<1>9. ReturnKnown(o)'
  BY <1>8 DEF Heeded, ReturnKnown
<1>10. WordKept(o)'
  BY <1>2, <1>8 DEF Heeded, WordKept, shared
<1>11. Careful(o)'
  <2>1. \A u \in Pending(t, o)' : Harmless(wish'[o], u, now', EchoOfOthers')
    BY <1>1, <1>2, <1>4 DEF Heeded, Careful
  <2>2. \A u \in Pending("mqtt", o)' : FALSE
    BY <1>0, <1>6, WhoIsWho
  <2>3. \A p \in Goings(t, o)' : p \in EnginePushes(o)' /\ MayPush(wish'[o], now')
    BY <1>1, <1>5 DEF EnginePushes
  <2> QED BY <2>1, <2>2, <2>3 DEF Careful
<1>12. Quiet(o)' = Quiet(o) /\ (Reported(o)' <=> Reported(o))
  BY DEF Quiet, Reported, Outstanding, world
<1>13. Shown(o)'
  BY DEF Heeded, Shown, world
<1>14. Echoes(o)'
  <2>1. \A v \in Tasks : \A u \in Pending(v, o)' : u.update # "RestoreLights"
    <3>1. \A u \in Pending(t, o) : u.update # "RestoreLights"
      BY <1>0, EngineSays
    <3> QED BY <1>1, <1>4, <1>6, <3>1
  <2>2. \A v \in Tasks : Pending(v, o) \subseteq Pending(v, o)'
    BY <1>1 DEF Leaves
  <2>3. \A S : PushPending(o, S) => PushPending(o, S)'
    BY <2>2 DEF PushPending
  <2>4. \A v \in Tasks : \A u \in Pending(v, o)' : u.update = "JehaPush" => u \in Pending(v, o)
    BY <1>1, <1>4, <1>6
  <2>5. Echoes(o)
    BY DEF Heeded
  <2>6. wish'[o] # None /\ wish'[o].op = "on" /\ ~EchoOfOthers' /\ Reported(o)' =>
          PushPending(o, MaybeLevel)' \/ rooms'[o].lastPush = now'
    BY <1>2, <1>12, <2>3, <2>5 DEF Echoes, shared
  <2>7. wish'[o] # None /\ wish'[o].op = "resume" =>
          /\ \A v \in Tasks : \A u \in Pending(v, o)' : u.update = "JehaPush" => u.level = "circadian"
          /\ Quiet(o)' \/ PushPending(o, {"circadian"})' \/ rooms'[o].intended = "circadian"
    BY <1>12, <2>3, <2>4, <2>5 DEF Echoes, shared
  <2> QED BY <2>1, <2>6, <2>7 DEF Echoes
<1> QED BY <1>7, <1>9, <1>10, <1>11, <1>13, <1>14 DEF Heeded

\* A task of the daemon's own takes up something that is not about this room.
LEMMA TookUpElsewhere ==
  ASSUME TypeOK, TypeOK', NEW t \in {"circadian", "mqtt"}, todo[t] = <<>>,
         NEW steps, todo' = [todo EXCEPT ![t] = steps], UNCHANGED <<rooms, rx, now, spent>>,
         NEW r \in Rooms, Heeded(r), wish'[r] = wish[r],
         \A e : Has(steps, e) /\ e.do \in {"send", "publish"} => e.room # r,
         r \in cycle'.left => r \in cycle.left /\ cycle'.view[r] = cycle.view[r],
         Returned(r)' => Returned(r), Reported(r)' <=> Reported(r), Quiet(r)' = Quiet(r), Shown(r)'
  PROVE  Heeded(r)'
<1>0. QueuesOK /\ QueuesOK' /\ t \in Tasks /\ t \notin Requests
  BY TypeParts, WhoIsWho DEF TypeOK
<1>1. \A u \in Tasks : Leaves(u, r) /\ (u # t => todo'[u] = todo[u])
  <2>1. TakenUp(t, steps, r)
    BY <1>0, TookUp
  <2> QED BY <2>1 DEF TakenUp
<1>2. EchoOfOthers' = EchoOfOthers
  BY DEF EchoOfOthers
<1>3. \A q \in Requests : Promised(q, r) => Promised(q, r)'
  BY <1>0, <1>1, <1>2, PromisedOn, WhoIsWho
<1> QED BY <1>0, <1>1, <1>2, <1>3, HeededOn

LEMMA TakesReturns ==
  ASSUME TypeOK, NEW event, EngineTakes(event)
  PROVE  \A r \in Rooms : Returned(r)' => Returned(r)
<1> DEFINE q == inbox["circadian"]
<1>1. QueuesOK /\ "circadian" \in Subscribers
  BY TypeParts, EngineAssumption DEF TypeOK, EngineAssumption
<1>2. q \in Seq(Events) /\ q # <<>> /\ inbox'["circadian"] = Tail(q)
  BY <1>1 DEF QueuesOK, EngineTakes
<1>3. Len(Tail(q)) = Len(q) - 1 /\ Len(q) \in Nat /\ \A i \in 1..Len(Tail(q)) : Tail(q)[i] = q[i + 1]
  BY <1>2, HeadTailProperties, LenProperties
<1> SUFFICES ASSUME NEW r \in Rooms, Returned(r)'
             PROVE  Returned(r)
  OBVIOUS
<1>4. PICK i \in 1..Len(Tail(q)) : Tail(q)[i] = [event |-> "DeviceOnline", room |-> r]
  BY <1>2 DEF Returned
<1>5. i + 1 \in 1..Len(q) /\ q[i + 1] = [event |-> "DeviceOnline", room |-> r]
  BY <1>3, <1>4
<1> QED BY <1>5 DEF Returned

\* A cycle begins with what it sees of rooms that nobody works on.
LEMMA BeginsHeeds ==
  ASSUME TypeOK, TypeOK', HonourInv, BeginsCycle
  PROVE  HonourInv'
<1>0. QueuesOK /\ QueuesOK' /\ "circadian" \in Tasks
  BY TypeParts, WhoIsWho DEF TypeOK
<1>1. /\ UNCHANGED <<rooms, rx, todo, world, now, wish, spent>>
      /\ EngineIdle /\ BeginCycle /\ CycleOverlap
      /\ \A r \in Rooms : Returned(r)' => Returned(r)
  <2>1. CASE CycleTick
    BY <2>1 DEF BeginsCycle, CycleTick, daemon, shared, Returned
  <2>2. CASE HandleMqttConnected
    BY <2>2, TakesReturns DEF BeginsCycle, HandleMqttConnected, EngineTakes, shared
  <2> QED BY <2>1, <2>2 DEF BeginsCycle
<1>2. EchoOfOthers' = EchoOfOthers /\ link' = link /\ outq' = outq
  BY <1>1 DEF EchoOfOthers, world
<1>3. ASSUME NEW r \in Rooms, ~raced'[r]
      PROVE  Heeded(r)'
  <2>1. Heeded(r)
    BY <1>1, <1>3, Unraced DEF HonourInv, CycleOverlap
  <2>2. \A t \in Tasks : Leaves(t, r)
    BY <1>1 DEF Leaves, Pending, Goings
  <2>3. (Reported(r)' <=> Reported(r)) /\ Quiet(r)' = Quiet(r) /\ Shown(r)'
    BY <1>1, <2>1 DEF Reported, Quiet, Outstanding, Heeded, Shown, world
  <2>4. \A q \in Requests : Promised(q, r) => Promised(q, r)'
    BY <1>1, <1>2, <2>3, PromisedOn
  <2>5. CASE cycle' = cycle
    BY <1>0, <1>1, <1>2, <2>1, <2>2, <2>3, <2>4, <2>5, HeededOn
  <2>6. CASE r \notin Lit /\ cycle' = [left |-> Lit, view |-> rooms]
    BY <1>0, <1>1, <1>2, <2>1, <2>2, <2>3, <2>4, <2>6, HeededOn
  <2>7. CASE r \in Lit /\ connected /\ cycle' = [left |-> Lit, view |-> rooms]
    <3>1. ~MqttBusy(r) /\ ~RequestBusy(r)
      BY <1>1, <1>3, <2>7, Unraced DEF CycleOverlap
    <3>2. \A t \in Tasks : t # "circadian" => ~Busy(t, r)'
      <4>1. \A t \in Tasks : t # "circadian" => ~Busy(t, r)
        BY <3>1, NobodyElse DEF Busy
      <4> QED BY <1>0, <2>2, <4>1, BusyOn
    <3>3. ~RequestBusy(r)' /\ \A q \in Requests : ~Busy(q, r)'
      BY <3>2, WhoIsWho DEF RequestBusy
    <3>4. OneAttends(r)'
      BY <3>2 DEF OneAttends, Attends
    <3>5. ReturnKnown(r)'
      BY <1>1, <2>1, <3>3 DEF Heeded, ReturnKnown
    <3>6. Kept(wish[r], rooms[r], now, EchoOfOthers)
      BY <2>1, <3>1 DEF Heeded, WordKept
    <3>7. WordKept(r)'
      BY <1>1, <1>2, <3>3, <3>6 DEF WordKept
    <3>8. Careful(r)'
      <4>1. cycle'.view[r].lightsOn /\ Kept(wish'[r], cycle'.view[r], now', EchoOfOthers')
        BY <1>1, <1>2, <2>7, <3>6 DEF Lit
      <4>2. \A t \in {"circadian", "mqtt"} : Pending(t, r)' = Pending(t, r) /\ Goings(t, r)' = Goings(t, r)
        BY <2>2, WhoIsWho DEF Leaves
      <4> QED BY <1>1, <1>2, <2>1, <4>1, <4>2 DEF Heeded, Careful, EnginePushes
    <3>9. Echoes(r)'
      BY <1>1, <1>2, <2>1, <2>2, <2>3 DEF Heeded, Echoes, PushPending, Leaves
    <3> QED BY <2>3, <3>4, <3>5, <3>7, <3>8, <3>9 DEF Heeded
  <2> QED BY <1>1, <2>5, <2>6, <2>7 DEF BeginCycle
<1> QED BY <1>2, <1>3 DEF HonourInv

\* A cycle goes on with a room.
LEMMA CycleHeeds ==
  ASSUME TypeOK, TypeOK', RecordInv, HonourInv, NEW o \in Rooms, CyclesRoom(o)
  PROVE  HonourInv'
<1>0. QueuesOK /\ QueuesOK' /\ "circadian" \in Tasks /\ CoursesOK /\ EngineTypeOK
  BY TypeParts, WhoIsWho DEF TypeOK, RecordInv
<1> DEFINE steps == RoomSteps(o, cycle.view[o])
<1>1. /\ UNCHANGED <<shared, rx, inbox, world, now, wish, spent, raced>>
      /\ todo["circadian"] = <<>> /\ o \in cycle.left
      /\ todo' = [todo EXCEPT !["circadian"] = steps]
      /\ o \notin cycle'.left
      /\ \A r \in Rooms : r \in cycle'.left => r \in cycle.left /\ cycle'.view[r] = cycle.view[r]
  BY <1>0 DEF CyclesRoom, CycleRoom, EngineTypeOK
<1>2. EchoOfOthers' = EchoOfOthers /\ link' = link /\ outq' = outq
  BY <1>1 DEF EchoOfOthers, world
<1>3. \A r \in Rooms : Returned(r)' <=> Returned(r)
  BY <1>1 DEF Returned
<1>4. cycle.view[o] \in Room /\ wish[o] \in Goal \union {None} /\ now \in Nat /\ rooms' = rooms
  BY <1>0, <1>1 DEF EngineTypeOK, TypeOK, DaemonTypeOK, shared
<1>5. \A e : Has(steps, e) => e.room = o
  <2>1. CourseIn(steps, "circadian", o, TRUE)
    BY EngineCourses
  <2> QED BY <2>1 DEF CourseIn, Has
<1>6. ASSUME ~raced'[o]
      PROVE  Heeded(o)'
  <2>1. Heeded(o)
    BY <1>1, <1>6 DEF HonourInv
  <2>2. \A t \in Tasks : t # "circadian" => ~Busy(t, o)
    BY <1>0, <1>1, <2>1 DEF Heeded, OneAttends, Attends
  <2>3. ~MqttBusy(o) /\ ~RequestBusy(o)
    BY <2>2, WhoIsWho DEF RequestBusy, MqttBusy
  <2>4. cycle.view[o].lightsOn /\ Kept(wish[o], cycle.view[o], now, EchoOfOthers)
    BY <1>1, <2>1 DEF Heeded, Careful
  <2>5. \A e : Has(steps, e) => Gentle(o, wish[o], now, EchoOfOthers, e)
    BY <1>4, <2>4, CycleGentle
  <2> HIDE DEF steps
  <2> QED BY <1>0, <1>1, <1>3, <2>1, <2>3, <2>5, EngineHere
<1>7. ASSUME NEW r \in Rooms, r # o, ~raced'[r]
      PROVE  Heeded(r)'
  <2>1. Heeded(r)
    BY <1>1, <1>7 DEF HonourInv
  <2>2. \A e : Has(steps, e) => e.room # r
    BY <1>5, <1>7
  <2>3. (Reported(r)' <=> Reported(r)) /\ Quiet(r)' = Quiet(r) /\ Shown(r)'
    BY <1>1, <2>1 DEF Reported, Quiet, Outstanding, Heeded, Shown, world
  <2> HIDE DEF steps
  <2> QED BY <1>1, <1>3, <1>4, <2>1, <2>2, <2>3, TookUpElsewhere
<1> QED BY <1>1, <1>2, <1>6, <1>7 DEF HonourInv

\* A light that came back ended what was asked.
LEMMA OnlineHeeds ==
  ASSUME TypeOK, TypeOK', RecordInv, HonourInv, DeviceOnline
  PROVE  HonourInv'
<1>0. QueuesOK /\ QueuesOK' /\ "circadian" \in Tasks /\ CoursesOK /\ "circadian" \in Subscribers
  BY TypeParts, WhoIsWho, EngineAssumption DEF TypeOK, RecordInv, EngineAssumption
<1>2. PICK e0, o : e0 = Head(inbox["circadian"]) /\ o = e0.room
  OBVIOUS
<1> DEFINE p == Publish(o, "keep", "circadian", None, << Send(o, JehaPush("circadian")) >>, <<>>)
<1>1. /\ UNCHANGED <<shared, rx, world, now, wish, spent, cycle>>
      /\ EngineTakes("DeviceOnline") /\ todo["circadian"] = <<>> /\ cycle.left = {}
      /\ todo' = todo \/ todo' = [todo EXCEPT !["circadian"] = <<p>>]
      /\ Overlap(IF todo' # todo /\ (MqttBusy(o) \/ RequestBusy(o)) THEN {o} ELSE {})
  BY <1>2 DEF DeviceOnline, HandleDeviceOnline, EngineTakes, EngineIdle
<1>10. EchoOfOthers' = EchoOfOthers /\ link' = link /\ outq' = outq
  BY <1>1 DEF EchoOfOthers, world
<1>3. \A r \in Rooms : Returned(r)' => Returned(r)
  BY <1>1, TakesReturns
<1>4. o \in Rooms /\ Returned(o)
  <2>1. e0 \in Events /\ e0.event = "DeviceOnline"
    BY <1>1, <1>2, EngineTakesType DEF EngineTakes
  <2>2. e0 \in [event : {"DeviceOnline"}, room : Rooms]
    BY <2>1 DEF Events
  <2>3. e0 = [event |-> "DeviceOnline", room |-> o] /\ o \in Rooms
    BY <1>2, <2>2
  <2>4. inbox["circadian"] \in Seq(Events) /\ inbox["circadian"] # <<>>
    BY <1>0, <1>1 DEF QueuesOK, EngineTakes
  <2>5. 1 \in 1..Len(inbox["circadian"]) /\ inbox["circadian"][1] = e0
    BY <1>2, <2>4, HeadTailProperties, LenProperties
  <2> QED BY <2>3, <2>5 DEF Returned
<1>5. \A r \in Rooms : /\ (Reported(r)' <=> Reported(r)) /\ Quiet(r)' = Quiet(r)
                       /\ Shown(r) => Shown(r)'
  BY <1>1 DEF Reported, Quiet, Outstanding, Shown, world
<1>6. \A r \in Rooms : ~raced'[r] => Heeded(r)
  BY <1>1, Unraced DEF HonourInv
<1>7. rooms' = rooms /\ wish' = wish /\ now' = now /\ rx' = rx
  BY <1>1 DEF shared
<1>8. CASE todo' = todo
  <2>1. ASSUME NEW r \in Rooms, ~raced'[r]
        PROVE  Heeded(r)'
    <3>1. \A t \in Tasks : Leaves(t, r)
      BY <1>7, <1>8 DEF Leaves, Pending, Goings
    <3>2. \A q \in Requests : Promised(q, r) => Promised(q, r)'
      BY <1>5, <1>7, <1>8, <1>10, PromisedOn
    <3>3. Heeded(r) /\ Shown(r)'
      BY <1>5, <1>6, <2>1 DEF Heeded
    <3> QED BY <1>0, <1>1, <1>3, <1>5, <1>7, <1>10, <3>1, <3>2, <3>3, HeededOn
  <2> QED BY <1>10, <2>1 DEF HonourInv
<1>9. CASE todo' # todo /\ todo' = [todo EXCEPT !["circadian"] = <<p>>]
  <2>1. \A e : Has(<<p>>, e) <=> e = p
    BY HasShort
  <2>2. p.room = o
    BY DEF Publish
  <2>3. p \in EnginePushes(o)
    BY DEF EnginePushes
  <2> HIDE DEF p
  <2>4. ASSUME NEW r \in Rooms, r # o, ~raced'[r]
        PROVE  Heeded(r)'
    <3>1. \A e : Has(<<p>>, e) => e.room # r
      BY <2>1, <2>2, <2>4
    <3>2. Heeded(r) /\ Shown(r)'
      BY <1>5, <1>6, <2>4 DEF Heeded
    <3>3. PICK steps : steps = <<p>>
      OBVIOUS
    <3> QED BY <1>1, <1>3, <1>5, <1>7, <1>9, <2>4, <3>1, <3>2, <3>3, TookUpElsewhere
  <2>5. ASSUME ~raced'[o]
        PROVE  Heeded(o)'
    <3>1. Heeded(o)
      BY <1>4, <1>6, <2>5
    <3>2. ~MqttBusy(o) /\ ~RequestBusy(o)
      BY <1>1, <1>4, <1>9, <2>5, Unraced
    <3>3. wish[o] = None
      BY <1>4, <3>1 DEF Heeded, ReturnKnown
    <3>4. \A e : Has(<<p>>, e) => Gentle(o, wish[o], now, EchoOfOthers, e)
      BY <2>1, <2>3, <3>3 DEF Gentle, MayPush
    <3>5. PICK steps : steps = <<p>>
      OBVIOUS
    <3>6. o \notin cycle'.left
      BY <1>1
    <3>7. UNCHANGED <<shared, rx, world, now, wish, spent>> /\ todo["circadian"] = <<>>
      BY <1>1
    <3>8. todo' = [todo EXCEPT !["circadian"] = steps] /\ \A e : Has(steps, e) => Gentle(o, wish[o], now, EchoOfOthers, e)
      BY <1>9, <3>4, <3>5
    <3>9. o \in Rooms /\ (Returned(o)' => Returned(o))
      BY <1>3, <1>4
    <3> QED BY <1>0, <3>1, <3>2, <3>6, <3>7, <3>8, <3>9, EngineHere
  <2>6. \A r \in Rooms : ~raced'[r] => Heeded(r)'
    BY <2>4, <2>5
  <2> QED BY <1>10, <2>6 DEF HonourInv
<1> QED BY <1>1, <1>8, <1>9

-----------------------------------------------------------------------------
(* The loop and its reports.                                                *)

\* What the loop puts down for a report.
LEMMA ReportPutsDown ==
  ASSUME NEW m, NEW room, NEW external
  PROVE  \A e : Has(ReportSteps(m, room, external), e) =>
           \/ ~m.on /\ e = Send(m.room, LightsOff)
           \/ m.on /\ e = Send(m.room, LightsOn(m.level, room.source))
           \/ m.on /\ external /\ e = Send(m.room, ExternalChange(ExternalTtl))
<1> DEFINE a == Send(m.room, LightsOff)
           b == Send(m.room, LightsOn(m.level, room.source))
           c == Send(m.room, ExternalChange(ExternalTtl))
           rest == IF external THEN <<c>> ELSE <<>>
<1>1. ReportSteps(m, room, external) = IF ~m.on THEN <<a>> ELSE <<b>> \o rest
  BY DEF ReportSteps
<1> HIDE DEF a, b, c
<1>2. \A e : Has(<<a>>, e) <=> e = a
  BY HasShort
<1>3. \A e : Has(<<b>>, e) <=> e = b
  BY HasShort
<1>4. \A e : Has(<<c>>, e) <=> e = c
  BY HasShort
<1>5. \A e : ~Has(<<>>, e)
  BY DEF Has
<1>6. \A e : Has(rest, e) => external /\ e = c
  BY <1>4, <1>5
<1> DEFINE M == {b, c}
<1>7. <<b>> \in Seq(M) /\ rest \in Seq(M)
  <2>1. <<b>> \in Seq(M) /\ <<c>> \in Seq(M) /\ <<>> \in Seq(M)
    OBVIOUS
  <2> HIDE DEF M
  <2> QED BY <2>1
<1> HIDE DEF M
<1> HIDE DEF rest
<1>8. \A e : Has(<<b>> \o rest, e) <=> Has(<<b>>, e) \/ Has(rest, e)
  BY <1>7, HasConcat
<1>9. \A e : Has(ReportSteps(m, room, external), e) =>
        (~m.on /\ e = a) \/ (m.on /\ e = b) \/ (m.on /\ external /\ e = c)
  <2>1. CASE ~m.on
    BY <1>1, <1>2, <2>1
  <2>2. CASE m.on
    BY <1>1, <1>3, <1>6, <1>8, <2>2
  <2> QED BY <2>1, <2>2
<1> QED BY <1>9 DEF a, b, c

\* A report that fits what the room was asked, and is not taken for somebody's
\* doing, takes nothing away of it.
LEMMA ReportHarmless ==
  ASSUME NEW o \in Rooms, NEW m \in Report, m.room = o, NEW room \in Room, NEW w \in Goal \union {None},
         NEW i \in Nat, NEW late, Kept(w, room, i, late), NEW light, NEW queue, NEW told,
         Fits(o, w, i, light, queue, told), \E k \in 1..Len(told) : told[k] = m,
         NEW external, external => /\ room.source = "Circadian"
                                   /\ w # None => w.op # "resume" /\ (w.op = "on" => late),
         NEW u \in Updates, Has(ReportSteps(m, room, external), Send(o, u))
  PROVE  Harmless(w, u, i, late) /\ u.update \in {"LightsOn", "LightsOff", "ExternalChange"}
<1>1. \/ ~m.on /\ u = LightsOff
      \/ m.on /\ u = LightsOn(m.level, room.source)
      \/ m.on /\ external /\ u = ExternalChange(ExternalTtl)
  <2>1. \/ ~m.on /\ Send(o, u) = Send(o, LightsOff)
        \/ m.on /\ Send(o, u) = Send(o, LightsOn(m.level, room.source))
        \/ m.on /\ external /\ Send(o, u) = Send(o, ExternalChange(ExternalTtl))
    BY ReportPutsDown
  <2> QED BY <2>1, AskedKinds
<1>2. PICK k \in 1..Len(told) : told[k].room = o /\ told[k] = m
  OBVIOUS
<1>3. /\ w # None /\ w.op = "on" => m.on
      /\ w # None /\ (w.op = "scene" \/ (w.op = "set" /\ ~Over(w.until, i))) => m.on
      /\ w # None /\ w.op = "off" => ~m.on
      /\ w # None => ~(w.op = "pause" \/ (w.op = "snooze" /\ ~Over(w.until, i)))
  BY <1>2 DEF Fits
<1>4. w # None => w.op \in {"on", "set", "off", "pause", "resume", "snooze", "scene"}
  BY DEF Goal
<1>5. ASSUME NEW x \in Room, NEW j \in Nat, Kept(w, x, i, late), NEW next, next = ApplyUpdate(x, u, j)
      PROVE  Kept(w, next, i, late)
  <2>1. CASE ~m.on /\ u = LightsOff
    <3>1. u.update = "LightsOff"
      BY <2>1 DEF LightsOff
    <3>2. Face(next, FALSE, x.source, x.overrideUntil, FALSE, None)
      BY <1>5, <3>1, FaceApplies
    <3> QED BY <1>3, <1>4, <1>5, <2>1, <3>2 DEF Kept, Face
  <2>2. CASE m.on /\ u = LightsOn(m.level, room.source)
    <3>1. u.update = "LightsOn" /\ u.source = room.source
      BY <2>2 DEF LightsOn
    <3>2. Face(next, TRUE, u.source, x.overrideUntil, x.paused, x.pausedUntil)
      BY <1>5, <3>1, FaceApplies
    <3> QED BY <1>3, <1>4, <1>5, <2>2, <3>1, <3>2 DEF Kept, Face
  <2>3. CASE m.on /\ external /\ u = ExternalChange(ExternalTtl)
    <3>1. u.update = "ExternalChange"
      BY <2>3 DEF ExternalChange
    <3>2. Face(next, x.lightsOn, "Manual", j + u.ttl, x.paused, x.pausedUntil)
      BY <1>5, <3>1, FaceApplies
    <3>3. w # None /\ w.op \in {"set", "scene"} => w.op = "set" /\ Over(w.until, i)
      BY <2>3 DEF Kept
    <3> QED BY <1>3, <1>4, <1>5, <2>3, <3>2, <3>3 DEF Kept, Face
  <2> QED BY <1>1, <2>1, <2>2, <2>3
<1>6. u.update \in {"LightsOn", "LightsOff", "ExternalChange"}
  BY <1>1, AskedKinds DEF ExternalChange
<1> QED BY <1>5, <1>6 DEF Harmless

\* The loop reads a report, and takes it for what it is.
LEMMA ReadHeeds ==
  ASSUME TypeOK, TypeOK', RecordInv, HonourInv, ReadReport
  PROVE  HonourInv'
<1>0. QueuesOK /\ QueuesOK' /\ WorldOK /\ CoursesOK /\ "mqtt" \in Tasks /\ "mqtt" \notin Requests
  BY TypeParts, WhoIsWho DEF TypeOK, RecordInv
<1>1. PICK m, o, external :
        /\ m = Head(reports) /\ o = m.room
        /\ external = (LooksExternal(m, rooms[o]) /\ ~Deduplicated(o))
  OBVIOUS
<1>2. PICK steps : steps = ReportSteps(m, rooms[o], external)
  OBVIOUS
<1>3. /\ todo["mqtt"] = <<>> /\ todo' = [todo EXCEPT !["mqtt"] = steps]
      /\ reports # <<>> /\ reports' = Tail(reports)
      /\ UNCHANGED <<rooms, rx, inbox, bulb, link, outq, now, wish, cycle, spent>>
      /\ Overlap(IF EngineBusy(o) \/ RequestBusy(o) THEN {o} ELSE {})
  BY <1>1, <1>2 DEF ReadReport, HandleReport, LoopIdle, LoopDoes, shared
<1>4. m \in Report /\ o \in Rooms /\ reports \in Seq(Report) /\ outq \in Seq(Outgoing)
  BY <1>0, <1>1, <1>3, HeadReport DEF WorldOK
<1>5. /\ Len(reports) \in Nat /\ 1 \in 1..Len(reports) /\ reports[1] = m
      /\ Len(reports') = Len(reports) - 1
      /\ \A i \in 1..Len(reports') : reports'[i] = reports[i + 1]
  BY <1>1, <1>3, <1>4, HeadTailProperties, LenProperties
<1>6. /\ \A r \in Rooms : Reported(r)' => Reported(r)
      /\ \A r \in Rooms : r # o => (Reported(r) => Reported(r)')
      /\ Reported(o)
  <2>1. ASSUME NEW r \in Rooms, Reported(r)'
        PROVE  Reported(r)
    <3>1. PICK i \in 1..Len(reports') : reports'[i].room = r
      BY <2>1 DEF Reported
    <3>2. i + 1 \in 1..Len(reports) /\ reports[i + 1].room = r
      BY <1>5, <3>1
    <3> QED BY <3>2 DEF Reported
  <2>2. ASSUME NEW r \in Rooms, r # o, Reported(r)
        PROVE  Reported(r)'
    <3>1. PICK i \in 1..Len(reports) : reports[i].room = r
      BY <2>2 DEF Reported
    <3>2. i # 1
      BY <1>1, <1>5, <2>2, <3>1
    <3>3. i - 1 \in 1..Len(reports') /\ reports'[i - 1].room = r
      BY <1>5, <3>1, <3>2
    <3> QED BY <3>3 DEF Reported
  <2>3. Reported(o)
    BY <1>1, <1>5 DEF Reported
  <2> QED BY <2>1, <2>2, <2>3
<1>7. EchoOfOthers' = EchoOfOthers /\ \A r : Returned(r)' <=> Returned(r)
  BY <1>3 DEF EchoOfOthers, Returned
<1>8. \A r \in Rooms : Outstanding(r)' <=> Outstanding(r)
  BY <1>3 DEF Outstanding
<1>9. \A e : Has(steps, e) => e.room = o
  BY <1>1, <1>2, ReportPutsDown DEF Send
<1>10. ASSUME NEW r \in Rooms, ~raced'[r]
       PROVE  Heeded(r) /\ Shown(r)'
  <2>1. Heeded(r)
    BY <1>3, <1>10, Unraced DEF HonourInv
  <2>2. Fits(r, wish[r], now, bulb[r], outq, reports)
    BY <2>1 DEF Heeded, Shown
  <2>3. Fits(r, wish[r], now, bulb[r], outq, reports')
    BY <1>3, <1>4, <2>2, FitsOn
  <2> QED BY <1>3, <2>1, <2>3 DEF Shown
<1>11. ASSUME NEW r \in Rooms, r # o, ~raced'[r]
       PROVE  Heeded(r)'
  <2>1. (Reported(r)' <=> Reported(r)) /\ Quiet(r)' = Quiet(r)
    BY <1>6, <1>8, <1>11 DEF Quiet
  <2>2. \A e : Has(steps, e) => e.room # r
    BY <1>9, <1>11
  <2> QED BY <1>3, <1>7, <1>10, <1>11, <2>1, <2>2, TookUpElsewhere
<1>12. ASSUME ~raced'[o]
       PROVE  Heeded(o)'
  <2>1. Heeded(o) /\ Shown(o)' /\ ~EngineBusy(o) /\ ~RequestBusy(o)
    BY <1>3, <1>4, <1>10, <1>12, Unraced
  <2>2. TakenUp("mqtt", steps, o)
    BY <1>0, <1>3, <1>4, TookUp
  <2>3. /\ \A t \in Tasks : t # "mqtt" => Leaves(t, o)
        /\ Pending("mqtt", o)' = Pending("mqtt", o) \union {u \in Updates : Has(steps, Send(o, u))}
        /\ Goings("mqtt", o)' = {p \in PublishSteps : p.room = o /\ Has(steps, p)}
    BY <2>2 DEF TakenUp
  <2>4. \A t \in Tasks : t # "mqtt" => ~Busy(t, o) /\ ~Busy(t, o)'
    <3>1. \A t \in Tasks : t # "mqtt" => ~Busy(t, o)
      BY <2>1, WhoIsWho DEF EngineBusy, RequestBusy
    <3> QED BY <1>0, <1>4, <2>3, <3>1, BusyOn
  <2>5. \A t \in Tasks : t # "mqtt" => Pending(t, o) = {} /\ Pending(t, o)' = {} /\ Goings(t, o)' = {}
    BY <1>0, <1>4, <2>4, BusyIs
  <2>6. o \notin cycle.left /\ o \notin cycle'.left
    BY <1>3, <2>1 DEF EngineBusy
  <2>7. ~RequestBusy(o)' /\ (\A q \in Requests : ~Busy(q, o)')
    BY <1>0, <2>4, WhoIsWho DEF RequestBusy
  <2>8. \A S : ~PushPending(o, S)
    <3>1. \A u \in Pending("mqtt", o) : u.update # "JehaPush"
      BY <2>1 DEF Heeded, Careful
    <3> QED BY <2>5, <3>1 DEF PushPending, Intends
  <2>9. /\ wish[o] # None /\ wish[o].op = "on" /\ ~EchoOfOthers => rooms[o].lastPush = now
        /\ wish[o] # None /\ wish[o].op = "resume" => rooms[o].intended = "circadian"
    BY <1>6, <2>1, <2>8 DEF Heeded, Echoes, Quiet
  <2>10. Kept(wish[o], rooms[o], now, EchoOfOthers)
    BY <2>1 DEF Heeded, WordKept
  <2>11. rooms[o] \in Room /\ wish[o] \in Goal \union {None} /\ now \in Nat
    BY <1>4 DEF TypeOK, DaemonTypeOK
  <2>12. ASSUME external
         PROVE  /\ rooms[o].source = "Circadian"
                /\ wish[o] # None => wish[o].op # "resume" /\ (wish[o].op = "on" => EchoOfOthers)
    <3>1. LooksExternal(m, rooms[o])
      BY <1>1, <2>12
    <3>2. ~(wish[o] # None /\ wish[o].op = "on" /\ ~EchoOfOthers)
      <4>1. rooms[o].lastPush # now
        BY <2>11, <3>1, NoneIsNoLevel, DaemonAssumption DEF LooksExternal, DaemonAssumption
      <4> QED BY <2>9, <4>1
    <3>3. ~(wish[o] # None /\ wish[o].op = "resume")
      <4>1. wish[o] # None /\ wish[o].op = "resume" => m.level = "circadian"
        BY <1>1, <1>5, <2>1 DEF Heeded, Shown, Fits
      <4>2. m.level # rooms[o].intended
        BY <3>1 DEF LooksExternal
      <4> QED BY <2>9, <4>1, <4>2
    <3> QED BY <3>1, <3>2, <3>3 DEF LooksExternal
  <2>13. ASSUME NEW u \in Updates, Has(steps, Send(o, u))
         PROVE  Harmless(wish[o], u, now, EchoOfOthers) /\ u.update \in {"LightsOn", "LightsOff", "ExternalChange"}
    <3>1. Fits(o, wish[o], now, bulb[o], outq, reports)
      BY <2>1 DEF Heeded, Shown
    <3>2. PICK room, w, late, light : room = rooms[o] /\ w = wish[o] /\ late = EchoOfOthers /\ light = bulb[o]
      OBVIOUS
    <3>3. /\ room \in Room /\ w \in Goal \union {None} /\ Kept(w, room, now, late) /\ m.room = o
          /\ Fits(o, w, now, light, outq, reports) /\ \E k \in 1..Len(reports) : reports[k] = m
      BY <1>1, <1>5, <2>10, <2>11, <3>1, <3>2
    <3>4. Has(ReportSteps(m, room, external), Send(o, u))
      BY <1>2, <2>13, <3>2
    <3>5. external => room.source = "Circadian" /\ (w # None => w.op # "resume" /\ (w.op = "on" => late))
      BY <2>12, <3>2
    <3>6. Harmless(w, u, now, late) /\ u.update \in {"LightsOn", "LightsOff", "ExternalChange"}
      BY <1>4, <2>11, <3>3, <3>4, <3>5, ReportHarmless
    <3> QED BY <3>2, <3>6
  <2>14. \A u \in Pending("mqtt", o)' : /\ Harmless(wish[o], u, now, EchoOfOthers)
                                        /\ u.update \in {"LightsOn", "LightsOff", "ExternalChange"}
    BY <2>1, <2>3, <2>13 DEF Heeded, Careful
  <2>15. OneAttends(o)'
    BY <2>4, <2>6 DEF OneAttends, Attends
  <2>16. ReturnKnown(o)'
    BY <1>3, <1>7, <2>1, <2>7 DEF Heeded, ReturnKnown
  <2>17. WordKept(o)'
    BY <1>3, <1>7, <2>7, <2>10 DEF WordKept
  <2>18. Careful(o)'
    <3>1. Pending("circadian", o)' = {} /\ Goings("circadian", o)' = {}
      BY <2>5, WhoIsWho
    <3> QED BY <1>3, <1>7, <2>6, <2>14, <3>1 DEF Careful
  <2>19. Echoes(o)'
    <3>1. \A t \in Tasks : \A u \in Pending(t, o)' : u.update \notin {"RestoreLights", "JehaPush"}
      BY <2>5, <2>14
    <3>2. rooms'[o] = rooms[o] /\ wish'[o] = wish[o] /\ now' = now
      BY <1>3
    <3> QED BY <1>7, <2>9, <3>1, <3>2 DEF Echoes
  <2> QED BY <2>1, <2>15, <2>16, <2>17, <2>18, <2>19 DEF Heeded
<1>13. \A r \in Rooms : ~raced'[r] => Heeded(r)'
  BY <1>11, <1>12
<1> QED BY <1>3, <1>7, <1>13 DEF HonourInv

-----------------------------------------------------------------------------
(* The connection, the lights and the clock.                                *)

\* The loop hears of the connection.
LEMMA NoticeHeeds ==
  ASSUME TypeOK, TypeOK', HonourInv, PollError \/ ConnAck, UNCHANGED <<cycle, raced, spent>>
  PROVE  HonourInv'
<1>0. QueuesOK /\ QueuesOK'
  BY TypeParts DEF TypeOK
<1>1. PICK steps :
        /\ todo["mqtt"] = <<>> /\ todo' = [todo EXCEPT !["mqtt"] = steps]
        /\ \A e : Has(steps, e) => e.do \notin {"send", "publish"}
  <2>1. CASE PollError
    <3>1. PICK s : s = SendConnected(FALSE)
      OBVIOUS
    <3>2. todo["mqtt"] = <<>> /\ todo' = [todo EXCEPT !["mqtt"] = <<s>>]
      BY <2>1, <3>1 DEF PollError, LoopIdle, LoopDoes
    <3>3. s.do = "connected"
      BY <3>1 DEF SendConnected
    <3>4. \A e : Has(<<s>>, e) => e.do \notin {"send", "publish"}
      BY <3>3, HasShort
    <3> QED BY <3>2, <3>4
  <2>2. CASE ConnAck
    <3>1. PICK a, b : a = Announce(MqttConnected) /\ b = SendConnected(TRUE)
      OBVIOUS
    <3>2. todo["mqtt"] = <<>> /\ todo' = [todo EXCEPT !["mqtt"] = <<a, b>>]
      BY <2>2, <3>1 DEF ConnAck, LoopIdle, LoopDoes
    <3>3. a.do = "announce" /\ b.do = "connected"
      BY <3>1 DEF SendConnected, Announce
    <3>4. \A e : Has(<<a, b>>, e) <=> e \in {a, b}
      BY HasShort
    <3>5. \A e : Has(<<a, b>>, e) => e.do \notin {"send", "publish"}
      BY <3>3, <3>4
    <3> QED BY <3>2, <3>5
  <2> QED BY <2>1, <2>2
<1>2. UNCHANGED <<rooms, rx, inbox, bulb, outq, reports, now, wish, cycle, raced, spent>> /\ link # "up"
  BY DEF PollError, ConnAck, shared
<1>3. ASSUME NEW r \in Rooms, ~raced'[r]
      PROVE  Heeded(r)'
  <2>1. Heeded(r)
    BY <1>2, <1>3 DEF HonourInv
  <2>2. /\ (Returned(r)' => Returned(r)) /\ (Reported(r)' <=> Reported(r)) /\ Quiet(r)' = Quiet(r)
        /\ Shown(r)'
    BY <1>2, <2>1 DEF Returned, Reported, Quiet, Outstanding, Heeded, Shown
  <2>3. \A e : Has(steps, e) /\ e.do \in {"send", "publish"} => e.room # r
    BY <1>1
  <2>4. /\ r \in cycle'.left => r \in cycle.left /\ cycle'.view[r] = cycle.view[r]
        /\ wish'[r] = wish[r] /\ UNCHANGED <<rooms, rx, now, spent>>
    BY <1>2
  <2>5. PICK t : t = "mqtt"
    OBVIOUS
  <2>6. t \in {"circadian", "mqtt"} /\ todo[t] = <<>> /\ todo' = [todo EXCEPT ![t] = steps]
    BY <1>1, <2>5
  <2>7. Returned(r)' => Returned(r)
    BY <2>2
  <2>8. Reported(r)' <=> Reported(r)
    BY <2>2
  <2>9. Quiet(r)' = Quiet(r)
    BY <2>2
  <2>10. Shown(r)'
    BY <2>2
  <2> QED BY <2>1, <2>3, <2>4, <2>6, <2>7, <2>8, <2>9, <2>10, TookUpElsewhere
<1>4. EchoOfOthers' = EchoOfOthers /\ EchoOfOthers
  BY <1>2 DEF EchoOfOthers, HonourInv
<1> QED BY <1>3, <1>4 DEF HonourInv

\* The backlog reaches the lights.
LEMMA BacklogHeeds ==
  ASSUME TypeOK, TypeOK', HonourInv, DeliverQueued, UNCHANGED <<cycle, raced, spent>>
  PROVE  HonourInv'
<1>0. QueuesOK /\ QueuesOK' /\ WorldOK
  BY TypeParts DEF TypeOK
<1>1. /\ outq # <<>> /\ outq' = Tail(outq) /\ Deliver(Head(outq))
      /\ UNCHANGED <<rooms, rx, inbox, todo, now, wish, cycle, raced, spent>>
  BY DEF DeliverQueued, shared
<1>2. PICK m : m = Head(outq)
  OBVIOUS
<1>3. m \in Outgoing /\ outq \in Seq(Outgoing) /\ reports \in Seq(Report) /\ outq[1] = m /\ 1 \in 1..Len(outq)
  BY <1>0, <1>1, <1>2, HeadTailProperties, LenProperties DEF WorldOK
<1>4. EchoOfOthers' = EchoOfOthers /\ EchoOfOthers
  BY <1>1 DEF EchoOfOthers, HonourInv
<1>5. PICK lit, m2, b :
        /\ lit \in BOOLEAN /\ m2 \in Report
        /\ b = After(bulb[m.room], m.power, m.level, lit)
        /\ bulb' = [bulb EXCEPT ![m.room] = b] /\ reports' = Append(reports, m2)
        /\ m2.room = m.room /\ m2.on = b.on /\ m2.level = b.level
        /\ bulb[m.room] \in Bulb /\ m.room \in Rooms
  BY <1>0, <1>1, <1>2, <1>3, Delivered
<1>6. ASSUME NEW r \in Rooms, ~raced'[r]
      PROVE  Heeded(r)'
  <2>1. Heeded(r)
    BY <1>1, <1>6 DEF HonourInv
  <2>2. \A t \in Tasks : Leaves(t, r)
    BY <1>1 DEF Leaves, Pending, Goings
  <2>3. Fits(r, wish[r], now, bulb[r], outq, reports)
    BY <2>1 DEF Heeded, Shown
  <2>4. Shown(r)' /\ Quiet(r)' = Quiet(r)
    <3>1. CASE r = m.room
      <4>1. Fits(r, wish[r], now, b, Tail(outq), Append(reports, m2))
        BY <1>1, <1>2, <1>3, <1>5, <2>3, <3>1, DeliveredFits, RequestsAssumption DEF RequestsAssumption
      <4>2. bulb'[r] = b
        BY <1>0, <1>5, <3>1 DEF WorldOK
      <4>3. Outstanding(r)
        BY <1>3, <3>1 DEF Outstanding
      <4>4. Reported(r)'
        <5>1. /\ Len(Append(reports, m2)) = Len(reports) + 1 /\ Len(reports) \in Nat
              /\ Append(reports, m2)[Len(reports) + 1] = m2
          BY <1>3, AppendProperties, LenProperties
        <5> QED BY <1>5, <3>1, <5>1 DEF Reported
      <4>5. Quiet(r) = FALSE /\ Quiet(r)' = FALSE
        BY <4>3, <4>4 DEF Quiet
      <4> QED BY <1>1, <1>5, <4>1, <4>2, <4>5 DEF Shown
    <3>2. CASE r # m.room
      <4>1. Fits(r, wish[r], now, bulb[r], outq', reports')
        BY <1>1, <1>2, <1>3, <1>5, <2>3, <3>2, FitsOn
      <4>2. bulb'[r] = bulb[r]
        BY <1>0, <1>5, <3>2 DEF WorldOK
      <4>3. Outstanding(r)' <=> Outstanding(r)
        <5>1. outq # <<>> /\ outq' = Tail(outq) /\ Head(outq).room # r
          BY <1>1, <1>2, <3>2
        <5>2. PICK q, later : q = outq /\ later = outq'
          OBVIOUS
        <5>3. (\E i \in 1..Len(later) : later[i].room = r) <=> (\E i \in 1..Len(q) : q[i].room = r)
          <6>1. q \in Seq(Outgoing) /\ q # <<>> /\ later = Tail(q) /\ Head(q).room # r
            BY <1>3, <5>1, <5>2
          <6> QED BY <6>1, OnTheWay
        <5> QED BY <5>2, <5>3 DEF Outstanding
      <4>4. Reported(r)' <=> Reported(r)
        BY <1>3, <1>5, <3>2, OnTheWay DEF Reported
      <4> QED BY <1>1, <4>1, <4>2, <4>3, <4>4 DEF Shown, Quiet
    <3> QED BY <3>1, <3>2
  <2>5. \A q \in Requests : Promised(q, r) => Promised(q, r)'
    BY <1>1, <1>4, <2>4, PromisedOn
  <2>6. Returned(r)' => Returned(r)
    BY <1>1 DEF Returned
  <2>7. Reported(r)' => Reported(r) \/ EchoOfOthers
    BY <1>4
  <2>8. /\ r \in cycle'.left => r \in cycle.left /\ cycle'.view[r] = cycle.view[r]
        /\ wish'[r] = wish[r] /\ rooms'[r] = rooms[r] /\ now' = now
    BY <1>1
  <2>9. Shown(r)' /\ (Quiet(r)' <=> Quiet(r)) /\ EchoOfOthers' = EchoOfOthers
    BY <1>4, <2>4
  <2> QED BY <1>0, <1>6, <2>1, <2>2, <2>5, <2>6, <2>7, <2>8, <2>9, HeededOn
<1> QED BY <1>4, <1>6 DEF HonourInv

\* Whoever changes a light ends what its room was asked.
LEMMA Forgotten ==
  ASSUME QueuesOK, QueuesOK', NEW r \in Rooms, Heeded(r), ~RequestBusy(r), wish'[r] = None,
         UNCHANGED <<rooms, rx, todo, cycle>>,
         \A t \in Tasks : \A u \in Pending(t, r) : u.update = "RestoreLights" => Quiet(r)' /\ Goings(t, r) = {}
  PROVE  Heeded(r)'
<1>1. \A t \in Tasks : Leaves(t, r)
  BY DEF Leaves, Pending, Goings
<1>2. \A t \in Tasks : Busy(t, r)' <=> Busy(t, r)
  BY <1>1, BusyOn
<1>3. ~RequestBusy(r)' /\ \A q \in Requests : ~Busy(q, r)'
  BY <1>2, WhoIsWho DEF RequestBusy
<1>4. OneAttends(r)'
  BY <1>2 DEF Heeded, OneAttends, Attends
<1>5. \A room, i, late : Kept(None, room, i, late)
  BY DEF Kept
<1>6. WordKept(r)' /\ ReturnKnown(r)'
  BY <1>3, <1>5 DEF WordKept, ReturnKnown
<1>7. \A u, i, late : Harmless(None, u, i, late)
  BY <1>5 DEF Harmless
<1>8. \A i : MayPush(None, i)
  BY DEF MayPush
<1>9. Careful(r)'
  <2>1. /\ Pending("mqtt", r)' = Pending("mqtt", r)
        /\ Goings("circadian", r)' = Goings("circadian", r)
    BY <1>1, WhoIsWho DEF Leaves
  <2>2. /\ \A u \in Pending("mqtt", r) : u.update \in {"LightsOn", "LightsOff", "ExternalChange"}
        /\ \A p \in Goings("circadian", r) : p \in EnginePushes(r)
        /\ r \in cycle.left => cycle.view[r].lightsOn
    BY DEF Heeded, Careful
  <2> QED BY <1>5, <1>7, <1>8, <2>1, <2>2 DEF Careful, EnginePushes
<1>10. Shown(r)'
  BY DEF Shown, Fits
<1>11. Echoes(r)'
  <2>1. \A t \in Tasks : Pending(t, r)' = Pending(t, r) /\ Goings(t, r)' = Goings(t, r)
    BY <1>1 DEF Leaves
  <2> QED BY <2>1 DEF Echoes
<1> QED BY <1>4, <1>6, <1>9, <1>10, <1>11 DEF Heeded

\* A wish that is not touched.
LEMMA Untroubled ==
  ASSUME QueuesOK, QueuesOK', NEW r \in Rooms, Heeded(r), wish'[r] = wish[r],
         UNCHANGED <<rooms, rx, todo, cycle, now>>, EchoOfOthers' = EchoOfOthers,
         Returned(r)' => Returned(r), Reported(r)' <=> Reported(r), Quiet(r)' = Quiet(r), Shown(r)'
  PROVE  Heeded(r)'
<1>1. \A t \in Tasks : Leaves(t, r)
  BY DEF Leaves, Pending, Goings
<1>2. \A q \in Requests : Promised(q, r) => Promised(q, r)'
  BY PromisedOn
<1> QED BY <1>1, <1>2, HeededOn

\* Someone changes a light.
LEMMA TouchHeeds ==
  ASSUME TypeOK, TypeOK', HonourInv, NEW o \in Rooms, ExternalSet(o)
  PROVE  HonourInv'
<1>0. QueuesOK /\ QueuesOK' /\ WorldOK
  BY TypeParts DEF TypeOK
<1>1. /\ UNCHANGED <<rooms, rx, inbox, todo, link, outq, now, cycle>>
      /\ wish' = [wish EXCEPT ![o] = None]
      /\ Overlap(IF link # "up" \/ EngineBusy(o) \/ RequestBusy(o) THEN {o} ELSE {})
  BY DEF ExternalSet, TouchLight, shared
<1>2. EchoOfOthers' = EchoOfOthers
  <2>1. spent'.outages = spent.outages
    BY DEF ExternalSet, Spend, SpendFor, TypeOK
  <2> QED BY <2>1 DEF EchoOfOthers
<1>3. PICK b \in Bulb :
        /\ bulb' = [bulb EXCEPT ![o] = b]
        /\ reports' = reports \/ reports' = Append(reports, [room |-> o, on |-> b.on, level |-> b.level])
  <2>1. PICK b \in {[bulb[o] EXCEPT !.on = FALSE, !.ramp = "none"],
                    [on |-> TRUE, level |-> "external", ramp |-> "none"]} :
          /\ bulb' = [bulb EXCEPT ![o] = b]
          /\ reports' = IF link # "up" THEN reports
                        ELSE Append(reports, [room |-> o, on |-> b.on, level |-> b.level])
    BY DEF ExternalSet, TouchLight
  <2>2. "external" \in Levels /\ bulb[o] \in Bulb
    BY <1>0, DaemonAssumption DEF WorldOK, DaemonAssumption
  <2>3. b \in Bulb
    <3>1. [on |-> TRUE, level |-> "external", ramp |-> "none"] \in Bulb
      BY <2>2 DEF Bulb
    <3>2. [bulb[o] EXCEPT !.on = FALSE, !.ramp = "none"] \in Bulb
      BY <2>2 DEF Bulb
    <3> QED BY <2>1, <3>1, <3>2
  <2> QED BY <2>1, <2>3
<1>4. PICK m \in Report : m.room = o /\ reports' \in {reports, Append(reports, m)}
  <2>1. [room |-> o, on |-> b.on, level |-> b.level] \in Report
    BY DEF Bulb, Report
  <2> QED BY <1>3, <2>1
<1>5. ASSUME NEW r \in Rooms, ~raced'[r], r # o
      PROVE  Heeded(r)'
  <2>1. Heeded(r)
    BY <1>1, <1>5, Unraced DEF HonourInv
  <2>2. wish'[r] = wish[r] /\ bulb'[r] = bulb[r]
    BY <1>0, <1>1, <1>3, <1>5, TypeParts DEF WorldOK, TypeOK, DaemonTypeOK
  <2>3. (\E i \in 1..Len(reports') : reports'[i].room = r) <=> (\E i \in 1..Len(reports) : reports[i].room = r)
    <3>1. PICK q, later : q = reports /\ later = reports'
      OBVIOUS
    <3>2. q \in Seq(Report) /\ (later = q \/ \E x \in Report : later = Append(q, x) /\ x.room # r)
      BY <1>0, <1>4, <1>5, <3>1 DEF WorldOK
    <3> QED BY <3>1, <3>2, OnTheWay
  <2>4. Quiet(r)' = Quiet(r) /\ (Reported(r)' <=> Reported(r)) /\ (Returned(r)' => Returned(r))
    BY <1>1, <2>3 DEF Quiet, Reported, Outstanding, Returned
  <2>5. Shown(r)'
    <3>1. Fits(r, wish[r], now, bulb[r], outq, reports)
      BY <2>1 DEF Heeded, Shown
    <3>2. PICK later : later = reports'
      OBVIOUS
    <3>3. later = reports \/ \E x \in Report : later = Append(reports, x) /\ x.room # r
      BY <1>4, <1>5, <3>2
    <3>4. Fits(r, wish[r], now, bulb[r], outq, later)
      BY <1>0, <3>1, <3>3, FitsOn DEF WorldOK
    <3> QED BY <1>1, <2>2, <3>2, <3>4 DEF Shown
  <2> QED BY <1>0, <1>1, <1>2, <2>1, <2>2, <2>4, <2>5, Untroubled
<1>6. ASSUME ~raced'[o]
      PROVE  Heeded(o)'
  <2>1. Heeded(o) /\ ~EngineBusy(o) /\ ~RequestBusy(o)
    BY <1>1, <1>6, Unraced DEF HonourInv, Overlap
  <2>2. wish'[o] = None
    BY <1>1, TypeParts DEF TypeOK, DaemonTypeOK
  <2>3. \A t \in Tasks : t # "mqtt" => ~Busy(t, o)
    BY <2>1, WhoIsWho DEF RequestBusy, EngineBusy
  <2>4. \A t \in Tasks : t # "mqtt" => Pending(t, o) = {}
    BY <1>0, <2>3, BusyIs
  <2>5. \A t \in Tasks : \A u \in Pending(t, o) : u.update # "RestoreLights"
    BY <2>1, <2>4 DEF Heeded, Careful
  <2> QED BY <1>0, <1>1, <2>1, <2>2, <2>5, Forgotten
<1> QED BY <1>1, <1>2, <1>5, <1>6 DEF HonourInv

\* Lights come back.
LEMMA ReturnHeeds ==
  ASSUME TypeOK, TypeOK', HonourInv, NEW o \in Rooms, BulbReturns(o)
  PROVE  HonourInv'
<1>0. QueuesOK /\ QueuesOK' /\ WorldOK
  BY TypeParts DEF TypeOK
<1>1. /\ UNCHANGED <<rooms, rx, todo, link, outq, reports, now, cycle>>
      /\ wish' = [wish EXCEPT ![o] = None] /\ bulb' = [bulb EXCEPT ![o].level = "external"]
      /\ Broadcast([event |-> "DeviceOnline", room |-> o])
      /\ Overlap(IF RequestBusy(o) \/ Outstanding(o) THEN {o} ELSE {})
  BY DEF BulbReturns, shared
<1>2. EchoOfOthers' = EchoOfOthers
  <2>1. spent'.outages = spent.outages
    BY DEF BulbReturns, Spend, SpendFor, TypeOK
  <2> QED BY <2>1 DEF EchoOfOthers
<1>3. \A r \in Rooms : Quiet(r)' = Quiet(r) /\ (Reported(r)' <=> Reported(r))
  BY <1>1 DEF Quiet, Reported, Outstanding
<1>4. ASSUME NEW r \in Rooms, ~raced'[r], r # o
      PROVE  Heeded(r)'
  <2>1. Heeded(r)
    BY <1>1, <1>4, Unraced DEF HonourInv
  <2>2. wish'[r] = wish[r] /\ bulb'[r] = bulb[r]
    BY <1>0, <1>1, <1>4, TypeParts DEF WorldOK, TypeOK, DaemonTypeOK
  <2>3. Shown(r)'
    BY <1>1, <2>1, <2>2 DEF Heeded, Shown
  <2>4. PICK e : e = [event |-> "DeviceOnline", room |-> o]
    OBVIOUS
  <2>5. e \in Events /\ e # [event |-> "DeviceOnline", room |-> r] /\ Broadcast(e)
    BY <1>1, <1>4, <2>4 DEF Events
  <2>6. Returned(r)' => Returned(r)
    BY <1>0, <2>5, BroadcastReturns
  <2> QED BY <1>0, <1>1, <1>2, <1>3, <2>1, <2>2, <2>3, <2>6, Untroubled
<1>5. ASSUME ~raced'[o]
      PROVE  Heeded(o)'
  <2>1. Heeded(o) /\ ~RequestBusy(o)
    BY <1>1, <1>5, Unraced DEF HonourInv, Overlap
  <2>2. wish'[o] = None
    BY <1>1, TypeParts DEF TypeOK, DaemonTypeOK
  <2>3. \A t \in Tasks : \A u \in Pending(t, o) : u.update = "RestoreLights" => Quiet(o)' /\ Goings(t, o) = {}
    BY <1>3, <2>1 DEF Heeded, Echoes
  <2> QED BY <1>0, <1>1, <2>1, <2>2, <2>3, Forgotten
<1> QED BY <1>1, <1>2, <1>4, <1>5 DEF HonourInv

\* Time passes, or the link is lost: nothing is reported any more.
LEMMA HeededLater ==
  ASSUME TypeOK, TypeOK', NEW r \in Rooms, Heeded(r), ~Reported(r), reports' = <<>>,
         UNCHANGED <<rooms, rx, inbox, todo, bulb, outq, wish, cycle>>, now <= now', EchoOfOthers => EchoOfOthers'
  PROVE  Heeded(r)'
<1>0. QueuesOK /\ QueuesOK'
  BY TypeParts DEF TypeOK
<1>1. now \in Nat /\ now' \in Nat /\ wish[r] \in Goal \union {None} /\ wish' = wish
  BY TypeParts DEF TypeOK, DaemonTypeOK
<1>2. \A t \in Tasks : Leaves(t, r)
  BY DEF Leaves, Pending, Goings
<1>3. (Returned(r)' <=> Returned(r)) /\ ~Reported(r)' /\ Quiet(r)' = Quiet(r)
  <2>1. \A i \in 1..Len(<<>>) : FALSE
    OBVIOUS
  <2> QED BY <2>1 DEF Returned, Reported, Quiet, Outstanding
<1>4. \A t \in Tasks : Busy(t, r)' <=> Busy(t, r)
  BY <1>0, <1>2, BusyOn
<1>5. RequestBusy(r)' <=> RequestBusy(r)
  BY <1>4, WhoIsWho DEF RequestBusy
<1>6. PICK w, i, j, late, later :
        w = wish[r] /\ i = now /\ j = now' /\ late = EchoOfOthers /\ later = EchoOfOthers'
  OBVIOUS
<1>7. /\ w \in Goal \union {None} /\ i \in Nat /\ j \in Nat /\ i <= j
      /\ late \in BOOLEAN /\ later \in BOOLEAN /\ (late => later)
  <2>1. EchoOfOthers \in BOOLEAN /\ EchoOfOthers' \in BOOLEAN
    BY DEF EchoOfOthers
  <2>2. late \in BOOLEAN /\ later \in BOOLEAN /\ (late => later)
    BY <1>6, <2>1
  <2> QED BY <1>1, <1>6, <2>2
<1>8. /\ \A room : Kept(w, room, i, late) => Kept(w, room, j, later)
      /\ \A u : Harmless(w, u, i, late) => Harmless(w, u, j, later)
      /\ MayPush(w, i) => MayPush(w, j)
  BY <1>7, KeptGrows
<1>9. OneAttends(r)' /\ ReturnKnown(r)'
  BY <1>3, <1>4, <1>5 DEF Heeded, OneAttends, Attends, ReturnKnown
<1>10. WordKept(r)'
  <2>1. ASSUME NEW q \in Requests, Busy(q, r)
        PROVE  Promised(q, r)'
    <3>1. PICK quiet : quiet = Quiet(r)
      OBVIOUS
    <3>2. quiet \in BOOLEAN
      BY <3>1 DEF Quiet
    <3>3. Promise(r, rooms[r], rx, todo[q], quiet, w, i, late)
      BY <1>6, <2>1, <3>1 DEF Heeded, WordKept, Promised
    <3>4. Promise(r, rooms[r], rx, todo[q], quiet, w, j, later)
      BY <1>7, <3>2, <3>3, PromiseGrows
    <3> QED BY <1>3, <1>6, <3>1, <3>4 DEF Promised
  <2>2. ~RequestBusy(r) => Kept(w, rooms[r], j, later)
    BY <1>6, <1>8 DEF Heeded, WordKept
  <2> QED BY <1>4, <1>5, <1>6, <2>1, <2>2, WhoIsWho DEF WordKept
<1>11. Careful(r)'
  <2>1. /\ r \in cycle.left =>
             cycle.view[r].lightsOn /\ Kept(w, cycle.view[r], i, late)
        /\ \A t \in {"circadian", "mqtt"} : \A u \in Pending(t, r) : Harmless(w, u, i, late)
        /\ \A u \in Pending("mqtt", r) : u.update \in {"LightsOn", "LightsOff", "ExternalChange"}
        /\ \A p \in Goings("circadian", r) : p \in EnginePushes(r) /\ MayPush(w, i)
    BY <1>6 DEF Heeded, Careful
  <2>2. \A t \in {"circadian", "mqtt"} : Pending(t, r)' = Pending(t, r) /\ Goings(t, r)' = Goings(t, r)
    BY <1>2, WhoIsWho DEF Leaves
  <2>3. r \in cycle'.left => cycle'.view[r].lightsOn /\ Kept(wish'[r], cycle'.view[r], now', EchoOfOthers')
    BY <1>6, <1>8, <2>1
  <2>4. \A t \in {"circadian", "mqtt"} : \A u \in Pending(t, r)' : Harmless(wish'[r], u, now', EchoOfOthers')
    BY <1>6, <1>8, <2>1, <2>2
  <2>5. \A u \in Pending("mqtt", r)' : u.update \in {"LightsOn", "LightsOff", "ExternalChange"}
    BY <2>1, <2>2
  <2>6. \A p \in Goings("circadian", r)' : p \in EnginePushes(r) /\ MayPush(wish'[r], now')
    BY <1>6, <1>8, <2>1, <2>2
  <2> QED BY <2>3, <2>4, <2>5, <2>6 DEF Careful, EnginePushes
<1>12. Shown(r)'
  <2>1. Fits(r, w, i, bulb[r], outq, reports)
    BY <1>6 DEF Heeded, Shown
  <2>2. w # None /\ Over(w.until, i) => Over(w.until, j)
    <3>1. w # None /\ w.until # None => w.until \in Nat
      BY <1>7 DEF Goal, MaybeInstant
    <3> QED BY <1>7, <3>1 DEF Over
  <2>3. \A k \in 1..Len(<<>>) : FALSE
    OBVIOUS
  <2>4. Fits(r, w, j, bulb[r], outq, <<>>)
    BY <2>1, <2>2, <2>3 DEF Fits
  <2> QED BY <1>6, <2>4 DEF Shown
<1>13. Echoes(r)'
  <2>1. \A S : PushPending(r, S)' <=> PushPending(r, S)
    BY <1>2 DEF PushPending, Leaves
  <2>2. \A t \in Tasks : Pending(t, r)' = Pending(t, r) /\ Goings(t, r)' = Goings(t, r)
    BY <1>2 DEF Leaves
  <2>3. Echoes(r)
    BY DEF Heeded
  <2>4. \A t \in Tasks : \A u \in Pending(t, r)' : u.update = "RestoreLights" => Quiet(r)' /\ Goings(t, r)' = {}
    BY <1>3, <2>2, <2>3 DEF Echoes
  <2> QED BY <1>3, <2>1, <2>2, <2>3, <2>4 DEF Echoes
<1> QED BY <1>9, <1>10, <1>11, <1>12, <1>13 DEF Heeded

LEMMA OutageHeeds ==
  ASSUME TypeOK, TypeOK', HonourInv, LinkLost
  PROVE  HonourInv'
<1>1. /\ UNCHANGED <<rooms, rx, inbox, todo, bulb, outq, wish, cycle, now>> /\ reports' = <<>>
      /\ Overlap({r \in Rooms : Reported(r)})
  BY DEF LinkLost, LoseLink, shared
<1>2. EchoOfOthers'
  <2>1. spent.outages \in Nat /\ spent'.outages = spent.outages + 1
    BY DEF LinkLost, Spend, SpendFor, TypeOK
  <2> QED BY <2>1 DEF EchoOfOthers
<1>3. ASSUME NEW r \in Rooms, ~raced'[r]
      PROVE  Heeded(r)'
  <2>1. Heeded(r) /\ ~Reported(r)
    BY <1>1, <1>3, Unraced DEF HonourInv, Overlap
  <2>2. now <= now'
    BY <1>1, TypeParts DEF TypeOK, DaemonTypeOK
  <2> QED BY <1>1, <1>2, <2>1, <2>2, HeededLater
<1> QED BY <1>2, <1>3 DEF HonourInv

LEMMA TickHeeds ==
  ASSUME TypeOK, TypeOK', HonourInv, Tick
  PROVE  HonourInv'
<1>1. /\ UNCHANGED <<rooms, rx, inbox, todo, bulb, outq, link, wish, cycle, raced, spent>>
      /\ reports = <<>> /\ reports' = <<>> /\ now' = now + 1
  BY DEF Tick, PassTime, Elapse, shared
<1>2. now <= now' /\ EchoOfOthers' = EchoOfOthers
  BY <1>1, TypeParts DEF TypeOK, DaemonTypeOK, EchoOfOthers
<1>3. ASSUME NEW r \in Rooms, ~raced'[r]
      PROVE  Heeded(r)'
  <2>1. Heeded(r)
    BY <1>1, <1>3 DEF HonourInv
  <2>2. ~Reported(r)
    <3>1. \A i \in 1..Len(<<>>) : FALSE
      OBVIOUS
    <3> QED BY <1>1, <3>1 DEF Reported
  <2> QED BY <1>1, <1>2, <2>1, <2>2, HeededLater
<1> QED BY <1>1, <1>2, <1>3 DEF HonourInv

LEMMA RestHeeds ==
  ASSUME TypeOK, TypeOK', HonourInv, UNCHANGED vars
  PROVE  HonourInv'
<1>0. QueuesOK /\ QueuesOK'
  BY TypeParts DEF TypeOK
<1>1. UNCHANGED <<rooms, rx, inbox, todo, bulb, outq, link, reports, wish, cycle, now, raced, spent>>
  BY DEF vars, daemon, shared, world
<1>2. EchoOfOthers' = EchoOfOthers
  BY <1>1 DEF EchoOfOthers
<1>3. ASSUME NEW r \in Rooms, ~raced'[r]
      PROVE  Heeded(r)'
  <2>1. Heeded(r)
    BY <1>1, <1>3 DEF HonourInv
  <2>2. /\ (Returned(r)' => Returned(r)) /\ (Reported(r)' <=> Reported(r)) /\ Quiet(r)' = Quiet(r)
        /\ Shown(r)'
    BY <1>1, <2>1 DEF Returned, Reported, Quiet, Outstanding, Heeded, Shown
  <2> QED BY <1>0, <1>1, <1>2, <2>1, <2>2, Untroubled
<1> QED BY <1>1, <1>2, <1>3 DEF HonourInv

-----------------------------------------------------------------------------
(* The invariant, and what it implies.                                      *)

LEMMA InitHonour == Init => HonourInv
<1> SUFFICES ASSUME Init
             PROVE  HonourInv
  OBVIOUS
<1>0. TypeOK /\ QueuesOK
  BY InitType, TypeParts DEF TypeOK
<1>1. /\ todo = [t \in Tasks |-> <<>>] /\ rx = <<>> /\ outq = <<>> /\ reports = <<>> /\ link = "up"
      /\ inbox = [s \in Subscribers |-> <<>>] /\ cycle.left = {} /\ wish = [r \in Rooms |-> None]
  BY DEF Init, DaemonInit, EngineInit
<1>2. \A i \in 1..Len(<<>>) : FALSE
  OBVIOUS
<1>3. ASSUME NEW r \in Rooms
      PROVE  Heeded(r)
  <2>1. \A t \in Tasks : Pending(t, r) = {} /\ Goings(t, r) = {}
    BY <1>1, <1>2 DEF Pending, Goings, Has
  <2>2. \A t \in Tasks : ~Busy(t, r)
    BY <1>0, <2>1, BusyIs
  <2>3. ~RequestBusy(r) /\ wish[r] = None
    BY <1>1, <2>2, WhoIsWho DEF RequestBusy
  <2>4. OneAttends(r)
    BY <1>1, <2>2 DEF OneAttends, Attends
  <2>5. ReturnKnown(r)
    BY <2>3 DEF ReturnKnown
  <2>6. WordKept(r)
    BY <2>2, <2>3, WhoIsWho DEF WordKept, Kept
  <2>7. Careful(r)
    BY <1>1, <2>1, WhoIsWho DEF Careful
  <2>8. Shown(r) /\ Echoes(r)
    BY <2>1, <2>3 DEF Shown, Fits, Echoes
  <2> QED BY <2>4, <2>5, <2>6, <2>7, <2>8 DEF Heeded
<1> QED BY <1>1, <1>3 DEF HonourInv

LEMMA StepKeepsHonour ==
  ASSUME "resume_dark" \notin Ops, TypeOK, TypeOK', RecordInv, ConnInv, HonourInv, [Next]_vars
  PROVE  HonourInv'
<1>1. CASE Actor
  BY <1>1, ActorHeeds
<1>2. CASE \E t \in Tasks : Step(t)
  BY <1>2, TaskHeeds
<1>3. CASE \E q \in Requests, r \in Rooms : Api(q, r)
  BY <1>3, ApiHeeds
<1>4. CASE BeginsCycle
  BY <1>4, BeginsHeeds
<1>5. CASE \E r \in Rooms : CyclesRoom(r) \/ ExternalSet(r) \/ BulbReturns(r)
  BY <1>5, CycleHeeds, TouchHeeds, ReturnHeeds
<1>6. CASE DeviceOnline
  BY <1>6, OnlineHeeds
<1>7. CASE ReadReport
  BY <1>7, ReadHeeds
<1>8. CASE Connection
  BY <1>8, NoticeHeeds, BacklogHeeds DEF Connection
<1>9. CASE LinkLost
  BY <1>9, OutageHeeds
<1>10. CASE Tick
  BY <1>10, TickHeeds
<1>11. CASE UNCHANGED vars
  BY <1>11, RestHeeds
<1> QED BY <1>1, <1>2, <1>3, <1>4, <1>5, <1>6, <1>7, <1>8, <1>9, <1>10, <1>11 DEF Next

LEMMA HonourImplies == TypeOK /\ RecordInv /\ HonourInv => RequestHonoured
<1> SUFFICES ASSUME TypeOK, RecordInv, HonourInv,
                    NEW r \in Rooms, Settled(r), ~raced[r], wish[r] # None
             PROVE  LET room == rooms[r]
                        manual == room.source = "Manual" /\ room.lightsOn /\ bulb[r].on /\ bulb[r].level = "user"
                    IN  CASE wish[r].op = "on"     -> /\ room.lightsOn /\ bulb[r].on
                                                      /\ room.source = "Manual" => EchoOfOthers
                          [] wish[r].op = "set"    -> manual \/ Expired(wish[r].until)
                          [] wish[r].op = "off"    -> ~room.lightsOn /\ ~bulb[r].on /\ ~room.paused
                          [] wish[r].op = "pause"  -> room.paused /\ room.pausedUntil = None
                          [] wish[r].op = "snooze" -> \/ Expired(wish[r].until)
                                                      \/ /\ room.paused
                                                         /\ room.pausedUntil = wish[r].until
                          [] wish[r].op = "resume" -> ~room.paused /\ room.source # "Manual"
                          [] wish[r].op = "scene"  -> manual /\ room.paused
  BY DEF RequestHonoured
<1>1. QueuesOK /\ WorldOK /\ wish[r] \in Goal
  BY TypeParts DEF TypeOK, DaemonTypeOK
<1>2. PICK w, room, light : w = wish[r] /\ room = rooms[r] /\ light = bulb[r]
  OBVIOUS
<1>3. room.lightsOn = light.on
  BY <1>1, <1>2, SettledSeen DEF RecordInv
<1>4. Kept(w, room, now, EchoOfOthers) /\ Fits(r, w, now, light, outq, reports) /\ w # None
  BY <1>2, SettledKeeps
<1>5. \A k \in 1..Len(outq) : outq[k].room # r
  BY NobodySettled DEF Quiet, Outstanding
<1>6. w.op \in {"on", "set", "off", "pause", "resume", "snooze", "scene"}
  BY <1>1, <1>2 DEF Goal
<1>7. CASE w.op = "on"
  <2>1. light.on /\ (room.source = "Manual" => EchoOfOthers)
    BY <1>4, <1>5, <1>7 DEF Kept, Fits
  <2> QED BY <1>2, <1>3, <1>7, <2>1
<1>8. CASE w.op \in {"set", "scene"}
  <2>1. w.op = "scene" \/ ~Over(w.until, now) => light.on /\ light.level = "user"
    BY <1>4, <1>5, <1>8 DEF Fits
  <2>2. /\ w.op = "set" => Over(w.until, now) \/ room.source = "Manual"
        /\ w.op = "scene" => room.source = "Manual" /\ room.paused
    BY <1>4, <1>8 DEF Kept
  <2> QED BY <1>2, <1>3, <1>8, <2>1, <2>2 DEF Over, Expired
<1>9. CASE w.op = "off"
  <2>1. ~room.lightsOn /\ ~room.paused
    BY <1>4, <1>9 DEF Kept
  <2> QED BY <1>2, <1>3, <1>9, <2>1
<1>10. CASE w.op \in {"pause", "snooze", "resume"}
  <2>1. /\ w.op = "pause" => room.paused /\ room.pausedUntil = None
        /\ w.op = "snooze" => Over(w.until, now) \/ (room.paused /\ room.pausedUntil = w.until)
        /\ w.op = "resume" => ~room.paused /\ room.source # "Manual"
    BY <1>4, <1>10 DEF Kept
  <2> QED BY <1>2, <1>10, <2>1 DEF Over, Expired
<1> QED BY <1>6, <1>7, <1>8, <1>9, <1>10

\* What a user successfully asked of a room (set_lights, set_circadian,
\* activate_scene and the rest of api/handlers.rs) is what the room and its
\* lights show once everything about the room has settled: through the engine's
\* pushes and expiries, the echoes of the lights, lost connections and requests
\* that fail and restore what they found.  It ends when somebody changes the
\* light or two tasks overlap on the room, and nobody resumes a dark room.
THEOREM RequestsAreHonoured ==
  ASSUME "resume_dark" \notin Ops
  PROVE  Spec => []RequestHonoured
<1>1. Init => ConnInv /\ RecordInv /\ HonourInv
  BY InitConn, InitRecord, InitHonour
<1>2. TypeOK /\ ConnInv /\ [Next]_vars => ConnInv'
  BY StepKeepsConn
<1>3. TypeOK /\ RecordInv /\ [Next]_vars => RecordInv'
  BY StepKeepsRecord
<1>4. TypeOK /\ TypeOK' /\ RecordInv /\ ConnInv /\ HonourInv /\ [Next]_vars => HonourInv'
  BY StepKeepsHonour
<1> QED BY <1>1, <1>2, <1>3, <1>4, HonourImplies, TypeCorrect, PTL DEF Spec

=============================================================================
