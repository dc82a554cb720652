---------------------------- MODULE Remotes_proofs -----------------------------
(***************************************************************************)
(* Remotes, ramps and sessions are well formed, and a light that ramps has *)
(* a session, or something on its way that ends the ramp: for all sets of  *)
(* rooms and spawned tasks, all scales and all capacities.                 *)
(***************************************************************************)
EXTENDS Remotes, Daemon_proofs, FiniteSetTheorems

-----------------------------------------------------------------------------
(* The scale.                                                               *)

LEMMA ScaleType ==
  /\ Len(Scale) \in Nat /\ Positions = 1..Len(Scale) /\ None \notin Positions
  /\ \A i \in Positions : Scale[i] \in Levels
  /\ \A level \in Levels : Position(level) \in Positions /\ Scale[Position(level)] = level
<1>1. Scale \in Seq(Levels) /\ ToSet(Scale) = Levels /\ None \notin DOMAIN Scale
  BY RemotesAssumption DEF RemotesAssumption
<1>2. Len(Scale) \in Nat /\ Positions = 1..Len(Scale)
  BY <1>1, LenProperties DEF Positions
<1>3. \A i \in Positions : Scale[i] \in Levels
  BY <1>1, <1>2
<1>4. ASSUME NEW level \in Levels
      PROVE  Position(level) \in Positions /\ Scale[Position(level)] = level
  <2>1. \E i \in Positions : Scale[i] = level
    BY <1>1 DEF ToSet, Positions
  <2> QED
    BY <2>1 DEF Position
<1> QED
  BY <1>1, <1>2, <1>3, <1>4 DEF Positions

\* Nothing moves a light off its scale.
LEMMA MovedType ==
  ASSUME NEW i \in Positions, NEW up \in BOOLEAN, NEW n \in Nat
  PROVE  Moved(i, up, n) \in Positions
BY ScaleType DEF Moved

\* Where the engine takes the brightness of a room from.
LEMMA RemoteBaseType ==
  ASSUME NEW room \in Room
  PROVE  RemoteBase(room) \in Positions
<1>1. /\ room.intended \in MaybeLevel /\ room.current \in MaybeLevel /\ "circadian" \in Levels
  BY DaemonAssumption DEF DaemonAssumption, Room
<1>2. \A a \in MaybeLevel, b \in MaybeLevel : Or(a, Or(b, "circadian")) \in Levels
  BY <1>1 DEF Or, MaybeLevel
<1> QED
  BY <1>1, <1>2, ScaleType DEF RemoteBase

\* A list of the members of a finite set.
LEMMA ListType ==
  ASSUME NEW S, NEW T, IsFiniteSet(S), S \subseteq T
  PROVE  SetToSeq(S) \in Seq(T)
<1> DEFINE n == Cardinality(S)
<1>1. n \in Nat /\ ExistsBijection(1..n, S)
  BY FS_CardinalityType
<1>2. \E f \in [1..n -> S] : IsInjective(f)
  BY <1>1 DEF ExistsBijection, Bijection, Injection
<1>3. SetToSeq(S) \in [1..n -> S]
  BY <1>2 DEF SetToSeq
<1>4. SetToSeq(S) \in [1..n -> T]
  BY <1>3
<1> QED
  BY <1>1, <1>4

-----------------------------------------------------------------------------
(* What the handlers put down: sends, and publishes that are followed by    *)
(* sends.                                                                   *)

LEMMA RemoteConstants ==
  /\ {"automation", "circadian", "mqtt"} \subseteq Tasks /\ Workers \subseteq Tasks
  /\ Tasks = Workers \union {"automation", "circadian", "mqtt"}
  /\ "automation" \notin Workers /\ "circadian" \notin Workers /\ "mqtt" \notin Workers
  /\ "automation" \in Subscribers /\ "circadian" \in Subscribers
  /\ OverrideTtl \in Nat /\ IsFiniteSet(Rooms)
BY RemotesAssumption DEF RemotesAssumption

LEMMA WordsType ==
  /\ "circadian" \in Levels /\ "external" \in Levels /\ Levels \subseteq MaybeLevel
  /\ None \in MaybeLevel /\ None \in MaybeInstant /\ None \in Goal \union {None}
  /\ Power = {"ON", "OFF", "keep", "up", "down", "stop"}
BY DaemonAssumption DEF DaemonAssumption, MaybeLevel, MaybeInstant, Power

\* The publishes of a move of the lights, which only the engine does.
Moves == {s \in PublishSteps : s.power \in {"up", "down"}}

\* The steps of everybody else: no publish starts a ramp.
Calm == StepsOver(Sends) \ Moves

LEMMA CalmType ==
  /\ Calm \subseteq StepsOver(Sends) /\ Calm \subseteq Steps
  /\ Sends \subseteq Calm
  /\ \A s \in Calm : s.do \in {"send", "publish"} /\ (s.do = "publish" => s.power \notin {"up", "down"})
<1>1. Sends \subseteq Calm
  <2>1. \A s \in Sends : s.do = "send"
    BY DEF Sends
  <2>2. \A s \in Moves : s.do = "publish"
    BY PublishFields DEF Moves
  <2> QED
    BY <2>1, <2>2, SendsType DEF Calm
<1>2. ASSUME NEW s \in Calm, s.do = "publish"
      PROVE  s.power \notin {"up", "down"}
  <2>1. s \in PublishSteps
    BY <1>2, SendsType, StepFields DEF Calm
  <2> QED
    BY <2>1 DEF Calm, Moves
<1> QED
  BY <1>1, <1>2, SendsType, SendFields DEF Calm

\* A publish of anything but a move.
LEMMA CalmPublish ==
  ASSUME NEW r \in Rooms, NEW power \in Power \ {"up", "down"}, NEW level \in MaybeLevel,
         NEW ok \in Seq(Sends), NEW err \in Seq(Sends)
  PROVE  Publish(r, power, level, None, ok, err) \in Calm
<1>1. Publish(r, power, level, None, ok, err) \in StepsOver(Sends)
  BY PushType, WordsType
<1>2. Publish(r, power, level, None, ok, err).power = power
  BY DEF Publish
<1> QED
  BY <1>1, <1>2 DEF Calm, Moves

\* What a spawned task puts down to turn the lights on, and the engine to set
\* them.
LEMMA OnActionType ==
  ASSUME RecordOK, NEW r \in Rooms, NEW level \in Levels, NEW next \in Seq(Sends)
  PROVE  LightsOnAction(r, level, "Automation", next) \in Seq(Calm)
<1> DEFINE lit == Send(r, LightsOnWithPush(level, "Automation"))
           back == Send(r, RestoreLights(rooms[r]))
           on == Publish(r, "ON", level, None, next, << back >>)
<1>1. lit \in Sends /\ back \in Sends
  BY SendsType, UpdateTypes, WordsType DEF RecordOK, Sources
<1>2. << back >> \in Seq(Sends)
  <2> HIDE DEF back
  <2> QED
    BY <1>1, ShortSeqs
<1>3. on \in Calm
  BY <1>2, WordsType, CalmPublish
<1>4. lit \in Calm
  BY <1>1, CalmType
<1> HIDE DEF lit, on
<1>5. << lit, on >> \in Seq(Calm)
  BY <1>3, <1>4, ShortSeqs
<1> QED
  BY <1>5 DEF LightsOnAction, Rollback, lit, on, back

\* And off.
LEMMA OffActionType ==
  ASSUME RecordOK, NEW r \in Rooms
  PROVE  LightsOffAction(r) \in Seq(Calm)
<1> DEFINE dark == Send(r, LightsOff)
           back == Send(r, RestoreLights(rooms[r]))
           off == Publish(r, "OFF", None, None, <<>>, << back >>)
<1>1. dark \in Sends /\ back \in Sends
  BY SendTypes DEF RecordOK
<1>2. << back >> \in Seq(Sends) /\ <<>> \in Seq(Sends)
  <2> HIDE DEF back
  <2> QED
    BY <1>1, ShortSeqs
<1>3. off \in Calm
  BY <1>2, WordsType, CalmPublish
<1>4. dark \in Calm
  BY <1>1, CalmType
<1> HIDE DEF dark, off
<1>5. << dark, off >> \in Seq(Calm)
  BY <1>3, <1>4, ShortSeqs
<1> QED
  BY <1>5 DEF LightsOffAction, Rollback, dark, off, back

\* What the circadian engine puts down for a room.
LEMMA RoomStepsType ==
  ASSUME NEW r \in Rooms, NEW room
  PROVE  RoomSteps(r, room) \in Seq(Calm)
<1> DEFINE lit(level) == Send(r, LightsOn(level, "Circadian"))
           push == Send(r, JehaPush("circadian"))
           unpause == Send(r, CircadianPause(FALSE, None))
           ttl == Send(r, ManualOverrideTtl(None))
<1>1. /\ lit(None) \in Sends /\ lit("circadian") \in Sends /\ push \in Sends
      /\ unpause \in Sends /\ ttl \in Sends
  BY SendTypes, WordsType DEF Sources
<1>2. \A s \in Sends : s \in Calm
  BY CalmType
<1> HIDE DEF lit, push, unpause, ttl
<1>3. << lit("circadian"), push >> \in Seq(Sends) /\ <<>> \in Seq(Sends)
  BY <1>1, ShortSeqs
<1> DEFINE cycled == Publish(r, "keep", "circadian", None, << lit("circadian"), push >>, <<>>)
<1>4. cycled \in Calm
  BY <1>3, CalmPublish, WordsType
<1> HIDE DEF cycled
<1>5. /\ << cycled >> \in Seq(Calm) /\ << unpause >> \in Seq(Calm)
      /\ << lit(None), ttl >> \in Seq(Calm) /\ <<>> \in Seq(Calm)
  BY <1>1, <1>2, <1>4, ShortSeqs
<1>6. /\ ResumeSteps(r, room) \in Seq(Calm) /\ OverrideSteps(r, room) \in Seq(Calm)
      /\ PushRoom(r) = << cycled >>
  BY <1>5 DEF ResumeSteps, OverrideSteps, PushRoom, cycled, lit, push, unpause, ttl
<1>7. OverrideSteps(r, room) \o PushRoom(r) \in Seq(Calm)
  BY <1>5, <1>6, ConcatProperties
<1> QED
  BY <1>5, <1>6, <1>7, ConcatProperties DEF RoomSteps

-----------------------------------------------------------------------------
(* The types.                                                               *)

\* The part of the types that is this module's own.
RemotesOK ==
  /\ recorded \in [Rooms -> [action : Buttons, at : Nat] \union {None}]
  /\ session \in [Rooms -> [up : BOOLEAN, start : Positions, started : Nat] \union {None}]
  /\ press \in {NoPress}
       \union [at : {"look"}, room : Rooms, action : Clicks \union Holds,
               base : Positions \union {None}]
       \union [at : {"set", "ramp"}, room : Rooms, action : Clicks \union Holds, base : Positions]
  /\ job \in [Workers -> [room : Rooms, on : BOOLEAN] \union {None}]
  /\ asked \in [Rooms -> Bulb \union {None}]
  /\ raced \in [Rooms -> BOOLEAN]
  /\ spent \in [presses : Nat, republished : Nat, touches : Nat, outages : Nat]

\* No session begins in the future, and what waits for the automation engine is
\* about a room.
SessionsPast == \A r \in Rooms : session[r] # None => session[r].started <= now
HeardOK == \A i \in 1..Len(inbox["automation"]) : Heeds("automation", inbox["automation"][i])

TypeInv == TypeOK /\ SessionsPast /\ HeardOK

LEMMA RemoteParts ==
  /\ TypeOK <=> QueuesOK /\ WorldOK /\ RecordOK /\ EngineTypeOK /\ RemotesOK
  /\ TypeOK' <=> QueuesOK' /\ WorldOK' /\ RecordOK' /\ EngineTypeOK' /\ RemotesOK'
BY TypeParts DEF TypeOK, RemotesOK

LEMMA InitType == Init => TypeInv
<1> SUFFICES ASSUME Init PROVE TypeInv
  OBVIOUS
<1>1. DaemonTypeOK
  BY StartRooms, DaemonInitType DEF Init
<1>2. EngineTypeOK
  BY StartRooms DEF Init, EngineInit, EngineTypeOK, NoView, DarkRoom
<1>3. RemotesOK
  BY DEF Init, RemotesOK
<1>4. inbox["automation"] = <<>>
  BY RemoteConstants DEF Init, DaemonInit
<1>5. SessionsPast /\ HeardOK
  BY <1>4 DEF Init, SessionsPast, HeardOK
<1> QED
  BY <1>1, <1>2, <1>3, <1>5, RemoteParts, TypeParts DEF TypeInv

LEMMA SpendType ==
  ASSUME RemotesOK, NEW kind \in {"presses", "republished", "touches", "outages"}, Spend(kind)
  PROVE  spent' \in [presses : Nat, republished : Nat, touches : Nat, outages : Nat]
BY DEF RemotesOK, Spend

LEMMA OverlapType ==
  ASSUME RemotesOK, NEW rs, Overlap(rs)
  PROVE  raced' \in [Rooms -> BOOLEAN]
BY DEF RemotesOK, Overlap

\* What the engine takes from its inbox is about a room.
LEMMA TakesType ==
  ASSUME QueuesOK, HeardOK, NEW actions, Takes(actions)
  PROVE  LET q == inbox["automation"] IN
         /\ inbox' \in [Subscribers -> Seq(Events)]
         /\ \A s \in Subscribers : Len(inbox'[s]) <= BusCap
         /\ HeardOK'
         /\ Head(q).room \in Rooms /\ Head(q).action \in actions
<1> DEFINE q == inbox["automation"]
<1>1. /\ q \in Seq(Events) /\ q # <<>> /\ Len(q) <= BusCap
      /\ inbox' = [inbox EXCEPT !["automation"] = Tail(q)]
  BY RemoteConstants DEF QueuesOK, Takes
<1>2. /\ Tail(q) \in Seq(Events) /\ Head(q) \in Events /\ Head(q) = q[1] /\ 1 \in 1..Len(q)
      /\ Len(q) \in Nat /\ Len(Tail(q)) = Len(q) - 1
      /\ \A i \in 1..Len(Tail(q)) : Tail(q)[i] = q[i + 1]
  BY <1>1, HeadTailProperties, LenProperties
<1>3. Len(Tail(q)) <= BusCap
  BY <1>1, <1>2, CapsType DEF Caps
<1>4. inbox'["automation"] = Tail(q)
  BY <1>1, RemoteConstants DEF QueuesOK
<1>5. HeardOK'
  BY <1>2, <1>4 DEF HeardOK
<1>6. Head(q).room \in Rooms
  BY <1>2 DEF HeardOK, Heeds, Events
<1> QED
  BY <1>1, <1>2, <1>3, <1>5, <1>6 DEF QueuesOK, Takes

\* The circadian engine and the broadcasts leave it so.
LEMMA OthersHeard ==
  ASSUME QueuesOK, HeardOK,
         \/ inbox' = inbox
         \/ \E event : EngineTakes(event)
         \/ \E e \in Events : Broadcast(e)
  PROVE  HeardOK'
<1> DEFINE q == inbox["automation"]
<1>1. q \in Seq(Events) /\ Len(q) \in Nat
  BY RemoteConstants, LenProperties DEF QueuesOK
<1>2. CASE inbox' = inbox
  BY <1>2 DEF HeardOK
<1>3. CASE \E event : EngineTakes(event)
  <2>1. inbox'["automation"] = q
    BY <1>3, RemoteConstants DEF EngineTakes, QueuesOK
  <2> QED
    BY <2>1 DEF HeardOK
<1>4. ASSUME NEW e \in Events, Broadcast(e)
      PROVE  HeardOK'
  <2> DEFINE kept == IF Len(q) < BusCap THEN q ELSE Tail(q)
  <2>1. inbox'["automation"] = IF Heeds("automation", e) THEN Append(kept, e) ELSE q
    BY <1>4, RemoteConstants DEF Broadcast
  <2>2. /\ kept \in Seq(Events) /\ Len(kept) \in Nat
        /\ \A i \in 1..Len(kept) : Heeds("automation", kept[i])
    <3>1. CASE Len(q) < BusCap
      BY <1>1, <3>1 DEF HeardOK
    <3>2. CASE ~(Len(q) < BusCap)
      <4>1. q # <<>>
        BY <1>1, <3>2, DaemonAssumption DEF DaemonAssumption
      <4>2. /\ Tail(q) \in Seq(Events) /\ Len(Tail(q)) = Len(q) - 1
            /\ \A i \in 1..Len(Tail(q)) : Tail(q)[i] = q[i + 1]
        BY <1>1, <4>1, HeadTailProperties
      <4> QED
        BY <1>1, <3>2, <4>1, <4>2, LenProperties DEF HeardOK
    <3> QED
      BY <3>1, <3>2
  <2> HIDE DEF kept
  <2>3. CASE Heeds("automation", e)
    <3>1. /\ Len(Append(kept, e)) = Len(kept) + 1 /\ Append(kept, e)[Len(kept) + 1] = e
          /\ \A i \in 1..Len(kept) : Append(kept, e)[i] = kept[i]
      BY <2>2, AppendProperties
    <3>2. \A i \in 1..(Len(kept) + 1) : Heeds("automation", Append(kept, e)[i])
      BY <2>2, <2>3, <3>1
    <3> QED
      BY <2>1, <2>3, <3>1, <3>2 DEF HeardOK
  <2>4. CASE ~Heeds("automation", e)
    BY <2>1, <2>4 DEF HeardOK
  <2> QED
    BY <2>3, <2>4
<1> QED
  BY <1>2, <1>3, <1>4

\* Where a session has got to, and what ends it.
LEMMA StopStepsType ==
  ASSUME RecordOK, RemotesOK, SessionsPast, NEW r \in Rooms
  PROVE  /\ StopSteps(r) \in Seq(Calm)
         /\ session[r] # None => Reached(session[r]) \in Positions
<1>1. CASE session[r] = None
  BY <1>1, EmptySeq DEF StopSteps
<1>2. CASE session[r] # None
  <2> DEFINE s == session[r]
             i == Reached(s)
             push == Send(r, LightsOnWithPush(Scale[i], "Manual"))
             stop == Publish(r, "stop", None, None, << push >>, << push >>)
  <2>1. s.up \in BOOLEAN /\ s.start \in Positions /\ now - s.started \in Nat
    BY <1>2 DEF RemotesOK, SessionsPast, RecordOK
  <2>2. i \in Positions
    BY <2>1, MovedType DEF Reached
  <2>3. push \in Sends
    BY <2>2, ScaleType, SendsType, UpdateTypes, WordsType DEF Sources
  <2>4. << push >> \in Seq(Sends)
    <3> HIDE DEF push
    <3> QED
      BY <2>3, ShortSeqs
  <2>5. stop \in Calm
    BY <2>4, WordsType, CalmPublish
  <2>6. << stop >> \in Seq(Calm)
    <3> HIDE DEF stop
    <3> QED
      BY <2>5, ShortSeqs
  <2> QED
    BY <1>2, <2>2, <2>6 DEF StopSteps
<1> QED
  BY <1>1, <1>2

\* The pause and the deadline of an override that dimming begins with.
LEMMA ClaimType ==
  ASSUME RecordOK, NEW r \in Rooms
  PROVE  Claim(r) \in Seq(Sends) /\ Claim(r) \in Seq(Calm) /\ Len(Claim(r)) = 2
<1> DEFINE a == Send(r, CircadianPause(TRUE, None))
           b == Send(r, ManualOverrideTtl(now + OverrideTtl))
<1>1. a \in Sends /\ b \in Sends
  <2>1. now + OverrideTtl \in MaybeInstant
    BY RemoteConstants DEF RecordOK, MaybeInstant
  <2> QED
    BY <2>1, SendTypes, WordsType
<1>2. Claim(r) = << a, b >>
  BY DEF Claim
<1>3. a \in Calm /\ b \in Calm
  BY <1>1, CalmType
<1> HIDE DEF a, b
<1> QED
  BY <1>1, <1>2, <1>3, ShortSeqs

\* The press as the engine has it.
LEMMA PressFields ==
  ASSUME RemotesOK, NEW at \in {"look", "set", "ramp"}, press.at = at
  PROVE  /\ press.room \in Rooms /\ press.action \in Clicks \union Holds
         /\ press.base \in Positions \union {None}
         /\ press = [at |-> at, room |-> press.room, action |-> press.action, base |-> press.base]
         /\ at # "look" => press.base \in Positions
BY DEF RemotesOK, NoPress

\* Where a step leaves the shared state and the world alone.
LEMMA EngineStepParts ==
  ASSUME TypeInv, UNCHANGED <<shared, rx, dedup, world, now, wish, cycle>>,
         \/ inbox' = inbox
         \/ \E actions : Takes(actions),
         \/ todo' = todo
         \/ \E t \in Tasks, steps \in Seq(Steps) : todo' = [todo EXCEPT ![t] = steps]
  PROVE  QueuesOK' /\ WorldOK' /\ RecordOK' /\ EngineTypeOK' /\ HeardOK'
<1>0. QueuesOK /\ WorldOK /\ RecordOK /\ EngineTypeOK /\ HeardOK
  BY RemoteParts DEF TypeInv
<1>1. /\ inbox' \in [Subscribers -> Seq(Events)]
      /\ \A s \in Subscribers : Len(inbox'[s]) <= BusCap
      /\ HeardOK'
  <2>1. CASE inbox' = inbox
    BY <1>0, <2>1 DEF QueuesOK, HeardOK
  <2>2. CASE \E actions : Takes(actions)
    BY <1>0, <2>2, TakesType
  <2> QED
    BY <2>1, <2>2
<1>2. todo' \in [Tasks -> Seq(Steps)]
  BY <1>0 DEF QueuesOK
<1> QED
  BY <1>0, <1>1, <1>2 DEF QueuesOK, WorldOK, RecordOK, EngineTypeOK, shared, world

LEMMA CalmSteps == Seq(Calm) \subseteq Seq(Steps)
BY CalmType, SeqMonotonic

LEMMA HandleSwitchType ==
  ASSUME TypeInv, HandleSwitch
  PROVE  TypeInv'
<1> DEFINE e == Head(inbox["automation"])
           on == IF e.action = "toggle" THEN ~rooms[e.room].lightsOn ELSE e.action = "on"
<1>0. QueuesOK /\ RecordOK /\ RemotesOK /\ HeardOK /\ SessionsPast
  BY RemoteParts DEF TypeInv
<1>1. /\ Takes(Switches) /\ session' = [session EXCEPT ![e.room] = None]
      /\ \E w \in Workers : job' = [job EXCEPT ![w] = [room |-> e.room, on |-> on]]
      /\ UNCHANGED <<shared, rx, todo, dedup, world, now, wish, cycle,
                     recorded, press, asked, raced, spent>>
  BY DEF HandleSwitch
<1>2. e.room \in Rooms
  BY <1>0, <1>1, TakesType
<1>3. on \in BOOLEAN
  BY <1>0, <1>2 DEF RecordOK, Room
<1>4. QueuesOK' /\ WorldOK' /\ RecordOK' /\ EngineTypeOK' /\ HeardOK'
  BY <1>1, EngineStepParts
<1> HIDE DEF on, e
<1>5. RemotesOK'
  BY <1>0, <1>1, <1>2, <1>3 DEF RemotesOK
<1>6. SessionsPast'
  BY <1>0, <1>1 DEF SessionsPast, RemotesOK
<1> QED
  BY <1>4, <1>5, <1>6, RemoteParts DEF TypeInv

LEMMA HandleStopType ==
  ASSUME TypeInv, HandleStop
  PROVE  TypeInv'
<1> DEFINE r == Head(inbox["automation"]).room
<1>0. QueuesOK /\ RecordOK /\ RemotesOK /\ HeardOK /\ SessionsPast
  BY RemoteParts DEF TypeInv
<1>1. /\ Takes({"stop"}) /\ session' = [session EXCEPT ![r] = None]
      /\ todo' = [todo EXCEPT !["automation"] = StopSteps(r)]
      /\ UNCHANGED <<shared, rx, dedup, world, now, wish, cycle,
                     recorded, press, job, asked, raced, spent>>
  BY DEF HandleStop, StopSession
<1>2. r \in Rooms
  BY <1>0, <1>1, TakesType
<1>3. StopSteps(r) \in Seq(Steps)
  BY <1>0, <1>2, StopStepsType, CalmSteps
<1>4. QueuesOK' /\ WorldOK' /\ RecordOK' /\ EngineTypeOK' /\ HeardOK'
  BY <1>1, <1>3, EngineStepParts, RemoteConstants
<1> HIDE DEF r
<1>5. RemotesOK' /\ SessionsPast'
  BY <1>0, <1>1, <1>2 DEF RemotesOK, SessionsPast
<1> QED
  BY <1>4, <1>5, RemoteParts DEF TypeInv

LEMMA HandleDimmingType ==
  ASSUME TypeInv, HandleDimming
  PROVE  TypeInv'
<1> DEFINE e == Head(inbox["automation"])
           base == IF session[e.room] = None THEN None ELSE Reached(session[e.room])
<1>0. QueuesOK /\ RecordOK /\ RemotesOK /\ HeardOK /\ SessionsPast
  BY RemoteParts DEF TypeInv
<1>1. /\ Takes(Clicks \union Holds)
      /\ \/ UNCHANGED <<todo, session, press>>
         \/ /\ session' = [session EXCEPT ![e.room] = None]
            /\ todo' = [todo EXCEPT !["automation"] = StopSteps(e.room)]
            /\ press' = [at |-> "look", room |-> e.room, action |-> e.action, base |-> base]
      /\ UNCHANGED <<shared, rx, dedup, world, now, wish, cycle,
                     recorded, job, asked, raced, spent>>
  BY DEF HandleDimming, StopSession
<1>2. e.room \in Rooms /\ e.action \in Clicks \union Holds
  BY <1>0, <1>1, TakesType
<1>3. StopSteps(e.room) \in Seq(Steps) /\ base \in Positions \union {None}
  BY <1>0, <1>2, StopStepsType, CalmSteps
<1>4. QueuesOK' /\ WorldOK' /\ RecordOK' /\ EngineTypeOK' /\ HeardOK'
  BY <1>1, <1>3, EngineStepParts, RemoteConstants
<1> HIDE DEF e, base
<1>5. RemotesOK' /\ SessionsPast'
  BY <1>0, <1>1, <1>2, <1>3 DEF RemotesOK, SessionsPast
<1> QED
  BY <1>4, <1>5, RemoteParts DEF TypeInv

LEMMA LookType ==
  ASSUME TypeInv, Look
  PROVE  TypeInv'
<1> DEFINE r == press.room
           base == IF press.base # None THEN press.base ELSE RemoteBase(rooms[r])
           next == Moved(base, Up(press.action), 1)
           move == Publish(r, IF Up(press.action) THEN "up" ELSE "down", None, None, <<>>, <<>>)
<1>0. RecordOK /\ RemotesOK /\ SessionsPast
  BY RemoteParts DEF TypeInv
<1>1. /\ press.at = "look"
      /\ \/ press' = NoPress /\ todo' = todo
         \/ /\ press' = [press EXCEPT !.at = "set", !.base = next]
            /\ todo' = [todo EXCEPT !["automation"] = Claim(r)]
         \/ /\ press' = [press EXCEPT !.at = "ramp", !.base = base]
            /\ todo' = [todo EXCEPT !["automation"] = Claim(r) \o << move >>]
      /\ UNCHANGED <<shared, rx, inbox, dedup, world, now, wish, cycle,
                     recorded, session, job, asked, raced, spent>>
  BY DEF Look, Proceeds
<1>2. r \in Rooms /\ base \in Positions /\ next \in Positions
  <2>1. r \in Rooms /\ rooms[r] \in Room /\ press.base \in Positions \union {None}
    BY <1>0, <1>1, PressFields DEF RecordOK
  <2>2. base \in Positions
    BY <2>1, RemoteBaseType
  <2>3. Up(press.action) \in BOOLEAN
    BY DEF Up
  <2> HIDE DEF base
  <2> QED
    BY <2>1, <2>2, <2>3, MovedType
<1>3. Claim(r) \in Seq(Steps) /\ Claim(r) \o << move >> \in Seq(Steps)
  <2>1. Claim(r) \in Seq(Steps)
    BY <1>0, <1>2, ClaimType, CalmSteps
  <2>2. move \in Steps
    <3>1. move \in StepsOver(Sends)
      BY <1>2, PushType, WordsType, EmptySeq
    <3> QED
      BY <3>1, SendsType
  <2> HIDE DEF move, r
  <2>3. << move >> \in Seq(Steps)
    BY <2>2, ShortSeqs
  <2> QED
    BY <2>1, <2>3, ConcatProperties
<1>4. QueuesOK' /\ WorldOK' /\ RecordOK' /\ EngineTypeOK' /\ HeardOK'
  BY <1>1, <1>3, EngineStepParts, RemoteConstants
<1>5. press' \in {NoPress}
         \union [at : {"set", "ramp"}, room : Rooms, action : Clicks \union Holds, base : Positions]
  <2> HIDE DEF base, next, move
  <2> QED
    BY <1>0, <1>1, <1>2, PressFields
<1>6. RemotesOK' /\ SessionsPast'
  BY <1>0, <1>1, <1>5 DEF RemotesOK, SessionsPast
<1> QED
  BY <1>4, <1>6, RemoteParts DEF TypeInv

LEMMA SetLevelType ==
  ASSUME TypeInv, SetLevel
  PROVE  TypeInv' /\ LightsOnAction(press.room, Scale[press.base], "Automation",
                                    << Send(press.room, LightsOn(None, "Manual")) >>) \in Seq(Calm)
<1> DEFINE manual == Send(press.room, LightsOn(None, "Manual"))
           steps == LightsOnAction(press.room, Scale[press.base], "Automation", << manual >>)
<1>0. RecordOK /\ RemotesOK /\ SessionsPast
  BY RemoteParts DEF TypeInv
<1>1. /\ press.at = "set" /\ press' = NoPress /\ todo' = [todo EXCEPT !["automation"] = steps]
      /\ UNCHANGED <<shared, rx, inbox, dedup, world, now, wish, cycle,
                     recorded, session, job, asked, raced, spent>>
  BY DEF SetLevel, Proceeds
<1>2. press.room \in Rooms /\ Scale[press.base] \in Levels
  BY <1>0, <1>1, PressFields, ScaleType
<1>3. << manual >> \in Seq(Sends)
  <2>1. manual \in Sends
    BY <1>2, SendTypes, WordsType DEF Sources
  <2> HIDE DEF manual
  <2> QED
    BY <2>1, ShortSeqs
<1>4. steps \in Seq(Calm)
  BY <1>0, <1>2, <1>3, OnActionType
<1>5. QueuesOK' /\ WorldOK' /\ RecordOK' /\ EngineTypeOK' /\ HeardOK'
  <2> HIDE DEF steps
  <2> QED
    BY <1>1, <1>4, CalmSteps, EngineStepParts, RemoteConstants
<1>6. RemotesOK' /\ SessionsPast'
  BY <1>0, <1>1 DEF RemotesOK, SessionsPast
<1> QED
  BY <1>4, <1>5, <1>6, RemoteParts DEF TypeInv

\* What a spawned task puts down when it begins.
LEMMA BeginSteps ==
  ASSUME TypeOK, NEW w \in Workers, Begin(w)
  PROVE  /\ job[w] # None /\ job[w].room \in Rooms
         /\ \E steps \in Seq(Calm) :
              /\ todo' = [todo EXCEPT ![w] = steps]
              /\ \E i \in 1..Len(steps) :
                   steps[i] \in PublishSteps \ Moves /\ steps[i].room = job[w].room
<1> DEFINE r == job[w].room
           level == IF job[w].on THEN "circadian" ELSE None
           power == IF job[w].on THEN "ON" ELSE "OFF"
           steps == IF job[w].on THEN LightsOnAction(r, "circadian", "Automation", <<>>)
                    ELSE LightsOffAction(r)
<1>1. job[w] # None /\ todo' = [todo EXCEPT ![w] = steps]
  BY DEF Begin
<1>2. r \in Rooms /\ RecordOK
  BY <1>1, RemoteParts DEF RemotesOK
<1>3. steps \in Seq(Calm)
  BY <1>2, OnActionType, OffActionType, WordsType, EmptySeq
<1>4. /\ Len(steps) = 2 /\ steps[2].do = "publish" /\ steps[2].room = r
  BY DEF LightsOnAction, LightsOffAction, Publish
<1>5. steps[2] \in PublishSteps \ Moves
  <2>1. steps[2] \in Calm
    BY <1>3, <1>4
  <2> HIDE DEF steps
  <2> QED
    BY <1>4, <2>1, CalmType, StepFields DEF Calm
<1> HIDE DEF steps
<1>6. \E i \in 1..Len(steps) : steps[i] \in PublishSteps \ Moves /\ steps[i].room = job[w].room
  BY <1>4, <1>5
<1> QED
  BY <1>1, <1>2, <1>3, <1>6

LEMMA BeginType ==
  ASSUME TypeInv, NEW w \in Workers, Begin(w)
  PROVE  TypeInv'
<1>0. RemotesOK /\ SessionsPast /\ w \in Tasks
  BY RemoteParts, RemoteConstants DEF TypeInv
<1>1. PICK steps \in Seq(Calm) : todo' = [todo EXCEPT ![w] = steps]
  BY BeginSteps DEF TypeInv
<1>2. /\ job' = [job EXCEPT ![w] = None]
      /\ UNCHANGED <<shared, rx, inbox, dedup, world, now, wish, cycle,
                     recorded, session, press, asked, raced, spent>>
  BY DEF Begin
<1>3. QueuesOK' /\ WorldOK' /\ RecordOK' /\ EngineTypeOK' /\ HeardOK'
  BY <1>0, <1>1, <1>2, CalmSteps, EngineStepParts
<1>4. RemotesOK' /\ SessionsPast'
  BY <1>0, <1>2 DEF RemotesOK, SessionsPast
<1> QED
  BY <1>3, <1>4, RemoteParts DEF TypeInv

\* A step of a task, of whatever kind.
LEMMA TaskKeepsHeard ==
  ASSUME TypeInv, NEW t \in Tasks, TaskStep(t)
  PROVE  HeardOK'
<1>0. QueuesOK /\ HeardOK
  BY RemoteParts DEF TypeInv
<1>1. CASE AnnounceStep(t)
  <2>1. Head(todo[t]) \in Steps
    BY <1>0, <1>1, HeadTailProperties DEF AnnounceStep, HeadIs, QueuesOK
  <2>2. Head(todo[t]).event \in Events /\ Broadcast(Head(todo[t]).event)
    BY <1>1, <2>1, StepFields DEF AnnounceStep, HeadIs
  <2> QED
    BY <1>0, <2>2, OthersHeard
<1>2. CASE ~AnnounceStep(t)
  <2>1. inbox' = inbox
    BY <1>2 DEF TaskStep, SendStep, PublishStep, PublishQueuedStep, PublishTimeoutStep
  <2> QED
    BY <1>0, <2>1, OthersHeard
<1> QED
  BY <1>1, <1>2

LEMMA BeginRampType ==
  ASSUME TypeInv, BeginRamp
  PROVE  TypeInv'
<1>0. DaemonTypeOK /\ EngineTypeOK /\ RecordOK /\ RemotesOK /\ SessionsPast /\ "automation" \in Tasks
  BY RemoteParts, TypeParts, RemoteConstants DEF TypeInv
<1>1. /\ press.at = "ramp" /\ press' = NoPress /\ TaskStep("automation") /\ now' = now
      /\ \/ session' = [session EXCEPT ![press.room] =
                          [up |-> Up(press.action), start |-> press.base, started |-> now]]
         \/ session' = session
      /\ UNCHANGED <<cycle, recorded, job, asked, raced, spent>>
  BY DEF BeginRamp, AtRampPublish, TaskStep, PublishStep, PublishQueuedStep, PublishTimeoutStep
<1>2. DaemonTypeOK' /\ HeardOK'
  BY <1>0, <1>1, TaskStepType, TaskKeepsHeard
<1>3. press.room \in Rooms /\ press.base \in Positions
  BY <1>0, <1>1, PressFields
<1> DEFINE begun == [up |-> Up(press.action), start |-> press.base, started |-> now]
<1>a. begun \in [up : BOOLEAN, start : Positions, started : Nat] /\ begun.started = now /\ now \in Nat
  BY <1>0, <1>3 DEF RecordOK, Up
<1>b. session' = session \/ session' = [session EXCEPT ![press.room] = begun]
  BY <1>1
<1> HIDE DEF begun
<1>4. RemotesOK'
  BY <1>0, <1>1, <1>3, <1>a, <1>b DEF RemotesOK
<1>5. SessionsPast'
  BY <1>0, <1>1, <1>a, <1>b DEF RemotesOK, SessionsPast
<1>6. EngineTypeOK'
  BY <1>0, <1>1 DEF EngineTypeOK
<1> QED
  BY <1>2, <1>4, <1>5, <1>6, TypeParts, RemoteParts DEF TypeInv

\* What is published of a press, and what is thought of it.
LEMMA PublishedType ==
  ASSUME TypeInv, NEW r \in Rooms, NEW action \in Buttons, Published(r, action)
  PROVE  /\ QueuesOK' /\ WorldOK' /\ RecordOK' /\ EngineTypeOK' /\ HeardOK' /\ SessionsPast'
         /\ recorded' \in [Rooms -> [action : Buttons, at : Nat] \union {None}]
         /\ \/ todo' = todo
            \/ /\ todo["mqtt"] = <<>>
               /\ \E e \in Events : todo' = [todo EXCEPT !["mqtt"] = << Announce(e) >>]
<1> DEFINE e == [event |-> "RemoteAction", room |-> r, action |-> action]
           a == Announce(e)
           record == [action |-> action, at |-> now]
<1>0. RemotesOK /\ RecordOK /\ SessionsPast
  BY RemoteParts DEF TypeInv
<1>1. e \in Events
  <2>1. action \in RemoteActions
    BY DEF Buttons, Switches, Clicks, Holds, RemoteActions
  <2> QED
    BY <2>1 DEF Events
<1>2. << a >> \in Seq(Steps)
  <2>1. a \in Steps
    BY <1>1, StepTypes DEF Steps
  <2> HIDE DEF a
  <2> QED
    BY <2>1, ShortSeqs
<1>3. /\ todo["mqtt"] = <<>>
      /\ todo' = todo \/ todo' = [todo EXCEPT !["mqtt"] = << a >>]
      /\ recorded' = recorded \/ recorded' = [recorded EXCEPT ![r] = record]
      /\ UNCHANGED <<shared, rx, inbox, dedup, world, now, wish, cycle, session, press, job>>
  BY DEF Published, LoopIdle, LoopDoes
<1>4. QueuesOK' /\ WorldOK' /\ RecordOK' /\ EngineTypeOK' /\ HeardOK'
  <2> HIDE DEF a
  <2> QED
    BY <1>2, <1>3, EngineStepParts, RemoteConstants
<1>5. recorded' \in [Rooms -> [action : Buttons, at : Nat] \union {None}]
  <2>1. record \in [action : Buttons, at : Nat]
    BY <1>0 DEF RecordOK
  <2> HIDE DEF record
  <2> QED
    BY <1>0, <1>3, <2>1 DEF RemotesOK
<1>6. SessionsPast'
  BY <1>0, <1>3 DEF SessionsPast
<1> HIDE DEF e
<1> QED
  BY <1>1, <1>3, <1>4, <1>5, <1>6

LEMMA WantedType ==
  ASSUME TypeInv, NEW r \in Rooms, NEW action \in Buttons
  PROVE  Wanted(r, action) \in Bulb \union {None}
<1> DEFINE b == bulb[r]
           i == Moved(Position(b.level), Up(action), 1)
<1>1. b \in Bulb /\ b.level \in Levels /\ b.on \in BOOLEAN /\ asked[r] \in Bulb \union {None}
  BY RemoteParts DEF TypeInv, WorldOK, RemotesOK, Bulb
<1>2. Scale[i] \in Levels
  <2>1. Up(action) \in BOOLEAN
    BY DEF Up
  <2>2. i \in Positions
    BY <1>1, <2>1, ScaleType, MovedType
  <2> QED
    BY <2>2, ScaleType
<1>3. \A on \in BOOLEAN, level \in Levels : Lamp(on, level) \in Bulb
  BY DEF Lamp, Bulb
<1>4. Lamp(action = "on", "circadian") \in Bulb /\ Lamp(~b.on, "circadian") \in Bulb
      /\ Lamp(TRUE, Scale[i]) \in Bulb /\ Lamp(TRUE, b.level) \in Bulb
  BY <1>1, <1>2, <1>3, WordsType
<1> HIDE DEF b
<1>5. Wanted(r, action) \in {Lamp(action = "on", "circadian"), Lamp(~b.on, "circadian"),
                            Lamp(TRUE, Scale[i]), Lamp(TRUE, b.level), asked[r], None}
  BY Zenon DEF Wanted, b
<1> HIDE DEF i
<1> QED
  BY <1>1, <1>4, <1>5

LEMMA PressType ==
  ASSUME TypeInv, NEW r \in Rooms,
         (\E action \in Buttons : Press(r, action)) \/ Republish(r)
  PROVE  TypeInv'
<1>0. RemotesOK
  BY RemoteParts DEF TypeInv
<1>1. PICK action \in Buttons :
        /\ Published(r, action)
        /\ asked' = asked \/ asked' = [asked EXCEPT ![r] = Wanted(r, action)]
        /\ raced' = raced \/ \E rs : Overlap(rs)
        /\ \E kind \in {"presses", "republished"} : Spend(kind)
  <2>1. CASE \E action \in Buttons : Press(r, action)
    BY <2>1 DEF Press
  <2>2. CASE Republish(r)
    <3>1. recorded[r].action \in Buttons
      BY <1>0, <2>2 DEF Republish, RemotesOK
    <3> QED
      BY <2>2, <3>1 DEF Republish
  <2> QED
    BY <2>1, <2>2
<1>2. UNCHANGED <<session, press, job>>
  BY <1>1 DEF Published
<1>3. asked' \in [Rooms -> Bulb \union {None}]
  BY <1>0, <1>1, WantedType DEF RemotesOK
<1>4. raced' \in [Rooms -> BOOLEAN]
  BY <1>0, <1>1, OverlapType DEF RemotesOK
<1>5. spent' \in [presses : Nat, republished : Nat, touches : Nat, outages : Nat]
  BY <1>0, <1>1, SpendType
<1>6. RemotesOK'
  BY <1>0, <1>1, <1>2, <1>3, <1>4, <1>5, PublishedType DEF RemotesOK
<1> QED
  BY <1>1, <1>6, PublishedType, RemoteParts DEF TypeInv

\* A cycle begins with a snapshot of rooms.
LEMMA BeginCycleType ==
  ASSUME TypeInv, CycleTick \/ HandleMqttConnected
  PROVE  QueuesOK' /\ WorldOK' /\ RecordOK' /\ EngineTypeOK' /\ HeardOK'
<1>0. QueuesOK /\ WorldOK /\ RecordOK /\ EngineTypeOK /\ HeardOK
  BY RemoteParts DEF TypeInv
<1>1. EngineTypeOK'
  <2>1. Lit \subseteq Rooms /\ BeginCycle
    BY DEF Lit, CycleTick, HandleMqttConnected
  <2> QED
    BY <1>0, <2>1 DEF BeginCycle, EngineTypeOK, RecordOK
<1>2. CASE CycleTick
  <2>1. QueuesOK' /\ WorldOK' /\ RecordOK' /\ inbox' = inbox
    BY <1>0, <1>2 DEF CycleTick, daemon, shared, world, QueuesOK, WorldOK, RecordOK
  <2> QED
    BY <1>0, <1>1, <2>1, OthersHeard
<1>3. CASE HandleMqttConnected
  <2> DEFINE q == inbox["circadian"]
  <2>1. EngineTakes("MqttConnected") /\ UNCHANGED <<shared, rx, todo, dedup, world, now, wish>>
    BY <1>3 DEF HandleMqttConnected
  <2>2. /\ q \in Seq(Events) /\ q # <<>> /\ Len(q) <= BusCap
        /\ inbox' = [inbox EXCEPT !["circadian"] = Tail(q)]
    BY <1>0, <2>1, RemoteConstants DEF QueuesOK, EngineTakes
  <2>3. Tail(q) \in Seq(Events) /\ Len(Tail(q)) <= BusCap
    BY <2>2, HeadTailProperties, LenProperties, CapsType DEF Caps
  <2>4. QueuesOK' /\ WorldOK' /\ RecordOK'
    BY <1>0, <2>1, <2>2, <2>3 DEF QueuesOK, WorldOK, RecordOK, shared, world
  <2> QED
    BY <1>0, <1>1, <2>1, <2>4, OthersHeard
<1> QED
  BY <1>2, <1>3

\* A light that ramps stays on its scale.
LEMMA RampedType ==
  ASSUME NEW b \in Bulb
  PROVE  /\ Ramped(b) \in Bulb
         /\ Ramped(b).ramp \in {b.ramp, "none"}
<1> DEFINE up == b.ramp = "up"
           i == Moved(Position(b.level), up, 1)
<1>1. b.level \in Levels /\ up \in BOOLEAN
  BY DEF Bulb
<1>2. Scale[i] \in Levels
  BY <1>1, ScaleType, MovedType
<1>3. Ramped(b) = b \/ \E ramp \in {b.ramp, "none"} : Ramped(b) = [b EXCEPT !.level = Scale[i], !.ramp = ramp]
  BY DEF Ramped
<1> HIDE DEF i
<1> QED
  BY <1>2, <1>3 DEF Bulb

LEMMA TickType ==
  ASSUME TypeInv, Tick
  PROVE  TypeInv'
<1>0. /\ QueuesOK /\ WorldOK /\ RecordOK /\ EngineTypeOK /\ RemotesOK
      /\ SessionsPast /\ HeardOK
  BY RemoteParts DEF TypeInv
<1>1. /\ bulb' = [r \in Rooms |-> Ramped(bulb[r])] /\ now' = now + 1
      /\ UNCHANGED <<shared, rx, inbox, todo, dedup, link, outq, wish, cycle,
                     recorded, session, press, job, asked, spent>>
      /\ \E rs : Overlap(rs)
  BY DEF Tick, Elapse, UnchangedRemotes
<1>2. bulb' \in [Rooms -> Bulb]
  BY <1>0, <1>1, RampedType DEF WorldOK
<1>3. reports' \in Seq(Report)
  <2> DEFINE moved == {r \in Rooms : bulb'[r].level # bulb[r].level}
             said(r) == [room |-> r, on |-> TRUE, level |-> bulb'[r].level]
             all == {said(r) : r \in moved}
  <2>1. reports' = reports \/ reports' = SetToSeq(all)
    BY DEF Tick
  <2>2. all \subseteq Report
    <3>1. \A r \in Rooms : said(r) \in Report
      BY <1>2 DEF Report, Bulb
    <3> QED
      BY <3>1
  <2>3. IsFiniteSet(moved)
    BY FS_Subset, RemoteConstants
  <2>4. IsFiniteSet(all)
    <3> DEFINE f == [r \in moved |-> said(r)]
    <3>1. f \in Surjection(moved, all)
      BY DEF Surjection
    <3> HIDE DEF f, all, moved
    <3> QED
      BY <2>3, <3>1, FS_Surjection
  <2> HIDE DEF all
  <2>5. SetToSeq(all) \in Seq(Report)
    BY <2>2, <2>4, ListType
  <2> QED
    BY <1>0, <2>1, <2>5 DEF WorldOK
<1>4. QueuesOK' /\ WorldOK' /\ RecordOK' /\ EngineTypeOK'
  BY <1>0, <1>1, <1>2, <1>3 DEF QueuesOK, WorldOK, RecordOK, EngineTypeOK, shared
<1>5. RemotesOK'
  BY <1>0, <1>1, OverlapType DEF RemotesOK
<1>6. SessionsPast' /\ HeardOK'
  BY <1>0, <1>1 DEF SessionsPast, HeardOK, RemotesOK, RecordOK
<1> QED
  BY <1>4, <1>5, <1>6, RemoteParts DEF TypeInv

\* Every step keeps the types.
LEMMA StepKeepsTypes == TypeInv /\ [Next]_vars => TypeInv'
<1> SUFFICES ASSUME TypeInv, [Next]_vars
             PROVE  TypeInv'
  OBVIOUS
<1>0. DaemonTypeOK /\ QueuesOK /\ WorldOK /\ RecordOK /\ EngineTypeOK /\ RemotesOK /\ SessionsPast /\ HeardOK
  BY RemoteParts, TypeParts DEF TypeInv
<1>k. ASSUME DaemonTypeOK', HeardOK', UNCHANGED <<cycle, recorded, session, press, job>>,
             now' = now,
             asked' = asked \/ \E r \in Rooms : asked' = [asked EXCEPT ![r] = None],
             raced' = raced \/ \E rs : Overlap(rs),
             spent' = spent \/ \E kind \in {"presses", "republished", "touches", "outages"} : Spend(kind)
      PROVE  TypeInv'
  <2>1. /\ raced' \in [Rooms -> BOOLEAN]
        /\ spent' \in [presses : Nat, republished : Nat, touches : Nat, outages : Nat]
    BY <1>0, <1>k, OverlapType, SpendType DEF RemotesOK
  <2>2. asked' \in [Rooms -> Bulb \union {None}]
    BY <1>0, <1>k DEF RemotesOK
  <2>3. RemotesOK' /\ SessionsPast' /\ EngineTypeOK'
    BY <1>0, <1>k, <2>1, <2>2 DEF RemotesOK, SessionsPast, EngineTypeOK
  <2> QED
    BY <1>k, <2>3, RemoteParts, TypeParts DEF TypeInv
<1>1. CASE Actor
  <2>1. DaemonTypeOK' /\ now' = now /\ inbox' = inbox
    BY <1>0, <1>1, ActorType DEF Actor, ApplyRoomUpdate, ApplyConnected
  <2> QED
    BY <1>0, <1>1, <1>k, <2>1, OthersHeard DEF Actor, remotes
<1>2. ASSUME NEW t \in Tasks, Step(t)
      PROVE  TypeInv'
  <2>1. DaemonTypeOK' /\ HeardOK' /\ now' = now
    BY <1>0, <1>2, TaskStepType, TaskKeepsHeard
    DEF Step, TaskStep, SendStep, AnnounceStep, PublishStep, PublishQueuedStep, PublishTimeoutStep
  <2> QED
    BY <1>2, <1>k, <2>1 DEF Step, remotes
<1>3. ASSUME NEW r \in Rooms, (\E b \in Buttons : Press(r, b)) \/ Republish(r)
      PROVE  TypeInv'
  BY <1>3, PressType
<1>4. ASSUME NEW r \in Rooms, Touch(r)
      PROVE  TypeInv'
  <2>1. DaemonTypeOK' /\ now' = now /\ inbox' = inbox
    BY <1>0, <1>4, OutsideType DEF Touch, TouchLight
  <2>2. /\ UNCHANGED <<cycle, recorded, session, press, job>>
        /\ asked' = [asked EXCEPT ![r] = None] /\ Spend("touches") /\ \E rs : Overlap(rs)
    BY <1>4 DEF Touch
  <2> QED
    BY <1>0, <1>k, <2>1, <2>2, OthersHeard
<1>5. ASSUME NEW r \in Rooms, CyclesRoom(r)
      PROVE  TypeInv'
  <2>1. RoomSteps(r, cycle.view[r]) \in Seq(Steps)
    BY RoomStepsType, CalmSteps
  <2>2. DaemonTypeOK' /\ now' = now /\ inbox' = inbox
    BY <1>0, <1>5, <2>1, TodoType, RemoteConstants DEF CyclesRoom, CycleRoom
  <2>3. HeardOK'
    BY <1>0, <2>2, OthersHeard
  <2>4. EngineTypeOK'
    BY <1>0, <1>5, StartRooms DEF CyclesRoom, CycleRoom, EngineTypeOK, NoView, DarkRoom
  <2>5. RemotesOK' /\ SessionsPast'
    BY <1>0, <1>5, <2>2 DEF CyclesRoom, remotes, RemotesOK, SessionsPast
  <2> QED
    BY <2>2, <2>3, <2>4, <2>5, RemoteParts, TypeParts DEF TypeInv
<1>6. CASE HandleSwitch \/ HandleStop \/ HandleDimming \/ Look \/ SetLevel \/ BeginRamp
  BY <1>6, HandleSwitchType, HandleStopType, HandleDimmingType, LookType, SetLevelType, BeginRampType
<1>7. ASSUME NEW w \in Workers, Begin(w)
      PROVE  TypeInv'
  BY <1>7, BeginType
<1>8. CASE BeginsCycle
  <2>1. QueuesOK' /\ WorldOK' /\ RecordOK' /\ EngineTypeOK' /\ HeardOK'
    BY <1>8, BeginCycleType DEF BeginsCycle
  <2>2. /\ UNCHANGED <<recorded, session, press, job, asked, spent, now>>
        /\ \E rs : Overlap(rs)
    BY <1>8 DEF BeginsCycle, UnchangedRemotes, CycleTick, HandleMqttConnected, daemon
  <2>3. RemotesOK' /\ SessionsPast'
    BY <1>0, <2>2, OverlapType DEF RemotesOK, SessionsPast
  <2> QED
    BY <2>1, <2>3, RemoteParts DEF TypeInv
<1>9. CASE ReadReport
  <2>1. DaemonTypeOK' /\ now' = now /\ inbox' = inbox
    BY <1>0, <1>9, HandleReportType DEF ReadReport, HandleReport
  <2>2. /\ UNCHANGED <<cycle, recorded, session, press, job, asked, spent>>
        /\ \E rs : Overlap(rs)
    BY <1>9 DEF ReadReport, UnchangedRemotes
  <2> QED
    BY <1>0, <1>k, <2>1, <2>2, OthersHeard
<1>10. CASE Connection
  <2>1. DaemonTypeOK' /\ now' = now /\ inbox' = inbox
    BY <1>0, <1>10, ConnectionType DEF Connection, PollError, ConnAck, DeliverQueued
  <2> QED
    BY <1>0, <1>10, <1>k, <2>1, OthersHeard DEF Connection, remotes
<1>11. CASE LinkLost
  <2>1. DaemonTypeOK' /\ now' = now /\ inbox' = inbox
    BY <1>0, <1>11, OutsideType DEF LinkLost, LoseLink
  <2>2. /\ UNCHANGED <<cycle, recorded, session, press, job, asked>>
        /\ Spend("outages") /\ \E rs : Overlap(rs)
    BY <1>11 DEF LinkLost
  <2> QED
    BY <1>0, <1>k, <2>1, <2>2, OthersHeard
<1>12. CASE Tick
  BY <1>12, TickType
<1>13. CASE UNCHANGED vars
  <2>1. DaemonTypeOK' /\ now' = now /\ inbox' = inbox
    BY <1>0, <1>13 DEF vars, daemon, shared, world, DaemonTypeOK
  <2> QED
    BY <1>0, <1>13, <1>k, <2>1, OthersHeard DEF vars, remotes
<1> QED
  BY <1>1, <1>2, <1>3, <1>4, <1>5, <1>6, <1>7, <1>8, <1>9, <1>10, <1>11, <1>12, <1>13 DEF Next, Engine

\* Whatever buttons are pressed or repeated, whoever touches a light, and
\* whatever overlaps: every command, event, step and session is well formed, a
\* ramp is within the scale, and no queue holds more than its capacity.
THEOREM TypeCorrect == Spec => []TypeOK
<1>1. TypeInv => TypeOK
  BY DEF TypeInv
<1> QED
  BY <1>1, InitType, StepKeepsTypes, PTL DEF Spec

-----------------------------------------------------------------------------
(* A light that ramps: the invariant.                                       *)

\* Something on its way ends a ramp in the room: a task that was spawned, or a
\* publish that is not a move.
Ending(r) ==
  \/ \E w \in Workers : job[w] # None /\ job[w].room = r
  \/ \E t \in Tasks : \E i \in 1..Len(todo[t]) :
       todo[t][i] \in PublishSteps \ Moves /\ todo[t][i].room = r

\* Every ramp has its session, or something on its way that ends it.
Direction(up) == IF up THEN "up" ELSE "down"
Matches(r)    == session[r] # None /\ bulb[r].ramp = Direction(session[r].up)
Followed(r)   == bulb[r].ramp # "none" => Matches(r) \/ Ending(r)

\* Nobody moves the lights but the engine, at the end of what it put down for a
\* hold; and a task that was spawned has nothing else to do.
Still(t) == \A i \in 1..Len(todo[t]) : todo[t][i] \notin Moves
Starting ==
  LET q == todo["automation"] IN
  /\ q # <<>>
  /\ q[Len(q)] \in Moves /\ q[Len(q)].room = press.room
  /\ q[Len(q)].power = Direction(Up(press.action))
  /\ \A i \in 1..(Len(q) - 1) : q[i].do = "send"
MovesOK ==
  /\ \A t \in Tasks \ {"automation"} : Still(t)
  /\ press.at = "ramp" => Starting
  /\ press.at # "ramp" => Still("automation")
  /\ \A w \in Workers : job[w] # None => todo[w] = <<>>

RampsOK ==
  spent.outages = 0 => link = "up" /\ outq = <<>> /\ \A r \in Rooms : Followed(r)

RampInv == MovesOK /\ RampsOK

\* Sequences without a move.
LEMMA StillSteps ==
  /\ \A q \in Seq(Calm) : \A i \in 1..Len(q) : q[i] \notin Moves
  /\ \A q \in Seq(SimpleSteps) : \A i \in 1..Len(q) : q[i] \notin Moves
  /\ \A s \in SimpleSteps : s \notin PublishSteps
<1>1. \A s \in SimpleSteps : s \notin PublishSteps
  BY PublishFields DEF SimpleSteps
<1>2. \A s \in SimpleSteps : s \notin Moves
  BY <1>1 DEF Moves
<1>3. \A s \in Calm : s \notin Moves
  BY DEF Calm
<1>4. \A S : \A q \in Seq(S) : \A i \in 1..Len(q) : q[i] \in S
  OBVIOUS
<1> QED
  BY <1>1, <1>2, <1>3, <1>4

\* What ends a ramp is still on its way when jobs stay and only a task that had
\* nothing to do puts anything down.
LEMMA EndingStays ==
  ASSUME NEW r \in Rooms, Ending(r),
         \A w \in Workers : job[w] # None => job'[w] = job[w],
         \A t \in Tasks : todo'[t] = todo[t] \/ todo[t] = <<>>
  PROVE  Ending(r)'
<1>1. CASE \E w \in Workers : job[w] # None /\ job[w].room = r
  BY <1>1 DEF Ending
<1>2. ASSUME NEW t \in Tasks, NEW i \in 1..Len(todo[t]),
             todo[t][i] \in PublishSteps \ Moves, todo[t][i].room = r
      PROVE  Ending(r)'
  <2>1. todo[t] # <<>>
    BY <1>2
  <2>2. todo'[t] = todo[t]
    BY <2>1
  <2> QED
    BY <1>2, <2>2 DEF Ending
<1> QED
  BY <1>1, <1>2 DEF Ending

\* A publish that is not a move, once it has been put down.
LEMMA EndingPut ==
  ASSUME NEW r, NEW t \in Tasks, NEW i \in 1..Len(todo'[t]),
         todo'[t][i] \in PublishSteps \ Moves, todo'[t][i].room = r
  PROVE  Ending(r)'
BY DEF Ending

LEMMA FollowedStays ==
  ASSUME NEW r \in Rooms, Followed(r),
         \A w \in Workers : job[w] # None => job'[w] = job[w],
         \A t \in Tasks : todo'[t] = todo[t] \/ todo[t] = <<>>,
         session'[r] = session[r], bulb'[r].ramp \in {bulb[r].ramp, "none"}
  PROVE  Followed(r)'
BY EndingStays DEF Followed, Matches

\* An outage that was not spent was not.
LEMMA SpendOther ==
  ASSUME RemotesOK, NEW kind \in {"presses", "republished", "touches"}, Spend(kind)
  PROVE  spent'.outages = spent.outages
BY DEF RemotesOK, Spend

\* The steps that put nothing down, and leave the lights or end a ramp.
LEMMA QuietKeepsRamps ==
  ASSUME RampInv, spent'.outages = spent.outages,
         UNCHANGED <<todo, job, press, session, link, outq>>,
         \A r \in Rooms : bulb'[r].ramp \in {bulb[r].ramp, "none"}
  PROVE  RampInv'
<1>1. MovesOK'
  BY DEF RampInv, MovesOK, Still, Starting
<1>2. \A r \in Rooms : Followed(r) => Followed(r)'
  BY FollowedStays
<1> QED
  BY <1>1, <1>2 DEF RampInv, RampsOK

\* A task that had nothing to do puts something calm down.
LEMMA PutsDownKeepsMoves ==
  ASSUME TypeInv, MovesOK,
         NEW t \in {"mqtt", "circadian", "automation"}, press.at # "ramp" \/ t # "automation",
         NEW steps, \A i \in 1..Len(steps) : steps[i] \notin Moves,
         todo' = [todo EXCEPT ![t] = steps],
         job' = job,
         press' = press \/ (t = "automation" /\ press'.at # "ramp")
  PROVE  /\ MovesOK'
         /\ todo'[t] = steps /\ \A u \in Tasks \ {t} : todo'[u] = todo[u]
<1>0. todo \in [Tasks -> Seq(Steps)] /\ t \in Tasks
  BY RemoteParts, RemoteConstants DEF TypeInv, QueuesOK
<1>1. todo'[t] = steps /\ \A u \in Tasks \ {t} : todo'[u] = todo[u]
  BY <1>0
<1>2. Still(t)' /\ \A u \in Tasks \ {t} : Still(u) => Still(u)'
  BY <1>1 DEF Still
<1>3. \A u \in Tasks \ {"automation"} : Still(u)'
  BY <1>2 DEF MovesOK
<1>4. \A w \in Workers : todo'[w] = todo[w]
  BY <1>1, RemoteConstants
<1>5. CASE t = "automation"
  BY <1>1, <1>2, <1>3, <1>4, <1>5 DEF MovesOK
<1>6. CASE t # "automation"
  <2>1. todo'["automation"] = todo["automation"] /\ press' = press
    BY <1>1, <1>6, RemoteConstants
  <2> QED
    BY <1>1, <1>3, <1>4, <2>1 DEF MovesOK, Still, Starting
<1> QED
  BY <1>5, <1>6

\* The same, while nothing else happens.
LEMMA PutsDownKeepsRamps ==
  ASSUME TypeInv, RampInv, spent'.outages = spent.outages,
         NEW t \in {"mqtt", "circadian", "automation"}, press.at # "ramp" \/ t # "automation",
         todo[t] = <<>>,
         NEW steps, \A i \in 1..Len(steps) : steps[i] \notin Moves,
         todo' = [todo EXCEPT ![t] = steps],
         UNCHANGED <<job, session, link, outq, bulb>>,
         press' = press \/ (t = "automation" /\ press'.at # "ramp")
  PROVE  RampInv'
<1>1. MovesOK' /\ todo'[t] = steps /\ \A u \in Tasks \ {t} : todo'[u] = todo[u]
  BY PutsDownKeepsMoves DEF RampInv
<1>2. \A u \in Tasks : todo'[u] = todo[u] \/ todo[u] = <<>>
  BY <1>1
<1>3. \A r \in Rooms : Followed(r) => Followed(r)'
  BY <1>2, FollowedStays
<1> QED
  BY <1>1, <1>3 DEF RampInv, RampsOK

LEMMA InitRamps == Init => RampInv
<1> SUFFICES ASSUME Init PROVE RampInv
  OBVIOUS
<1>1. /\ todo = [t \in Tasks |-> <<>>] /\ press = NoPress /\ job = [w \in Workers |-> None]
      /\ link = "up" /\ outq = <<>> /\ \A r \in Rooms : bulb[r].ramp = "none"
  BY DEF Init, DaemonInit
<1>2. \A t \in Tasks : Still(t)
  BY <1>1 DEF Still
<1>3. MovesOK
  BY <1>1, <1>2, RemoteConstants DEF MovesOK, NoPress
<1> QED
  BY <1>1, <1>3 DEF RampInv, RampsOK, Followed

\* The step at the head of a task's queue, and what stays behind it.
LEMMA StepEffect ==
  ASSUME TypeInv, NEW t \in Tasks, TaskStep(t)
  PROVE  /\ todo \in [Tasks -> Seq(Steps)] /\ todo[t] # <<>> /\ Len(todo[t]) \in Nat
         /\ Head(todo[t]) = todo[t][1] /\ Head(todo[t]) \in Steps /\ 1 \in 1..Len(todo[t])
         /\ \A u \in Tasks \ {t} : todo'[u] = todo[u]
         /\ \A j \in 2..Len(todo[t]) : \E i \in 1..Len(todo'[t]) : todo'[t][i] = todo[t][j]
         /\ Still(t) => Still(t)'
         /\ UNCHANGED link
<1>1. todo \in [Tasks -> Seq(Steps)] /\ SimpleSteps \in SUBSET SimpleSteps
      /\ todo[t] \in Seq(StepsOver(SimpleSteps))
  BY RemoteParts, Vocabulary DEF TypeInv, QueuesOK
<1>2. todo[t] # <<>> /\ todo[t] \in Seq(Steps)
  BY <1>1, StepContinues
<1>3. \A u \in Tasks \ {t} : todo'[u] = todo[u]
  BY <1>1, StepKeepsVocabulary
<1>4. \A j \in 2..Len(todo[t]) : \E i \in 1..Len(todo'[t]) : todo'[t][i] = todo[t][j]
  BY <1>1, StepKeepsRest
<1>5. ASSUME Still(t), NEW i \in 1..Len(todo'[t])
      PROVE  todo'[t][i] \notin Moves
  <2>1. todo'[t][i] \in SimpleSteps \/ \E j \in 2..Len(todo[t]) : todo'[t][i] = todo[t][j]
    BY <1>1, StepAddsSimple
  <2>2. \A s \in SimpleSteps : s \notin Moves
    BY StillSteps DEF Moves
  <2>3. \A j \in 2..Len(todo[t]) : todo[t][j] \notin Moves
    BY <1>5 DEF Still
  <2> QED
    BY <2>1, <2>2, <2>3
<1>6. UNCHANGED link
  BY DEF TaskStep, SendStep, AnnounceStep, PublishStep, PublishQueuedStep, PublishTimeoutStep, world
<1>7. Head(todo[t]) = todo[t][1] /\ Head(todo[t]) \in Steps /\ Len(todo[t]) \in Nat /\ 1 \in 1..Len(todo[t])
  BY <1>2, HeadTailProperties, LenProperties
<1> QED
  BY <1>1, <1>2, <1>3, <1>4, <1>5, <1>6, <1>7 DEF Still

\* What ends a ramp stays on its way, but for a publish that goes out.
LEMMA StepEnding ==
  ASSUME TypeInv, NEW t \in Tasks, TaskStep(t), job' = job, NEW r \in Rooms, Ending(r),
         Head(todo[t]).do = "publish" => Head(todo[t]).room # r
  PROVE  Ending(r)'
<1>1. CASE \E w \in Workers : job[w] # None /\ job[w].room = r
  BY <1>1 DEF Ending
<1>2. ASSUME NEW u \in Tasks, NEW j \in 1..Len(todo[u]),
             todo[u][j] \in PublishSteps \ Moves, todo[u][j].room = r
      PROVE  Ending(r)'
  <2>1. CASE u # t
    <3>1. todo'[u] = todo[u]
      BY <2>1, StepEffect
    <3> QED
      BY <1>2, <3>1 DEF Ending
  <2>2. CASE u = t
    <3>1. j # 1
      BY <1>2, <2>2, StepEffect, PublishFields
    <3>2. j \in 2..Len(todo[t])
      BY <1>2, <2>2, <3>1, StepEffect
    <3>3. PICK i \in 1..Len(todo'[t]) : todo'[t][i] = todo[t][j]
      BY <3>2, StepEffect
    <3> QED
      BY <1>2, <2>2, <3>3 DEF Ending
  <2> QED
    BY <2>1, <2>2
<1> QED
  BY <1>1, <1>2 DEF Ending

\* A publish while the connection holds, and has held.
LEMMA PublishEffect ==
  ASSUME TypeInv, NEW t \in Tasks, TaskStep(t), link = "up", outq = <<>>
  PROVE  /\ outq' = <<>>
         /\ Head(todo[t]).do # "publish" => bulb' = bulb
         /\ Head(todo[t]).do = "publish" =>
              /\ PublishStep(t) /\ Head(todo[t]) \in PublishSteps
              /\ \A r \in Rooms \ {Head(todo[t]).room} : bulb'[r] = bulb[r]
              /\ bulb'[Head(todo[t]).room].ramp
                   \in IF Head(todo[t]) \in Moves THEN {"none", Head(todo[t]).power} ELSE {"none"}
<1> DEFINE s == Head(todo[t])
<1>0. s \in Steps /\ WorldOK
  BY StepEffect, RemoteParts DEF TypeInv
<1>1. CASE s.do # "publish"
  BY <1>1 DEF TaskStep, SendStep, AnnounceStep, PublishStep, PublishQueuedStep,
              PublishTimeoutStep, HeadIs, world
<1>2. CASE s.do = "publish"
  <2>1. PublishStep(t)
    BY <1>2 DEF TaskStep, SendStep, AnnounceStep, PublishQueuedStep, PublishTimeoutStep, HeadIs
  <2>2. s \in PublishSteps /\ s.room \in Rooms /\ s.power \in Power
    BY <1>0, <1>2, StepFields, PublishFields
  <2>3. PICK lit \in BOOLEAN :
          bulb' = [bulb EXCEPT ![s.room] = After(bulb[s.room], s.power, s.level, lit)]
    BY <2>1 DEF PublishStep, Deliver, Message
  <2>4. outq' = <<>>
    BY <2>1 DEF PublishStep
  <2>5. After(bulb[s.room], s.power, s.level, lit).ramp
          \in IF s \in Moves THEN {"none", s.power} ELSE {"none"}
    BY <2>2 DEF After, Moves
  <2> HIDE DEF s
  <2>6. bulb'[s.room] = After(bulb[s.room], s.power, s.level, lit)
        /\ \A r \in Rooms \ {s.room} : bulb'[r] = bulb[r]
    BY <1>0, <2>2, <2>3 DEF WorldOK
  <2> QED
    BY <1>2, <2>1, <2>2, <2>4, <2>5, <2>6 DEF s
<1> QED
  BY <1>1, <1>2

\* A step of a task that does not begin a ramp.
LEMMA TasksKeepRamps ==
  ASSUME TypeInv, RampInv, NEW t \in Tasks, Step(t)
  PROVE  RampInv'
<1> DEFINE s == Head(todo[t])
           q == todo["automation"]
<1>0. TaskStep(t) /\ UNCHANGED <<press, job, session, spent>> /\ ~(t = "automation" /\ AtRampPublish)
  BY DEF Step, remotes
<1>1. s \notin Moves
  <2>1. CASE t # "automation" \/ press.at # "ramp"
    <3>1. Still(t)
      BY <2>1 DEF RampInv, MovesOK
    <3> QED
      BY <1>0, <3>1, StepEffect DEF Still
  <2>2. CASE t = "automation" /\ press.at = "ramp"
    <3>1. s.do # "publish"
      BY <1>0, <2>2, StepEffect DEF AtRampPublish, HeadIs
    <3> QED
      BY <3>1, PublishFields DEF Moves
  <2> QED
    BY <2>1, <2>2
<1>2. MovesOK'
  <2>1. \A u \in Tasks : Still(u) => Still(u)'
    BY <1>0, StepEffect DEF Still
  <2>2. \A w \in Workers : job[w] # None => todo'[w] = todo[w]
    <3>1. todo[t] # <<>> /\ \A u \in Tasks \ {t} : todo'[u] = todo[u]
      BY <1>0, StepEffect
    <3> QED
      BY <3>1, RemoteConstants DEF RampInv, MovesOK
  <2>3. press.at = "ramp" => Starting'
    <3> SUFFICES ASSUME press.at = "ramp" PROVE Starting'
      OBVIOUS
    <3>1. Starting
      BY DEF RampInv, MovesOK
    <3>2. CASE t # "automation"
      <4>1. todo'["automation"] = todo["automation"]
        BY <1>0, <3>2, StepEffect, RemoteConstants
      <4> QED
        BY <1>0, <3>1, <4>1 DEF Starting
    <3>3. CASE t = "automation"
      <4>1. q \in Seq(Steps) /\ q # <<>> /\ Len(q) \in Nat /\ s = q[1] /\ 1 \in 1..Len(q)
        BY <1>0, <3>3, StepEffect
      <4>2. Len(q) # 1
        BY <1>1, <3>1, <3>3, <4>1 DEF Starting
      <4>3. s.do = "send"
        <5>1. \A i \in 1..(Len(q) - 1) : q[i].do = "send"
          BY <3>1 DEF Starting
        <5>2. 1 \in 1..(Len(q) - 1)
          <6> DEFINE n == Len(q)
          <6>1. n \in Nat /\ n # 1 /\ 1 \in 1..n
            BY <4>1, <4>2
          <6> HIDE DEF n
          <6>2. 1 \in 1..(n - 1)
            BY <6>1
          <6> QED
            BY <6>2 DEF n
        <5> HIDE DEF q
        <5> QED
          BY <4>1, <5>1, <5>2
      <4>4. SendStep("automation")
        BY <1>0, <3>3, <4>3 DEF TaskStep, AnnounceStep, PublishStep, PublishQueuedStep,
                                PublishTimeoutStep, HeadIs
      <4>5. todo'["automation"] = Tail(q)
        <5>1. todo' = [todo EXCEPT !["automation"] = <<>> \o Tail(q)]
          BY <4>4 DEF SendStep, Continue
        <5>2. Tail(q) \in Seq(Steps) /\ todo \in [Tasks -> Seq(Steps)]
          BY <1>0, <4>1, StepEffect, HeadTailProperties
        <5> HIDE DEF q
        <5> QED
          BY <5>1, <5>2, RemoteConstants
      <4> HIDE DEF q
      <4>6. /\ Len(Tail(q)) = Len(q) - 1 /\ Len(Tail(q)) \in Nat /\ Tail(q) # <<>>
            /\ \A i \in 1..Len(Tail(q)) : Tail(q)[i] = q[i + 1]
        <5>1. /\ Len(Tail(q)) = Len(q) - 1
              /\ \A i \in 1..Len(Tail(q)) : Tail(q)[i] = q[i + 1]
          BY <4>1, HeadTailProperties
        <5>2. Len(Tail(q)) \in Nat /\ Len(Tail(q)) # 0
          BY <4>1, <4>2, <5>1
        <5>3. Tail(q) # <<>>
          <6>1. \A z : Len(z) # 0 => z # <<>>
            OBVIOUS
          <6> QED
            BY <5>2, <6>1
        <5> QED
          BY <5>1, <5>2, <5>3
      <4>7. Tail(q)[Len(Tail(q))] = q[Len(q)]
        BY <4>1, <4>2, <4>6
      <4>8. \A i \in 1..(Len(Tail(q)) - 1) : Tail(q)[i].do = "send"
        <5> SUFFICES ASSUME NEW i \in 1..(Len(Tail(q)) - 1) PROVE Tail(q)[i].do = "send"
          OBVIOUS
        <5>1. i + 1 \in 1..(Len(q) - 1) /\ Tail(q)[i] = q[i + 1]
          BY <4>1, <4>6
        <5> QED
          BY <3>1, <5>1 DEF Starting, q
      <4> QED
        BY <1>0, <3>1, <4>5, <4>6, <4>7, <4>8 DEF Starting, q
    <3> QED
      BY <3>2, <3>3
  <2> QED
    BY <1>0, <2>1, <2>2, <2>3, RemoteConstants DEF RampInv, MovesOK
<1>3. RampsOK'
  <2> SUFFICES ASSUME spent.outages = 0
               PROVE  link' = "up" /\ outq' = <<>> /\ \A r \in Rooms : Followed(r)'
    BY <1>0 DEF RampsOK
  <2>1. link = "up" /\ outq = <<>> /\ \A r \in Rooms : Followed(r)
    BY DEF RampInv, RampsOK
  <2>2. link' = "up" /\ outq' = <<>>
    BY <1>0, <2>1, StepEffect, PublishEffect
  <2>3. ASSUME NEW r \in Rooms
        PROVE  Followed(r)'
    <3>1. CASE s.do = "publish" /\ s.room = r
      BY <1>0, <1>1, <2>1, <3>1, PublishEffect DEF Followed
    <3>2. CASE s.do = "publish" => s.room # r
      <4>1. bulb'[r] = bulb[r]
        BY <1>0, <2>1, <3>2, PublishEffect
      <4>2. Ending(r) => Ending(r)'
        BY <1>0, <3>2, StepEnding
      <4> QED
        BY <1>0, <2>1, <4>1, <4>2 DEF Followed, Matches
    <3> QED
      BY <3>1, <3>2
  <2> QED
    BY <2>2, <2>3
<1> QED
  BY <1>2, <1>3 DEF RampInv

\* The ramp begins: its publish has gone out, and the session is recorded.
LEMMA BeginKeepsRamps ==
  ASSUME TypeInv, RampInv, BeginRamp
  PROVE  RampInv'
<1> DEFINE q == todo["automation"]
           s == Head(q)
           begun == [up |-> Up(press.action), start |-> press.base, started |-> now]
<1>0. /\ "automation" \in Tasks /\ press.at = "ramp" /\ s.do = "publish" /\ TaskStep("automation")
      /\ press' = NoPress /\ UNCHANGED <<job, spent>>
      /\ \/ session' = [session EXCEPT ![press.room] = begun]
         \/ PublishTimeoutStep("automation") /\ session' = session
  BY RemoteConstants DEF BeginRamp, AtRampPublish, HeadIs, TaskStep
<1>1. /\ q \in Seq(Steps) /\ Len(q) \in Nat /\ s = q[1] /\ 1 \in 1..Len(q)
      /\ \A u \in Tasks \ {"automation"} : todo'[u] = todo[u]
  BY <1>0, StepEffect
<1>2. Starting
  BY <1>0 DEF RampInv, MovesOK
<1>3. Len(q) = 1
  <2>1. \A i \in 1..(Len(q) - 1) : q[i].do = "send"
    BY <1>2 DEF Starting
  <2> SUFFICES ASSUME Len(q) # 1 PROVE FALSE
    OBVIOUS
  <2>2. 1 \in 1..(Len(q) - 1)
    <3> DEFINE n == Len(q)
    <3>1. n \in Nat /\ n # 1 /\ 1 \in 1..n
      BY <1>1
    <3> HIDE DEF n
    <3>2. 1 \in 1..(n - 1)
      BY <3>1
    <3> QED
      BY <3>2 DEF n
  <2> HIDE DEF q, s
  <2> QED
    BY <1>0, <1>1, <2>1, <2>2
<1>4. s \in Moves /\ s.room = press.room /\ s.power = Direction(Up(press.action))
  BY <1>1, <1>2, <1>3 DEF Starting
<1>5. Still("automation")'
  <2>1. SimpleSteps \in SUBSET SimpleSteps /\ todo \in [Tasks -> Seq(Steps)]
        /\ todo["automation"] \in Seq(StepsOver(SimpleSteps))
    BY <1>1, Vocabulary, RemoteParts DEF TypeInv, QueuesOK
  <2>2. ASSUME NEW i \in 1..Len(todo'["automation"])
        PROVE  todo'["automation"][i] \in SimpleSteps
    <3>1. todo'["automation"][i] \in SimpleSteps \/ \E j \in 2..Len(q) : todo'["automation"][i] = q[j]
      BY <1>0, <2>1, StepAddsSimple
    <3>2. \A j \in 2..Len(q) : FALSE
      <4> HIDE DEF q
      <4> QED
        BY <1>3
    <3> QED
      BY <3>1, <3>2
  <2> QED
    BY <2>2, StillSteps DEF Still, Moves
<1>6. MovesOK'
  <2>1. \A u \in Tasks \ {"automation"} : Still(u)'
    BY <1>1 DEF RampInv, MovesOK, Still
  <2>2. \A w \in Workers : todo'[w] = todo[w]
    BY <1>1, RemoteConstants
  <2> QED
    BY <1>0, <1>5, <2>1, <2>2 DEF RampInv, MovesOK, NoPress
<1>7. RampsOK'
  <2> SUFFICES ASSUME spent.outages = 0
               PROVE  link' = "up" /\ outq' = <<>> /\ \A r \in Rooms : Followed(r)'
    BY <1>0 DEF RampsOK
  <2>1. link = "up" /\ outq = <<>> /\ \A r \in Rooms : Followed(r)
    BY DEF RampInv, RampsOK
  <2>2. /\ link' = "up" /\ outq' = <<>>
        /\ \A r \in Rooms \ {s.room} : bulb'[r] = bulb[r]
        /\ bulb'[s.room].ramp \in {"none", s.power}
    BY <1>0, <1>4, <2>1, StepEffect, PublishEffect
  <2>3. session' = [session EXCEPT ![press.room] = begun]
    BY <1>0, <2>1 DEF PublishTimeoutStep
  <2>4. press.room \in Rooms /\ press.base \in Positions /\ session \in [Rooms -> [up : BOOLEAN, start : Positions, started : Nat] \union {None}]
    BY <1>0, RemoteParts, PressFields DEF TypeInv, RemotesOK
  <2>5. begun # None /\ begun.up = Up(press.action)
    <3>1. begun \in [up : BOOLEAN, start : Positions, started : Nat]
      BY <2>4, RemoteParts DEF TypeInv, RecordOK, Up
    <3>2. None \notin [up : BOOLEAN, start : Positions, started : Nat]
      BY RemotesAssumption DEF RemotesAssumption, Positions
    <3> HIDE DEF begun
    <3>3. begun # None
      BY <3>1, <3>2
    <3> QED
      BY <3>3 DEF begun
  <2> HIDE DEF begun, s
  <2>6. ASSUME NEW r \in Rooms
        PROVE  Followed(r)'
    <3>1. CASE r = press.room
      <4>1. session'[r] = begun
        BY <2>3, <2>4, <3>1
      <4> QED
        BY <1>4, <2>2, <2>5, <3>1, <4>1 DEF Followed, Matches
    <3>2. CASE r # press.room
      <4>1. bulb'[r] = bulb[r] /\ session'[r] = session[r]
        BY <1>4, <2>2, <2>3, <2>4, <3>2
      <4>2. Ending(r) => Ending(r)'
        BY <1>0, <1>4, <3>2, StepEnding DEF s
      <4> QED
        BY <2>1, <4>1, <4>2 DEF Followed, Matches
    <3> QED
      BY <3>1, <3>2
  <2> QED
    BY <2>2, <2>6
<1> QED
  BY <1>6, <1>7 DEF RampInv

\* A press that does not dim drops the session: the task it spawns ends the ramp.
LEMMA SwitchKeepsRamps ==
  ASSUME TypeInv, RampInv, HandleSwitch
  PROVE  RampInv'
<1> DEFINE e == Head(inbox["automation"])
           on == IF e.action = "toggle" THEN ~rooms[e.room].lightsOn ELSE e.action = "on"
           does == [room |-> e.room, on |-> on]
<1>0. RemotesOK /\ RecordOK /\ QueuesOK /\ HeardOK
  BY RemoteParts DEF TypeInv
<1>1. /\ Takes(Switches) /\ session' = [session EXCEPT ![e.room] = None]
      /\ UNCHANGED <<todo, press, link, outq, bulb, spent>>
  BY DEF HandleSwitch, world
<1>2. PICK w \in Workers : job[w] = None /\ todo[w] = <<>> /\ job' = [job EXCEPT ![w] = does]
  BY DEF HandleSwitch, Free
<1>3. e.room \in Rooms
  BY <1>0, <1>1, TakesType
<1>4. does \in [room : Rooms, on : BOOLEAN] /\ does.room = e.room
  BY <1>0, <1>3 DEF RecordOK, Room
<1>5. does # None
  BY <1>4, RemotesAssumption DEF RemotesAssumption
<1> HIDE DEF does, e
<1>6. job'[w] = does /\ \A u \in Workers \ {w} : job'[u] = job[u]
  BY <1>0, <1>2 DEF RemotesOK
<1>7. MovesOK'
  BY <1>1, <1>2, <1>6 DEF RampInv, MovesOK, Still, Starting
<1>8. ASSUME NEW r \in Rooms, Followed(r)
      PROVE  Followed(r)'
  <2>1. CASE r = e.room
    BY <1>4, <1>5, <1>6, <2>1 DEF Followed, Ending
  <2>2. CASE r # e.room
    <3>1. session'[r] = session[r]
      BY <1>0, <1>1, <2>2 DEF RemotesOK
    <3>2. \A u \in Workers : job[u] # None => job'[u] = job[u]
      BY <1>2, <1>6
    <3> QED
      BY <1>1, <1>8, <3>1, <3>2, FollowedStays
  <2> QED
    BY <2>1, <2>2
<1> QED
  BY <1>1, <1>7, <1>8 DEF RampInv, RampsOK

\* So does a release, or a press that dims, by the stop it publishes first.
LEMMA SessionEnds ==
  ASSUME TypeInv, RampInv, NEW r \in Rooms, press.at # "ramp", todo["automation"] = <<>>,
         StopSession(r), press' = press \/ press'.at = "look",
         UNCHANGED <<job, link, outq, bulb, spent>>
  PROVE  RampInv'
<1>0. /\ RemotesOK /\ RecordOK /\ SessionsPast /\ "automation" \in Tasks
      /\ todo \in [Tasks -> Seq(Steps)]
  BY RemoteParts, RemoteConstants DEF TypeInv, QueuesOK
<1>1. /\ todo' = [todo EXCEPT !["automation"] = StopSteps(r)]
      /\ session' = [session EXCEPT ![r] = None]
  BY DEF StopSession
<1>2. StopSteps(r) \in Seq(Calm)
  BY <1>0, StopStepsType
<1>3. todo'["automation"] = StopSteps(r) /\ \A u \in Tasks \ {"automation"} : todo'[u] = todo[u]
  BY <1>0, <1>1
<1>4. MovesOK'
  <2>1. Still("automation")'
    BY <1>2, <1>3, StillSteps DEF Still
  <2>2. \A u \in Tasks \ {"automation"} : Still(u)'
    BY <1>3 DEF RampInv, MovesOK, Still
  <2>3. press'.at # "ramp"
    OBVIOUS
  <2> QED
    BY <1>3, <2>1, <2>2, <2>3, RemoteConstants DEF RampInv, MovesOK
<1>5. ASSUME session[r] # None
      PROVE  Ending(r)'
  <2> DEFINE stop == StopSteps(r)[1]
  <2>1. Len(StopSteps(r)) = 1 /\ stop.do = "publish" /\ stop.room = r
    BY <1>5 DEF StopSteps, Publish
  <2>2. stop \in Calm
    BY <1>2, <2>1
  <2>3. stop \in PublishSteps \ Moves
    <3> HIDE DEF stop
    <3> QED
      BY <2>1, <2>2, CalmType, StepFields DEF Calm
  <2>4. /\ 1 \in 1..Len(todo'["automation"])
        /\ todo'["automation"][1] \in PublishSteps \ Moves /\ todo'["automation"][1].room = r
    <3> DEFINE q == StopSteps(r)
    <3>1. /\ Len(q) = 1 /\ q[1] \in PublishSteps \ Moves /\ q[1].room = r
          /\ todo'["automation"] = q
      BY <1>3, <2>1, <2>3
    <3> HIDE DEF q
    <3> QED
      BY <3>1
  <2> QED
    BY <1>0, <2>4, EndingPut
<1>6. ASSUME NEW o \in Rooms, Followed(o)
      PROVE  Followed(o)'
  <2>1. CASE o = r /\ session[r] # None
    BY <1>5, <2>1 DEF Followed
  <2>2. CASE o # r \/ session[r] = None
    <3>1. session'[o] = session[o]
      BY <1>0, <1>1, <2>2 DEF RemotesOK
    <3>2. \A t \in Tasks : todo'[t] = todo[t] \/ todo[t] = <<>>
      BY <1>3
    <3> QED
      BY <1>6, <3>1, <3>2, FollowedStays
  <2> QED
    BY <2>1, <2>2
<1> QED
  BY <1>4, <1>6 DEF RampInv, RampsOK

\* One step after two others.
LEMMA OneMore ==
  ASSUME NEW S, NEW q \in Seq(S), Len(q) = 2, NEW e
  PROVE  /\ Len(q \o << e >>) = 3 /\ (q \o << e >>)[3] = e
         /\ \A i \in 1..2 : (q \o << e >>)[i] = q[i]
<1> DEFINE T == S \union {e}
<1>1. q \in Seq(T) /\ << e >> \in Seq(T) /\ Len(<< e >>) = 1 /\ << e >>[1] = e
  OBVIOUS
<1> HIDE DEF T
<1> QED
  BY <1>1, ConcatProperties

\* The engine looks at the room, and puts down what it will do.
LEMMA LookKeepsRamps ==
  ASSUME TypeInv, RampInv, Look
  PROVE  RampInv'
<1> DEFINE r == press.room
           base == IF press.base # None THEN press.base ELSE RemoteBase(rooms[r])
           next == Moved(base, Up(press.action), 1)
           move == Publish(r, IF Up(press.action) THEN "up" ELSE "down", None, None, <<>>, <<>>)
<1>0. /\ RemotesOK /\ RecordOK /\ "automation" \in Tasks /\ todo \in [Tasks -> Seq(Steps)]
  BY RemoteParts, RemoteConstants DEF TypeInv, QueuesOK
<1>1. /\ press.at = "look" /\ todo["automation"] = <<>>
      /\ UNCHANGED <<link, outq, bulb, session, job, spent>>
      /\ \/ press' = NoPress /\ todo' = todo
         \/ /\ press' = [press EXCEPT !.at = "set", !.base = next]
            /\ todo' = [todo EXCEPT !["automation"] = Claim(r)]
         \/ /\ press' = [press EXCEPT !.at = "ramp", !.base = base]
            /\ todo' = [todo EXCEPT !["automation"] = Claim(r) \o << move >>]
  BY DEF Look, Proceeds, world
<1>2. /\ r \in Rooms
      /\ press = [at |-> "look", room |-> r, action |-> press.action, base |-> press.base]
  BY <1>0, <1>1, PressFields
<1>3. CASE press' = NoPress /\ todo' = todo
  <2>1. MovesOK'
    BY <1>1, <1>3 DEF RampInv, MovesOK, Still, NoPress
  <2>2. \A o \in Rooms : Followed(o) => Followed(o)'
    BY <1>1, <1>3, FollowedStays
  <2> QED
    BY <1>1, <2>1, <2>2 DEF RampInv, RampsOK
<1>4. CASE /\ press' = [press EXCEPT !.at = "set", !.base = next]
           /\ todo' = [todo EXCEPT !["automation"] = Claim(r)]
  <2>1. press'.at # "ramp"
    BY <1>2, <1>4
  <2>2. \A i \in 1..Len(Claim(r)) : Claim(r)[i] \notin Moves
    BY <1>0, <1>2, ClaimType, StillSteps
  <2> HIDE DEF r, next
  <2> QED
    BY <1>1, <1>4, <2>1, <2>2, PutsDownKeepsRamps
<1>5. CASE /\ press' = [press EXCEPT !.at = "ramp", !.base = base]
           /\ todo' = [todo EXCEPT !["automation"] = Claim(r) \o << move >>]
  <2>1. press'.at = "ramp" /\ press'.room = r /\ press'.action = press.action
    BY <1>2, <1>5
  <2>2. move \in Moves /\ move.room = r /\ move.power = Direction(Up(press.action))
    <3>1. move \in StepsOver(Sends)
      BY <1>2, PushType, WordsType, EmptySeq
    <3>2. move.do = "publish" /\ move.power \in {"up", "down"} /\ move.room = r
          /\ move.power = Direction(Up(press.action))
      BY DEF Publish, Direction
    <3> HIDE DEF move
    <3> QED
      BY <3>1, <3>2, SendsType, StepFields DEF Moves
  <2>3. Claim(r) \in Seq(Sends) /\ Len(Claim(r)) = 2
    BY <1>0, <1>2, ClaimType
  <2> DEFINE q == Claim(r) \o << move >>
  <2> HIDE DEF r, base, move
  <2>4. /\ Len(q) = 3 /\ q[3] = move /\ q # <<>>
        /\ \A i \in 1..2 : q[i] \in Sends
    <3>1. /\ Len(q) = 3 /\ q[3] = move /\ \A i \in 1..2 : q[i] = Claim(r)[i]
      BY <2>3, OneMore DEF q
    <3>2. \A i \in 1..2 : Claim(r)[i] \in Sends
      BY <2>3
    <3>3. \A z : Len(z) # 0 => z # <<>>
      OBVIOUS
    <3> QED
      BY <3>1, <3>2, <3>3
  <2>5. todo'["automation"] = q /\ \A u \in Tasks \ {"automation"} : todo'[u] = todo[u]
    BY <1>0, <1>5
  <2> HIDE DEF q
  <2>6. Starting'
    <3>1. \A i \in 1..2 : q[i].do = "send"
      BY <2>4 DEF Sends
    <3>2. Len(q) - 1 = 2
      BY <2>4
    <3>3. \A i \in 1..(Len(q) - 1) : q[i].do = "send"
      BY <3>1, <3>2
    <3>4. /\ q[Len(q)] \in Moves /\ q[Len(q)].room = press'.room
          /\ q[Len(q)].power = Direction(Up(press'.action))
      BY <2>1, <2>2, <2>4
    <3> QED
      BY <2>4, <2>5, <3>3, <3>4 DEF Starting
  <2>7. MovesOK'
    <3>1. \A u \in Tasks \ {"automation"} : Still(u)'
      BY <2>5 DEF RampInv, MovesOK, Still
    <3>2. \A w \in Workers : todo'[w] = todo[w]
      BY <2>5, RemoteConstants
    <3> QED
      BY <1>1, <2>1, <2>6, <3>1, <3>2 DEF RampInv, MovesOK
  <2>8. \A t \in Tasks : todo'[t] = todo[t] \/ todo[t] = <<>>
    BY <1>1, <2>5
  <2>9. \A o \in Rooms : Followed(o) => Followed(o)'
    BY <1>1, <2>8, FollowedStays
  <2> QED
    BY <1>1, <2>7, <2>9 DEF RampInv, RampsOK
<1> QED
  BY <1>1, <1>3, <1>4, <1>5

\* A spawned task begins: the publish it puts down ends the ramp in its place.
LEMMA BeginTaskKeepsRamps ==
  ASSUME TypeInv, RampInv, NEW w \in Workers, Begin(w)
  PROVE  RampInv'
<1>0. RemotesOK /\ TypeOK /\ w \in Tasks /\ todo \in [Tasks -> Seq(Steps)]
  BY RemoteParts, RemoteConstants DEF TypeInv, QueuesOK
<1>1. job' = [job EXCEPT ![w] = None] /\ UNCHANGED <<link, outq, bulb, session, press, spent>>
  BY DEF Begin, world
<1>2. PICK steps \in Seq(Calm) :
        /\ todo' = [todo EXCEPT ![w] = steps]
        /\ \E i \in 1..Len(steps) : steps[i] \in PublishSteps \ Moves /\ steps[i].room = job[w].room
  BY <1>0, BeginSteps
<1>3. /\ job[w] # None /\ todo[w] = <<>>
      /\ todo'[w] = steps /\ \A u \in Tasks \ {w} : todo'[u] = todo[u]
      /\ job'[w] = None /\ \A u \in Workers \ {w} : job'[u] = job[u]
  BY <1>0, <1>1, <1>2, BeginSteps DEF RampInv, MovesOK, RemotesOK
<1>4. MovesOK'
  <2>1. Still(w)'
    BY <1>3, StillSteps DEF Still
  <2>2. \A u \in Tasks \ {w} : Still(u) => Still(u)'
    BY <1>3 DEF Still
  <2>3. todo'["automation"] = todo["automation"]
    BY <1>3, RemoteConstants
  <2>4. \A u \in Workers : job'[u] # None => todo'[u] = <<>>
    BY <1>3, RemoteConstants DEF RampInv, MovesOK
  <2> QED
    BY <1>1, <2>1, <2>2, <2>3, <2>4, RemoteConstants DEF RampInv, MovesOK, Starting
<1>e. PICK ended \in Rooms : ended = job[w].room
  BY <1>0, BeginSteps
<1>5. Ending(ended)'
  <2>1. PICK i \in 1..Len(steps) : steps[i] \in PublishSteps \ Moves /\ steps[i].room = ended
    BY <1>2, <1>e
  <2>2. i \in 1..Len(todo'[w]) /\ todo'[w][i] = steps[i]
    BY <1>3
  <2> QED
    BY <1>0, <2>1, <2>2, EndingPut
<1>6. ASSUME NEW r \in Rooms, r # ended, Ending(r)
      PROVE  Ending(r)'
  <2>1. CASE \E u \in Workers : job[u] # None /\ job[u].room = r
    <3>1. PICK u \in Workers : job[u] # None /\ job[u].room = r
      BY <2>1
    <3> QED
      BY <1>3, <1>e, <1>6, <3>1 DEF Ending
  <2>2. ASSUME NEW t \in Tasks, NEW i \in 1..Len(todo[t]),
               todo[t][i] \in PublishSteps \ Moves, todo[t][i].room = r
        PROVE  Ending(r)'
    <3>1. todo[t] # <<>>
      BY <2>2
    <3>2. todo'[t] = todo[t]
      BY <1>3, <3>1
    <3> QED
      BY <2>2, <3>2 DEF Ending
  <2> QED
    BY <1>6, <2>1, <2>2 DEF Ending
<1>7. ASSUME NEW r \in Rooms, Followed(r)
      PROVE  Followed(r)'
  <2>1. CASE r = ended
    BY <1>5, <2>1 DEF Followed
  <2>2. CASE r # ended
    <3>1. Ending(r) => Ending(r)'
      BY <1>6, <2>2
    <3> QED
      BY <1>1, <1>7, <3>1 DEF Followed, Matches
  <2> QED
    BY <2>1, <2>2
<1> QED
  BY <1>1, <1>4, <1>7 DEF RampInv, RampsOK

\* A press that dims ends the session first, unless it repeats the hold.
LEMMA DimmingKeepsRamps ==
  ASSUME TypeInv, RampInv, HandleDimming
  PROVE  RampInv'
<1> DEFINE e == Head(inbox["automation"])
<1>1. /\ Takes(Clicks \union Holds) /\ UNCHANGED <<job, link, outq, bulb, spent>>
      /\ \/ UNCHANGED <<todo, session, press>>
         \/ StopSession(e.room) /\ press'.at = "look"
  BY DEF HandleDimming, world
<1>2. e.room \in Rooms
  BY <1>1, RemoteParts, TakesType DEF TypeInv
<1>3. press.at # "ramp" /\ todo["automation"] = <<>>
  BY <1>1 DEF Takes, NoPress
<1>4. CASE UNCHANGED <<todo, session, press>>
  BY <1>1, <1>4, QuietKeepsRamps
<1>5. CASE StopSession(e.room) /\ press'.at = "look"
  <2> HIDE DEF e
  <2> QED
    BY <1>1, <1>2, <1>3, <1>5, SessionEnds
<1> QED
  BY <1>1, <1>4, <1>5

LEMMA StopKeepsRamps ==
  ASSUME TypeInv, RampInv, HandleStop
  PROVE  RampInv'
<1> DEFINE r == Head(inbox["automation"]).room
<1>1. /\ Takes({"stop"}) /\ UNCHANGED <<job, link, outq, bulb, spent, press>>
      /\ StopSession(r)
  BY DEF HandleStop, world
<1>2. r \in Rooms
  BY <1>1, RemoteParts, TakesType DEF TypeInv
<1>3. press.at # "ramp" /\ todo["automation"] = <<>>
  BY <1>1 DEF Takes, NoPress
<1> HIDE DEF r
<1> QED
  BY <1>1, <1>2, <1>3, SessionEnds

\* The engine sets the level of a click.
LEMMA LevelKeepsRamps ==
  ASSUME TypeInv, RampInv, SetLevel
  PROVE  RampInv'
<1> DEFINE steps == LightsOnAction(press.room, Scale[press.base], "Automation",
                                   << Send(press.room, LightsOn(None, "Manual")) >>)
<1>1. steps \in Seq(Calm)
  BY SetLevelType
<1>2. /\ press.at = "set" /\ todo["automation"] = <<>> /\ press' = NoPress
      /\ todo' = [todo EXCEPT !["automation"] = steps]
      /\ UNCHANGED <<job, session, link, outq, bulb, spent>>
  BY DEF SetLevel, Proceeds, world
<1> HIDE DEF steps
<1>3. \A i \in 1..Len(steps) : steps[i] \notin Moves
  BY <1>1, StillSteps
<1>4. press.at # "ramp" /\ press'.at # "ramp"
  BY <1>2 DEF NoPress
<1> QED
  BY <1>2, <1>3, <1>4, PutsDownKeepsRamps

\* What the remotes, the reports and the circadian engine make the tasks do.
LEMMA PressKeepsRamps ==
  ASSUME TypeInv, RampInv, NEW r \in Rooms, (\E b \in Buttons : Press(r, b)) \/ Republish(r)
  PROVE  RampInv'
<1>0. RemotesOK
  BY RemoteParts DEF TypeInv
<1>1. PICK action \in Buttons :
        /\ Published(r, action)
        /\ \E kind \in {"presses", "republished", "touches"} : Spend(kind)
  <2>1. CASE \E b \in Buttons : Press(r, b)
    BY <2>1 DEF Press
  <2>2. CASE Republish(r)
    <3>1. recorded[r].action \in Buttons
      BY <1>0, <2>2 DEF Republish, RemotesOK
    <3> QED
      BY <2>2, <3>1 DEF Republish
  <2> QED
    BY <2>1, <2>2
<1>2. UNCHANGED <<job, session, link, outq, bulb, press>>
  BY <1>1 DEF Published, world
<1>3. spent'.outages = spent.outages
  BY <1>0, <1>1, SpendOther
<1>4. \/ todo' = todo
      \/ /\ todo["mqtt"] = <<>>
         /\ \E e \in Events : todo' = [todo EXCEPT !["mqtt"] = << Announce(e) >>]
  BY <1>1, PublishedType
<1>5. CASE todo' = todo
  BY <1>2, <1>3, <1>5, QuietKeepsRamps
<1>6. ASSUME todo["mqtt"] = <<>>,
             NEW e \in Events, todo' = [todo EXCEPT !["mqtt"] = << Announce(e) >>]
      PROVE  RampInv'
  <2> DEFINE steps == << Announce(e) >>
  <2>1. steps \in Seq(SimpleSteps)
    <3>1. Announce(e) \in SimpleSteps
      BY StepTypes
    <3> HIDE DEF Announce
    <3> QED
      BY <3>1
  <2>2. todo' = [todo EXCEPT !["mqtt"] = steps]
    BY <1>6
  <2> HIDE DEF steps
  <2>3. \A i \in 1..Len(steps) : steps[i] \notin Moves
    BY <2>1, StillSteps
  <2> QED
    BY <1>2, <1>3, <1>6, <2>2, <2>3, PutsDownKeepsRamps
<1> QED
  BY <1>4, <1>5, <1>6

LEMMA CycleKeepsRamps ==
  ASSUME TypeInv, RampInv, NEW r \in Rooms, CyclesRoom(r)
  PROVE  RampInv'
<1> DEFINE steps == RoomSteps(r, cycle.view[r])
<1>1. /\ todo["circadian"] = <<>> /\ todo' = [todo EXCEPT !["circadian"] = steps]
      /\ UNCHANGED <<job, session, link, outq, bulb, press, spent>>
  BY DEF CyclesRoom, CycleRoom, world, remotes
<1>2. steps \in Seq(Calm)
  BY RoomStepsType
<1> HIDE DEF steps
<1>3. \A i \in 1..Len(steps) : steps[i] \notin Moves
  BY <1>2, StillSteps
<1> QED
  BY <1>1, <1>3, PutsDownKeepsRamps

LEMMA ReportKeepsRamps ==
  ASSUME TypeInv, RampInv, ReadReport
  PROVE  RampInv'
<1>1. /\ todo["mqtt"] = <<>> /\ UNCHANGED <<job, session, link, outq, bulb, press, spent>>
      /\ HandleReport /\ WorldOK /\ RecordOK
  BY RemoteParts DEF ReadReport, HandleReport, LoopIdle, UnchangedRemotes, TypeInv
<1>2. PICK r \in Rooms : \E steps \in Seq({Send(r, u) : u \in Updates}) :
        todo' = [todo EXCEPT !["mqtt"] = steps]
  BY <1>1, HandleReportSteps
<1>3. PICK steps \in Seq({Send(r, u) : u \in Updates}) : todo' = [todo EXCEPT !["mqtt"] = steps]
  BY <1>2
<1>4. steps \in Seq(SimpleSteps)
  BY SendsAreSteps, SeqMonotonic
<1>5. \A i \in 1..Len(steps) : steps[i] \notin Moves
  BY <1>4, StillSteps
<1> QED
  BY <1>1, <1>3, <1>5, PutsDownKeepsRamps

\* The connection: an invariant of the ramps is only promised until it is lost.
LEMMA LinkKeepsRamps ==
  ASSUME TypeInv, RampInv, Connection \/ LinkLost
  PROVE  RampInv'
<1>0. RemotesOK
  BY RemoteParts DEF TypeInv
<1>1. CASE PollError \/ ConnAck
  <2>1. /\ link # "up" /\ UNCHANGED <<job, press>>
        /\ \E steps \in Seq(SimpleSteps) : todo' = [todo EXCEPT !["mqtt"] = steps]
    <3> DEFINE down == SendConnected(FALSE)
               event == Announce(MqttConnected)
               up == SendConnected(TRUE)
    <3>1. down \in SimpleSteps /\ event \in SimpleSteps /\ up \in SimpleSteps
      BY StepTypes DEF Events, MqttConnected
    <3>2. /\ link # "up" /\ UNCHANGED <<job, press>>
          /\ \/ todo' = [todo EXCEPT !["mqtt"] = << down >>]
             \/ todo' = [todo EXCEPT !["mqtt"] = << event, up >>]
      <4>1. UNCHANGED remotes
        BY <1>1 DEF Connection, PollError, ConnAck, DeliverQueued, LinkLost, LoseLink
      <4> QED
        BY <1>1, <4>1 DEF PollError, ConnAck, LoopDoes, remotes
    <3> HIDE DEF down, event, up
    <3>3. << down >> \in Seq(SimpleSteps) /\ << event, up >> \in Seq(SimpleSteps)
      BY <3>1
    <3> QED
      BY <3>2, <3>3
  <2>2. PICK steps \in Seq(SimpleSteps) : todo' = [todo EXCEPT !["mqtt"] = steps]
    BY <2>1
  <2>3. MovesOK'
    <3>1. \A i \in 1..Len(steps) : steps[i] \notin Moves
      BY StillSteps
    <3> QED
      BY <2>1, <2>2, <3>1, PutsDownKeepsMoves DEF RampInv
  <2>4. spent.outages # 0 /\ spent' = spent
    <3>1. spent' = spent
      BY <1>1 DEF Connection, PollError, ConnAck, DeliverQueued, LinkLost, LoseLink, remotes
    <3> QED
      BY <2>1, <3>1 DEF RampInv, RampsOK
  <2> QED
    BY <2>3, <2>4 DEF RampInv, RampsOK
<1>2. CASE DeliverQueued
  <2>1. outq # <<>> /\ UNCHANGED <<todo, link>>
    BY <1>2 DEF DeliverQueued
  <2>2. UNCHANGED remotes
    BY <1>2 DEF Connection, PollError, ConnAck, DeliverQueued, LinkLost, LoseLink
  <2>3. MovesOK'
    BY <2>1, <2>2 DEF RampInv, MovesOK, Still, Starting, remotes
  <2>4. spent.outages # 0 /\ spent' = spent
    BY <2>1, <2>2 DEF RampInv, RampsOK, remotes
  <2> QED
    BY <2>3, <2>4 DEF RampInv, RampsOK
<1>3. CASE LinkLost
  <2>1. UNCHANGED <<todo, job, press>>
    BY <1>3 DEF LinkLost, LoseLink
  <2>2. MovesOK'
    BY <2>1 DEF RampInv, MovesOK, Still, Starting
  <2>3. spent'.outages # 0
    BY <1>0, <1>3 DEF LinkLost, Spend, RemotesOK
  <2> QED
    BY <2>2, <2>3 DEF RampInv, RampsOK
<1> QED
  BY <1>1, <1>2, <1>3 DEF Connection

LEMMA StepKeepsRamps == TypeInv /\ RampInv /\ [Next]_vars => RampInv'
<1> SUFFICES ASSUME TypeInv, RampInv, [Next]_vars
             PROVE  RampInv'
  OBVIOUS
<1>0. RemotesOK /\ WorldOK
  BY RemoteParts DEF TypeInv
<1>1. CASE Actor \/ BeginsCycle \/ UNCHANGED vars
  <2>1. UNCHANGED <<todo, job, press, session, link, outq, bulb, spent>>
    BY <1>1 DEF Actor, ApplyRoomUpdate, ApplyConnected, BeginsCycle, CycleTick, HandleMqttConnected,
                UnchangedRemotes, vars, remotes, daemon, world
  <2> QED
    BY <2>1, QuietKeepsRamps
<1>2. ASSUME NEW t \in Tasks, Step(t)
      PROVE  RampInv'
  BY <1>2, TasksKeepRamps
<1>3. ASSUME NEW r \in Rooms, (\E b \in Buttons : Press(r, b)) \/ Republish(r)
      PROVE  RampInv'
  BY <1>3, PressKeepsRamps
<1>4. ASSUME NEW r \in Rooms, Touch(r)
      PROVE  RampInv'
  <2>1. /\ UNCHANGED <<todo, job, press, session, link, outq>>
        /\ Spend("touches")
    BY <1>4 DEF Touch, TouchLight
  <2>2. PICK b : b.ramp = "none" /\ bulb' = [bulb EXCEPT ![r] = b]
    <3>1. [bulb[r] EXCEPT !.on = FALSE, !.ramp = "none"].ramp = "none"
      BY <1>0 DEF WorldOK, Bulb
    <3>2. \E b \in {[bulb[r] EXCEPT !.on = FALSE, !.ramp = "none"],
                    [on |-> TRUE, level |-> "external", ramp |-> "none"]} :
            bulb' = [bulb EXCEPT ![r] = b]
      BY <1>4 DEF Touch, TouchLight
    <3> QED
      BY <3>1, <3>2
  <2>3. \A o \in Rooms : bulb'[o].ramp \in {bulb[o].ramp, "none"}
    BY <1>0, <2>2 DEF WorldOK
  <2>4. spent'.outages = spent.outages
    BY <1>0, <2>1, SpendOther
  <2> QED
    BY <2>1, <2>3, <2>4, QuietKeepsRamps
<1>5. ASSUME NEW r \in Rooms, CyclesRoom(r)
      PROVE  RampInv'
  BY <1>5, CycleKeepsRamps
<1>6. CASE Engine
  BY <1>6, SwitchKeepsRamps, StopKeepsRamps, DimmingKeepsRamps, LookKeepsRamps, LevelKeepsRamps,
     BeginKeepsRamps DEF Engine
<1>7. ASSUME NEW w \in Workers, Begin(w)
      PROVE  RampInv'
  BY <1>7, BeginTaskKeepsRamps
<1>8. CASE ReadReport
  BY <1>8, ReportKeepsRamps
<1>9. CASE Connection \/ LinkLost
  BY <1>9, LinkKeepsRamps
<1>10. CASE Tick
  <2>1. /\ UNCHANGED <<todo, job, press, session, link, outq, spent>>
        /\ bulb' = [r \in Rooms |-> Ramped(bulb[r])]
    BY <1>10 DEF Tick, Elapse, UnchangedRemotes
  <2>2. \A r \in Rooms : bulb'[r].ramp \in {bulb[r].ramp, "none"}
    BY <1>0, <2>1, RampedType DEF WorldOK
  <2> QED
    BY <2>1, <2>2, QuietKeepsRamps
<1> QED
  BY <1>1, <1>2, <1>3, <1>4, <1>5, <1>6, <1>7, <1>8, <1>9, <1>10 DEF Next

\* In a room where nothing is on its way, what follows a ramp is its session.
LEMMA RampImplies == TypeInv /\ RampInv => RampHasSession
<1> SUFFICES ASSUME TypeInv, RampInv, NEW r \in Rooms,
                    Settled(r), spent.outages = 0, bulb[r].ramp # "none"
             PROVE  session[r] # None /\ bulb[r].ramp = IF session[r].up THEN "up" ELSE "down"
  BY DEF RampHasSession
<1>1. \A t \in Tasks : ~Working(t, r)
  BY RemoteConstants DEF Settled, EngineBusy, MqttBusy, AutomationBusy, Busy
<1>2. \A w \in Workers : ~(job[w] # None /\ job[w].room = r)
  BY DEF Settled, AutomationBusy
<1>3. ASSUME NEW t \in Tasks, NEW i \in 1..Len(todo[t]),
             todo[t][i] \in PublishSteps \ Moves, todo[t][i].room = r
      PROVE  FALSE
  <2>1. todo[t][i].do = "publish"
    BY <1>3, PublishFields
  <2> QED
    BY <1>1, <1>3, <2>1 DEF Working
<1>4. ~Ending(r)
  BY <1>2, <1>3 DEF Ending
<1>5. Matches(r)
  BY <1>4 DEF RampInv, RampsOK, Followed
<1> QED
  BY <1>5 DEF Matches, Direction

\* Whatever the order of presses, repetitions, touches, cycles and spawned
\* tasks: as long as the connection holds, a light that ramps in a room where
\* nothing is on its way has a session of that direction, which a release, or
\* the next press, will end (dimming_sessions).
THEOREM RampsHaveSessions == Spec => []RampHasSession
<1> QED
  BY InitType, StepKeepsTypes, InitRamps, StepKeepsRamps, RampImplies, PTL DEF Spec

=============================================================================
