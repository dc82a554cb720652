----------------------- MODULE MotionAutomation_proofs ------------------------
(***************************************************************************)
(* Built-in motion is well formed; the record knows the last occupancy of  *)
(* each sensor; motion ends the timer; and no timer darkens a room that is *)
(* occupied: for all sets of rooms, workers and households, all timeouts   *)
(* and all capacities.                                                     *)
(***************************************************************************)
EXTENDS MotionAutomation, Daemon_proofs

-----------------------------------------------------------------------------
(* The steps of a spawned task: sends, none of them of an occupancy, and    *)
(* publishes that are followed by such sends.                               *)

LightUpdates == {u \in Updates : u.update # "Occupancy"}
LightSends   == [do : {"send"}, room : Rooms, update : LightUpdates]

LEMMA LightSendsType ==
  /\ LightSends \in SUBSET SimpleSteps
  /\ \A r \in Rooms, u \in LightUpdates : Send(r, u) \in LightSends
  /\ LightSends \subseteq StepsOver(LightSends)
  /\ StepsOver(LightSends) \subseteq Steps
<1>1. LightSends \in SUBSET SimpleSteps
  BY DEF LightSends, LightUpdates, SimpleSteps
<1>2. \A r \in Rooms, u \in LightUpdates : Send(r, u) \in LightSends
  BY DEF LightSends, Send
<1> QED
  BY <1>1, <1>2, Vocabulary DEF StepsOver

LEMMA LightUpdateTypes ==
  /\ \A level \in MaybeLevel, source \in Sources :
       LightsOn(level, source) \in LightUpdates /\ LightsOnWithPush(level, source) \in LightUpdates
  /\ LightsOff \in LightUpdates
  /\ \A ttl \in Nat : ExternalChange(ttl) \in LightUpdates
  /\ \A room \in Room : RestoreLights(room) \in LightUpdates
BY UpdateTypes DEF LightUpdates, LightsOn, LightsOnWithPush, LightsOff, ExternalChange, RestoreLights

\* What a spawned task puts down to turn the lights on.
LEMMA OnActionType ==
  ASSUME RecordOK, NEW r \in Rooms, NEW level \in Levels, NEW source \in {"Automation", "Manual"},
         NEW next \in Seq(LightSends)
  PROVE  LightsOnAction(r, level, source, next) \in Seq(StepsOver(LightSends))
<1> DEFINE S == StepsOver(LightSends)
           lit == Send(r, LightsOnWithPush(level, source))
           back == Send(r, RestoreLights(rooms[r]))
           on == Publish(r, "ON", level, None, next, << back >>)
<1>1. lit \in LightSends /\ back \in LightSends
  BY LightSendsType, LightUpdateTypes DEF RecordOK, MaybeLevel, Sources
<1>2. << back >> \in Seq(LightSends)
  <2> HIDE DEF back
  <2> QED
    BY <1>1, ShortSeqs
<1>3. on \in S
  <2>1. "ON" \in Power /\ level \in MaybeLevel /\ None \in Goal \union {None}
    BY DEF Power, MaybeLevel
  <2> QED
    BY <1>2, <2>1, LightSendsType, PublishType
<1>4. lit \in S
  BY <1>1, LightSendsType
<1> HIDE DEF lit, on, S
<1>5. << lit, on >> \in Seq(S)
  BY <1>3, <1>4, ShortSeqs
<1> QED
  BY <1>5 DEF LightsOnAction, Rollback, lit, on, back, S

\* And off.
LEMMA OffActionType ==
  ASSUME RecordOK, NEW r \in Rooms
  PROVE  LightsOffAction(r) \in Seq(StepsOver(LightSends))
<1> DEFINE S == StepsOver(LightSends)
           dark == Send(r, LightsOff)
           back == Send(r, RestoreLights(rooms[r]))
           off == Publish(r, "OFF", None, None, <<>>, << back >>)
<1>1. dark \in LightSends /\ back \in LightSends
  BY LightSendsType, LightUpdateTypes DEF RecordOK
<1>2. << back >> \in Seq(LightSends) /\ <<>> \in Seq(LightSends)
  <2> HIDE DEF back
  <2> QED
    BY <1>1, ShortSeqs
<1>3. off \in S
  <2>1. "OFF" \in Power /\ None \in MaybeLevel /\ None \in Goal \union {None}
    BY DEF Power, MaybeLevel
  <2> QED
    BY <1>2, <2>1, LightSendsType, PublishType
<1>4. dark \in S
  BY <1>1, LightSendsType
<1> HIDE DEF dark, off, S
<1>5. << dark, off >> \in Seq(S)
  BY <1>3, <1>4, ShortSeqs
<1> QED
  BY <1>5 DEF LightsOffAction, Rollback, dark, off, back, S

-----------------------------------------------------------------------------
(* The types.                                                               *)

Sighting == [room : Rooms, occupied : BOOLEAN, bright : BOOLEAN]

\* The part of the types that is this module's own.
MotionOK ==
  /\ setup \in Setups
  /\ present \in [Rooms -> BOOLEAN]
  /\ sightings \in Seq(Sighting)
  /\ seen \in [Rooms -> BOOLEAN \union {None}]
  /\ pending \in {None} \union [room : Rooms, event : Triggers, handled : BOOLEAN,
                                left : SUBSET setup.automations]
  /\ job \in [Workers -> Jobs \union {None}]
  /\ offHandle \in [Rooms -> Workers \union {None}]
  /\ spent \in [motion : Nat, resends : Nat, touches : Nat, outages : Nat]

LEMMA MotionParts ==
  /\ TypeOK <=> QueuesOK /\ WorldOK /\ RecordOK /\ MotionOK
  /\ TypeOK' <=> QueuesOK' /\ WorldOK' /\ RecordOK' /\ MotionOK'
BY TypeParts DEF TypeOK, MotionOK, Sighting

LEMMA MotionConstants ==
  /\ "automation" \in Tasks /\ "automation" \in Subscribers /\ "mqtt" \in Tasks
  /\ Workers \subseteq Tasks /\ "mqtt" \notin Workers /\ "automation" \notin Workers
  /\ None \notin Tasks /\ None \notin Workers
  /\ MotionTimeout \in Nat \ {0} /\ NightTimeout \in Nat \ {0}
  /\ {"night", "user", "circadian"} \subseteq Levels
BY MotionAssumption, DaemonAssumption DEF MotionAssumption, DaemonAssumption

\* What a household says.
LEMMA SetupFields ==
  ASSUME MotionOK
  PROVE  /\ setup.lived \subseteq Rooms /\ setup.automations \subseteq Automation
         /\ setup.builtin \in BOOLEAN /\ setup.gated \in BOOLEAN /\ setup.prompt \in BOOLEAN
         /\ setup.scheduled \in BOOLEAN
BY MotionAssumption DEF MotionOK, MotionAssumption, Setup

\* The rooms a run starts from.
LEMMA StartType ==
  ASSUME NEW name \in AllStarts
  PROVE  Start(name) \in Room
<1>1. DarkRoom \in Room /\ LitRoom \in Room /\ "user" \in MaybeLevel
  BY StartRooms, MotionConstants DEF MaybeLevel
<1>2. CASE name = "night"
  <2>1. Start(name) = [DarkRoom EXCEPT !.nightMode = TRUE, !.nightSince = 0]
    BY <1>2 DEF Start
  <2>2. 0 \in MaybeInstant
    BY DEF MaybeInstant
  <2> QED
    BY <1>1, <2>1, <2>2 DEF Room
<1>3. CASE name = "override"
  <2>1. Start(name) = [DarkRoom EXCEPT !.source = "Manual", !.current = "user", !.intended = "user"]
    BY <1>3 DEF Start
  <2> QED
    BY <1>1, <2>1 DEF Room, Sources
<1> QED
  BY <1>1, <1>2, <1>3 DEF Start, AllStarts

LEMMA InitType == Init => TypeOK
<1> SUFFICES ASSUME Init PROVE TypeOK
  OBVIOUS
<1>1. DaemonTypeOK
  <2> DEFINE starts == {Start(name) : name \in AllStarts}
  <2>1. starts \in SUBSET Room /\ DaemonInit(starts)
    BY StartType DEF Init
  <2> HIDE DEF starts
  <2> QED
    BY <2>1, DaemonInitType
<1>2. MotionOK
  BY EmptySeq DEF Init, MotionOK
<1> QED
  BY <1>1, <1>2, MotionParts, TypeParts

\* A sensor's report, and what the loop does of it.
LEMMA OccurredType ==
  ASSUME NEW m \in Sighting
  PROVE  /\ Occurred(m) \in SimpleSteps /\ Occurred(m).do = "announce"
         /\ Send(m.room, Occupancy(m.occupied)) \in SimpleSteps
         /\ SightingSteps(m) \in Seq(Steps) /\ << Occurred(m) >> \in Seq(Steps)
<1> DEFINE a == Occurred(m)
           s == Send(m.room, Occupancy(m.occupied))
<1>1. a \in SimpleSteps /\ a.do = "announce"
  <2>1. [event |-> "MotionDetected", room |-> m.room, bright |-> m.bright] \in Events
    BY DEF Events, Sighting
  <2>2. [event |-> "MotionCleared", room |-> m.room] \in Events
    BY DEF Events, Sighting
  <2> QED
    BY <2>1, <2>2, StepTypes DEF Occurred, Announce
<1>2. s \in SimpleSteps
  BY StepTypes, UpdateTypes DEF Sighting
<1> HIDE DEF a, s
<1>3. a \in Steps /\ s \in Steps
  BY <1>1, <1>2 DEF Steps
<1>4. << s, a >> \in Seq(Steps) /\ << a >> \in Seq(Steps)
  BY <1>3
<1> QED
  BY <1>1, <1>2, <1>4 DEF a, s, SightingSteps

LEMMA HandleSightingType ==
  ASSUME TypeOK, HandleSighting
  PROVE  TypeOK'
<1>0. QueuesOK /\ WorldOK /\ RecordOK /\ MotionOK
  BY MotionParts
<1> DEFINE m == Head(sightings)
<1>1. m \in Sighting /\ Tail(sightings) \in Seq(Sighting)
  BY <1>0, HeadTailProperties DEF MotionOK, HandleSighting
<1>2. PICK steps \in Seq(Steps) : todo' = [todo EXCEPT !["mqtt"] = steps]
  <2>1. LoopDoes(<<>>) \/ LoopDoes(SightingSteps(m))
    BY DEF HandleSighting, SightingHandled
  <2>2. <<>> \in Seq(Steps) /\ SightingSteps(m) \in Seq(Steps)
    BY <1>1, OccurredType, EmptySeq
  <2> QED
    BY <2>1, <2>2, Zenon DEF LoopDoes
<1>3. QueuesOK' /\ WorldOK' /\ RecordOK'
  BY <1>0, <1>2 DEF HandleSighting, QueuesOK, WorldOK, RecordOK, world, shared
<1>4. seen' \in [Rooms -> BOOLEAN \union {None}]
  <2>1. seen' = [seen EXCEPT ![m.room] = m.occupied]
    BY DEF HandleSighting, SightingHandled
  <2>2. m.occupied \in BOOLEAN
    BY <1>1 DEF Sighting
  <2> QED
    BY <1>0, <2>1, <2>2 DEF MotionOK
<1>5. MotionOK'
  BY <1>0, <1>1, <1>4 DEF HandleSighting, MotionOK
<1> QED
  BY <1>3, <1>5, MotionParts

\* The event the engine takes.
LEMMA TakesType ==
  ASSUME QueuesOK, NEW event \in Triggers, Takes(event)
  PROVE  LET q == inbox["automation"] IN
         /\ q \in Seq(Events) /\ q # <<>> /\ Len(q) \in Nat
         /\ inbox' \in [Subscribers -> Seq(Events)]
         /\ inbox'["automation"] = Tail(q)
         /\ \A s \in Subscribers : Len(inbox'[s]) <= BusCap
         /\ Head(q) \in Events /\ Head(q).event = event /\ Head(q).room \in Rooms
         /\ event = "MotionDetected" => Head(q).bright \in BOOLEAN
<1> DEFINE q == inbox["automation"]
<1>1. q \in Seq(Events) /\ q # <<>> /\ Len(q) <= BusCap /\ inbox' = [inbox EXCEPT !["automation"] = Tail(q)]
  BY MotionConstants DEF QueuesOK, Takes
<1>2. Tail(q) \in Seq(Events) /\ Len(Tail(q)) <= BusCap /\ Head(q) \in Events /\ Len(q) \in Nat
  BY <1>1, HeadTailProperties, LenProperties, CapsType DEF Caps
<1>3. Head(q).event = event
  BY DEF Takes
<1>4. Head(q).room \in Rooms /\ (event = "MotionDetected" => Head(q).bright \in BOOLEAN)
  BY <1>2, <1>3 DEF Triggers, Events
<1> QED
  BY <1>1, <1>2, <1>3, <1>4, MotionConstants DEF QueuesOK

LEMMA HandsOnType ==
  ASSUME QueuesOK, MotionOK, NEW event \in Triggers, Takes(event), NEW handled \in BOOLEAN,
         HandsOn(handled), setup' = setup
  PROVE  pending' \in {None} \union [room : Rooms, event : Triggers, handled : BOOLEAN,
                                     left : SUBSET setup'.automations]
BY TakesType DEF HandsOn

\* Aborting a timer leaves every task well formed.
LEMMA AbortType ==
  ASSUME QueuesOK, NEW r \in Rooms, NEW jobs \in [Workers -> Jobs \union {None}]
  PROVE  /\ [w \in Tasks |-> IF w = offHandle[r] THEN <<>> ELSE todo[w]] \in [Tasks -> Seq(Steps)]
         /\ Aborted(r, jobs) \in [Workers -> Jobs \union {None}]
BY EmptySeq DEF QueuesOK, Aborted

\* What a spawned task is about to do.
LEMMA JobTypes ==
  ASSUME RecordOK, NEW r \in Rooms
  PROVE  /\ WantedOn(r, rooms[r]) \in Jobs
         /\ OffJob(r, Deadline(rooms[r])) \in Jobs
         /\ Deadline(rooms[r]) \in Nat /\ Deadline(rooms[r]) > now
<1>1. rooms[r] \in Room /\ now \in Nat
  BY DEF RecordOK
<1>2. rooms[r].nightMode \in BOOLEAN /\ rooms[r].current \in Levels \union {None}
  BY <1>1 DEF Room, MaybeLevel
<1>3. Restores(rooms[r]) \in BOOLEAN /\ (Restores(rooms[r]) => rooms[r].current \in Levels)
  BY <1>2 DEF Restores
<1>4. WantedOn(r, rooms[r]) \in Jobs
  <2>1. \A level \in Levels, b \in BOOLEAN : OnJob(r, level, b) \in Jobs
    BY DEF OnJob, Jobs
  <2> QED
    BY <1>3, <2>1, MotionConstants DEF WantedOn
<1>5. Deadline(rooms[r]) \in Nat /\ Deadline(rooms[r]) > now
  BY <1>1, MotionConstants DEF Deadline
<1> QED
  BY <1>4, <1>5 DEF OffJob, Jobs

LEMMA EngineTypes ==
  ASSUME TypeOK, (\E event \in Triggers : Ignored(event)) \/ MotionDetected \/ MotionCleared
  PROVE  TypeOK'
<1>0. QueuesOK /\ WorldOK /\ RecordOK /\ MotionOK
  BY MotionParts
<1>w. WorldOK' /\ RecordOK'
  BY <1>0 DEF Ignored, MotionDetected, MotionCleared, WorldOK, RecordOK, world, shared
<1>1. CASE \E event \in Triggers : Ignored(event)
  <2>1. PICK event \in Triggers : Ignored(event)
    BY <1>1
  <2>2. Takes(event) /\ HandsOn(FALSE) /\ setup' = setup
    BY <2>1 DEF Ignored
  <2>3. QueuesOK'
    BY <1>0, <2>1, <2>2, TakesType DEF Ignored, QueuesOK
  <2>4. MotionOK'
    BY <1>0, <2>1, <2>2, HandsOnType DEF Ignored, MotionOK
  <2> QED
    BY <1>w, <2>3, <2>4, MotionParts
<1>2. CASE MotionDetected
  <2> DEFINE e == Head(inbox["automation"])
             r == e.room
             gate == setup.gated /\ e.bright
  <2>1. /\ Takes("MotionDetected") /\ HandsOn(~gate) /\ Abort(r) /\ setup' = setup
        /\ offHandle' = [offHandle EXCEPT ![r] = None]
        /\ UNCHANGED <<rx, present, sightings, seen, spent>>
    BY <1>2 DEF MotionDetected
  <2>2. r \in Rooms /\ gate \in BOOLEAN
    BY <1>0, <2>1, TakesType, SetupFields DEF Triggers
  <2>3. job' \in [Workers -> Jobs \union {None}]
    <3>1. \/ job' = Aborted(r, job)
          \/ \E w \in Workers : job' = Aborted(r, [job EXCEPT ![w] = WantedOn(r, rooms[r])])
      BY <1>2 DEF MotionDetected
    <3>2. WantedOn(r, rooms[r]) \in Jobs
      BY <1>0, <2>2, JobTypes
    <3>3. \A w \in Workers : [job EXCEPT ![w] = WantedOn(r, rooms[r])] \in [Workers -> Jobs \union {None}]
      BY <1>0, <3>2 DEF MotionOK
    <3>4. \E jobs \in [Workers -> Jobs \union {None}] : job' = Aborted(r, jobs)
      <4>1. job \in [Workers -> Jobs \union {None}]
        BY <1>0 DEF MotionOK
      <4> QED
        BY <3>1, <3>3, <4>1, Zenon
    <3> HIDE DEF r
    <3> QED
      BY <1>0, <2>2, <3>4, AbortType
  <2>4. QueuesOK'
    BY <1>0, <2>1, <2>2, TakesType, AbortType DEF QueuesOK, Abort, Triggers, MotionOK
  <2>5. pending' \in {None} \union [room : Rooms, event : Triggers, handled : BOOLEAN,
                                    left : SUBSET setup'.automations]
    BY <1>0, <2>1, <2>2, HandsOnType DEF Triggers
  <2>6. MotionOK'
    BY <1>0, <2>1, <2>3, <2>5 DEF MotionOK
  <2> QED
    BY <1>w, <2>4, <2>6, MotionParts
<1>3. CASE MotionCleared
  <2> DEFINE r == Head(inbox["automation"]).room
  <2>1. /\ Takes("MotionCleared") /\ HandsOn(rooms[r].lightsOn) /\ Abort(r) /\ setup' = setup
        /\ UNCHANGED <<rx, present, sightings, seen, spent>>
    BY <1>3 DEF MotionCleared
  <2>2. r \in Rooms /\ rooms[r].lightsOn \in BOOLEAN
    <3>1. r \in Rooms
      BY <1>0, <2>1, TakesType DEF Triggers
    <3> QED
      BY <1>0, <3>1 DEF RecordOK, Room
  <2>3. \/ offHandle' = [offHandle EXCEPT ![r] = None] /\ job' = Aborted(r, job)
        \/ \E w \in Workers : /\ offHandle' = [offHandle EXCEPT ![r] = w]
                              /\ job' = Aborted(r, [job EXCEPT ![w] = OffJob(r, Deadline(rooms[r]))])
    BY <1>3 DEF MotionCleared
  <2>4. job' \in [Workers -> Jobs \union {None}] /\ offHandle' \in [Rooms -> Workers \union {None}]
    <3>1. OffJob(r, Deadline(rooms[r])) \in Jobs
      BY <1>0, <2>2, JobTypes
    <3>2. \A w \in Workers :
            [job EXCEPT ![w] = OffJob(r, Deadline(rooms[r]))] \in [Workers -> Jobs \union {None}]
      BY <1>0, <3>1 DEF MotionOK
    <3>3. \E jobs \in [Workers -> Jobs \union {None}] : job' = Aborted(r, jobs)
      <4>1. job \in [Workers -> Jobs \union {None}]
        BY <1>0 DEF MotionOK
      <4> QED
        BY <2>3, <3>2, <4>1, Zenon
    <3>4. job' \in [Workers -> Jobs \union {None}]
      <4> HIDE DEF r
      <4> QED
        BY <1>0, <2>2, <3>3, AbortType
    <3>5. \/ offHandle' = [offHandle EXCEPT ![r] = None]
          \/ \E w \in Workers : offHandle' = [offHandle EXCEPT ![r] = w]
      BY <2>3, Zenon
    <3> HIDE DEF r
    <3> QED
      BY <1>0, <2>2, <3>4, <3>5 DEF MotionOK
  <2>5. QueuesOK'
    BY <1>0, <2>1, <2>2, TakesType, AbortType DEF QueuesOK, Abort, Triggers, MotionOK
  <2>6. pending' \in {None} \union [room : Rooms, event : Triggers, handled : BOOLEAN,
                                    left : SUBSET setup'.automations]
    BY <1>0, <2>1, <2>2, HandsOnType DEF Triggers
  <2>7. MotionOK'
    BY <1>0, <2>1, <2>4, <2>6 DEF MotionOK
  <2> QED
    BY <1>w, <2>5, <2>7, MotionParts
<1> QED
  BY <1>1, <1>2, <1>3

LEMMA AutomateType ==
  ASSUME TypeOK, Automate
  PROVE  TypeOK'
<1>0. QueuesOK /\ WorldOK /\ RecordOK /\ MotionOK
  BY MotionParts
<1>1. PICK a \in pending.left :
        /\ pending' = IF pending.left = {a} THEN None ELSE [pending EXCEPT !.left = @ \ {a}]
        /\ \/ \E w \in Workers : job' = [job EXCEPT ![w] = RunJob(pending.room, a.actions)]
           \/ UNCHANGED job
  BY DEF Automate
<1>2. /\ pending \in [room : Rooms, event : Triggers, handled : BOOLEAN, left : SUBSET setup.automations]
      /\ UNCHANGED <<daemon, setup, present, sightings, seen, offHandle, spent>>
  BY <1>0 DEF Automate, MotionOK
<1>3. RunJob(pending.room, a.actions) \in Jobs
  <2>1. a \in Automation
    BY <1>0, <1>2, SetupFields
  <2>2. a.actions \in Seq(Actions) \ {<<>>} /\ pending.room \in Rooms
    BY <1>2, <2>1 DEF Automation
  <2> QED
    BY <2>2 DEF RunJob, Jobs
<1>4. job' \in [Workers -> Jobs \union {None}]
  <2> DEFINE run == RunJob(pending.room, a.actions)
  <2>1. (\E w \in Workers : job' = [job EXCEPT ![w] = run]) \/ job' = job
    BY <1>1
  <2>2. run \in Jobs
    BY <1>3
  <2> HIDE DEF run
  <2> QED
    BY <1>0, <2>1, <2>2 DEF MotionOK
<1>5. pending' \in {None} \union [room : Rooms, event : Triggers, handled : BOOLEAN,
                                  left : SUBSET setup'.automations]
  BY <1>1, <1>2
<1>6. QueuesOK' /\ WorldOK' /\ RecordOK'
  BY <1>0, <1>2 DEF daemon, shared, world, QueuesOK, WorldOK, RecordOK
<1>7. MotionOK'
  BY <1>0, <1>2, <1>4, <1>5 DEF MotionOK
<1> QED
  BY <1>6, <1>7, MotionParts

\* What a spawned task does next, and what is left of its job.
LEMMA JobSteps ==
  ASSUME TypeOK, NEW w \in Workers, TurnOn(w) \/ TurnOff(w) \/ Delay(w) \/ Run(w)
  PROVE  \E steps \in Seq(StepsOver(LightSends)), left \in Jobs \union {None} : Continues(w, steps, left)
<1>0. RecordOK /\ MotionOK
  BY MotionParts
<1>1. job[w] \in Jobs /\ job[w].room \in Rooms /\ now \in Nat
  BY <1>0 DEF MotionOK, RecordOK, Jobs, TurnOn, TurnOff, Delay, Run, Runs
<1> DEFINE r == job[w].room
<1>2. CASE TurnOn(w)
  <2> DEFINE back == IF job[w].restore THEN << Send(r, LightsOn(None, "Manual")) >> ELSE <<>>
             steps == LightsOnAction(r, job[w].level, "Automation", back)
  <2>1. job[w].level \in Levels
    BY <1>1, <1>2 DEF TurnOn, Jobs
  <2>2. back \in Seq(LightSends)
    <3> DEFINE s == Send(r, LightsOn(None, "Manual"))
    <3>1. s \in LightSends
      BY <1>1, LightSendsType, LightUpdateTypes DEF MaybeLevel, Sources
    <3> HIDE DEF s
    <3>2. << s >> \in Seq(LightSends) /\ <<>> \in Seq(LightSends)
      BY <3>1, ShortSeqs
    <3> QED
      BY <3>2 DEF s
  <2>3. steps \in Seq(StepsOver(LightSends))
    <3> HIDE DEF back
    <3> QED
      BY <1>0, <1>1, <2>1, <2>2, OnActionType
  <2>4. Continues(w, steps, None)
    BY <1>2 DEF TurnOn, Begin
  <2> QED
    BY <2>3, <2>4, Zenon
<1>3. CASE TurnOff(w)
  <2>1. LightsOffAction(r) \in Seq(StepsOver(LightSends)) /\ <<>> \in Seq(StepsOver(LightSends))
    BY <1>0, <1>1, OffActionType, EmptySeq
  <2>2. Continues(w, <<>>, None) \/ Continues(w, LightsOffAction(r), None)
    BY <1>3 DEF TurnOff, Begin
  <2> QED
    BY <2>1, <2>2, Zenon
<1>4. CASE Delay(w) \/ Run(w)
  <2> DEFINE a == NextAction(w)
  <2>1. /\ job[w] \in [do : {"run"}, room : Rooms, at : Nat \union {None}, actions : Seq(Actions) \ {<<>>}]
        /\ a \in Actions
    <3>1. job[w] \in [do : {"run"}, room : Rooms, at : Nat \union {None}, actions : Seq(Actions) \ {<<>>}]
      BY <1>1, <1>4 DEF Delay, Run, Runs, Jobs
    <3>2. job[w].actions \in Seq(Actions) /\ job[w].actions # <<>>
      BY <3>1
    <3> QED
      BY <3>1, <3>2, HeadTailProperties DEF NextAction
  <2>2. CASE Delay(w)
    <3>1. now + a.delay \in Nat
      BY <1>1, <2>1, <2>2 DEF Delay, Delayed, Actions
    <3>2. [job[w] EXCEPT !.at = now + a.delay] \in Jobs
      <4> DEFINE at == now + a.delay
      <4>1. at \in Nat \union {None}
        BY <3>1
      <4> HIDE DEF at
      <4>2. [job[w] EXCEPT !.at = at] \in
              [do : {"run"}, room : Rooms, at : Nat \union {None}, actions : Seq(Actions) \ {<<>>}]
        BY <2>1, <4>1
      <4> QED
        BY <4>2 DEF Jobs, at
    <3>3. Continues(w, <<>>, [job[w] EXCEPT !.at = now + a.delay])
      BY <2>2 DEF Delay
    <3>4. <<>> \in Seq(StepsOver(LightSends))
      BY EmptySeq
    <3> QED
      BY <3>2, <3>3, <3>4, Zenon
  <2>3. CASE Run(w)
    <3> DEFINE steps == IF a.do = "on" THEN LightsOnAction(r, a.level, a.source, <<>>) ELSE LightsOffAction(r)
               left == IF Len(job[w].actions) = 1 THEN None ELSE RunJob(r, Tail(job[w].actions))
    <3>1. steps \in Seq(StepsOver(LightSends))
      <4>1. CASE a.do = "on"
        <5>1. a.level \in Levels /\ a.source \in {"Automation", "Manual"} /\ <<>> \in Seq(LightSends)
          BY <2>1, <4>1, EmptySeq DEF Actions
        <5> QED
          BY <1>0, <1>1, <4>1, <5>1, OnActionType
      <4>2. CASE a.do # "on"
        BY <1>0, <1>1, <4>2, OffActionType
      <4> QED
        BY <4>1, <4>2
    <3>2. left \in Jobs \union {None}
      <4> DEFINE rest == Tail(job[w].actions)
      <4>1. Len(job[w].actions) # 1 => rest \in Seq(Actions) \ {<<>>}
        <5>1. job[w].actions \in Seq(Actions) /\ job[w].actions # <<>>
          BY <2>1
        <5>2. /\ rest \in Seq(Actions) /\ Len(rest) = Len(job[w].actions) - 1
              /\ Len(job[w].actions) \in Nat /\ Len(job[w].actions) # 0
          BY <5>1, HeadTailProperties, LenProperties, EmptySeq
        <5>3. rest = <<>> => Len(rest) = 0
          BY EmptySeq
        <5> QED
          BY <5>2, <5>3
      <4> HIDE DEF rest
      <4> QED
        BY <1>1, <4>1 DEF RunJob, Jobs, rest
    <3>3. Continues(w, steps, left)
      BY <2>3 DEF Run
    <3> QED
      BY <3>1, <3>2, <3>3, Zenon
  <2> QED
    BY <1>4, <2>2, <2>3
<1> QED
  BY <1>2, <1>3, <1>4

LEMMA JobStepType ==
  ASSUME TypeOK, NEW w \in Workers, TurnOn(w) \/ TurnOff(w) \/ Delay(w) \/ Run(w)
  PROVE  TypeOK'
<1>0. QueuesOK /\ WorldOK /\ RecordOK /\ MotionOK
  BY MotionParts
<1>1. PICK steps \in Seq(StepsOver(LightSends)), left \in Jobs \union {None} : Continues(w, steps, left)
  BY JobSteps
<1>2. steps \in Seq(Steps) /\ w \in Tasks
  BY LightSendsType, SeqMonotonic, MotionConstants
<1>3. QueuesOK' /\ WorldOK' /\ RecordOK'
  BY <1>0, <1>1, <1>2 DEF Continues, QueuesOK, WorldOK, RecordOK, world, shared
<1>4. job' \in [Workers -> Jobs \union {None}]
  BY <1>0, <1>1 DEF Continues, MotionOK
<1>5. MotionOK'
  BY <1>0, <1>1, <1>4 DEF Continues, MotionOK
<1> QED
  BY <1>3, <1>5, MotionParts

LEMMA OutsideStepType ==
  ASSUME TypeOK, (\E r \in setup.lived : Presence(r) \/ Resend(r) \/ Touch(r)) \/ LinkLost \/ Tick
  PROVE  TypeOK'
<1>0. QueuesOK /\ WorldOK /\ RecordOK /\ MotionOK /\ DaemonTypeOK
  BY MotionParts, TypeParts
<1>1. CASE \E r \in setup.lived : Presence(r) \/ Resend(r)
  <2>1. PICK r \in Rooms : Presence(r) \/ Resend(r)
    BY <1>0, <1>1, SetupFields
  <2>2. QueuesOK' /\ WorldOK' /\ RecordOK'
    BY <1>0, <2>1 DEF Presence, Resend, daemon, shared, world, QueuesOK, WorldOK, RecordOK
  <2>3. present[r] \in BOOLEAN /\ (~present[r]) \in BOOLEAN
    BY <1>0 DEF MotionOK
  <2>4. \E occupied \in BOOLEAN : Sighted(r, occupied)
    BY <2>1, <2>3 DEF Presence, Resend
  <2>5. sightings' \in Seq(Sighting)
    <3>1. PICK occupied \in BOOLEAN, bright \in BOOLEAN :
            sightings' = IF link # "up" THEN sightings
                         ELSE Append(sightings, [room |-> r, occupied |-> occupied, bright |-> bright])
      BY <2>4 DEF Sighted
    <3> DEFINE m == [room |-> r, occupied |-> occupied, bright |-> bright]
    <3>2. m \in Sighting /\ sightings \in Seq(Sighting)
      BY <1>0 DEF Sighting, MotionOK
    <3>3. sightings' = sightings \/ sightings' = Append(sightings, m)
      BY <3>1
    <3> HIDE DEF m
    <3> QED
      BY <3>2, <3>3, AppendProperties
  <2>6. present' \in [Rooms -> BOOLEAN]
    BY <1>0, <2>1, <2>3 DEF MotionOK, Presence, Resend
  <2>7. spent' \in [motion : Nat, resends : Nat, touches : Nat, outages : Nat]
    BY <1>0, <2>1 DEF MotionOK, Presence, Resend
  <2>8. UNCHANGED <<setup, seen, pending, job, offHandle>>
    BY <2>1 DEF Presence, Resend
  <2>9. MotionOK'
    BY <1>0, <2>5, <2>6, <2>7, <2>8 DEF MotionOK
  <2> QED
    BY <2>2, <2>9, MotionParts
<1>2. CASE \E r \in setup.lived : Touch(r)
  <2>1. PICK r \in Rooms : Touch(r)
    BY <1>0, <1>2, SetupFields
  <2>2. DaemonTypeOK'
    BY <1>0, <2>1, OutsideType DEF Touch
  <2>3. MotionOK'
    BY <1>0, <2>1 DEF MotionOK, Touch
  <2> QED
    BY <2>2, <2>3, MotionParts, TypeParts
<1>3. CASE LinkLost
  <2>1. DaemonTypeOK'
    BY <1>0, <1>3, OutsideType DEF LinkLost
  <2>2. MotionOK'
    BY <1>0, <1>3, EmptySeq DEF MotionOK, LinkLost
  <2> QED
    BY <2>1, <2>2, MotionParts, TypeParts
<1>4. CASE Tick
  <2>1. DaemonTypeOK'
    BY <1>0, <1>4, OutsideType DEF Tick
  <2>2. MotionOK'
    BY <1>0, <1>4 DEF MotionOK, Tick, motion
  <2> QED
    BY <2>1, <2>2, MotionParts, TypeParts
<1> QED
  BY <1>1, <1>2, <1>3, <1>4

\* Every step keeps the types.
LEMMA StepKeepsTypes == TypeOK /\ [Next]_vars => TypeOK'
<1> SUFFICES ASSUME TypeOK, [Next]_vars
             PROVE  TypeOK'
  OBVIOUS
<1>0. DaemonTypeOK /\ MotionOK
  BY MotionParts, TypeParts
<1>m. DaemonTypeOK' /\ UNCHANGED motion => TypeOK'
  BY <1>0, MotionParts, TypeParts DEF MotionOK, motion
<1>1. CASE Actor
  BY <1>0, <1>1, <1>m, ActorType DEF Actor
<1>2. ASSUME NEW t \in Tasks, Step(t)
      PROVE  TypeOK'
  BY <1>0, <1>2, <1>m, TaskStepType DEF Step
<1>3. CASE Loop
  BY <1>0, <1>3, <1>m, HandleReportType, ConnectionType DEF Loop
<1>4. CASE HandleSighting
  BY <1>4, HandleSightingType
<1>5. CASE (\E event \in Triggers : Ignored(event)) \/ MotionDetected \/ MotionCleared
  BY <1>5, EngineTypes
<1>6. CASE Automate
  BY <1>6, AutomateType
<1>7. CASE \E w \in Workers : TurnOn(w) \/ TurnOff(w) \/ Delay(w) \/ Run(w)
  BY <1>7, JobStepType
<1>8. CASE (\E r \in setup.lived : Presence(r) \/ Resend(r) \/ Touch(r)) \/ LinkLost \/ Tick
  BY <1>8, OutsideStepType
<1>9. CASE UNCHANGED vars
  <2>1. UNCHANGED daemon /\ UNCHANGED motion
    BY <1>9 DEF vars
  <2>2. DaemonTypeOK'
    BY <1>0, <2>1 DEF daemon, shared, world, DaemonTypeOK
  <2> QED
    BY <1>m, <2>1, <2>2
<1> QED
  BY <1>1, <1>2, <1>3, <1>4, <1>5, <1>6, <1>7, <1>8, <1>9 DEF Next

\* Whatever the people, the sensors and the broker do, every report, event,
\* timer, job and record is well formed, and no queue exceeds its capacity.
THEOREM TypeCorrect == Spec => []TypeOK
<1> QED
  BY InitType, StepKeepsTypes, PTL DEF Spec

-----------------------------------------------------------------------------
(* Who says what.  The MQTT loop is the only task that tells of occupancy,  *)
(* and a sighting is all it has to do while it does.                        *)

Quiet ==
  LightSends
    \union [do : {"connected"}, up : BOOLEAN]
    \union [do : {"announce"}, event : {MqttConnected}]

OccupancyOf(r) == [from : {"mqtt"}, room : {r}, update : {Occupancy(b) : b \in BOOLEAN}]
LightCommands ==
  [from : Tasks, room : Rooms, update : LightUpdates] \union [from : Tasks, connected : BOOLEAN]
MotionCommands == LightCommands \union UNION {OccupancyOf(r) : r \in Rooms}

\* the loop is about to record what the sensor said, or has and is about to
\* tell of it
Recording(m) == todo["mqtt"] = SightingSteps(m) /\ seen[m.room] = m.occupied
Telling(m)   == todo["mqtt"] = << Occurred(m) >> /\ seen[m.room] = m.occupied

WhoSaysWhat ==
  /\ \A t \in Tasks \ {"mqtt"} : todo[t] \in Seq(StepsOver(LightSends))
  /\ rx \in Seq(MotionCommands)
  /\ \/ todo["mqtt"] \in Seq(Quiet)
     \/ \E m \in Sighting : Recording(m) \/ Telling(m)

-----------------------------------------------------------------------------
(* The record of occupancy.                                                 *)

Occupied(r) == (seen[r] = TRUE)
TrueOccupancy(r) == {c \in OccupancyOf(r) : c.update.occupied = Occupied(r)}

\* the last that the actor has been told of the room's occupancy is so
Recorded(r) == Tells(rx, OccupancyOf(r), TrueOccupancy(r), rooms[r].occupancy = Occupied(r))

OccupancyInv ==
  \A r \in Rooms : Recorded(r) \/ \E m \in Sighting : m.room = r /\ Recording(m)

-----------------------------------------------------------------------------
(* The timers.                                                              *)

\* built-in motion alone, which hears of every event
Plain == ~setup.scheduled /\ setup.automations = {}

MotionOf(r)   == {e \in Events : e.event \in Triggers /\ e.room = r}
DetectedIn(r) == {e \in MotionOf(r) : e.event = "MotionDetected"}

\* the last that the engine has been told of the room, whose sensor sees
\* somebody, is that motion was detected, and then it has no timer
Heard(r) ==
  seen[r] = TRUE => Tells(inbox["automation"], MotionOf(r), DetectedIn(r), offHandle[r] = None)

ToBeTold(r) == \E m \in Sighting : m.room = r /\ (Recording(m) \/ Telling(m))

NoJobs == pending = None /\ \A w \in Workers : job[w] # None => job[w].do # "run"

\* steps that turn a room off, and a task that is about to
Dark(q, r)    == \E i \in 1..Len(q) : q[i].do = "publish" /\ q[i].room = r /\ q[i].power = "OFF"
PutsOut(w, r) == Dark(todo[w], r)
TimerFor(w, r) == job[w] # None /\ job[w].do = "off" /\ job[w].room = r

\* the timer darkens its room, and nothing else darkens it
TimersOnly == \A w \in Workers, r \in Rooms : Darkens(w, r) => offHandle[r] = w

TimerInv ==
  Plain =>
    /\ NoJobs
    /\ ~setup.builtin => \A r \in Rooms : offHandle[r] = None
    /\ \A r \in Rooms : Heard(r) \/ ToBeTold(r)
    /\ TimersOnly

\* the engine loses an event, because it lags behind by more than the bus holds
Lags ==
  \E t \in Tasks : /\ AnnounceStep(t) /\ Heeds("automation", Head(todo[t]).event)
                   /\ Len(inbox["automation"]) = BusCap

-----------------------------------------------------------------------------
(* The look at the room before it is darkened.                              *)

Prompt == setup.prompt /\ setup.automations = {}

\* a sensor's report is on its way to the record
News ==
  \/ sightings # <<>>
  \/ \E m \in Sighting : Recording(m)
  \/ \E i \in 1..Len(rx) : rx[i] \notin LightCommands

\* while news is on its way no timer is over and no task darkens a room; and no
\* task darkens a room that is occupied
Looks ==
  /\ News => \A w \in Workers : /\ job[w] # None /\ job[w].do = "off" => now < job[w].at
                                /\ \A r \in Rooms : ~PutsOut(w, r)
  /\ \A w \in Workers, r \in Rooms : PutsOut(w, r) => ~rooms[r].occupancy

LookInv == Prompt => NoJobs /\ Looks

-----------------------------------------------------------------------------
(* Lemmas on the commands and on the steps.                                 *)

LEMMA CommandKinds ==
  /\ \A r \in Rooms : OccupancyOf(r) \cap LightCommands = {}
  /\ \A r, o \in Rooms : r # o => OccupancyOf(r) \cap OccupancyOf(o) = {}
  /\ \A c \in LightCommands : "room" \in DOMAIN c => c.update \in LightUpdates
  /\ \A r \in Rooms : \A c \in OccupancyOf(r) :
       /\ "room" \in DOMAIN c /\ c.room = r /\ c.from = "mqtt"
       /\ c.update = Occupancy(c.update.occupied) /\ c.update.occupied \in BOOLEAN
  /\ LightCommands \subseteq MotionCommands
  /\ \A r \in Rooms : OccupancyOf(r) \subseteq MotionCommands
<1>1. \A r \in Rooms : \A c \in OccupancyOf(r) :
        /\ "room" \in DOMAIN c /\ c.room = r /\ c.from = "mqtt"
        /\ c.update = Occupancy(c.update.occupied) /\ c.update.occupied \in BOOLEAN
  BY DEF OccupancyOf, Occupancy
<1>2. \A c \in LightCommands : "room" \in DOMAIN c => c.update \in LightUpdates
  <2>1. \A c \in [from : Tasks, connected : BOOLEAN] : DOMAIN c = {"from", "connected"}
    OBVIOUS
  <2> QED
    BY <2>1 DEF LightCommands
<1>3. \A b : Occupancy(b) \notin LightUpdates
  BY DEF Occupancy, LightUpdates
<1>4. \A r \in Rooms : OccupancyOf(r) \cap LightCommands = {}
  BY <1>1, <1>2, <1>3
<1> QED
  BY <1>1, <1>2, <1>4 DEF MotionCommands

\* Only an update of the occupancy changes it.
LEMMA LightUpdateKeepsOccupancy ==
  ASSUME NEW room \in Room, NEW u \in LightUpdates, NEW t \in Nat
  PROVE  ApplyUpdate(room, u, t).occupancy = room.occupancy
<1> USE DEF ApplyUpdate
<1>0. u \in Updates /\ u.update # "Occupancy"
  BY DEF LightUpdates
<1>1. CASE u.update \in {"LightsOn", "LightsOnWithPush"}
  BY <1>1 DEF Room, ApplyLightsOn, ApplyLightsOnWithPush
<1>2. CASE u.update \in {"LightsOff", "NightMode"}
  BY <1>2 DEF Room, ApplyLightsOff, ApplyNightMode
<1>3. CASE u.update \in {"Alarm", "CircadianPause", "ManualOverrideTtl"}
  BY <1>3 DEF Room
<1>4. CASE u.update \in {"JehaPush", "ExternalChange"}
  BY <1>4 DEF Room, ApplyJehaPush, ApplyExternalChange
<1>5. CASE u.update = "RestoreLights"
  BY <1>5 DEF Room, ApplyRestoreLights
<1> QED
  BY <1>0, <1>1, <1>2, <1>3, <1>4, <1>5, UpdateKinds

LEMMA OccupancyApplied ==
  ASSUME NEW room \in Room, NEW b \in BOOLEAN, NEW t \in Nat
  PROVE  ApplyUpdate(room, Occupancy(b), t).occupancy = b
BY DEF ApplyUpdate, Occupancy, Room

\* What a step of a task adds to the channel.
Says(C) == rx' = rx \/ \E c \in C : rx' = Append(rx, c)

LEMMA SendStepSays ==
  ASSUME NEW t \in Tasks, SendStep(t),
         Head(todo[t]) \in LightSends \/ Head(todo[t]) \in [do : {"connected"}, up : BOOLEAN]
  PROVE  Says(LightCommands)
<1> DEFINE s == Head(todo[t])
           c == IF s.do = "send" THEN [from |-> t, room |-> s.room, update |-> s.update]
                ELSE [from |-> t, connected |-> s.up]
<1>1. rx' = Append(rx, c)
  BY DEF SendStep
<1>2. c \in LightCommands
  <2>1. CASE s \in LightSends
    BY <2>1 DEF LightSends, LightCommands
  <2>2. CASE s \in [do : {"connected"}, up : BOOLEAN]
    BY <2>2 DEF LightCommands
  <2> QED
    BY <2>1, <2>2
<1> HIDE DEF c
<1> QED
  BY <1>1, <1>2 DEF Says

\* A task other than the loop tells of nothing but lights.
LEMMA WorkerStep ==
  ASSUME TypeOK, WhoSaysWhat, NEW t \in Tasks \ {"mqtt"}, TaskStep(t)
  PROVE  /\ \A u \in Tasks \ {"mqtt"} : todo'[u] \in Seq(StepsOver(LightSends))
         /\ \A u \in Tasks \ {t} : todo'[u] = todo[u]
         /\ Says(LightCommands)
         /\ UNCHANGED <<shared, inbox, now>>
<1>1. todo \in [Tasks -> Seq(Steps)] /\ todo[t] \in Seq(StepsOver(LightSends))
  BY MotionParts DEF QueuesOK, WhoSaysWhat
<1>2. /\ todo'[t] \in Seq(StepsOver(LightSends))
      /\ \A u \in Tasks \ {t} : todo'[u] = todo[u]
  BY <1>1, LightSendsType, StepKeepsVocabulary
<1>3. todo[t] # <<>>
  BY DEF TaskStep, SendStep, AnnounceStep, PublishStep, PublishQueuedStep, PublishTimeoutStep, HeadIs
<1>4. Head(todo[t]) \in StepsOver(LightSends)
  BY <1>1, <1>3, HeadTailProperties
<1>5. Head(todo[t]).do \in {"send", "publish"} /\ (Head(todo[t]).do = "send" => Head(todo[t]) \in LightSends)
  BY <1>4, PublishFields DEF StepsOver, LightSends
<1>6. Says(LightCommands) /\ UNCHANGED <<shared, inbox, now>>
  <2>1. CASE SendStep(t)
    <3>1. Head(todo[t]) \in LightSends
      BY <1>5, <2>1 DEF SendStep, HeadIs
    <3> QED
      BY <2>1, <3>1, SendStepSays DEF SendStep
  <2>2. CASE ~SendStep(t)
    BY <1>5, <2>2 DEF TaskStep, AnnounceStep, PublishStep, PublishQueuedStep, PublishTimeoutStep,
                      HeadIs, Says
  <2> QED
    BY <2>1, <2>2
<1>7. \A u \in Tasks \ {"mqtt"} : todo'[u] \in Seq(StepsOver(LightSends))
  BY <1>2 DEF WhoSaysWhat
<1> QED
  BY <1>2, <1>6, <1>7

\* What is left when the first of one or two steps has been taken.
LEMMA ContinueOne ==
  ASSUME TypeOK, NEW t \in Tasks, NEW s, todo[t] = << s >>, Continue(t, <<>>)
  PROVE  todo'[t] = <<>> /\ Head(todo[t]) = s
BY MotionParts DEF Continue, QueuesOK

LEMMA ContinueTwo ==
  ASSUME TypeOK, NEW t \in Tasks, NEW s \in Steps, NEW a \in Steps, todo[t] = << s, a >>, Continue(t, <<>>)
  PROVE  todo'[t] = << a >> /\ Head(todo[t]) = s
<1>1. Tail(todo[t]) = << a >> /\ Head(todo[t]) = s
  OBVIOUS
<1>2. << a >> \in Seq(Steps)
  OBVIOUS
<1>3. todo'[t] = <<>> \o << a >>
  BY <1>1, MotionParts DEF Continue, QueuesOK
<1> QED
  BY <1>1, <1>2, <1>3

\* The loop, when it is not telling of a sighting.
LEMMA QuietStep ==
  ASSUME TypeOK, todo["mqtt"] \in Seq(Quiet), TaskStep("mqtt")
  PROVE  /\ todo'["mqtt"] \in Seq(Quiet)
         /\ Says(LightCommands)
         /\ inbox'["automation"] = inbox["automation"]
         /\ UNCHANGED <<shared, now>>
<1> DEFINE s == Head(todo["mqtt"])
<1>1. todo["mqtt"] # <<>>
  BY DEF TaskStep, SendStep, AnnounceStep, PublishStep, PublishQueuedStep, PublishTimeoutStep, HeadIs
<1>2. s \in Quiet /\ Tail(todo["mqtt"]) \in Seq(Quiet)
  BY <1>1, HeadTailProperties
<1>3. s.do \in {"send", "connected", "announce"}
  BY <1>2 DEF Quiet, LightSends
<1>4. SendStep("mqtt") \/ AnnounceStep("mqtt")
  BY <1>3 DEF TaskStep, PublishStep, PublishQueuedStep, PublishTimeoutStep, HeadIs
<1>5. todo'["mqtt"] = Tail(todo["mqtt"])
  BY <1>2, <1>4, MotionParts, MotionConstants, ConcatEmptySeq DEF SendStep, AnnounceStep, Continue, QueuesOK
<1>6. CASE SendStep("mqtt")
  <2>1. s \in LightSends \/ s \in [do : {"connected"}, up : BOOLEAN]
    BY <1>2, <1>6 DEF Quiet, SendStep, HeadIs
  <2> QED
    BY <1>2, <1>5, <1>6, <2>1, SendStepSays, MotionConstants DEF SendStep
<1>7. CASE AnnounceStep("mqtt")
  <2>1. s.event = MqttConnected
    BY <1>2, <1>7 DEF Quiet, LightSends, AnnounceStep, HeadIs
  <2>2. ~Heeds("automation", MqttConnected)
    BY DEF Heeds, MqttConnected
  <2>3. inbox'["automation"] = inbox["automation"]
    BY <1>7, <2>1, <2>2, MotionConstants DEF AnnounceStep, Broadcast
  <2> QED
    BY <1>2, <1>5, <1>7, <2>3 DEF AnnounceStep, Says
<1> QED
  BY <1>4, <1>6, <1>7

\* The loop, when it records what a sensor said, and when it tells of it.
LEMMA RecordingStep ==
  ASSUME TypeOK, NEW m \in Sighting, todo["mqtt"] = SightingSteps(m), TaskStep("mqtt")
  PROVE  /\ todo'["mqtt"] = << Occurred(m) >>
         /\ rx' = Append(rx, [from |-> "mqtt", room |-> m.room, update |-> Occupancy(m.occupied)])
         /\ UNCHANGED <<shared, inbox, now>>
<1> DEFINE s == Send(m.room, Occupancy(m.occupied))
           a == Occurred(m)
<1>1. s \in Steps /\ a \in Steps /\ s.do = "send" /\ s.room = m.room /\ s.update = Occupancy(m.occupied)
  BY OccurredType DEF Steps, Send
<1>2. todo["mqtt"] = << s, a >>
  BY DEF SightingSteps
<1> HIDE DEF s, a
<1>3. Head(todo["mqtt"]) = s
  BY <1>2
<1>4. SendStep("mqtt")
  BY <1>1, <1>3 DEF TaskStep, AnnounceStep, PublishStep, PublishQueuedStep, PublishTimeoutStep, HeadIs
<1>5. todo'["mqtt"] = << a >>
  BY <1>1, <1>2, <1>4, ContinueTwo, MotionConstants DEF SendStep
<1> QED
  BY <1>1, <1>3, <1>4, <1>5 DEF SendStep, a

LEMMA TellingStep ==
  ASSUME TypeOK, NEW m \in Sighting, todo["mqtt"] = << Occurred(m) >>, TaskStep("mqtt")
  PROVE  /\ todo'["mqtt"] = <<>>
         /\ AnnounceStep("mqtt") /\ Head(todo["mqtt"]) = Occurred(m)
         /\ UNCHANGED <<shared, rx, now>>
<1> DEFINE a == Occurred(m)
<1>1. a.do = "announce" /\ todo["mqtt"] = << a >>
  BY OccurredType
<1> HIDE DEF a
<1>2. Head(todo["mqtt"]) = a
  BY <1>1
<1>3. AnnounceStep("mqtt")
  BY <1>1, <1>2 DEF TaskStep, SendStep, PublishStep, PublishQueuedStep, PublishTimeoutStep, HeadIs
<1>4. todo'["mqtt"] = <<>>
  BY <1>1, <1>3, ContinueOne, MotionConstants DEF AnnounceStep
<1> QED
  BY <1>2, <1>3, <1>4 DEF AnnounceStep, a

\* What the loop has to do tells which sighting it is busy with, if any.
LEMMA SightingShapes ==
  ASSUME NEW m \in Sighting, NEW n \in Sighting
  PROVE  /\ SightingSteps(m) # <<>> /\ << Occurred(m) >> # <<>>
         /\ SightingSteps(m) \notin Seq(Quiet) /\ << Occurred(m) >> \notin Seq(Quiet)
         /\ SightingSteps(m) # << Occurred(n) >>
         /\ SightingSteps(m) = SightingSteps(n) => m.room = n.room
         /\ << Occurred(m) >> = << Occurred(n) >> => m.room = n.room
<1>1. ASSUME NEW k \in Sighting
      PROVE  Occurred(k) \notin Quiet /\ Send(k.room, Occupancy(k.occupied)) \notin Quiet
  <2>1. Occurred(k) \notin Quiet
    BY DEF Quiet, Occurred, Announce, LightSends, MqttConnected
  <2>2. Send(k.room, Occupancy(k.occupied)) \notin Quiet
    BY DEF Quiet, Send, Occupancy, LightSends, LightUpdates
  <2> QED
    BY <2>1, <2>2
<1>2. /\ Occurred(m) = Occurred(n) => m.room = n.room
      /\ Send(m.room, Occupancy(m.occupied)) = Send(n.room, Occupancy(n.occupied)) => m.room = n.room
  <2>1. Occurred(m).event.room = m.room /\ Occurred(n).event.room = n.room
    BY DEF Occurred, Announce
  <2>2. /\ Send(m.room, Occupancy(m.occupied)).room = m.room
        /\ Send(n.room, Occupancy(n.occupied)).room = n.room
    BY DEF Send
  <2> QED
    BY <2>1, <2>2
<1> DEFINE a == Occurred(m)
           b == Occurred(n)
           s == Send(m.room, Occupancy(m.occupied))
           t == Send(n.room, Occupancy(n.occupied))
<1>3. /\ a \notin Quiet /\ b \notin Quiet /\ s \notin Quiet
      /\ a = b => m.room = n.room
      /\ s = t => m.room = n.room
  BY <1>1, <1>2
<1>4. SightingSteps(m) = << s, a >> /\ SightingSteps(n) = << t, b >>
  BY DEF SightingSteps
<1> HIDE DEF a, b, s, t
<1>5. << s, a >> \notin Seq(Quiet) /\ << a >> \notin Seq(Quiet)
  <2>1. << s, a >>[1] = s /\ << a >>[1] = a
    OBVIOUS
  <2>2. \A q \in Seq(Quiet) : Len(q) > 0 => q[1] \in Quiet
    OBVIOUS
  <2>3. Len(<< s, a >>) > 0 /\ Len(<< a >>) > 0
    OBVIOUS
  <2> QED
    BY <1>3, <2>1, <2>2, <2>3
<1>6. << s, a >> # << b >>
  <2>1. Len(<< s, a >>) = 2 /\ Len(<< b >>) = 1
    OBVIOUS
  <2> QED
    BY <2>1
<1>7. (<< s, a >> = << t, b >> => s = t) /\ (<< a >> = << b >> => a = b)
  <2>1. << s, a >>[1] = s /\ << t, b >>[1] = t /\ << a >>[1] = a /\ << b >>[1] = b
    OBVIOUS
  <2> QED
    BY <2>1
<1> QED
  BY <1>3, <1>4, <1>5, <1>6, <1>7 DEF a, b

\* What a report of a light makes the loop do is quiet.
LEMMA ReportIsQuiet ==
  ASSUME TypeOK, HandleReport
  PROVE  \E steps \in Seq(Quiet) : todo' = [todo EXCEPT !["mqtt"] = steps]
<1> DEFINE m == Head(reports)
           room == rooms[m.room]
           external == LooksExternal(m, room) /\ ~Deduplicated(m.room)
           off == Send(m.room, LightsOff)
           lit == Send(m.room, LightsOn(m.level, room.source))
           ext == Send(m.room, ExternalChange(ExternalTtl))
<1>0. WorldOK /\ RecordOK
  BY MotionParts
<1>1. m \in Report /\ m.room \in Rooms /\ room \in Room
  BY <1>0, HeadReport DEF HandleReport, RecordOK
<1>2. off \in Quiet /\ lit \in Quiet /\ ext \in Quiet
  <2>1. m.level \in MaybeLevel /\ room.source \in Sources
    BY <1>1 DEF Report, Room, MaybeLevel
  <2>2. ExternalTtl \in Nat
    BY DaemonAssumption DEF DaemonAssumption
  <2> QED
    BY <1>1, <2>1, <2>2, LightSendsType, LightUpdateTypes DEF Quiet
<1>3. todo' = [todo EXCEPT !["mqtt"] = ReportSteps(m, room, external)]
  BY DEF HandleReport, LoopDoes
<1>4. ReportSteps(m, room, external) =
        IF ~m.on THEN << off >> ELSE << lit >> \o IF external THEN << ext >> ELSE <<>>
  BY DEF ReportSteps
<1> HIDE DEF off, lit, ext, external
<1>5. << off >> \in Seq(Quiet) /\ << lit >> \in Seq(Quiet) /\ << ext >> \in Seq(Quiet) /\ <<>> \in Seq(Quiet)
  BY <1>2, ShortSeqs
<1>6. << lit >> \o << ext >> \in Seq(Quiet) /\ << lit >> \o <<>> \in Seq(Quiet)
  BY <1>5, ConcatProperties
<1>7. ReportSteps(m, room, external) \in Seq(Quiet)
  BY <1>4, <1>5, <1>6
<1> QED
  BY <1>3, <1>7

\* The loop, between two sightings.
LEMMA LoopIsQuiet ==
  ASSUME TypeOK, Loop
  PROVE  /\ \/ todo'["mqtt"] = todo["mqtt"]
            \/ todo["mqtt"] = <<>> /\ todo'["mqtt"] \in Seq(Quiet)
         /\ \A t \in Tasks \ {"mqtt"} : todo'[t] = todo[t]
         /\ UNCHANGED <<shared, rx, inbox, now, motion>>
<1>1. UNCHANGED <<shared, rx, inbox, now, motion>>
  BY DEF Loop, HandleReport, PollError, ConnAck, DeliverQueued
<1>2. todo \in [Tasks -> Seq(Steps)]
  BY MotionParts DEF QueuesOK
<1>3. CASE DeliverQueued
  BY <1>1, <1>3 DEF DeliverQueued
<1>4. CASE HandleReport \/ PollError \/ ConnAck
  <2>1. todo["mqtt"] = <<>>
    BY <1>4 DEF HandleReport, PollError, ConnAck, LoopIdle
  <2>2. PICK steps \in Seq(Quiet) : todo' = [todo EXCEPT !["mqtt"] = steps]
    <3>1. CASE HandleReport
      BY <3>1, ReportIsQuiet
    <3>2. CASE PollError \/ ConnAck
      <4> DEFINE a == Announce(MqttConnected)
                 c == SendConnected(TRUE)
                 d == SendConnected(FALSE)
      <4>1. a \in Quiet /\ c \in Quiet /\ d \in Quiet
        BY DEF Quiet, Announce, SendConnected
      <4>2. todo' = [todo EXCEPT !["mqtt"] = << d >>] \/ todo' = [todo EXCEPT !["mqtt"] = << a, c >>]
        BY <3>2 DEF PollError, ConnAck, LoopDoes
      <4> HIDE DEF a, c, d
      <4>3. << d >> \in Seq(Quiet) /\ << a, c >> \in Seq(Quiet)
        BY <4>1, ShortSeqs
      <4> QED
        BY <4>2, <4>3, Zenon
    <3> QED
      BY <1>4, <3>1, <3>2
  <2> QED
    BY <1>1, <1>2, <2>1, <2>2, MotionConstants
<1> QED
  BY <1>3, <1>4 DEF Loop

\* The abort of a timer concerns the timer.
LEMMA AbortConcerns ==
  ASSUME TypeOK, NEW r \in Rooms, Abort(r)
  PROVE  /\ todo'["mqtt"] = todo["mqtt"]
         /\ \A t \in Tasks : todo'[t] = IF t = offHandle[r] THEN <<>> ELSE todo[t]
BY MotionParts, MotionConstants DEF Abort, MotionOK

-----------------------------------------------------------------------------
(* Who says what: the invariant.                                            *)

LEMMA InitWho == Init => WhoSaysWhat
<1> SUFFICES ASSUME Init PROVE WhoSaysWhat
  OBVIOUS
<1>1. rx = <<>> /\ todo = [t \in Tasks |-> <<>>]
  BY DEF Init, DaemonInit
<1> QED
  BY <1>1, MotionConstants, EmptySeq DEF WhoSaysWhat

\* What the loop has to do stays what it was.
LEMMA LoopStays ==
  ASSUME WhoSaysWhat, todo'["mqtt"] = todo["mqtt"], UNCHANGED <<rx, seen>>,
         \A t \in Tasks \ {"mqtt"} : todo'[t] \in Seq(StepsOver(LightSends))
  PROVE  WhoSaysWhat'
BY DEF WhoSaysWhat, Recording, Telling

LEMMA SaysKeepsCommands ==
  ASSUME rx \in Seq(MotionCommands), Says(LightCommands)
  PROVE  rx' \in Seq(MotionCommands)
BY CommandKinds, AppendProperties DEF Says

LEMMA TasksKeepWho ==
  ASSUME TypeOK, WhoSaysWhat, NEW t \in Tasks, TaskStep(t), UNCHANGED motion
  PROVE  WhoSaysWhat'
<1>s. seen' = seen /\ rx \in Seq(MotionCommands)
  BY DEF motion, WhoSaysWhat
<1>1. CASE t # "mqtt"
  <2>1. todo'["mqtt"] = todo["mqtt"] /\ rx' \in Seq(MotionCommands)
    BY <1>1, <1>s, WorkerStep, MotionConstants, SaysKeepsCommands
  <2> QED
    BY <1>1, <1>s, <2>1, WorkerStep DEF WhoSaysWhat, Recording, Telling
<1>2. CASE t = "mqtt"
  <2>1. \A u \in Tasks \ {"mqtt"} : todo'[u] \in Seq(StepsOver(LightSends))
    <3>1. \A u \in Tasks \ {"mqtt"} : todo'[u] = todo[u]
      BY <1>2, MotionParts, MotionConstants, StepKeepsVocabulary, Vocabulary DEF QueuesOK
    <3> QED
      BY <3>1 DEF WhoSaysWhat
  <2>2. CASE todo["mqtt"] \in Seq(Quiet)
    BY <1>2, <1>s, <2>1, <2>2, QuietStep, SaysKeepsCommands DEF WhoSaysWhat
  <2>3. ASSUME NEW m \in Sighting, Recording(m)
        PROVE  WhoSaysWhat'
    <3>1. /\ todo'["mqtt"] = << Occurred(m) >>
          /\ rx' = Append(rx, [from |-> "mqtt", room |-> m.room, update |-> Occupancy(m.occupied)])
      BY <1>2, <2>3, RecordingStep DEF Recording
    <3>2. [from |-> "mqtt", room |-> m.room, update |-> Occupancy(m.occupied)] \in MotionCommands
      BY CommandKinds DEF OccupancyOf, Sighting
    <3>3. rx' \in Seq(MotionCommands)
      BY <1>s, <3>1, <3>2, AppendProperties
    <3>4. Telling(m)'
      BY <1>s, <2>3, <3>1 DEF Recording, Telling
    <3> QED
      BY <2>1, <3>3, <3>4 DEF WhoSaysWhat
  <2>4. ASSUME NEW m \in Sighting, Telling(m)
        PROVE  WhoSaysWhat'
    BY <1>2, <1>s, <2>1, <2>4, TellingStep, EmptySeq DEF WhoSaysWhat, Telling
  <2> QED
    BY <2>2, <2>3, <2>4 DEF WhoSaysWhat
<1> QED
  BY <1>1, <1>2

\* What the loop puts down for a sighting.
LEMMA SightingPutsDown ==
  ASSUME TypeOK, HandleSighting
  PROVE  LET m == Head(sightings) IN
         /\ m \in Sighting /\ todo["mqtt"] = <<>>
         /\ \A t \in Tasks \ {"mqtt"} : todo'[t] = todo[t]
         /\ seen' = [seen EXCEPT ![m.room] = m.occupied] /\ seen'[m.room] = m.occupied
         /\ \/ seen'[m.room] = seen[m.room] /\ todo'["mqtt"] = <<>>
            \/ todo'["mqtt"] = SightingSteps(m)
         /\ UNCHANGED <<shared, rx, inbox, now, setup, pending, job, offHandle>>
<1> DEFINE m == Head(sightings)
<1>1. m \in Sighting /\ todo \in [Tasks -> Seq(Steps)] /\ seen \in [Rooms -> BOOLEAN \union {None}]
  BY MotionParts, HeadTailProperties DEF MotionOK, QueuesOK, HandleSighting
<1>2. m.room \in Rooms
  BY <1>1 DEF Sighting
<1>3. /\ seen' = [seen EXCEPT ![m.room] = m.occupied]
      /\ todo' = [todo EXCEPT !["mqtt"] = IF seen[m.room] = m.occupied THEN <<>> ELSE SightingSteps(m)]
      /\ todo["mqtt"] = <<>>
      /\ UNCHANGED <<shared, rx, inbox, now, setup, pending, job, offHandle>>
  BY DEF HandleSighting, SightingHandled, LoopDoes, LoopIdle
<1> HIDE DEF m
<1> QED
  BY <1>1, <1>2, <1>3, MotionConstants DEF m

LEMMA StepKeepsWho == TypeOK /\ WhoSaysWhat /\ [Next]_vars => WhoSaysWhat'
<1> SUFFICES ASSUME TypeOK, WhoSaysWhat, [Next]_vars
             PROVE  WhoSaysWhat'
  OBVIOUS
<1>0. todo \in [Tasks -> Seq(Steps)] /\ rx \in Seq(MotionCommands)
  BY MotionParts DEF QueuesOK, WhoSaysWhat
<1>t. \A t \in Tasks \ {"mqtt"} : todo[t] \in Seq(StepsOver(LightSends))
  BY DEF WhoSaysWhat
<1>u. UNCHANGED <<todo, rx, seen>> => WhoSaysWhat'
  BY <1>t, LoopStays
<1>1. CASE Actor
  <2>1. rx # <<>> /\ rx' = Tail(rx) /\ UNCHANGED <<todo, seen>>
    BY <1>1 DEF Actor, ApplyRoomUpdate, ApplyConnected, motion
  <2>2. rx' \in Seq(MotionCommands)
    BY <1>0, <2>1, HeadTailProperties
  <2> QED
    BY <2>1, <2>2 DEF WhoSaysWhat, Recording, Telling
<1>2. ASSUME NEW t \in Tasks, Step(t)
      PROVE  WhoSaysWhat'
  BY <1>2, TasksKeepWho DEF Step
<1>3. CASE Loop
  <2>1. UNCHANGED <<rx, seen>>
    BY <1>3, LoopIsQuiet DEF motion
  <2>2. \A t \in Tasks \ {"mqtt"} : todo'[t] \in Seq(StepsOver(LightSends))
    BY <1>3, <1>t, LoopIsQuiet
  <2>3. CASE todo'["mqtt"] = todo["mqtt"]
    BY <2>1, <2>2, <2>3, LoopStays
  <2>4. CASE todo'["mqtt"] \in Seq(Quiet)
    BY <1>0, <2>1, <2>2, <2>4 DEF WhoSaysWhat
  <2> QED
    BY <1>3, <2>3, <2>4, LoopIsQuiet
<1>4. CASE HandleSighting
  <2>1. PICK m \in Sighting : m = Head(sightings)
    BY <1>4, SightingPutsDown
  <2>2. /\ rx' = rx /\ seen'[m.room] = m.occupied
        /\ \A t \in Tasks \ {"mqtt"} : todo'[t] = todo[t]
        /\ todo'["mqtt"] = <<>> \/ todo'["mqtt"] = SightingSteps(m)
    BY <1>4, <2>1, SightingPutsDown
  <2>3. todo'["mqtt"] = <<>> \/ Recording(m)'
    BY <2>2 DEF Recording
  <2>4. \A t \in Tasks \ {"mqtt"} : todo'[t] \in Seq(StepsOver(LightSends))
    BY <1>t, <2>2
  <2> QED
    BY <1>0, <2>2, <2>3, <2>4, EmptySeq DEF WhoSaysWhat
<1>5. CASE (\E event \in Triggers : Ignored(event)) \/ Automate
  BY <1>5, <1>u DEF Ignored, Automate, daemon
<1>6. CASE MotionDetected \/ MotionCleared
  <2>1. PICK r \in Rooms : Abort(r)
    <3>1. /\ Takes("MotionDetected") \/ Takes("MotionCleared")
          /\ Abort(Head(inbox["automation"]).room)
      BY <1>6 DEF MotionDetected, MotionCleared
    <3> QED
      BY <3>1, TakesType, MotionParts DEF Triggers
  <2>a. /\ todo'["mqtt"] = todo["mqtt"]
        /\ \A t \in Tasks : todo'[t] = IF t = offHandle[r] THEN <<>> ELSE todo[t]
    BY <2>1, AbortConcerns
  <2>2. ASSUME NEW t \in Tasks \ {"mqtt"}
        PROVE  todo'[t] \in Seq(StepsOver(LightSends))
    <3>1. todo'[t] = <<>> \/ todo'[t] = todo[t]
      BY <2>a
    <3>2. <<>> \in Seq(StepsOver(LightSends))
      BY EmptySeq
    <3> QED
      BY <1>t, <3>1, <3>2
  <2>3. UNCHANGED <<rx, seen>>
    BY <1>6 DEF MotionDetected, MotionCleared
  <2> QED
    BY <2>a, <2>2, <2>3, LoopStays
<1>7. ASSUME NEW w \in Workers, TurnOn(w) \/ TurnOff(w) \/ Delay(w) \/ Run(w)
      PROVE  WhoSaysWhat'
  <2>1. PICK steps \in Seq(StepsOver(LightSends)), left \in Jobs \union {None} : Continues(w, steps, left)
    BY <1>7, JobSteps
  <2>2. todo' = [todo EXCEPT ![w] = steps] /\ UNCHANGED <<rx, seen>>
    BY <2>1 DEF Continues
  <2>3. todo'["mqtt"] = todo["mqtt"] /\ \A t \in Tasks : todo'[t] = todo[t] \/ todo'[t] = steps
    BY <1>0, <2>2, MotionConstants
  <2> QED
    BY <1>t, <2>2, <2>3, LoopStays
<1>8. CASE (\E r \in setup.lived : Presence(r) \/ Resend(r) \/ Touch(r)) \/ LinkLost \/ Tick
  BY <1>8, <1>u DEF Presence, Resend, Touch, TouchLight, LinkLost, LoseLink, Tick, PassTime, Elapse,
                    daemon, motion
<1>9. CASE UNCHANGED vars
  BY <1>9, <1>u DEF vars, daemon, motion
<1> QED
  BY <1>1, <1>2, <1>3, <1>4, <1>5, <1>6, <1>7, <1>8, <1>9 DEF Next

-----------------------------------------------------------------------------
(* The record of occupancy: the invariant.                                  *)

LEMMA InitOccupancy == Init => OccupancyInv
<1> SUFFICES ASSUME Init, NEW r \in Rooms PROVE Recorded(r)
  BY DEF OccupancyInv
<1>1. rx = <<>> /\ seen[r] = None /\ None \notin BOOLEAN
  BY MotionAssumption DEF Init, DaemonInit, MotionAssumption
<1>2. rooms[r].occupancy = FALSE
  <2>1. rooms[r] \in {Start(name) : name \in AllStarts}
    BY DEF Init, DaemonInit
  <2>2. \A name \in AllStarts : Start(name).occupancy = FALSE
    BY DEF Start, AllStarts, DarkRoom, LitRoom, DefaultRoom
  <2> QED
    BY <2>1, <2>2
<1>3. Occupied(r) = FALSE
  BY <1>1 DEF Occupied
<1>4. rooms[r].occupancy = Occupied(r)
  BY <1>2, <1>3
<1> QED
  BY <1>1, <1>4, EmptyTells DEF Recorded

\* Nothing that is said of lights, and no sighting of another room, bears on
\* what was recorded.
LEMMA RecordedStays ==
  ASSUME WhoSaysWhat, NEW r \in Rooms, Recorded(r), Says(LightCommands),
         rooms'[r].occupancy = rooms[r].occupancy, seen'[r] = seen[r]
  PROVE  Recorded(r)'
<1>1. rx \in Seq(MotionCommands) /\ LightCommands \subseteq MotionCommands
  BY CommandKinds DEF WhoSaysWhat
<1>2. TrueOccupancy(r)' = TrueOccupancy(r) /\ Occupied(r)' = Occupied(r)
  BY DEF TrueOccupancy, Occupied
<1>3. CASE rx' = rx
  BY <1>2, <1>3 DEF Recorded
<1>4. ASSUME NEW c \in LightCommands, rx' = Append(rx, c)
      PROVE  Recorded(r)'
  <2>1. c \notin OccupancyOf(r) /\ c \in MotionCommands
    BY <1>1, CommandKinds
  <2>2. Tells(Append(rx, c), OccupancyOf(r), TrueOccupancy(r), rooms[r].occupancy = Occupied(r))
    BY <1>1, <2>1, TellsAppend DEF Recorded
  <2> QED
    BY <1>2, <1>4, <2>2 DEF Recorded
<1> QED
  BY <1>3, <1>4 DEF Says

\* The actor makes the room what it was told.
LEMMA ActorRecords ==
  ASSUME TypeOK, WhoSaysWhat, ApplyRoomUpdate \/ ApplyConnected, seen' = seen,
         NEW r \in Rooms, Recorded(r)
  PROVE  Recorded(r)'
<1> DEFINE c == Head(rx)
<1>0. RecordOK /\ QueuesOK
  BY MotionParts
<1>1. /\ rx \in Seq(MotionCommands) /\ rx # <<>> /\ c \in MotionCommands
      /\ rx' = Tail(rx) /\ rooms[r] \in Room /\ now \in Nat
  BY <1>0, HeadTailProperties DEF WhoSaysWhat, ApplyRoomUpdate, ApplyConnected, RecordOK
<1>2. TrueOccupancy(r)' = TrueOccupancy(r) /\ Occupied(r)' = Occupied(r)
  BY DEF TrueOccupancy, Occupied
<1>3. CASE c \in OccupancyOf(r)
  <2>1. c.room = r /\ c.update = Occupancy(c.update.occupied) /\ c.update.occupied \in BOOLEAN
        /\ "room" \in DOMAIN c
    BY <1>3, CommandKinds
  <2>2. ApplyRoomUpdate
    <3>1. "connected" \notin DOMAIN c
      BY <1>3 DEF OccupancyOf
    <3> QED
      BY <3>1 DEF ApplyConnected
  <2>3. rooms'[r].occupancy = c.update.occupied
    <3>1. rooms' = [rooms EXCEPT ![r] = ApplyUpdate(rooms[r], c.update, now)]
      BY <2>1, <2>2 DEF ApplyRoomUpdate
    <3>2. rooms'[r] = ApplyUpdate(rooms[r], Occupancy(c.update.occupied), now)
      BY <1>0, <2>1, <3>1 DEF RecordOK
    <3> QED
      BY <1>1, <2>1, <3>2, OccupancyApplied
  <2>4. c \in TrueOccupancy(r) => rooms'[r].occupancy = Occupied(r)'
    BY <1>2, <2>3 DEF TrueOccupancy
  <2>5. Tells(Tail(rx), OccupancyOf(r), TrueOccupancy(r), rooms'[r].occupancy = Occupied(r)')
    BY <1>1, <1>3, <2>4, TellsTail DEF Recorded
  <2> QED
    BY <1>1, <1>2, <2>5 DEF Recorded
<1>4. CASE c \notin OccupancyOf(r)
  <2>1. rooms'[r].occupancy = rooms[r].occupancy
    <3>1. CASE ApplyConnected
      BY <3>1 DEF ApplyConnected
    <3>2. CASE ApplyRoomUpdate /\ c.room # r
      BY <1>0, <3>2, HeadCommand DEF ApplyRoomUpdate, RecordOK
    <3>3. CASE ApplyRoomUpdate /\ c.room = r
      <4>1. c \in LightCommands
        <5>1. \A o \in Rooms : c \in OccupancyOf(o) => o = r
          BY <3>3, CommandKinds
        <5> QED
          BY <1>1, <1>4, <5>1 DEF MotionCommands
      <4>2. c.update \in LightUpdates
        BY <3>3, <4>1, CommandKinds DEF ApplyRoomUpdate
      <4>3. rooms'[r] = ApplyUpdate(rooms[r], c.update, now)
        BY <1>0, <3>3 DEF ApplyRoomUpdate, RecordOK
      <4> QED
        BY <1>1, <4>2, <4>3, LightUpdateKeepsOccupancy
    <3> QED
      BY <3>1, <3>2, <3>3
  <2>2. Tells(Tail(rx), OccupancyOf(r), TrueOccupancy(r), rooms[r].occupancy = Occupied(r))
    BY <1>1, <1>4, TellsTail DEF Recorded
  <2> QED
    BY <1>1, <1>2, <2>1, <2>2 DEF Recorded
<1> QED
  BY <1>3, <1>4

LEMMA OccupancyHelp ==
  ASSUME OccupancyInv, NEW r \in Rooms
  PROVE  Recorded(r) \/ \E m \in Sighting : m.room = r /\ Recording(m)
BY DEF OccupancyInv

\* A room whose sighting is not just being recorded is recorded.
LEMMA RecordedOr ==
  ASSUME OccupancyInv, NEW r \in Rooms, \A m \in Sighting : m.room = r => ~Recording(m)
  PROVE  Recorded(r)
BY DEF OccupancyInv

\* Whoever leaves the loop and the sensors' memory alone, and says nothing but
\* of lights, keeps the record of occupancy.
LEMMA OccupancyStays ==
  ASSUME WhoSaysWhat, OccupancyInv, Says(LightCommands), seen' = seen, todo'["mqtt"] = todo["mqtt"],
         \A r \in Rooms : rooms'[r].occupancy = rooms[r].occupancy
  PROVE  OccupancyInv'
<1> SUFFICES ASSUME NEW r \in Rooms
             PROVE  Recorded(r)' \/ \E m \in Sighting : m.room = r /\ Recording(m)'
  BY DEF OccupancyInv
<1>1. CASE Recorded(r)
  BY <1>1, RecordedStays
<1>2. ASSUME NEW m \in Sighting, m.room = r, Recording(m)
      PROVE  Recording(m)'
  BY <1>2 DEF Recording
<1> QED
  BY <1>1, <1>2, OccupancyHelp

LEMMA TasksKeepOccupancy ==
  ASSUME TypeOK, WhoSaysWhat, OccupancyInv, NEW t \in Tasks, TaskStep(t), UNCHANGED motion
  PROVE  OccupancyInv'
<1>s. seen' = seen
  BY DEF motion
<1>1. CASE t # "mqtt"
  <2>1. todo'["mqtt"] = todo["mqtt"] /\ Says(LightCommands) /\ rooms' = rooms
    BY <1>1, WorkerStep, MotionConstants DEF shared
  <2> QED
    BY <1>s, <2>1, OccupancyStays
<1>2. CASE t = "mqtt"
  <2> SUFFICES ASSUME NEW r \in Rooms PROVE Recorded(r)'
    BY DEF OccupancyInv
  <2>1. CASE todo["mqtt"] \in Seq(Quiet)
    <3>1. Recorded(r)
      BY <2>1, RecordedOr, SightingShapes DEF Recording
    <3>2. Says(LightCommands) /\ rooms' = rooms
      BY <1>2, <2>1, QuietStep DEF shared
    <3> QED
      BY <1>s, <3>1, <3>2, RecordedStays
  <2>2. ASSUME NEW m \in Sighting, Recording(m)
        PROVE  Recorded(r)'
    <3> DEFINE c == [from |-> "mqtt", room |-> m.room, update |-> Occupancy(m.occupied)]
    <3>1. rx' = Append(rx, c) /\ rooms' = rooms
      BY <1>2, <2>2, RecordingStep DEF Recording, shared
    <3>2. /\ c \in OccupancyOf(m.room) /\ c \in MotionCommands /\ rx \in Seq(MotionCommands)
          /\ m.room \in Rooms /\ c.update.occupied = m.occupied
      BY CommandKinds DEF OccupancyOf, Sighting, WhoSaysWhat, Occupancy
    <3>3. TrueOccupancy(r)' = TrueOccupancy(r) /\ Occupied(r)' = Occupied(r)
      BY <1>s DEF TrueOccupancy, Occupied
    <3>4. CASE m.room = r
      <4>1. c \in TrueOccupancy(r)
        <5>1. m.occupied = Occupied(r)
          <6>1. seen[r] = m.occupied /\ m.occupied \in BOOLEAN
            BY <2>2, <3>4 DEF Recording, Sighting
          <6> QED
            BY <6>1 DEF Occupied
        <5> QED
          BY <3>2, <3>4, <5>1 DEF TrueOccupancy
      <4> HIDE DEF c
      <4>2. Tells(Append(rx, c), OccupancyOf(r), TrueOccupancy(r), rooms[r].occupancy = Occupied(r))
        BY <3>2, <3>4, <4>1, TellsAppend
      <4> QED
        BY <3>1, <3>3, <4>2 DEF Recorded
    <3>5. CASE m.room # r
      <4>1. Recorded(r)
        BY <2>2, <3>5, RecordedOr, SightingShapes DEF Recording
      <4>2. c \notin OccupancyOf(r)
        BY <3>2, <3>5, CommandKinds
      <4> HIDE DEF c
      <4>3. Tells(Append(rx, c), OccupancyOf(r), TrueOccupancy(r), rooms[r].occupancy = Occupied(r))
        BY <3>2, <4>1, <4>2, TellsAppend DEF Recorded
      <4> QED
        BY <3>1, <3>3, <4>3 DEF Recorded
    <3> QED
      BY <3>4, <3>5
  <2>3. ASSUME NEW m \in Sighting, Telling(m)
        PROVE  Recorded(r)'
    <3>1. Recorded(r)
      BY <2>3, RecordedOr, SightingShapes DEF Recording, Telling
    <3>2. rx' = rx /\ rooms' = rooms
      BY <1>2, <2>3, TellingStep DEF Telling, shared
    <3> QED
      BY <1>s, <3>1, <3>2, RecordedStays DEF Says
  <2> QED
    BY <2>1, <2>2, <2>3 DEF WhoSaysWhat
<1> QED
  BY <1>1, <1>2

LEMMA StepKeepsOccupancy == TypeOK /\ WhoSaysWhat /\ OccupancyInv /\ [Next]_vars => OccupancyInv'
<1> SUFFICES ASSUME TypeOK, WhoSaysWhat, OccupancyInv, [Next]_vars
             PROVE  OccupancyInv'
  OBVIOUS
<1>u. UNCHANGED <<rx, seen, rooms>> /\ todo'["mqtt"] = todo["mqtt"] => OccupancyInv'
  BY OccupancyStays DEF Says
<1>1. CASE Actor
  <2> SUFFICES ASSUME NEW r \in Rooms
               PROVE  Recorded(r)' \/ \E m \in Sighting : m.room = r /\ Recording(m)'
    BY DEF OccupancyInv
  <2>1. UNCHANGED <<seen, todo>>
    BY <1>1 DEF Actor, motion, ApplyRoomUpdate, ApplyConnected
  <2>2. CASE Recorded(r)
    BY <1>1, <2>1, <2>2, ActorRecords DEF Actor
  <2>3. CASE \E m \in Sighting : m.room = r /\ Recording(m)
    BY <2>1, <2>3 DEF Recording
  <2> QED
    BY <2>2, <2>3, OccupancyHelp
<1>2. ASSUME NEW t \in Tasks, Step(t)
      PROVE  OccupancyInv'
  BY <1>2, TasksKeepOccupancy DEF Step
<1>3. CASE Loop
  <2>1. UNCHANGED <<rx, seen, rooms>>
    BY <1>3, LoopIsQuiet DEF motion, shared
  <2>2. CASE todo["mqtt"] = <<>>
    <3> SUFFICES ASSUME NEW r \in Rooms PROVE Recorded(r)'
      BY DEF OccupancyInv
    <3>1. Recorded(r)
      BY <2>2, RecordedOr, SightingShapes DEF Recording
    <3> QED
      BY <2>1, <3>1, RecordedStays DEF Says
  <2>3. CASE todo'["mqtt"] = todo["mqtt"]
    BY <1>u, <2>1, <2>3
  <2> QED
    BY <1>3, <2>2, <2>3, LoopIsQuiet
<1>4. CASE HandleSighting
  <2> SUFFICES ASSUME NEW r \in Rooms
               PROVE  Recorded(r)' \/ \E m \in Sighting : m.room = r /\ Recording(m)'
    BY DEF OccupancyInv
  <2>1. PICK m \in Sighting : m = Head(sightings)
    BY <1>4, SightingPutsDown
  <2>2. /\ rx' = rx /\ rooms' = rooms /\ todo["mqtt"] = <<>>
        /\ seen' = [seen EXCEPT ![m.room] = m.occupied] /\ seen'[m.room] = m.occupied
        /\ \/ seen'[m.room] = seen[m.room] /\ todo'["mqtt"] = <<>>
           \/ todo'["mqtt"] = SightingSteps(m)
    BY <1>4, <2>1, SightingPutsDown DEF shared
  <2>3. Recorded(r)
    BY <2>2, RecordedOr, SightingShapes DEF Recording
  <2>4. seen \in [Rooms -> BOOLEAN \union {None}]
    BY MotionParts DEF MotionOK
  <2>5. CASE seen'[r] = seen[r]
    BY <2>2, <2>3, <2>5, RecordedStays DEF Says
  <2>6. CASE seen'[r] # seen[r]
    <3>1. m.room = r
      BY <2>2, <2>4, <2>6
    <3>2. Recording(m)'
      BY <2>2, <2>6, <3>1 DEF Recording
    <3> QED
      BY <3>1, <3>2
  <2> QED
    BY <2>5, <2>6
<1>5. CASE (\E event \in Triggers : Ignored(event)) \/ Automate
  BY <1>5, <1>u DEF Ignored, Automate, daemon, shared
<1>6. CASE MotionDetected \/ MotionCleared
  <2>1. PICK r \in Rooms : Abort(r)
    <3>1. /\ Takes("MotionDetected") \/ Takes("MotionCleared")
          /\ Abort(Head(inbox["automation"]).room)
      BY <1>6 DEF MotionDetected, MotionCleared
    <3> QED
      BY <3>1, TakesType, MotionParts DEF Triggers
  <2> QED
    BY <1>6, <1>u, <2>1, AbortConcerns DEF MotionDetected, MotionCleared, shared
<1>7. ASSUME NEW w \in Workers, TurnOn(w) \/ TurnOff(w) \/ Delay(w) \/ Run(w)
      PROVE  OccupancyInv'
  <2>1. PICK steps \in Seq(StepsOver(LightSends)), left \in Jobs \union {None} : Continues(w, steps, left)
    BY <1>7, JobSteps
  <2>2. todo'["mqtt"] = todo["mqtt"] /\ UNCHANGED <<rx, seen, rooms>>
    BY <2>1, MotionParts, MotionConstants DEF Continues, QueuesOK, shared
  <2> QED
    BY <1>u, <2>2
<1>8. CASE (\E r \in setup.lived : Presence(r) \/ Resend(r) \/ Touch(r)) \/ LinkLost \/ Tick
  BY <1>8, <1>u DEF Presence, Resend, Touch, TouchLight, LinkLost, LoseLink, Tick, PassTime, Elapse,
                    daemon, motion, shared
<1>9. CASE UNCHANGED vars
  BY <1>9, <1>u DEF vars, daemon, motion, shared
<1> QED
  BY <1>1, <1>2, <1>3, <1>4, <1>5, <1>6, <1>7, <1>8, <1>9 DEF Next

LEMMA OccupancyImplies == WhoSaysWhat /\ OccupancyInv => OccupancyRecorded
<1> SUFFICES ASSUME WhoSaysWhat, OccupancyInv, NEW r \in Rooms, LoopIdle, ~Queued("mqtt", r)
             PROVE  rooms[r].occupancy = (seen[r] = TRUE)
  BY DEF OccupancyRecorded
<1>1. Recorded(r)
  BY RecordedOr, SightingShapes DEF Recording, LoopIdle
<1>2. NoneIn(rx, OccupancyOf(r))
  BY CommandKinds DEF NoneIn, Queued
<1> QED
  BY <1>1, <1>2 DEF Recorded, Tells, Occupied

\* When the loop is idle and nothing it said of a room is in the channel, the
\* room's occupancy is the last one its sensor reported, whatever the updates of
\* its lights, the losses of the connection and the delays of the channel.
THEOREM OccupancyIsRecorded == Spec => []OccupancyRecorded
<1>1. Init => TypeOK /\ WhoSaysWhat /\ OccupancyInv
  BY InitType, InitWho, InitOccupancy
<1>2. TypeOK /\ WhoSaysWhat /\ OccupancyInv /\ [Next]_vars => (TypeOK /\ WhoSaysWhat /\ OccupancyInv)'
  BY StepKeepsTypes, StepKeepsWho, StepKeepsOccupancy
<1> QED
  BY <1>1, <1>2, OccupancyImplies, PTL DEF Spec

-----------------------------------------------------------------------------
(* What turns lights off.                                                   *)

LEMMA DarkensIs ==
  ASSUME NEW w, NEW r
  PROVE  /\ Darkens(w, r) <=> TimerFor(w, r) \/ PutsOut(w, r)
         /\ Darkens(w, r)' <=> TimerFor(w, r)' \/ PutsOut(w, r)'
BY DEF Darkens, TimerFor, PutsOut, Dark

\* What turns a room on turns none off, and what turns a room off turns off no
\* other.
LEMMA ActionsDark ==
  /\ \A r : ~Dark(<<>>, r)
  /\ \A o, level, source, next, r : ~Dark(LightsOnAction(o, level, source, next), r)
  /\ \A o, r : Dark(LightsOffAction(o), r) => o = r
<1>1. ASSUME NEW o, NEW level, NEW source, NEW next, NEW r
      PROVE  ~Dark(LightsOnAction(o, level, source, next), r)
  <2> DEFINE a == Send(o, LightsOnWithPush(level, source))
             b == Publish(o, "ON", level, None, next, Rollback(o))
             q == << a, b >>
  <2>1. a.do = "send" /\ b.power = "ON"
    BY DEF Send, Publish
  <2> HIDE DEF a, b
  <2>2. \A i \in 1..Len(q) : q[i] = a \/ q[i] = b
    OBVIOUS
  <2>3. ~Dark(q, r)
    BY <2>1, <2>2 DEF Dark
  <2> QED
    BY <2>3 DEF LightsOnAction, a, b
<1>2. ASSUME NEW o, NEW r, Dark(LightsOffAction(o), r)
      PROVE  o = r
  <2> DEFINE a == Send(o, LightsOff)
             b == Publish(o, "OFF", None, None, <<>>, Rollback(o))
             q == << a, b >>
  <2>1. a.do = "send" /\ b.room = o
    BY DEF Send, Publish
  <2>2. Dark(q, r)
    BY <1>2 DEF LightsOffAction
  <2> HIDE DEF a, b
  <2>3. \A i \in 1..Len(q) : q[i] = a \/ q[i] = b
    OBVIOUS
  <2> QED
    BY <2>1, <2>2, <2>3 DEF Dark
<1>3. \A r : ~Dark(<<>>, r)
  BY DEF Dark
<1> QED
  BY <1>1, <1>2, <1>3

\* No step of a task turns a room off that it was not about to.
LEMMA StepDark ==
  ASSUME TypeOK, WhoSaysWhat, NEW t \in Tasks, TaskStep(t), NEW w \in Workers, NEW r, PutsOut(w, r)'
  PROVE  PutsOut(w, r)
<1>1. todo \in [Tasks -> Seq(Steps)] /\ w \in Tasks \ {"mqtt"}
  BY MotionParts, MotionConstants DEF QueuesOK
<1>2. CASE t # w
  <2>1. todo'[w] = todo[w]
    <3>1. todo[t] \in Seq(StepsOver(SimpleSteps))
      BY <1>1, Vocabulary
    <3> QED
      BY <1>1, <1>2, <3>1, StepKeepsVocabulary
  <2> QED
    BY <2>1 DEF PutsOut
<1>3. CASE t = w
  <2>1. todo[w] \in Seq(StepsOver(LightSends))
    BY <1>1 DEF WhoSaysWhat
  <2>2. PICK i \in 1..Len(todo'[w]) :
          todo'[w][i].do = "publish" /\ todo'[w][i].room = r /\ todo'[w][i].power = "OFF"
    BY DEF PutsOut, Dark
  <2>3. todo'[w][i] \in LightSends \/ \E j \in 2..Len(todo[w]) : todo'[w][i] = todo[w][j]
    BY <1>1, <1>3, <2>1, StepAddsSimple, LightSendsType
  <2>4. todo'[w][i] \notin LightSends
    BY <2>2 DEF LightSends
  <2>5. \A j \in 2..Len(todo[w]) : j \in 1..Len(todo[w])
    BY <2>1, LenProperties
  <2> QED
    BY <2>2, <2>3, <2>4, <2>5 DEF PutsOut, Dark
<1> QED
  BY <1>2, <1>3

\* A spawned task begins what it was spawned for.
LEMMA JobDark ==
  ASSUME TypeOK, NoJobs, NEW w \in Workers, TurnOn(w) \/ TurnOff(w) \/ Delay(w) \/ Run(w)
  PROVE  /\ job' = [job EXCEPT ![w] = None]
         /\ \A u \in Tasks \ {w} : todo'[u] = todo[u]
         /\ \A r : PutsOut(w, r)' => /\ TurnOff(w) /\ TimerFor(w, r) /\ now >= job[w].at
                                     /\ ~rooms[r].occupancy
         /\ UNCHANGED <<shared, rx, inbox, now, setup, sightings, seen, pending, offHandle>>
<1>0. todo \in [Tasks -> Seq(Steps)] /\ w \in Tasks
  BY MotionParts, MotionConstants DEF QueuesOK
<1>1. ~Delay(w) /\ ~Run(w)
  BY DEF NoJobs, Delay, Run, Runs
<1>2. PICK steps : Begin(w, steps)
  BY <1>1 DEF TurnOn, TurnOff
<1>3. /\ job' = [job EXCEPT ![w] = None]
      /\ todo' = [todo EXCEPT ![w] = steps]
      /\ UNCHANGED <<shared, rx, inbox, now, setup, sightings, seen, pending, offHandle>>
  BY <1>2 DEF Begin, Continues
<1>4. ASSUME NEW r, PutsOut(w, r)'
      PROVE  TurnOff(w) /\ TimerFor(w, r) /\ now >= job[w].at /\ ~rooms[r].occupancy
  <2>1. todo'[w] = steps /\ Dark(steps, r)
    BY <1>0, <1>3, <1>4 DEF PutsOut
  <2>2. CASE TurnOn(w)
    <3>1. PICK o, level, next : todo' = [todo EXCEPT ![w] = LightsOnAction(o, level, "Automation", next)]
      BY <2>2 DEF TurnOn, Begin, Continues
    <3>2. todo'[w] = LightsOnAction(o, level, "Automation", next)
      BY <1>0, <3>1
    <3> QED
      BY <2>1, <3>2, ActionsDark
  <2>3. CASE TurnOff(w)
    <3>1. /\ job[w] # None /\ job[w].do = "off" /\ now >= job[w].at
          /\ todo' = [todo EXCEPT ![w] = IF rooms[job[w].room].occupancy THEN <<>>
                                          ELSE LightsOffAction(job[w].room)]
      BY <2>3 DEF TurnOff, Begin, Continues
    <3>2. todo'[w] = IF rooms[job[w].room].occupancy THEN <<>> ELSE LightsOffAction(job[w].room)
      BY <1>0, <3>1
    <3>3. ~rooms[job[w].room].occupancy /\ job[w].room = r
      BY <2>1, <3>2, ActionsDark
    <3> QED
      BY <2>3, <3>1, <3>3 DEF TimerFor
  <2> QED
    BY <1>1, <2>2, <2>3
<1> QED
  BY <1>0, <1>3, <1>4

\* What the engine does of an event, with built-in motion: it ends the room's
\* timer, and has a free task turn the lights on, or off when the time is over.
Spawns(r, e) ==
  \/ /\ offHandle' = [offHandle EXCEPT ![r] = None]
     /\ job' = Aborted(r, job)
  \/ \E w \in Workers : \E level, restore :
       /\ Free(w)
       /\ offHandle' = [offHandle EXCEPT ![r] = None]
       /\ job' = Aborted(r, [job EXCEPT ![w] = OnJob(r, level, restore)])
  \/ \E w \in Workers :
       /\ e.event = "MotionCleared" /\ Free(w)
       /\ offHandle' = [offHandle EXCEPT ![r] = w]
       /\ job' = Aborted(r, [job EXCEPT ![w] = OffJob(r, Deadline(rooms[r]))])

EngineDoes(r, e) ==
  /\ e = Head(inbox["automation"]) /\ e.room = r
  /\ e.event \in Triggers /\ Takes(e.event)
  /\ \A t \in Tasks : todo'[t] = IF t = offHandle[r] THEN <<>> ELSE todo[t]
  /\ Spawns(r, e)
  /\ UNCHANGED <<shared, rx, now, setup, sightings, seen>>

LEMMA EngineDark ==
  ASSUME TypeOK, MotionDetected \/ MotionCleared
  PROVE  \E r \in Rooms, e \in Events : EngineDoes(r, e)
<1>0. QueuesOK
  BY MotionParts
<1> DEFINE e == Head(inbox["automation"])
           r == e.room
<1>1. CASE MotionDetected
  <2>1. /\ Takes("MotionDetected") /\ Abort(r)
        /\ offHandle' = [offHandle EXCEPT ![r] = None]
        /\ \/ job' = Aborted(r, job)
           \/ \E w \in Workers : Free(w) /\ job' = Aborted(r, [job EXCEPT ![w] = WantedOn(r, rooms[r])])
        /\ UNCHANGED <<shared, rx, now, setup, sightings, seen>>
    BY <1>1 DEF MotionDetected
  <2>2. e \in Events /\ r \in Rooms /\ e.event = "MotionDetected" /\ e.event \in Triggers
    BY <1>0, <2>1, TakesType DEF Triggers
  <2>3. \E level, restore : WantedOn(r, rooms[r]) = OnJob(r, level, restore)
    BY DEF WantedOn
  <2>4. \A t \in Tasks : todo'[t] = IF t = offHandle[r] THEN <<>> ELSE todo[t]
    BY <2>1, <2>2, AbortConcerns
  <2> HIDE DEF e, r
  <2>5. \/ job' = Aborted(r, job)
        \/ \E w \in Workers : \E level, restore :
             /\ Free(w)
             /\ offHandle' = [offHandle EXCEPT ![r] = None]
             /\ job' = Aborted(r, [job EXCEPT ![w] = OnJob(r, level, restore)])
    BY <2>1, <2>3, Zenon
  <2>6. e = Head(inbox["automation"]) /\ e.room = r /\ Takes(e.event)
    BY <2>1, <2>2 DEF e, r
  <2>7. EngineDoes(r, e)
    BY <2>1, <2>2, <2>4, <2>5, <2>6, Zenon DEF EngineDoes, Spawns
  <2> QED
    BY <2>2, <2>7
<1>2. CASE MotionCleared
  <2>1. /\ Takes("MotionCleared") /\ Abort(r)
        /\ \/ offHandle' = [offHandle EXCEPT ![r] = None] /\ job' = Aborted(r, job)
           \/ \E w \in Workers :
                /\ Free(w)
                /\ offHandle' = [offHandle EXCEPT ![r] = w]
                /\ job' = Aborted(r, [job EXCEPT ![w] = OffJob(r, Deadline(rooms[r]))])
        /\ UNCHANGED <<shared, rx, now, setup, sightings, seen>>
    BY <1>2 DEF MotionCleared
  <2>2. e \in Events /\ r \in Rooms /\ e.event = "MotionCleared" /\ e.event \in Triggers
    BY <1>0, <2>1, TakesType DEF Triggers
  <2>3. \A t \in Tasks : todo'[t] = IF t = offHandle[r] THEN <<>> ELSE todo[t]
    BY <2>1, <2>2, AbortConcerns
  <2> HIDE DEF e, r
  <2>4. e = Head(inbox["automation"]) /\ e.room = r
    BY DEF e, r
  <2>5. EngineDoes(r, e)
    BY <2>1, <2>2, <2>3, <2>4, Zenon DEF EngineDoes, Spawns
  <2> QED
    BY <2>2, <2>5
<1> QED
  BY <1>1, <1>2

-----------------------------------------------------------------------------
(* The timers: the invariant.                                               *)

LEMMA SetupStays == TypeOK /\ [Next]_vars => setup' = setup
<1> SUFFICES ASSUME TypeOK, [Next]_vars PROVE setup' = setup
  OBVIOUS
<1>1. CASE Actor \/ Loop \/ (\E t \in Tasks : Step(t))
  BY <1>1 DEF Actor, Step, Loop, motion
<1>2. CASE HandleSighting \/ (\E event \in Triggers : Ignored(event)) \/ MotionDetected
             \/ MotionCleared \/ Automate
  BY <1>2 DEF HandleSighting, Ignored, MotionDetected, MotionCleared, Automate
<1>3. CASE \E w \in Workers : TurnOn(w) \/ TurnOff(w) \/ Delay(w) \/ Run(w)
  BY <1>3, JobSteps DEF Continues
<1>4. CASE (\E r \in setup.lived : Presence(r) \/ Resend(r) \/ Touch(r)) \/ LinkLost \/ Tick
  BY <1>4 DEF Presence, Resend, Touch, LinkLost, Tick, motion
<1>5. CASE UNCHANGED vars
  BY <1>5 DEF vars, motion
<1> QED
  BY <1>1, <1>2, <1>3, <1>4, <1>5 DEF Next

LEMMA InitTimers == Init => NoJobs /\ TimersOnly /\ \A r \in Rooms : offHandle[r] = None /\ seen[r] = None
<1> SUFFICES ASSUME Init
             PROVE  NoJobs /\ TimersOnly /\ \A r \in Rooms : offHandle[r] = None /\ seen[r] = None
  OBVIOUS
<1>1. /\ pending = None /\ job = [w \in Workers |-> None] /\ todo = [t \in Tasks |-> <<>>]
      /\ \A r \in Rooms : offHandle[r] = None /\ seen[r] = None
  BY DEF Init, DaemonInit
<1>2. \A w \in Workers, r \in Rooms : ~TimerFor(w, r) /\ ~PutsOut(w, r)
  BY <1>1, MotionConstants, ActionsDark DEF TimerFor, PutsOut
<1> QED
  BY <1>1, <1>2, DarkensIs DEF NoJobs, TimersOnly

\* A free task runs nothing, and is no room's timer.
LEMMA FreeTask ==
  ASSUME NEW w \in Workers, Free(w)
  PROVE  job[w] = None /\ todo[w] = <<>> /\ \A r \in Rooms : offHandle[r] # w
BY DEF Free, Finished

\* What the engine's event leaves of the jobs.
LEMMA EngineJobs ==
  ASSUME TypeOK, NEW r \in Rooms, NEW e \in Events, EngineDoes(r, e), NEW w \in Workers
  PROVE  /\ w = offHandle[r] => job'[w] = None /\ todo'[w] = <<>>
         /\ w # offHandle[r] =>
              /\ todo'[w] = todo[w]
              /\ \/ job'[w] = job[w]
                 \/ job'[w].do = "on"
                 \/ /\ Free(w) /\ job'[w] = OffJob(r, Deadline(rooms[r]))
                    /\ offHandle'[r] = w
<1>0. job \in [Workers -> Jobs \union {None}] /\ w \in Tasks /\ offHandle \in [Rooms -> Workers \union {None}]
  BY MotionParts, MotionConstants DEF MotionOK
<1>1. todo'[w] = IF w = offHandle[r] THEN <<>> ELSE todo[w]
  BY <1>0 DEF EngineDoes
<1>2. ASSUME job' = Aborted(r, job)
      PROVE  /\ w = offHandle[r] => job'[w] = None
             /\ w # offHandle[r] => job'[w] = job[w]
  BY <1>2 DEF Aborted
<1>3. ASSUME NEW u \in Workers, NEW level, NEW restore,
             job' = Aborted(r, [job EXCEPT ![u] = OnJob(r, level, restore)])
      PROVE  /\ w = offHandle[r] => job'[w] = None
             /\ w # offHandle[r] => job'[w] = job[w] \/ job'[w].do = "on"
  <2>1. OnJob(r, level, restore).do = "on"
    BY DEF OnJob
  <2> QED
    BY <1>0, <1>3, <2>1 DEF Aborted
<1>4. ASSUME NEW u \in Workers, Free(u), offHandle' = [offHandle EXCEPT ![r] = u],
             job' = Aborted(r, [job EXCEPT ![u] = OffJob(r, Deadline(rooms[r]))])
      PROVE  /\ w = offHandle[r] => job'[w] = None
             /\ w # offHandle[r] =>
                  \/ job'[w] = job[w]
                  \/ /\ Free(w) /\ job'[w] = OffJob(r, Deadline(rooms[r]))
                     /\ offHandle'[r] = w
  BY <1>0, <1>4 DEF Aborted
<1>5. CASE job' = Aborted(r, job)
  BY <1>1, <1>2, <1>5
<1>6. CASE \E u \in Workers : \E level, restore :
             job' = Aborted(r, [job EXCEPT ![u] = OnJob(r, level, restore)])
  <2>0. PICK u \in Workers : \E level, restore :
          job' = Aborted(r, [job EXCEPT ![u] = OnJob(r, level, restore)])
    BY <1>6, Zenon
  <2>1. PICK level, restore :
          job' = Aborted(r, [job EXCEPT ![u] = OnJob(r, level, restore)])
    BY <2>0, Zenon
  <2>2. /\ w = offHandle[r] => job'[w] = None
        /\ w # offHandle[r] => job'[w] = job[w] \/ job'[w].do = "on"
    BY <1>3, <2>1, Zenon
  <2> QED
    BY <1>1, <2>2
<1>7. CASE \E u \in Workers :
             /\ Free(u)
             /\ offHandle' = [offHandle EXCEPT ![r] = u]
             /\ job' = Aborted(r, [job EXCEPT ![u] = OffJob(r, Deadline(rooms[r]))])
  <2>1. PICK u \in Workers :
          /\ Free(u)
          /\ offHandle' = [offHandle EXCEPT ![r] = u]
          /\ job' = Aborted(r, [job EXCEPT ![u] = OffJob(r, Deadline(rooms[r]))])
    BY <1>7, Zenon
  <2>2. /\ w = offHandle[r] => job'[w] = None
        /\ w # offHandle[r] =>
             \/ job'[w] = job[w]
             \/ /\ Free(w) /\ job'[w] = OffJob(r, Deadline(rooms[r]))
                /\ offHandle'[r] = w
    BY <1>4, <2>1, Zenon
  <2> QED
    BY <1>1, <2>2
<1>8. \/ job' = Aborted(r, job)
      \/ \E u \in Workers : \E level, restore :
           job' = Aborted(r, [job EXCEPT ![u] = OnJob(r, level, restore)])
      \/ \E u \in Workers :
           /\ Free(u)
           /\ offHandle' = [offHandle EXCEPT ![r] = u]
           /\ job' = Aborted(r, [job EXCEPT ![u] = OffJob(r, Deadline(rooms[r]))])
  <2>1. Spawns(r, e)
    BY DEF EngineDoes
  <2> QED
    BY <2>1, Zenon DEF Spawns
<1> QED
  BY <1>5, <1>6, <1>7, <1>8, Zenon

\* Without configured automations nothing is left to do after built-in motion,
\* and no task runs any actions.
LEMMA StepKeepsNoJobs == TypeOK /\ setup.automations = {} /\ NoJobs /\ [Next]_vars => NoJobs'
<1> SUFFICES ASSUME TypeOK, setup.automations = {}, NoJobs, [Next]_vars
             PROVE  NoJobs'
  OBVIOUS
<1>0. job \in [Workers -> Jobs \union {None}]
  BY MotionParts DEF MotionOK
<1>u. UNCHANGED <<pending, job>> => NoJobs'
  BY DEF NoJobs
<1>1. CASE Actor \/ Loop \/ (\E t \in Tasks : Step(t))
  BY <1>1, <1>u DEF Actor, Step, Loop, motion
<1>2. CASE HandleSighting
  BY <1>2, <1>u DEF HandleSighting
<1>3. CASE \E event \in Triggers : Ignored(event)
  BY <1>3 DEF Ignored, HandsOn, NoJobs
<1>4. CASE MotionDetected \/ MotionCleared
  <2>1. pending' = None
    BY <1>4 DEF MotionDetected, MotionCleared, HandsOn
  <2>2. PICK r \in Rooms, e \in Events : EngineDoes(r, e)
    BY <1>4, EngineDark
  <2>3. ASSUME NEW w \in Workers, job'[w] # None
        PROVE  job'[w].do # "run"
    <3>1. OffJob(r, Deadline(rooms[r])).do = "off"
      BY DEF OffJob
    <3> QED
      BY <2>2, <2>3, <3>1, EngineJobs DEF NoJobs
  <2> QED
    BY <2>1, <2>3 DEF NoJobs
<1>5. CASE Automate
  BY <1>5 DEF Automate, NoJobs
<1>6. ASSUME NEW w \in Workers, TurnOn(w) \/ TurnOff(w) \/ Delay(w) \/ Run(w)
      PROVE  NoJobs'
  BY <1>0, <1>6, JobDark DEF NoJobs
<1>7. CASE (\E r \in setup.lived : Presence(r) \/ Resend(r) \/ Touch(r)) \/ LinkLost \/ Tick
  BY <1>7, <1>u DEF Presence, Resend, Touch, LinkLost, Tick, motion
<1>8. CASE UNCHANGED vars
  BY <1>8, <1>u DEF vars, motion
<1> QED
  BY <1>1, <1>2, <1>3, <1>4, <1>5, <1>6, <1>7, <1>8 DEF Next

\* What darkens a room is its timer.
LEMMA StepKeepsTimers == TypeOK /\ WhoSaysWhat /\ NoJobs /\ TimersOnly /\ [Next]_vars => TimersOnly'
<1> SUFFICES ASSUME TypeOK, WhoSaysWhat, NoJobs, TimersOnly, [Next]_vars,
                    NEW w \in Workers, NEW o \in Rooms, Darkens(w, o)'
             PROVE  offHandle'[o] = w
  BY DEF TimersOnly
<1>0. /\ job \in [Workers -> Jobs \union {None}] /\ w \in Tasks /\ w # "mqtt"
      /\ offHandle \in [Rooms -> Workers \union {None}] /\ w # None
  BY MotionParts, MotionConstants DEF MotionOK
<1>1. TimerFor(w, o)' \/ PutsOut(w, o)'
  BY DarkensIs
<1>2. Darkens(w, o) => offHandle[o] = w
  BY DEF TimersOnly
<1>u. UNCHANGED <<job, offHandle>> /\ todo'[w] = todo[w] => offHandle'[o] = w
  BY <1>1, <1>2, DarkensIs DEF TimerFor, PutsOut
<1>3. CASE Actor
  BY <1>3, <1>u DEF Actor, motion, ApplyRoomUpdate, ApplyConnected
<1>4. ASSUME NEW t \in Tasks, Step(t)
      PROVE  offHandle'[o] = w
  <2>1. UNCHANGED <<job, offHandle>>
    BY <1>4 DEF Step, motion
  <2>2. PutsOut(w, o)' => PutsOut(w, o)
    BY <1>4, StepDark DEF Step
  <2> QED
    BY <1>1, <1>2, <2>1, <2>2, DarkensIs DEF TimerFor
<1>5. CASE Loop
  BY <1>0, <1>5, <1>u, LoopIsQuiet DEF motion
<1>6. CASE HandleSighting
  BY <1>0, <1>6, <1>u, SightingPutsDown
<1>7. CASE (\E event \in Triggers : Ignored(event)) \/ Automate
  BY <1>7, <1>u DEF Ignored, Automate, NoJobs
<1>8. CASE MotionDetected \/ MotionCleared
  <2>1. PICK r \in Rooms, e \in Events : EngineDoes(r, e)
    BY <1>8, EngineDark
  <2>2. w # offHandle[r]
    BY <1>1, <2>1, EngineJobs, ActionsDark DEF TimerFor, PutsOut
  <2>3. todo'[w] = todo[w]
    BY <2>1, <2>2, EngineJobs
  <2>4. \A q \in Rooms \ {r} : offHandle'[q] = offHandle[q]
    BY <1>0, <2>1 DEF EngineDoes, Spawns
  <2>5. CASE job'[w] = job[w] \/ job'[w].do = "on"
    <3>1. Darkens(w, o)
      <4>1. TimerFor(w, o)' => TimerFor(w, o)
        BY <2>5 DEF TimerFor
      <4> QED
        BY <1>1, <2>3, <4>1, DarkensIs DEF PutsOut
    <3> QED
      BY <1>2, <2>2, <2>4, <3>1
  <2>6. CASE Free(w) /\ job'[w] = OffJob(r, Deadline(rooms[r])) /\ offHandle'[r] = w
    <3>1. ~PutsOut(w, o)'
      BY <2>3, <2>6, FreeTask, ActionsDark DEF PutsOut
    <3>2. r = o
      BY <1>1, <2>6, <3>1 DEF TimerFor, OffJob
    <3> QED
      BY <2>6, <3>2
  <2> QED
    BY <2>1, <2>2, <2>5, <2>6, EngineJobs
<1>9. ASSUME NEW u \in Workers, TurnOn(u) \/ TurnOff(u) \/ Delay(u) \/ Run(u)
      PROVE  offHandle'[o] = w
  <2>1. /\ job' = [job EXCEPT ![u] = None]
        /\ \A t \in Tasks \ {u} : todo'[t] = todo[t]
        /\ PutsOut(u, o)' => TimerFor(u, o)
        /\ offHandle' = offHandle
    BY <1>9, JobDark
  <2>2. TimerFor(w, o)' => TimerFor(w, o)
    BY <1>0, <2>1 DEF TimerFor
  <2>3. CASE u = w
    BY <1>1, <1>2, <2>1, <2>2, <2>3, DarkensIs
  <2>4. CASE u # w
    BY <1>0, <1>1, <1>2, <2>1, <2>2, <2>4, DarkensIs DEF PutsOut
  <2> QED
    BY <2>3, <2>4
<1>10. CASE (\E r \in setup.lived : Presence(r) \/ Resend(r) \/ Touch(r)) \/ LinkLost \/ Tick
  BY <1>10, <1>u DEF Presence, Resend, Touch, TouchLight, LinkLost, LoseLink, Tick, PassTime, Elapse,
                    daemon, motion
<1>11. CASE UNCHANGED vars
  BY <1>11, <1>u DEF vars, daemon, motion
<1> QED
  BY <1>3, <1>4, <1>5, <1>6, <1>7, <1>8, <1>9, <1>10, <1>11 DEF Next

\* What bears on no event, on no timer and on no sensor leaves what the engine
\* has heard.
LEMMA HeardStays ==
  ASSUME NEW r \in Rooms, Heard(r), inbox'["automation"] = inbox["automation"],
         seen'[r] = seen[r], offHandle'[r] = offHandle[r]
  PROVE  Heard(r)'
BY DEF Heard

\* What the loop has to do, when it is not telling of a sighting, tells none.
LEMMA NotToBeTold ==
  ASSUME NEW r \in Rooms, todo["mqtt"] \in Seq(Quiet)
  PROVE  ~ToBeTold(r)
BY SightingShapes DEF ToBeTold, Recording, Telling

\* An announcement that the bus has room for is heard.
LEMMA TellingIsHeard ==
  ASSUME TypeOK, NEW m \in Sighting, Telling(m), AnnounceStep("mqtt"), UNCHANGED motion,
         Len(inbox["automation"]) < BusCap, NEW r \in Rooms, Heard(r) \/ r = m.room
  PROVE  Heard(r)'
<1> DEFINE q == inbox["automation"]
           e == Occurred(m).event
<1>1. /\ inbox \in [Subscribers -> Seq(Events)] /\ q \in Seq(Events) /\ "automation" \in Subscribers
      /\ seen' = seen /\ offHandle' = offHandle
  BY MotionParts, MotionConstants DEF QueuesOK, motion
<1>2. Head(todo["mqtt"]) = Occurred(m)
  BY DEF Telling
<1>3. /\ e.room = m.room /\ e.event \in Triggers /\ m.room \in Rooms
      /\ e.event = "MotionDetected" <=> m.occupied
      /\ Heeds("automation", e)
  BY DEF Occurred, Announce, Triggers, Sighting, Heeds
<1>4. e \in Events
  BY OccurredType, StepFields DEF Steps
<1>5. inbox'["automation"] = Append(q, e)
  BY <1>1, <1>2, <1>3 DEF AnnounceStep, Broadcast
<1>6. e \in MotionOf(m.room) /\ (m.occupied => e \in DetectedIn(m.room))
  BY <1>3, <1>4 DEF MotionOf, DetectedIn
<1> HIDE DEF q, e
<1>7. CASE r = m.room
  <2>1. seen[r] = m.occupied
    BY <1>7 DEF Telling
  <2>2. m.occupied => Tells(Append(q, e), MotionOf(r), DetectedIn(r), offHandle[r] = None)
    BY <1>1, <1>4, <1>6, <1>7, TellsAppend
  <2> QED
    BY <1>1, <1>5, <2>1, <2>2 DEF Heard
<1>8. CASE r # m.room
  <2>1. e \notin MotionOf(r) /\ Heard(r)
    BY <1>3, <1>8 DEF MotionOf
  <2>2. Tells(q, MotionOf(r), DetectedIn(r), offHandle[r] = None)
          => Tells(Append(q, e), MotionOf(r), DetectedIn(r), offHandle[r] = None)
    BY <1>1, <1>4, <2>1, TellsAppend
  <2> QED
    BY <1>1, <1>5, <2>1, <2>2 DEF Heard, q
<1> QED
  BY <1>7, <1>8

\* The engine takes the event of a room, and leaves that room no timer unless
\* the room was cleared.
LEMMA TakenIsHeard ==
  ASSUME TypeOK, NEW event \in Triggers, Takes(event), seen' = seen,
         NEW r \in Rooms, Heard(r),
         offHandle'[r] # None => \/ offHandle'[r] = offHandle[r] /\ Head(inbox["automation"]).room # r
                                 \/ event = "MotionCleared" /\ Head(inbox["automation"]).room = r
  PROVE  Heard(r)'
<1> DEFINE q == inbox["automation"]
<1>1. q \in Seq(Events) /\ q # <<>> /\ inbox'["automation"] = Tail(q) /\ Head(q) \in Events /\ Head(q).event = event
  BY TakesType, MotionParts
<1>2. Head(q) \in MotionOf(r) <=> Head(q).room = r
  BY <1>1 DEF MotionOf
<1>3. Head(q) \in DetectedIn(r) => event = "MotionDetected" /\ Head(q).room = r
  BY <1>1, <1>2 DEF DetectedIn
<1>4. Head(q) \in MotionOf(r) /\ Head(q) \in DetectedIn(r) => offHandle'[r] = None
  BY <1>3
<1>5. Head(q) \notin MotionOf(r) /\ offHandle[r] = None => offHandle'[r] = None
  BY <1>2
<1> HIDE DEF q
<1>6. Tells(q, MotionOf(r), DetectedIn(r), offHandle[r] = None)
        => Tells(Tail(q), MotionOf(r), DetectedIn(r), offHandle'[r] = None)
  BY <1>1, <1>4, <1>5, TellsTail
<1> QED
  BY <1>1, <1>6 DEF Heard, q

\* The engine has heard of every sighting that the loop has told of.
LEMMA StepKeepsHeard ==
  ASSUME TypeOK, WhoSaysWhat, NoJobs, Plain, [Next]_vars, [~Lags]_vars,
         ~setup.builtin => \A r \in Rooms : offHandle[r] = None,
         \A r \in Rooms : Heard(r) \/ ToBeTold(r), NEW r \in Rooms
  PROVE  Heard(r)' \/ ToBeTold(r)'
<1>0. /\ seen \in [Rooms -> BOOLEAN \union {None}]
      /\ offHandle \in [Rooms -> Workers \union {None}]
      /\ Len(inbox["automation"]) <= BusCap
  BY MotionParts, MotionConstants DEF MotionOK, QueuesOK
<1>u. UNCHANGED <<seen, offHandle>> /\ inbox'["automation"] = inbox["automation"]
        /\ todo'["mqtt"] = todo["mqtt"] => Heard(r)' \/ ToBeTold(r)'
  <2> SUFFICES ASSUME UNCHANGED <<seen, offHandle>>, inbox'["automation"] = inbox["automation"],
                      todo'["mqtt"] = todo["mqtt"]
               PROVE  Heard(r)' \/ ToBeTold(r)'
    OBVIOUS
  <2>1. ToBeTold(r) => ToBeTold(r)'
    BY DEF ToBeTold, Recording, Telling
  <2> QED
    BY <2>1, HeardStays
<1>1. CASE Actor
  BY <1>1, <1>u DEF Actor, motion, ApplyRoomUpdate, ApplyConnected
<1>2. ASSUME NEW t \in Tasks, Step(t)
      PROVE  Heard(r)' \/ ToBeTold(r)'
  <2>0. TaskStep(t) /\ UNCHANGED motion /\ UNCHANGED <<seen, offHandle>>
    BY <1>2 DEF Step, motion
  <2>1. CASE t # "mqtt"
    BY <1>u, <2>0, <2>1, WorkerStep, MotionConstants
  <2>2. CASE t = "mqtt" /\ todo["mqtt"] \in Seq(Quiet)
    BY <2>0, <2>2, QuietStep, NotToBeTold, HeardStays
  <2>3. ASSUME t = "mqtt", NEW m \in Sighting, Recording(m)
        PROVE  Heard(r)' \/ ToBeTold(r)'
    <3>1. todo'["mqtt"] = << Occurred(m) >> /\ inbox' = inbox
      BY <2>0, <2>3, RecordingStep DEF Recording
    <3>2. CASE m.room = r
      BY <2>0, <2>3, <3>1, <3>2 DEF ToBeTold, Telling, Recording
    <3>3. CASE m.room # r
      <4>1. Heard(r)
        BY <2>3, <3>3, SightingShapes DEF ToBeTold, Recording, Telling
      <4> QED
        BY <2>0, <3>1, <4>1, HeardStays
    <3> QED
      BY <3>2, <3>3
  <2>4. ASSUME t = "mqtt", NEW m \in Sighting, Telling(m)
        PROVE  Heard(r)' \/ ToBeTold(r)'
    <3>1. /\ AnnounceStep("mqtt") /\ Head(todo["mqtt"]) = Occurred(m)
          /\ todo'["mqtt"] = <<>>
      BY <2>0, <2>4, TellingStep DEF Telling
    <3>2. ~Lags
      <4>1. todo' # todo
        <5>1. todo["mqtt"] # <<>>
          BY <2>4, SightingShapes DEF Telling
        <5> QED
          BY <3>1, <5>1
      <4>2. ~UNCHANGED vars
        BY <4>1 DEF vars, daemon
      <4> QED
        BY <4>2
    <3>3. Heeds("automation", Occurred(m).event)
      BY DEF Heeds, Occurred, Announce
    <3>4. Len(inbox["automation"]) < BusCap
      <4>1. Len(inbox["automation"]) # BusCap
        BY <3>1, <3>2, <3>3, MotionConstants DEF Lags
      <4>2. Len(inbox["automation"]) \in Nat /\ BusCap \in Nat
        BY MotionParts, MotionConstants, LenProperties, CapsType DEF QueuesOK, Caps
      <4> QED
        BY <1>0, <4>1, <4>2
    <3>5. Heard(r) \/ r = m.room
      BY <2>4, SightingShapes DEF ToBeTold, Recording, Telling
    <3> QED
      BY <2>0, <2>4, <3>1, <3>4, <3>5, TellingIsHeard
  <2> QED
    BY <2>1, <2>2, <2>3, <2>4 DEF WhoSaysWhat
<1>3. CASE Loop
  <2>1. UNCHANGED <<seen, offHandle, inbox>>
    BY <1>3, LoopIsQuiet DEF motion
  <2>2. CASE todo["mqtt"] = <<>>
    <3>1. Heard(r)
      BY <2>2, NotToBeTold, EmptySeq
    <3> QED
      BY <2>1, <3>1, HeardStays
  <2>3. CASE todo'["mqtt"] = todo["mqtt"]
    BY <1>u, <2>1, <2>3
  <2> QED
    BY <1>3, <2>2, <2>3, LoopIsQuiet
<1>4. CASE HandleSighting
  <2>1. PICK m \in Sighting : m = Head(sightings)
    BY <1>4, SightingPutsDown
  <2>2. /\ UNCHANGED <<inbox, offHandle>> /\ todo["mqtt"] = <<>>
        /\ seen' = [seen EXCEPT ![m.room] = m.occupied] /\ seen'[m.room] = m.occupied
        /\ \/ seen'[m.room] = seen[m.room] /\ todo'["mqtt"] = <<>>
           \/ todo'["mqtt"] = SightingSteps(m)
    BY <1>4, <2>1, SightingPutsDown
  <2>3. Heard(r)
    BY <2>2, NotToBeTold, EmptySeq
  <2>4. CASE seen'[r] = seen[r]
    BY <2>2, <2>3, <2>4, HeardStays
  <2>5. CASE seen'[r] # seen[r]
    <3>1. m.room = r
      BY <1>0, <2>2, <2>5
    <3> QED
      BY <2>2, <2>5, <3>1 DEF ToBeTold, Recording
  <2> QED
    BY <2>4, <2>5
<1>5. CASE (\E event \in Triggers : Ignored(event)) \/ MotionDetected \/ MotionCleared
  <2>1. todo'["mqtt"] = todo["mqtt"] /\ seen' = seen
    <3>1. CASE \E event \in Triggers : Ignored(event)
      BY <3>1 DEF Ignored
    <3>2. CASE MotionDetected \/ MotionCleared
      <4>1. PICK o \in Rooms, e \in Events : EngineDoes(o, e)
        BY <3>2, EngineDark
      <4>2. offHandle[o] # "mqtt"
        BY <1>0, MotionConstants
      <4> QED
        BY <4>1, <4>2, MotionConstants DEF EngineDoes
    <3> QED
      BY <1>5, <3>1, <3>2
  <2>2. CASE ToBeTold(r)
    BY <2>1, <2>2 DEF ToBeTold, Recording, Telling
  <2>3. CASE Heard(r)
    <3>1. ASSUME NEW event \in Triggers, Ignored(event)
          PROVE  Heard(r)'
      <4>1. offHandle'[r] = None
        BY <3>1 DEF Ignored, Plain
      <4> QED
        BY <2>1, <2>3, <3>1, <4>1, TakenIsHeard DEF Ignored
    <3>2. CASE MotionDetected \/ MotionCleared
      <4>1. PICK o \in Rooms, e \in Events : EngineDoes(o, e)
        BY <3>2, EngineDark
      <4>2. e = Head(inbox["automation"]) /\ e.room = o /\ e.event \in Triggers /\ Takes(e.event)
        BY <4>1 DEF EngineDoes
      <4>3. offHandle'[r] # None => \/ offHandle'[r] = offHandle[r] /\ o # r
                                    \/ e.event = "MotionCleared" /\ o = r
        BY <1>0, <4>1 DEF EngineDoes, Spawns
      <4> QED
        BY <2>1, <2>3, <4>2, <4>3, TakenIsHeard
    <3> QED
      BY <1>5, <3>1, <3>2
  <2> QED
    BY <2>2, <2>3
<1>6. CASE Automate
  BY <1>6 DEF Automate, NoJobs
<1>7. ASSUME NEW w \in Workers, TurnOn(w) \/ TurnOff(w) \/ Delay(w) \/ Run(w)
      PROVE  Heard(r)' \/ ToBeTold(r)'
  BY <1>7, <1>u, JobDark, MotionConstants
<1>8. CASE (\E o \in setup.lived : Presence(o) \/ Resend(o) \/ Touch(o)) \/ LinkLost \/ Tick
  BY <1>8, <1>u DEF Presence, Resend, Touch, TouchLight, LinkLost, LoseLink, Tick, PassTime, Elapse,
                    daemon, motion
<1>9. CASE UNCHANGED vars
  BY <1>9, <1>u DEF vars, daemon, motion
<1> QED
  BY <1>1, <1>2, <1>3, <1>4, <1>5, <1>6, <1>7, <1>8, <1>9 DEF Next

LEMMA InitTimerInv == Init => TimerInv
<1> SUFFICES ASSUME Init, NEW r \in Rooms PROVE Heard(r)
  BY InitTimers DEF TimerInv
<1>1. seen[r] # TRUE
  BY InitTimers, MotionAssumption DEF MotionAssumption
<1> QED
  BY <1>1 DEF Heard

LEMMA StepKeepsTimerInv ==
  TypeOK /\ WhoSaysWhat /\ TimerInv /\ [Next]_vars /\ [~Lags]_vars => TimerInv'
<1> SUFFICES ASSUME TypeOK, WhoSaysWhat, TimerInv, [Next]_vars, [~Lags]_vars, Plain'
             PROVE  /\ NoJobs'
                    /\ (~setup.builtin => \A r \in Rooms : offHandle[r] = None)'
                    /\ \A r \in Rooms : Heard(r)' \/ ToBeTold(r)'
                    /\ TimersOnly'
  BY DEF TimerInv
<1>1. setup' = setup
  BY SetupStays
<1>2. Plain
  BY <1>1 DEF Plain
<1>3. /\ NoJobs /\ TimersOnly
      /\ ~setup.builtin => \A r \in Rooms : offHandle[r] = None
      /\ \A r \in Rooms : Heard(r) \/ ToBeTold(r)
  BY <1>2 DEF TimerInv
<1>4. NoJobs' /\ TimersOnly'
  BY <1>2, <1>3, StepKeepsNoJobs, StepKeepsTimers DEF Plain
<1>5. \A r \in Rooms : Heard(r)' \/ ToBeTold(r)'
  BY <1>2, <1>3, StepKeepsHeard
<1>6. ASSUME ~setup.builtin PROVE offHandle' = offHandle
  <2>1. ~MotionDetected /\ ~MotionCleared
    BY <1>6 DEF MotionDetected, MotionCleared
  <2>2. CASE Actor \/ Loop \/ (\E t \in Tasks : Step(t))
    BY <2>2 DEF Actor, Step, Loop, motion
  <2>3. CASE HandleSighting \/ (\E event \in Triggers : Ignored(event)) \/ Automate
    BY <2>3 DEF HandleSighting, Ignored, Automate
  <2>4. CASE \E w \in Workers : TurnOn(w) \/ TurnOff(w) \/ Delay(w) \/ Run(w)
    BY <1>3, <2>4, JobDark
  <2>5. CASE (\E r \in setup.lived : Presence(r) \/ Resend(r) \/ Touch(r)) \/ LinkLost \/ Tick
    BY <2>5 DEF Presence, Resend, Touch, LinkLost, Tick, motion
  <2>6. CASE UNCHANGED vars
    BY <2>6 DEF vars, motion
  <2> QED
    BY <2>1, <2>2, <2>3, <2>4, <2>5, <2>6 DEF Next
<1> QED
  BY <1>1, <1>3, <1>4, <1>5, <1>6

LEMMA TimersImply == TimerInv /\ TypeOK => MotionEndsTimer
<1> SUFFICES ASSUME TypeOK, TimerInv, NEW r \in Rooms, Plain, seen[r] = TRUE, Told(r),
                    NEW w \in Workers, Darkens(w, r)
             PROVE  FALSE
  BY DEF MotionEndsTimer, Plain
<1>1. todo["mqtt"] = <<>> /\ NoneIn(inbox["automation"], MotionOf(r))
  BY DEF Told, LoopIdle, NoneIn, MotionOf
<1>2. ~ToBeTold(r)
  BY <1>1, NotToBeTold, EmptySeq
<1>3. Heard(r) /\ offHandle[r] = w
  BY <1>2 DEF TimerInv, TimersOnly
<1>4. offHandle[r] = None
  BY <1>1, <1>3 DEF Heard, Tells
<1> QED
  BY <1>3, <1>4, MotionConstants

\* As long as the engine loses no event to the capacity of the bus: once it has
\* been told of people in a room nothing is left that would turn its lights off,
\* neither a timer nor one that is over and has begun to.
THEOREM MotionEndsTheTimer == Spec /\ [][~Lags]_vars => []MotionEndsTimer
<1>1. Init => TypeOK /\ WhoSaysWhat /\ TimerInv
  BY InitType, InitWho, InitTimerInv
<1>2. TypeOK /\ WhoSaysWhat /\ TimerInv /\ [Next]_vars /\ [~Lags]_vars
        => (TypeOK /\ WhoSaysWhat /\ TimerInv)'
  BY StepKeepsTypes, StepKeepsWho, StepKeepsTimerInv
<1> QED
  BY <1>1, <1>2, TimersImply, PTL DEF Spec

-----------------------------------------------------------------------------
(* The look at the room before it is darkened: the invariant.               *)

LEMMA InitLook == Init => LookInv
<1> SUFFICES ASSUME Init
             PROVE  /\ NoJobs /\ \A w \in Workers : job[w] = None
                    /\ \A w \in Workers, r \in Rooms : ~PutsOut(w, r)
  BY DEF LookInv, Looks
<1>1. job = [w \in Workers |-> None] /\ todo = [t \in Tasks |-> <<>>]
  BY DEF Init, DaemonInit
<1> QED
  BY <1>1, InitTimers, MotionConstants, ActionsDark DEF PutsOut

\* News that is in the channel is of the loop, and is of a room.
LEMMA NewsInChannel ==
  ASSUME TypeOK, WhoSaysWhat, NEW i \in 1..Len(rx), rx[i] \notin LightCommands
  PROVE  \E r \in Rooms : Queued("mqtt", r)
<1>1. rx[i] \in MotionCommands
  BY DEF WhoSaysWhat
<1>2. PICK r \in Rooms : rx[i] \in OccupancyOf(r)
  BY <1>1 DEF MotionCommands
<1> QED
  BY <1>2, CommandKinds DEF Queued

\* No news is on its way when the loop and its commands are done with.
LEMMA NoNews ==
  ASSUME TypeOK, WhoSaysWhat, sightings = <<>>, \A r \in Rooms : ~Busy("mqtt", r)
  PROVE  ~News
<1>1. ASSUME NEW m \in Sighting, Recording(m)
      PROVE  FALSE
  <2> DEFINE s == Send(m.room, Occupancy(m.occupied))
             a == Occurred(m)
  <2>1. todo["mqtt"] = << s, a >> /\ s.do = "send" /\ s.room = m.room /\ m.room \in Rooms
    BY <1>1 DEF Recording, SightingSteps, Send, Sighting
  <2> HIDE DEF s, a
  <2>2. 1 \in 1..Len(todo["mqtt"]) /\ todo["mqtt"][1] = s
    BY <2>1
  <2>3. Working("mqtt", m.room)
    BY <2>1, <2>2 DEF Working
  <2> QED
    BY <2>1, <2>3 DEF Busy
<1> QED
  BY <1>1, NewsInChannel DEF News, Busy

\* Nothing but a sensor makes news.
LEMMA NewsStays ==
  ASSUME WhoSaysWhat, Says(LightCommands), sightings' = sightings \/ sightings' = <<>>,
         \A m \in Sighting : Recording(m)' => News, News'
  PROVE  News
<1>1. CASE sightings' # <<>> \/ \E m \in Sighting : Recording(m)'
  BY <1>1 DEF News
<1>2. ASSUME NEW i \in 1..Len(rx'), rx'[i] \notin LightCommands
      PROVE  News
  <2>1. CASE rx' = rx
    BY <1>2, <2>1 DEF News
  <2>2. ASSUME NEW c \in LightCommands, rx' = Append(rx, c)
        PROVE  News
    <3>1. /\ Len(rx) \in Nat /\ Len(rx') = Len(rx) + 1 /\ rx'[Len(rx) + 1] = c
          /\ \A j \in 1..Len(rx) : rx'[j] = rx[j]
      BY <2>2, CommandKinds, AppendProperties, LenProperties DEF WhoSaysWhat
    <3>2. i \in 1..Len(rx) /\ rx[i] \notin LightCommands
      BY <1>2, <2>2, <3>1
    <3> QED
      BY <3>2 DEF News
  <2> QED
    BY <2>1, <2>2 DEF Says
<1> QED
  BY <1>1, <1>2 DEF News

\* Whoever makes no news, spawns nothing, and leaves the occupancies alone keeps
\* it so that nobody darkens an occupied room.
LEMMA LooksStay ==
  ASSUME Looks, News' => News, UNCHANGED <<job, now>>,
         \A w \in Workers, r \in Rooms : PutsOut(w, r)' => PutsOut(w, r),
         \A r \in Rooms : rooms'[r].occupancy = rooms[r].occupancy
  PROVE  Looks'
BY DEF Looks

\* The actor: an occupancy on its way is news.
LEMMA ActorLooks ==
  ASSUME TypeOK, WhoSaysWhat, Looks, Actor
  PROVE  Looks'
<1> DEFINE c == Head(rx)
<1>0. RecordOK /\ QueuesOK /\ rx \in Seq(MotionCommands)
  BY MotionParts DEF WhoSaysWhat
<1>1. /\ rx # <<>> /\ rx' = Tail(rx) /\ UNCHANGED <<todo, job, now, sightings, seen>>
  BY DEF Actor, ApplyRoomUpdate, ApplyConnected, motion
<1>2. /\ c = rx[1] /\ 1 \in 1..Len(rx) /\ c \in MotionCommands
      /\ \A i \in 1..Len(rx') : i + 1 \in 1..Len(rx) /\ rx'[i] = rx[i + 1]
  BY <1>0, <1>1, HeadTailProperties, LenProperties
<1>3. News' => News
  <2>1. \A m \in Sighting : Recording(m)' => Recording(m)
    BY <1>1 DEF Recording
  <2>2. (\E i \in 1..Len(rx') : rx'[i] \notin LightCommands)
           => \E i \in 1..Len(rx) : rx[i] \notin LightCommands
    BY <1>2
  <2> QED
    BY <1>1, <2>1, <2>2 DEF News
<1>4. \A w \in Workers, r \in Rooms : PutsOut(w, r)' => PutsOut(w, r)
  BY <1>1 DEF PutsOut
<1>5. CASE c \in LightCommands
  <2>1. ASSUME NEW r \in Rooms PROVE rooms'[r].occupancy = rooms[r].occupancy
    <3>1. CASE ApplyConnected
      BY <3>1 DEF ApplyConnected
    <3>2. CASE ApplyRoomUpdate
      <4>1. /\ c.room \in Rooms /\ c.update \in LightUpdates /\ rooms[r] \in Room /\ now \in Nat
            /\ rooms' = [rooms EXCEPT ![c.room] = ApplyUpdate(@, c.update, now)]
        BY <1>0, <1>1, <1>5, <3>2, CommandKinds, HeadCommand DEF ApplyRoomUpdate, RecordOK
      <4>2. rooms'[r] = rooms[r] \/ rooms'[r] = ApplyUpdate(rooms[r], c.update, now)
        BY <1>0, <4>1 DEF RecordOK
      <4> QED
        BY <4>1, <4>2, LightUpdateKeepsOccupancy
    <3> QED
      BY <3>1, <3>2 DEF Actor
  <2> QED
    BY <1>1, <1>3, <1>4, <2>1, LooksStay
<1>6. CASE c \notin LightCommands
  <2>1. News
    BY <1>2, <1>6 DEF News
  <2>2. \A w \in Workers, r \in Rooms : ~PutsOut(w, r)'
    BY <1>4, <2>1 DEF Looks
  <2> QED
    BY <1>1, <2>1, <2>2 DEF Looks
<1> QED
  BY <1>5, <1>6

\* A task takes its steps: it may send word of a sighting, which is news already.
LEMMA TasksLook ==
  ASSUME TypeOK, WhoSaysWhat, Looks, NEW t \in Tasks, Step(t)
  PROVE  Looks'
<1>0. TaskStep(t) /\ UNCHANGED <<job, sightings, seen>>
  BY DEF Step, motion
<1>1. \A w \in Workers, r \in Rooms : PutsOut(w, r)' => PutsOut(w, r)
  BY <1>0, StepDark
<1>2. UNCHANGED <<rooms, now>> /\ (News' => News)
  <2>1. CASE t # "mqtt"
    <3>1. Says(LightCommands) /\ todo'["mqtt"] = todo["mqtt"] /\ UNCHANGED <<shared, now>>
      BY <1>0, <2>1, WorkerStep, MotionConstants
    <3>2. \A m \in Sighting : Recording(m)' => News
      BY <1>0, <3>1 DEF Recording, News
    <3> QED
      BY <1>0, <3>1, <3>2, NewsStays DEF shared
  <2>2. CASE t = "mqtt" /\ todo["mqtt"] \in Seq(Quiet)
    <3>1. /\ Says(LightCommands) /\ todo'["mqtt"] \in Seq(Quiet) /\ UNCHANGED <<shared, now>>
      BY <1>0, <2>2, QuietStep
    <3>2. \A m \in Sighting : ~Recording(m)'
      BY <3>1, SightingShapes DEF Recording
    <3> QED
      BY <1>0, <3>1, <3>2, NewsStays DEF shared
  <2>3. ASSUME t = "mqtt", NEW m \in Sighting, Recording(m)
        PROVE  UNCHANGED <<rooms, now>> /\ (News' => News)
    BY <1>0, <2>3, RecordingStep DEF Recording, News, shared
  <2>4. ASSUME t = "mqtt", NEW m \in Sighting, Telling(m)
        PROVE  UNCHANGED <<rooms, now>> /\ (News' => News)
    <3>1. todo'["mqtt"] = <<>> /\ UNCHANGED <<shared, rx, now>>
      BY <1>0, <2>4, TellingStep DEF Telling
    <3>2. \A n \in Sighting : ~Recording(n)'
      BY <3>1, SightingShapes DEF Recording
    <3> QED
      BY <1>0, <3>1, <3>2, NewsStays DEF shared, Says
  <2> QED
    BY <2>1, <2>2, <2>3, <2>4 DEF WhoSaysWhat
<1> QED
  BY <1>0, <1>1, <1>2, LooksStay

\* A new timer is not over yet, and one that is over looks at the room.
LEMMA EngineLooks ==
  ASSUME TypeOK, WhoSaysWhat, Looks, MotionDetected \/ MotionCleared
  PROVE  Looks'
<1>1. PICK o \in Rooms, e \in Events : EngineDoes(o, e)
  BY EngineDark
<1>2. /\ UNCHANGED <<rooms, rx, now, sightings, seen>>
      /\ todo'["mqtt"] = todo["mqtt"]
  <2>1. offHandle[o] # "mqtt"
    BY MotionParts, MotionConstants DEF MotionOK
  <2> QED
    BY <1>1, <2>1, MotionConstants DEF EngineDoes, shared
<1>3. News' => News
  BY <1>2 DEF News, Recording
<1>4. ASSUME NEW w \in Workers, NEW r \in Rooms, PutsOut(w, r)'
      PROVE  PutsOut(w, r)
  BY <1>1, <1>4, EngineJobs, ActionsDark DEF PutsOut
<1>5. ASSUME NEW w \in Workers, News', job'[w] # None, job'[w].do = "off"
      PROVE  now < job'[w].at
  <2>1. CASE job'[w] = job[w]
    BY <1>3, <1>5, <2>1 DEF Looks
  <2>2. CASE job'[w] = OffJob(o, Deadline(rooms[o]))
    <3>1. Deadline(rooms[o]) > now /\ Deadline(rooms[o]) \in Nat /\ now \in Nat
      BY JobTypes, MotionParts DEF RecordOK
    <3> QED
      BY <2>2, <3>1 DEF OffJob
  <2> QED
    BY <1>1, <1>5, <2>1, <2>2, EngineJobs
<1> QED
  BY <1>2, <1>3, <1>4, <1>5 DEF Looks

LEMMA JobsLook ==
  ASSUME TypeOK, WhoSaysWhat, NoJobs, Looks, NEW w \in Workers,
         TurnOn(w) \/ TurnOff(w) \/ Delay(w) \/ Run(w)
  PROVE  Looks'
<1>0. job \in [Workers -> Jobs \union {None}] /\ now \in Nat
  BY MotionParts DEF MotionOK, RecordOK
<1>1. /\ job' = [job EXCEPT ![w] = None]
      /\ \A u \in Tasks \ {w} : todo'[u] = todo[u]
      /\ UNCHANGED <<rooms, rx, now, sightings, seen>>
  BY JobDark DEF shared
<1>2. News' => News
  BY <1>1, MotionConstants DEF News, Recording
<1>3. ASSUME NEW r \in Rooms, PutsOut(w, r)'
      PROVE  ~News /\ ~rooms[r].occupancy
  <2>1. TimerFor(w, r) /\ now >= job[w].at /\ ~rooms[r].occupancy
    BY <1>3, JobDark
  <2>2. job[w].at \in Nat
    BY <1>0, <2>1 DEF TimerFor, Jobs
  <2> QED
    BY <1>0, <2>1, <2>2 DEF Looks, TimerFor
<1>4. ASSUME NEW u \in Workers, u # w, NEW r \in Rooms, PutsOut(u, r)'
      PROVE  PutsOut(u, r)
  BY <1>1, <1>4, MotionConstants DEF PutsOut
<1>5. \A u \in Workers : job'[u] = None \/ job'[u] = job[u]
  BY <1>0, <1>1
<1> QED
  BY <1>1, <1>2, <1>3, <1>4, <1>5 DEF Looks

\* A sensor that reports while the daemon is at rest finds every timer asleep
\* and nothing begun; and the clock ticks when the loop and the actor are done
\* with what was reported.
LEMMA OutsideLooks ==
  ASSUME TypeOK, WhoSaysWhat, NoJobs, Looks, setup.prompt,
         (\E r \in setup.lived : Presence(r) \/ Resend(r) \/ Touch(r)) \/ LinkLost \/ Tick
  PROVE  Looks'
<1>1. CASE \E r \in setup.lived : Presence(r) \/ Resend(r)
  <2>1. AtRest /\ UNCHANGED <<todo, job, now, rooms>>
    BY <1>1 DEF Presence, Resend, daemon, shared
  <2>2. ASSUME NEW w \in Workers, job[w] # None, job[w].do = "off" PROVE now < job[w].at
    BY <2>1, <2>2 DEF AtRest, Idle, Asleep
  <2>3. \A w \in Workers, r \in Rooms : ~PutsOut(w, r)
    BY <2>1, MotionConstants, ActionsDark DEF AtRest, Idle, PutsOut
  <2>4. \A w \in Workers, r \in Rooms : ~PutsOut(w, r)'
    BY <2>1, <2>3 DEF PutsOut
  <2> QED
    BY <2>1, <2>2, <2>4 DEF Looks
<1>2. CASE (\E r \in setup.lived : Touch(r)) \/ LinkLost
  <2>1. /\ UNCHANGED <<rx, todo, job, now, rooms, seen>>
        /\ sightings' = sightings \/ sightings' = <<>>
    BY <1>2 DEF Touch, TouchLight, LinkLost, LoseLink, shared
  <2>2. News' => News
    BY <2>1 DEF News, Recording
  <2> QED
    BY <2>1, <2>2, LooksStay DEF PutsOut
<1>3. CASE Tick
  <2>1. /\ UNCHANGED <<rx, todo, job, rooms, seen, sightings>>
        /\ sightings = <<>> /\ \A r \in Rooms : ~Busy("mqtt", r)
    BY <1>3 DEF Tick, PassTime, Elapse, shared, motion
  <2>2. ~News'
    <3>1. ~News
      BY <2>1, NoNews
    <3> QED
      BY <2>1, <3>1 DEF News, Recording
  <2>3. \A w \in Workers, r \in Rooms : PutsOut(w, r)' => PutsOut(w, r)
    BY <2>1 DEF PutsOut
  <2> QED
    BY <2>1, <2>2, <2>3 DEF Looks
<1> QED
  BY <1>1, <1>2, <1>3

LEMMA StepKeepsLook == TypeOK /\ WhoSaysWhat /\ LookInv /\ [Next]_vars => LookInv'
<1> SUFFICES ASSUME TypeOK, WhoSaysWhat, LookInv, [Next]_vars, Prompt'
             PROVE  NoJobs' /\ Looks'
  BY DEF LookInv
<1>1. setup' = setup
  BY SetupStays
<1>2. Prompt /\ NoJobs /\ Looks
  BY <1>1 DEF Prompt, LookInv
<1>3. NoJobs'
  BY <1>2, StepKeepsNoJobs DEF Prompt
<1> SUFFICES Looks'
  BY <1>3
<1>u. UNCHANGED <<job, now, rooms, rx, sightings, todo, seen>> => Looks'
  <2> SUFFICES ASSUME UNCHANGED <<job, now, rooms, rx, sightings, todo, seen>> PROVE Looks'
    OBVIOUS
  <2>1. News' => News
    BY DEF News, Recording
  <2> QED
    BY <1>2, <2>1, LooksStay DEF PutsOut
<1>4. CASE Actor
  BY <1>2, <1>4, ActorLooks
<1>5. ASSUME NEW t \in Tasks, Step(t)
      PROVE  Looks'
  BY <1>2, <1>5, TasksLook
<1>6. CASE Loop
  <2>1. UNCHANGED <<rooms, rx, now, job, sightings, seen>>
    BY <1>6, LoopIsQuiet DEF shared, motion
  <2>2. \A w \in Workers, r \in Rooms : PutsOut(w, r)' => PutsOut(w, r)
    BY <1>6, LoopIsQuiet, MotionConstants DEF PutsOut
  <2>3. \A m \in Sighting : Recording(m)' => News
    BY <1>6, <2>1, LoopIsQuiet, SightingShapes DEF Recording, News
  <2>4. News' => News
    BY <2>1, <2>3 DEF News
  <2> QED
    BY <1>2, <2>1, <2>2, <2>4, LooksStay
<1>7. CASE HandleSighting
  <2>1. sightings # <<>> /\ UNCHANGED <<rooms, now, job>>
    BY <1>7 DEF HandleSighting, shared
  <2>2. \A w \in Workers : todo'[w] = todo[w]
    BY <1>7, SightingPutsDown, MotionConstants
  <2> QED
    BY <1>2, <2>1, <2>2, LooksStay DEF News, PutsOut
<1>8. CASE \E event \in Triggers : Ignored(event)
  BY <1>8, <1>u DEF Ignored, shared
<1>9. CASE MotionDetected \/ MotionCleared
  BY <1>2, <1>9, EngineLooks
<1>10. CASE Automate
  BY <1>2, <1>10 DEF Automate, NoJobs
<1>11. ASSUME NEW w \in Workers, TurnOn(w) \/ TurnOff(w) \/ Delay(w) \/ Run(w)
       PROVE  Looks'
  BY <1>2, <1>11, JobsLook
<1>12. CASE (\E r \in setup.lived : Presence(r) \/ Resend(r) \/ Touch(r)) \/ LinkLost \/ Tick
  BY <1>2, <1>12, OutsideLooks DEF Prompt
<1>13. CASE UNCHANGED vars
  BY <1>13, <1>u DEF vars, daemon, motion, shared
<1> QED
  BY <1>4, <1>5, <1>6, <1>7, <1>8, <1>9, <1>10, <1>11, <1>12, <1>13 DEF Next

\* No timer darkens a room whose occupancy is on record: neither while the
\* timer's last look is behind it and its publish still ahead, whatever the
\* channel and the loop have on the way, nor when the schedule hid the event.
THEOREM OccupiedStaysLit == Spec => NeverSwitchesOffOccupied
<1>1. Init => TypeOK /\ WhoSaysWhat /\ LookInv
  BY InitType, InitWho, InitLook
<1>2. TypeOK /\ WhoSaysWhat /\ LookInv /\ [Next]_vars => (TypeOK /\ WhoSaysWhat /\ LookInv)'
  BY StepKeepsTypes, StepKeepsWho, StepKeepsLook
<1>3. ASSUME TypeOK, LookInv, [Next]_vars
      PROVE  [\A w \in Workers, r \in Rooms :
                setup.prompt /\ setup.automations = {} /\ Publishes(w, r, "OFF")
                  => ~rooms[r].occupancy]_vars
  <2> SUFFICES ASSUME NEW w \in Workers, NEW r \in Rooms, Prompt, Publishes(w, r, "OFF")
               PROVE  ~rooms[r].occupancy
    BY DEF Prompt
  <2>1. todo[w] \in Seq(Steps)
    BY <1>3, MotionParts, MotionConstants DEF QueuesOK
  <2>2. PutsOut(w, r)
    BY <2>1 DEF Publishes, HeadIs, PutsOut, Dark
  <2> QED
    BY <1>3, <2>2 DEF LookInv, Looks
<1> QED
  BY <1>1, <1>2, <1>3, PTL DEF Spec, NeverSwitchesOffOccupied

=============================================================================
