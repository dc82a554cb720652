---------------------------- MODULE Daemon_proofs -----------------------------
(***************************************************************************)
(* What holds of every daemon, whatever its tasks do: an update leaves a   *)
(* room a room, a task keeps to the steps it has put down, and each action *)
(* of the actor, of a task, of the MQTT loop and of the outside keeps the  *)
(* types; what a queue ends up telling, and what it makes of a room.  The  *)
(* components' proofs are built on these lemmas.                           *)
(***************************************************************************)
EXTENDS Daemon, SequenceTheorems, WellFoundedInduction, TLAPS

-----------------------------------------------------------------------------
(* The rooms.                                                               *)

LEMMA OrType ==
  ASSUME NEW level \in MaybeLevel, NEW old \in MaybeLevel
  PROVE  /\ Or(level, old) \in MaybeLevel
         /\ old \in Levels => Or(level, old) \in Levels
BY DEF Or, MaybeLevel

\* What an update of each kind carries.
LEMMA UpdateFields ==
  ASSUME NEW u \in Updates
  PROVE  /\ u.update \in {"LightsOn", "LightsOnWithPush"} => u.level \in MaybeLevel /\ u.source \in Sources
         /\ u.update = "Occupancy" => u.occupied \in BOOLEAN
         /\ u.update \in {"NightMode", "Alarm"} => u.active \in BOOLEAN
         /\ u.update = "CircadianPause" => u.paused \in BOOLEAN /\ u.until \in MaybeInstant
         /\ u.update = "ManualOverrideTtl" => u.until \in MaybeInstant
         /\ u.update = "JehaPush" => u.level \in MaybeLevel
         /\ u.update = "ExternalChange" => u.ttl \in Nat
         /\ u.update = "RestoreLights" => u.snapshot \in Room
BY DEF Updates, LightsOff

LEMMA UpdateKinds ==
  ASSUME NEW u \in Updates
  PROVE  u.update \in {"LightsOn", "LightsOnWithPush", "LightsOff", "Occupancy", "NightMode",
                       "Alarm", "CircadianPause", "ManualOverrideTtl", "JehaPush",
                       "ExternalChange", "RestoreLights"}
BY DEF Updates, LightsOff

\* An update leaves a room a room.
LEMMA ApplyUpdateType ==
  ASSUME NEW room \in Room, NEW u \in Updates, NEW t \in Nat
  PROVE  ApplyUpdate(room, u, t) \in Room
<1> USE DEF ApplyUpdate
<1>1. CASE u.update \in {"LightsOn", "LightsOnWithPush"}
  BY <1>1, UpdateFields, OrType DEF Room, ApplyLightsOn, ApplyLightsOnWithPush, MaybeInstant
<1>2. CASE u.update = "LightsOff"
  BY <1>2 DEF Room, ApplyLightsOff, MaybeInstant
<1>3. CASE u.update \in {"Occupancy", "Alarm"}
  BY <1>3, UpdateFields DEF Room
<1>4. CASE u.update = "NightMode"
  BY <1>4, UpdateFields DEF Room, ApplyNightMode, MaybeInstant
<1>5. CASE u.update \in {"CircadianPause", "ManualOverrideTtl"}
  BY <1>5, UpdateFields DEF Room
<1>6. CASE u.update = "JehaPush"
  BY <1>6, UpdateFields, OrType DEF Room, ApplyJehaPush, MaybeInstant
<1>7. CASE u.update = "ExternalChange"
  <2>1. t + u.ttl \in MaybeInstant
    BY <1>7, UpdateFields DEF MaybeInstant
  <2> QED
    BY <1>7, <2>1 DEF Room, ApplyExternalChange, Sources
<1>8. CASE u.update = "RestoreLights"
  BY <1>8, UpdateFields DEF Room, ApplyRestoreLights
<1> QED
  BY <1>1, <1>2, <1>3, <1>4, <1>5, <1>6, <1>7, <1>8, UpdateKinds

\* The updates a handler can send.
LEMMA UpdateTypes ==
  /\ \A level \in MaybeLevel, source \in Sources :
       LightsOn(level, source) \in Updates /\ LightsOnWithPush(level, source) \in Updates
  /\ \A level \in MaybeLevel : JehaPush(level) \in Updates
  /\ LightsOff \in Updates
  /\ \A b \in BOOLEAN : Occupancy(b) \in Updates /\ NightMode(b) \in Updates /\ Alarm(b) \in Updates
  /\ \A b \in BOOLEAN, t \in MaybeInstant : CircadianPause(b, t) \in Updates
  /\ \A t \in MaybeInstant : ManualOverrideTtl(t) \in Updates
  /\ \A ttl \in Nat : ExternalChange(ttl) \in Updates
  /\ \A room \in Room : RestoreLights(room) \in Updates
BY DEF Updates, LightsOn, LightsOnWithPush, JehaPush, LightsOff, Occupancy, NightMode, Alarm,
       CircadianPause, ManualOverrideTtl, ExternalChange, RestoreLights

LEMMA StartRooms == DarkRoom \in Room /\ LitRoom \in Room
<1>1. DarkRoom \in Room
  BY DEF DarkRoom, DefaultRoom, Room, MaybeLevel, MaybeInstant, Sources
<1>2. "circadian" \in MaybeLevel
  BY DaemonAssumption DEF DaemonAssumption, MaybeLevel
<1> QED
  BY <1>1, <1>2 DEF DarkRoom, LitRoom, DefaultRoom, Room

-----------------------------------------------------------------------------
(* Steps.  A task is written with a vocabulary A of simple steps: it takes  *)
(* those, and publishes that are followed by those.                         *)

StepsOver(A) == A \union {p \in PublishSteps : p.ok \in Seq(A) /\ p.err \in Seq(A)}

Steps == SimpleSteps \union PublishSteps

\* What a step of each kind carries.
LEMMA StepFields ==
  ASSUME NEW s \in Steps
  PROVE  /\ s.do \in {"send", "connected", "announce", "publish"}
         /\ s.do = "send" => s.room \in Rooms /\ s.update \in Updates
         /\ s.do = "connected" => s.up \in BOOLEAN
         /\ s.do = "announce" => s.event \in Events
         /\ s.do = "publish" => s \in PublishSteps
         /\ s.do # "publish" => s \in SimpleSteps
<1>1. CASE s \in PublishSteps
  BY <1>1 DEF PublishSteps
<1>2. CASE s \in SimpleSteps
  BY <1>2 DEF SimpleSteps
<1> QED
  BY <1>1, <1>2 DEF Steps

LEMMA PublishFields ==
  ASSUME NEW s \in PublishSteps
  PROVE  /\ s.do = "publish" /\ s.room \in Rooms /\ s.power \in Power
         /\ s.level \in MaybeLevel /\ s.goal \in Goal \union {None}
         /\ s.ok \in Seq(SimpleSteps) /\ s.err \in Seq(SimpleSteps)
BY DEF PublishSteps

\* The steps a handler can put down.
LEMMA StepTypes ==
  /\ \A r \in Rooms, u \in Updates : Send(r, u) \in SimpleSteps
  /\ \A up \in BOOLEAN : SendConnected(up) \in SimpleSteps
  /\ \A e \in Events : Announce(e) \in SimpleSteps
BY DEF Send, SendConnected, Announce, SimpleSteps

LEMMA PublishType ==
  ASSUME NEW A \in SUBSET SimpleSteps, NEW r \in Rooms, NEW power \in Power,
         NEW level \in MaybeLevel, NEW goal \in Goal \union {None},
         NEW ok \in Seq(A), NEW err \in Seq(A)
  PROVE  Publish(r, power, level, goal, ok, err) \in StepsOver(A)
<1>1. ok \in Seq(SimpleSteps) /\ err \in Seq(SimpleSteps)
  BY SeqMonotonic
<1> QED
  BY <1>1 DEF Publish, PublishSteps, StepsOver

LEMMA Vocabulary ==
  /\ StepsOver(SimpleSteps) = Steps
  /\ \A A \in SUBSET SimpleSteps : StepsOver(A) \subseteq Steps
<1>1. \A p \in PublishSteps : p.ok \in Seq(SimpleSteps) /\ p.err \in Seq(SimpleSteps)
  BY PublishFields
<1> QED
  BY <1>1 DEF StepsOver, Steps

\* A step of a task takes the first of its steps, and puts simple steps of its
\* vocabulary in its place.
LEMMA StepContinues ==
  ASSUME NEW A \in SUBSET SimpleSteps, NEW t \in Tasks, todo[t] \in Seq(StepsOver(A)), TaskStep(t)
  PROVE  /\ todo[t] # <<>>
         /\ \E next \in Seq(A) : todo' = [todo EXCEPT ![t] = next \o Tail(todo[t])]
<1>1. todo[t] # <<>>
  BY DEF TaskStep, SendStep, AnnounceStep, PublishStep, PublishQueuedStep, PublishTimeoutStep, HeadIs
<1>2. Head(todo[t]) \in StepsOver(A)
  BY <1>1, HeadTailProperties
<1>3. StepsOver(A) \subseteq Steps
  BY Vocabulary
<1>4. PICK next \in Seq(A) : Continue(t, next)
  <2>1. CASE SendStep(t) \/ AnnounceStep(t)
    <3>1. Continue(t, <<>>) /\ <<>> \in Seq(A)
      BY <2>1, EmptySeq DEF SendStep, AnnounceStep
    <3> QED
      BY <3>1, Zenon
  <2>2. CASE PublishStep(t) \/ PublishQueuedStep(t) \/ PublishTimeoutStep(t)
    <3>1. Head(todo[t]).do = "publish" /\ Head(todo[t]) \in Steps
      BY <2>2, <1>2, <1>3 DEF PublishStep, PublishQueuedStep, PublishTimeoutStep, HeadIs
    <3>2. Head(todo[t]).ok \in Seq(A) /\ Head(todo[t]).err \in Seq(A)
      <4>1. Head(todo[t]) \notin A
        <5>1. \A s \in SimpleSteps : s.do # "publish"
          BY DEF SimpleSteps
        <5> QED
          BY <5>1, <3>1
      <4> QED
        BY <4>1, <1>2 DEF StepsOver
    <3>3. Continue(t, Head(todo[t]).ok) \/ Continue(t, Head(todo[t]).err)
      BY <2>2 DEF PublishStep, PublishQueuedStep, PublishTimeoutStep
    <3> QED
      BY <3>2, <3>3, Zenon
  <2> QED
    BY <2>1, <2>2 DEF TaskStep
<1> QED
  BY <1>1, <1>4 DEF Continue

\* A step of a task leaves the others alone, and the task with its vocabulary.
LEMMA StepKeepsVocabulary ==
  ASSUME NEW A \in SUBSET SimpleSteps, NEW t \in Tasks,
         todo \in [Tasks -> Seq(Steps)], todo[t] \in Seq(StepsOver(A)), TaskStep(t)
  PROVE  /\ todo' \in [Tasks -> Seq(Steps)]
         /\ todo'[t] \in Seq(StepsOver(A))
         /\ \A u \in Tasks \ {t} : todo'[u] = todo[u]
<1>1. A \subseteq StepsOver(A) /\ StepsOver(A) \subseteq Steps
  BY Vocabulary DEF StepsOver
<1>2. PICK next \in Seq(A) : todo' = [todo EXCEPT ![t] = next \o Tail(todo[t])]
  BY StepContinues
<1>3. Tail(todo[t]) \in Seq(StepsOver(A)) /\ next \in Seq(StepsOver(A))
  BY <1>1, StepContinues, HeadTailProperties, SeqMonotonic
<1>4. next \o Tail(todo[t]) \in Seq(StepsOver(A))
  BY <1>3, ConcatProperties
<1>5. next \o Tail(todo[t]) \in Seq(Steps)
  BY <1>1, <1>4, SeqMonotonic
<1> QED
  BY <1>2, <1>4, <1>5

\* So no step of a kind that is not simple appears.
LEMMA StepAddsSimple ==
  ASSUME NEW A \in SUBSET SimpleSteps, NEW t \in Tasks,
         todo \in [Tasks -> Seq(Steps)], todo[t] \in Seq(StepsOver(A)), TaskStep(t),
         NEW i \in 1..Len(todo'[t])
  PROVE  todo'[t][i] \in A \/ \E j \in 2..Len(todo[t]) : todo'[t][i] = todo[t][j]
<1> DEFINE q == todo[t]
<1>1. q \in Seq(StepsOver(A)) /\ q # <<>>
  BY StepContinues
<1>2. PICK next \in Seq(A) : todo' = [todo EXCEPT ![t] = next \o Tail(todo[t])]
  BY StepContinues
<1>3. todo'[t] = next \o Tail(q)
  BY <1>2
<1> HIDE DEF q
<1>4. /\ Tail(q) \in Seq(StepsOver(A)) /\ next \in Seq(StepsOver(A))
      /\ Len(q) \in Nat /\ Len(next) \in Nat /\ Len(Tail(q)) = Len(q) - 1
      /\ \A k \in 1..Len(Tail(q)) : Tail(q)[k] = q[k + 1]
  <2>1. A \subseteq StepsOver(A)
    BY DEF StepsOver
  <2> QED
    BY <1>1, <2>1, HeadTailProperties, LenProperties, SeqMonotonic
<1>5. i \in 1..(Len(next) + Len(Tail(q)))
      /\ todo'[t][i] = IF i <= Len(next) THEN next[i] ELSE Tail(q)[i - Len(next)]
  BY <1>3, <1>4, ConcatProperties
<1>6. CASE i <= Len(next)
  <2>1. next[i] \in A
    BY <1>4, <1>5, <1>6
  <2> QED
    BY <1>5, <1>6, <2>1
<1>7. CASE ~(i <= Len(next))
  <2>1. i - Len(next) \in 1..Len(Tail(q)) /\ (i - Len(next)) + 1 \in 2..Len(q)
    BY <1>4, <1>5, <1>7
  <2>2. todo'[t][i] = q[(i - Len(next)) + 1]
    BY <1>4, <1>5, <1>7, <2>1
  <2> QED
    BY <2>1, <2>2 DEF q
<1> QED
  BY <1>6, <1>7

\* And none but the first goes.
LEMMA StepKeepsRest ==
  ASSUME NEW A \in SUBSET SimpleSteps, NEW t \in Tasks,
         todo \in [Tasks -> Seq(Steps)], todo[t] \in Seq(StepsOver(A)), TaskStep(t),
         NEW j \in 2..Len(todo[t])
  PROVE  \E i \in 1..Len(todo'[t]) : todo'[t][i] = todo[t][j]
<1> DEFINE q == todo[t]
<1>1. q \in Seq(StepsOver(A)) /\ q # <<>>
  BY StepContinues
<1>2. PICK next \in Seq(A) : todo' = [todo EXCEPT ![t] = next \o Tail(todo[t])]
  BY StepContinues
<1>3. todo'[t] = next \o Tail(q)
  BY <1>2
<1> HIDE DEF q
<1>4. /\ Tail(q) \in Seq(StepsOver(A)) /\ next \in Seq(StepsOver(A))
      /\ Len(q) \in Nat /\ Len(next) \in Nat /\ Len(Tail(q)) = Len(q) - 1
      /\ \A k \in 1..Len(Tail(q)) : Tail(q)[k] = q[k + 1]
  <2>1. A \subseteq StepsOver(A)
    BY DEF StepsOver
  <2> QED
    BY <1>1, <2>1, HeadTailProperties, LenProperties, SeqMonotonic
<1>5. j \in 2..Len(q) /\ q[j] = todo[t][j]
  BY DEF q
<1> DEFINE i == Len(next) + (j - 1)
<1>6. i \in 1..(Len(next) + Len(Tail(q))) /\ ~(i <= Len(next)) /\ i - Len(next) = j - 1
      /\ j - 1 \in 1..Len(Tail(q))
  BY <1>4, <1>5
<1>7. i \in 1..Len(todo'[t]) /\ todo'[t][i] = Tail(q)[j - 1]
  <2> HIDE DEF i
  <2> QED
    BY <1>3, <1>4, <1>6, ConcatProperties
<1>8. Tail(q)[j - 1] = q[j]
  BY <1>4, <1>5, <1>6
<1> QED
  BY <1>5, <1>7, <1>8

-----------------------------------------------------------------------------
(* The types, action by action.                                             *)

Caps == QueueCap \in Nat /\ BusCap \in Nat /\ OutCap \in Nat /\ ReportCap \in Nat

LEMMA CapsType == Caps
BY DaemonAssumption DEF DaemonAssumption, Caps

\* The part of the types that concerns what is queued inside of jeha.
QueuesOK ==
  /\ rx \in Seq(Commands) /\ Len(rx) <= QueueCap
  /\ inbox \in [Subscribers -> Seq(Events)]
  /\ \A s \in Subscribers : Len(inbox[s]) <= BusCap
  /\ todo \in [Tasks -> Seq(Steps)]

\* The part that concerns the lights and the broker.
WorldOK ==
  /\ outq \in Seq(Outgoing) /\ Len(outq) <= OutCap
  /\ bulb \in [Rooms -> Bulb]
  /\ link \in {"up", "lost", "down"}
  /\ reports \in Seq(Report)

\* The part that concerns the record.
RecordOK ==
  /\ rooms \in [Rooms -> Room]
  /\ connected \in BOOLEAN
  /\ dedup \in [Rooms -> MaybeInstant]
  /\ now \in Nat
  /\ wish \in [Rooms -> Goal \union {None}]

LEMMA TypeParts ==
  /\ DaemonTypeOK <=> QueuesOK /\ WorldOK /\ RecordOK
  /\ DaemonTypeOK' <=> QueuesOK' /\ WorldOK' /\ RecordOK'
BY DEF DaemonTypeOK, QueuesOK, WorldOK, RecordOK, Steps

\* A daemon that has connected and settled is well formed.
LEMMA DaemonInitType ==
  ASSUME NEW starts \in SUBSET Room, DaemonInit(starts)
  PROVE  DaemonTypeOK
<1>1. QueuesOK
  BY CapsType DEF DaemonInit, QueuesOK, Caps
<1>2. RecordOK
  BY DEF DaemonInit, RecordOK, MaybeInstant
<1>3. WorldOK
  <2>1. ASSUME NEW r \in Rooms
        PROVE  [on |-> rooms[r].lightsOn, level |-> Or(rooms[r].current, "circadian"),
                ramp |-> "none"] \in Bulb
    <3>1. rooms[r].lightsOn \in BOOLEAN /\ rooms[r].current \in MaybeLevel
      BY <1>2 DEF RecordOK, Room
    <3>2. "circadian" \in Levels
      BY DaemonAssumption DEF DaemonAssumption
    <3> QED
      BY <3>1, <3>2 DEF Bulb, Or, MaybeLevel
  <2> QED
    BY <2>1, CapsType DEF DaemonInit, WorldOK, Caps
<1> QED
  BY <1>1, <1>2, <1>3, TypeParts

LEMMA HeadCommand ==
  ASSUME QueuesOK, rx # <<>>
  PROVE  /\ Head(rx) \in Commands /\ Tail(rx) \in Seq(Commands) /\ Len(Tail(rx)) <= QueueCap
         /\ "room" \in DOMAIN Head(rx) => Head(rx).room \in Rooms /\ Head(rx).update \in Updates
         /\ "connected" \in DOMAIN Head(rx) => Head(rx).connected \in BOOLEAN
<1>1. /\ Head(rx) \in Commands /\ Tail(rx) \in Seq(Commands)
      /\ Len(Tail(rx)) = Len(rx) - 1 /\ Len(rx) \in Nat
  BY HeadTailProperties, LenProperties DEF QueuesOK
<1>2. Len(Tail(rx)) <= QueueCap
  BY <1>1, CapsType DEF QueuesOK, Caps
<1>3. CASE Head(rx) \in [from : Tasks, room : Rooms, update : Updates]
  BY <1>1, <1>2, <1>3
<1>4. CASE Head(rx) \in [from : Tasks, connected : BOOLEAN]
  BY <1>1, <1>2, <1>4
<1> QED
  BY <1>1, <1>3, <1>4 DEF Commands

\* The StateManager actor keeps the types.
LEMMA ActorType ==
  ASSUME DaemonTypeOK, ApplyRoomUpdate \/ ApplyConnected
  PROVE  DaemonTypeOK'
<1>0. QueuesOK /\ WorldOK /\ RecordOK
  BY TypeParts
<1>1. rx # <<>> /\ rx' = Tail(rx) /\ UNCHANGED <<inbox, todo, dedup, world, now, wish>>
  BY DEF ApplyRoomUpdate, ApplyConnected
<1>2. QueuesOK'
  BY <1>0, <1>1, HeadCommand DEF QueuesOK
<1>3. WorldOK'
  BY <1>0, <1>1 DEF WorldOK, world
<1>4. RecordOK'
  <2>1. CASE ApplyRoomUpdate
    <3>1. ApplyUpdate(rooms[Head(rx).room], Head(rx).update, now) \in Room
      BY <1>0, <1>1, <2>1, HeadCommand, ApplyUpdateType DEF RecordOK, ApplyRoomUpdate
    <3> QED
      BY <1>0, <1>1, <2>1, <3>1, HeadCommand DEF RecordOK, ApplyRoomUpdate
  <2>2. CASE ApplyConnected
    BY <1>0, <1>1, <2>2, HeadCommand DEF RecordOK, ApplyConnected
  <2> QED
    BY <2>1, <2>2
<1> QED
  BY <1>2, <1>3, <1>4, TypeParts

\* A broadcast leaves every inbox within its capacity.
LEMMA BroadcastType ==
  ASSUME QueuesOK, NEW e \in Events, Broadcast(e)
  PROVE  /\ inbox' \in [Subscribers -> Seq(Events)]
         /\ \A s \in Subscribers : Len(inbox'[s]) <= BusCap
<1>1. ASSUME NEW s \in Subscribers
      PROVE  inbox'[s] \in Seq(Events) /\ Len(inbox'[s]) <= BusCap
  <2> DEFINE q == inbox[s]
             kept == IF Len(q) < BusCap THEN q ELSE Tail(q)
  <2>1. q \in Seq(Events) /\ Len(q) \in Nat /\ Len(q) <= BusCap
    BY LenProperties DEF QueuesOK
  <2>2. BusCap \in Nat /\ BusCap > 0
    BY DaemonAssumption DEF DaemonAssumption
  <2>3. kept \in Seq(Events) /\ Len(kept) < BusCap
    <3>1. CASE Len(q) < BusCap
      BY <3>1, <2>1
    <3>2. CASE ~(Len(q) < BusCap)
      <4>1. q # <<>>
        BY <3>2, <2>1, <2>2
      <4> QED
        BY <3>2, <4>1, <2>1, <2>2, HeadTailProperties
    <3> QED
      BY <3>1, <3>2
  <2>4. Append(kept, e) \in Seq(Events) /\ Len(Append(kept, e)) <= BusCap
    <3> HIDE DEF kept
    <3>1. Len(kept) \in Nat
      BY <2>3, LenProperties
    <3> QED
      BY <2>2, <2>3, <3>1, AppendProperties
  <2>5. inbox'[s] = IF Heeds(s, e) THEN Append(kept, e) ELSE q
    BY DEF Broadcast
  <2> QED
    BY <2>1, <2>4, <2>5
<1>2. inbox' = [s \in Subscribers |-> inbox'[s]]
  BY DEF Broadcast
<1> QED
  BY <1>1, <1>2

\* A command that reaches the lights leaves them lights, and is reported.
LEMMA DeliverType ==
  ASSUME WorldOK, NEW m \in Outgoing, Deliver(m)
  PROVE  bulb' \in [Rooms -> Bulb] /\ reports' \in Seq(Report)
<1>1. PICK lit \in BOOLEAN :
        LET b == After(bulb[m.room], m.power, m.level, lit)
        IN  /\ bulb' = [bulb EXCEPT ![m.room] = b]
            /\ reports' = Append(reports, [room |-> m.room, on |-> b.on, level |-> b.level])
  BY DEF Deliver
<1> DEFINE b == After(bulb[m.room], m.power, m.level, lit)
<1>2. m.room \in Rooms /\ m.power \in Power /\ m.level \in MaybeLevel /\ bulb[m.room] \in Bulb
  BY DEF WorldOK, Outgoing
<1>3. b \in Bulb
  BY <1>2, Zenon, SMTT(20) DEF After, Bulb, Or, MaybeLevel, Power
<1>4. [room |-> m.room, on |-> b.on, level |-> b.level] \in Report
  BY <1>2, <1>3 DEF Report, Bulb
<1> HIDE DEF b
<1> QED
  BY <1>1, <1>3, <1>4, AppendProperties DEF WorldOK, b

LEMMA GrantType ==
  ASSUME RecordOK, NEW s \in PublishSteps, Grant(s)
  PROVE  wish' \in [Rooms -> Goal \union {None}]
BY PublishFields DEF RecordOK, Grant

\* A step of a task keeps the types.
LEMMA TaskStepType ==
  ASSUME DaemonTypeOK, NEW t \in Tasks, TaskStep(t)
  PROVE  DaemonTypeOK'
<1>0. QueuesOK /\ WorldOK /\ RecordOK
  BY TypeParts
<1>1. todo' \in [Tasks -> Seq(Steps)]
  BY <1>0, StepKeepsVocabulary, Vocabulary DEF QueuesOK
<1> DEFINE s == Head(todo[t])
<1>2. s \in Steps
  <2>1. todo[t] # <<>> /\ todo[t] \in Seq(Steps)
    BY <1>0 DEF TaskStep, SendStep, AnnounceStep, PublishStep, PublishQueuedStep,
                PublishTimeoutStep, HeadIs, QueuesOK
  <2> QED
    BY <2>1, HeadTailProperties
<1>3. CASE SendStep(t)
  <2> DEFINE c == IF s.do = "send" THEN [from |-> t, room |-> s.room, update |-> s.update]
                  ELSE [from |-> t, connected |-> s.up]
  <2>1. /\ s.do \in {"send", "connected"} /\ Len(rx) < QueueCap /\ rx' = Append(rx, c)
        /\ UNCHANGED <<shared, inbox, dedup, world, now, wish>>
    BY <1>3 DEF SendStep, HeadIs
  <2>2. c \in Commands
    BY <1>2, <2>1, StepFields DEF Commands
  <2>3. rx' \in Seq(Commands) /\ Len(rx') <= QueueCap
    <3> HIDE DEF c
    <3> QED
      BY <1>0, <2>1, <2>2, CapsType, AppendProperties, LenProperties DEF QueuesOK, Caps
  <2>4. QueuesOK'
    BY <1>0, <1>1, <2>1, <2>3 DEF QueuesOK
  <2> QED
    BY <1>0, <2>1, <2>4, TypeParts DEF WorldOK, RecordOK, world, shared
<1>4. CASE AnnounceStep(t)
  <2>1. s.event \in Events /\ Broadcast(s.event) /\ UNCHANGED <<shared, rx, dedup, world, now, wish>>
    BY <1>2, <1>4, StepFields DEF AnnounceStep, HeadIs
  <2>2. QueuesOK'
    BY <1>0, <1>1, <2>1, BroadcastType DEF QueuesOK
  <2> QED
    BY <1>0, <2>1, <2>2, TypeParts DEF WorldOK, RecordOK, world, shared
<1>5. CASE PublishStep(t) \/ PublishQueuedStep(t) \/ PublishTimeoutStep(t)
  <2>1. s \in PublishSteps
    BY <1>2, <1>5, StepFields DEF PublishStep, PublishQueuedStep, PublishTimeoutStep, HeadIs
  <2>2. Message(s) \in Outgoing
    BY <2>1, PublishFields DEF Message, Outgoing
  <2>3. QueuesOK'
    BY <1>0, <1>1, <1>5 DEF QueuesOK, PublishStep, PublishQueuedStep, PublishTimeoutStep, world
  <2>4. RecordOK'
    <3>1. Grant(s) \/ wish' = wish
      BY <1>5 DEF PublishStep, PublishQueuedStep, PublishTimeoutStep
    <3>2. UNCHANGED <<rooms, connected, dedup, now>>
      BY <1>5 DEF PublishStep, PublishQueuedStep, PublishTimeoutStep, shared
    <3>3. wish' \in [Rooms -> Goal \union {None}]
      BY <1>0, <2>1, <3>1, GrantType DEF RecordOK
    <3> QED
      BY <1>0, <3>2, <3>3 DEF RecordOK
  <2>5. WorldOK'
    <3>1. CASE PublishStep(t)
      BY <1>0, <2>2, <3>1, DeliverType DEF PublishStep, WorldOK
    <3>2. CASE PublishQueuedStep(t)
      <4>1. outq' \in Seq(Outgoing) /\ Len(outq') <= OutCap
        BY <1>0, <2>2, <3>2, CapsType, AppendProperties, LenProperties
        DEF PublishQueuedStep, WorldOK, Caps
      <4> QED
        BY <1>0, <3>2, <4>1 DEF PublishQueuedStep, WorldOK
    <3>3. CASE PublishTimeoutStep(t)
      BY <1>0, <3>3 DEF PublishTimeoutStep, WorldOK, world
    <3> QED
      BY <1>5, <3>1, <3>2, <3>3
  <2> QED
    BY <2>3, <2>4, <2>5, TypeParts
<1> QED
  BY <1>3, <1>4, <1>5 DEF TaskStep

-----------------------------------------------------------------------------
(* The MQTT loop and the outside.                                           *)

\* A task may put down any steps.
LEMMA TodoType ==
  ASSUME DaemonTypeOK, NEW t \in Tasks, NEW steps \in Seq(Steps),
         todo' = [todo EXCEPT ![t] = steps],
         UNCHANGED <<shared, rx, inbox, dedup, world, now, wish>>
  PROVE  DaemonTypeOK'
<1>1. QueuesOK'
  BY TypeParts DEF QueuesOK
<1> QED
  BY <1>1, TypeParts DEF WorldOK, RecordOK, world, shared

\* What a report of a light makes the loop do: a few sends.
LEMMA ReportStepsType ==
  ASSUME NEW m \in Report, NEW room \in Room, NEW external \in BOOLEAN
  PROVE  ReportSteps(m, room, external) \in Seq({Send(m.room, u) : u \in Updates})
<1> DEFINE S == {Send(m.room, u) : u \in Updates}
           lit == LightsOn(m.level, room.source)
           ext == ExternalChange(ExternalTtl)
<1>1. LightsOff \in Updates /\ lit \in Updates /\ ext \in Updates
  <2>1. m.level \in MaybeLevel /\ room.source \in Sources
    BY DEF Report, Room, MaybeLevel
  <2>2. ExternalTtl \in Nat
    BY DaemonAssumption DEF DaemonAssumption
  <2> QED
    BY <2>1, <2>2, UpdateTypes
<1>2. Send(m.room, LightsOff) \in S /\ Send(m.room, lit) \in S /\ Send(m.room, ext) \in S
  BY <1>1
<1> HIDE DEF S, lit, ext
<1>3. /\ << Send(m.room, LightsOff) >> \in Seq(S) /\ << Send(m.room, lit) >> \in Seq(S)
      /\ << Send(m.room, ext) >> \in Seq(S) /\ <<>> \in Seq(S)
  BY <1>2
<1>4. \A tail \in Seq(S) : << Send(m.room, lit) >> \o tail \in Seq(S)
  BY <1>3, ConcatProperties
<1> QED
  BY <1>3, <1>4 DEF ReportSteps, S, lit, ext

LEMMA SendsAreSteps ==
  ASSUME NEW r \in Rooms
  PROVE  {Send(r, u) : u \in Updates} \subseteq SimpleSteps
BY StepTypes

\* The report at the head, as the loop takes it.
LEMMA HeadReport ==
  ASSUME WorldOK, reports # <<>>
  PROVE  /\ Head(reports) \in Report /\ Tail(reports) \in Seq(Report)
         /\ Head(reports).room \in Rooms
<1>1. Head(reports) \in Report /\ Tail(reports) \in Seq(Report)
  BY HeadTailProperties DEF WorldOK
<1> QED
  BY <1>1 DEF Report

\* A report is handled by a few sends for its room.
LEMMA HandleReportSteps ==
  ASSUME WorldOK, RecordOK, HandleReport
  PROVE  \E r \in Rooms : \E steps \in Seq({Send(r, u) : u \in Updates}) :
            todo' = [todo EXCEPT !["mqtt"] = steps]
<1> DEFINE m == Head(reports)
           external == LooksExternal(m, rooms[m.room]) /\ ~Deduplicated(m.room)
<1>1. m \in Report /\ m.room \in Rooms /\ rooms[m.room] \in Room
  BY HeadReport DEF HandleReport, RecordOK
<1>2. todo' = [todo EXCEPT !["mqtt"] = ReportSteps(m, rooms[m.room], external)]
  BY DEF HandleReport, LoopDoes
<1>3. external \in BOOLEAN
  BY DEF LooksExternal, Deduplicated
<1>4. ReportSteps(m, rooms[m.room], external) \in Seq({Send(m.room, u) : u \in Updates})
  BY <1>1, <1>3, ReportStepsType
<1> QED
  BY <1>1, <1>2, <1>4

LEMMA MqttIsTask == "mqtt" \in Tasks
BY DaemonAssumption DEF DaemonAssumption

\* The handling of a light's report keeps the types.
LEMMA HandleReportType ==
  ASSUME DaemonTypeOK, HandleReport
  PROVE  DaemonTypeOK'
<1>0. QueuesOK /\ WorldOK /\ RecordOK
  BY TypeParts
<1>1. PICK r \in Rooms : \E steps \in Seq({Send(r, u) : u \in Updates}) :
        todo' = [todo EXCEPT !["mqtt"] = steps]
  BY <1>0, HandleReportSteps
<1>a. PICK steps \in Seq({Send(r, u) : u \in Updates}) :
        todo' = [todo EXCEPT !["mqtt"] = steps]
  BY <1>1
<1>2. steps \in Seq(Steps)
  BY SendsAreSteps, SeqMonotonic DEF Steps
<1>3. QueuesOK'
  BY <1>0, <1>a, <1>2 DEF QueuesOK, HandleReport
<1>4. WorldOK'
  BY <1>0, HeadReport DEF WorldOK, HandleReport
<1>5. RecordOK'
  <2>1. dedup' = dedup \/ \E room : dedup' = [dedup EXCEPT ![room] = now]
    BY DEF HandleReport
  <2>2. dedup' \in [Rooms -> MaybeInstant]
    BY <1>0, <2>1 DEF RecordOK, MaybeInstant
  <2> QED
    BY <1>0, <2>2 DEF RecordOK, HandleReport, shared
<1> QED
  BY <1>3, <1>4, <1>5, TypeParts

\* So do the loss of the connection, its return, and the backlog that follows.
LEMMA ConnectionType ==
  ASSUME DaemonTypeOK, PollError \/ ConnAck \/ DeliverQueued
  PROVE  DaemonTypeOK'
<1>0. QueuesOK /\ WorldOK /\ RecordOK
  BY TypeParts
<1>1. CASE PollError \/ ConnAck
  <2>1. Announce(MqttConnected) \in Steps /\ SendConnected(TRUE) \in Steps /\ SendConnected(FALSE) \in Steps
    BY StepTypes DEF Steps, Events, MqttConnected
  <2>2. PICK steps \in Seq(Steps) : todo' = [todo EXCEPT !["mqtt"] = steps]
    <3> DEFINE a == Announce(MqttConnected)
               c == SendConnected(TRUE)
               d == SendConnected(FALSE)
    <3>1. << d >> \in Seq(Steps) /\ << a, c >> \in Seq(Steps)
      <4>1. a \in Steps /\ c \in Steps /\ d \in Steps
        BY <2>1
      <4> HIDE DEF a, c, d
      <4> QED
        BY <4>1
    <3> QED
      BY <1>1, <3>1, Zenon DEF PollError, ConnAck, LoopDoes
  <2>3. QueuesOK'
    BY <1>0, <1>1, <2>2 DEF QueuesOK, PollError, ConnAck
  <2>4. WorldOK' /\ RecordOK'
    BY <1>0, <1>1 DEF WorldOK, RecordOK, PollError, ConnAck, shared
  <2> QED
    BY <2>3, <2>4, TypeParts
<1>2. CASE DeliverQueued
  <2>1. /\ Head(outq) \in Outgoing /\ Tail(outq) \in Seq(Outgoing)
        /\ Len(Tail(outq)) <= OutCap
    BY <1>0, <1>2, CapsType, HeadTailProperties, LenProperties DEF WorldOK, DeliverQueued, Caps
  <2>2. WorldOK'
    BY <1>0, <1>2, <2>1, DeliverType DEF WorldOK, DeliverQueued
  <2>3. QueuesOK' /\ RecordOK'
    BY <1>0, <1>2 DEF QueuesOK, RecordOK, DeliverQueued, shared
  <2> QED
    BY <2>2, <2>3, TypeParts
<1> QED
  BY <1>1, <1>2

\* And what happens outside, whatever becomes of the users' wishes.
LEMMA OutsideType ==
  ASSUME DaemonTypeOK, (\E r \in Rooms : TouchLight(r)) \/ LoseLink \/ PassTime
  PROVE  DaemonTypeOK'
<1>0. QueuesOK /\ WorldOK /\ RecordOK
  BY TypeParts
<1>1. CASE \E r \in Rooms : TouchLight(r)
  <2>1. PICK r \in Rooms : TouchLight(r)
    BY <1>1
  <2>2. PICK b : /\ b \in {[bulb[r] EXCEPT !.on = FALSE, !.ramp = "none"],
                            [on |-> TRUE, level |-> "external", ramp |-> "none"]}
                 /\ bulb' = [bulb EXCEPT ![r] = b]
                 /\ reports' = IF link # "up" THEN reports
                               ELSE Append(reports, [room |-> r, on |-> b.on, level |-> b.level])
    BY <2>1, Zenon DEF TouchLight
  <2>a. /\ bulb' = [bulb EXCEPT ![r] = b]
        /\ reports' = IF link # "up" THEN reports
                      ELSE Append(reports, [room |-> r, on |-> b.on, level |-> b.level])
    BY <2>2, Zenon
  <2>3. b \in Bulb
    <3>1. bulb[r] \in Bulb /\ "external" \in Levels
      BY <1>0, DaemonAssumption DEF WorldOK, DaemonAssumption
    <3>2. CASE b = [bulb[r] EXCEPT !.on = FALSE, !.ramp = "none"]
      BY <3>1, <3>2 DEF Bulb
    <3>3. CASE b = [on |-> TRUE, level |-> "external", ramp |-> "none"]
      BY <3>1, <3>3 DEF Bulb
    <3> QED
      BY <2>2, <3>2, <3>3
  <2>4. [room |-> r, on |-> b.on, level |-> b.level] \in Report
    BY <2>3 DEF Report, Bulb
  <2>5. WorldOK'
    <3>1. reports' \in Seq(Report)
      BY <1>0, <2>a, <2>4, AppendProperties DEF WorldOK
    <3>2. bulb' \in [Rooms -> Bulb]
      BY <1>0, <2>a, <2>3 DEF WorldOK
    <3>3. UNCHANGED <<outq, link>>
      BY <2>1, Zenon DEF TouchLight
    <3> QED
      BY <1>0, <3>1, <3>2, <3>3 DEF WorldOK
  <2>6. QueuesOK' /\ RecordOK'
    <3>1. /\ UNCHANGED <<shared, rx, inbox, todo, dedup, now>>
          /\ wish' = [wish EXCEPT ![r] = None]
      BY <2>1, Zenon DEF TouchLight
    <3> QED
      BY <1>0, <3>1 DEF QueuesOK, RecordOK, shared
  <2> QED
    BY <2>5, <2>6, TypeParts
<1>2. CASE LoseLink
  <2>1. WorldOK' /\ QueuesOK' /\ RecordOK'
    BY <1>0, <1>2 DEF WorldOK, QueuesOK, RecordOK, LoseLink, shared
  <2> QED
    BY <2>1, TypeParts
<1>3. CASE PassTime
  <2>1. WorldOK' /\ QueuesOK' /\ RecordOK'
    BY <1>0, <1>3 DEF WorldOK, QueuesOK, RecordOK, PassTime, Elapse, shared
  <2> QED
    BY <2>1, TypeParts
<1> QED
  BY <1>1, <1>2, <1>3

\* Short sequences.
LEMMA ShortSeqs ==
  ASSUME NEW S, NEW a \in S, NEW b \in S, NEW c \in S, NEW d \in S
  PROVE  /\ <<>> \in Seq(S) /\ << a >> \in Seq(S) /\ << a, b >> \in Seq(S)
         /\ << a, b, c >> \in Seq(S) /\ << a, b, c, d >> \in Seq(S)
OBVIOUS

-----------------------------------------------------------------------------
(* A vocabulary most tasks keep to: sends, and publishes that are followed   *)
(* by sends.                                                                *)

Sends == [do : {"send"}, room : Rooms, update : Updates]

LEMMA SendsType ==
  /\ Sends \in SUBSET SimpleSteps
  /\ \A r \in Rooms, u \in Updates : Send(r, u) \in Sends
  /\ Sends \subseteq StepsOver(Sends)
  /\ StepsOver(Sends) \subseteq Steps
<1>1. Sends \in SUBSET SimpleSteps
  BY DEF Sends, SimpleSteps
<1>2. \A r \in Rooms, u \in Updates : Send(r, u) \in Sends
  BY DEF Sends, Send
<1> QED
  BY <1>1, <1>2, Vocabulary DEF StepsOver

\* The sends that handlers use.
LEMMA SendTypes ==
  ASSUME NEW r \in Rooms
  PROVE  /\ \A level \in MaybeLevel, source \in Sources : Send(r, LightsOn(level, source)) \in Sends
         /\ \A level \in MaybeLevel : Send(r, JehaPush(level)) \in Sends
         /\ Send(r, LightsOff) \in Sends
         /\ \A b \in BOOLEAN, t \in MaybeInstant : Send(r, CircadianPause(b, t)) \in Sends
         /\ \A t \in MaybeInstant : Send(r, ManualOverrideTtl(t)) \in Sends
         /\ \A room \in Room : Send(r, RestoreLights(room)) \in Sends
BY SendsType, UpdateTypes

\* A publish that is followed by sends.
LEMMA PushType ==
  ASSUME NEW r \in Rooms, NEW power \in Power, NEW level \in MaybeLevel,
         NEW goal \in Goal \union {None}, NEW ok \in Seq(Sends), NEW err \in Seq(Sends)
  PROVE  Publish(r, power, level, goal, ok, err) \in StepsOver(Sends)
BY SendsType, PublishType

\* The steps of a task that only sends and publishes.
LEMMA SendFields ==
  ASSUME NEW s \in StepsOver(Sends)
  PROVE  /\ s.do \in {"send", "publish"}
         /\ s.do = "send" => s \in Sends
BY PublishFields DEF StepsOver, Sends

-----------------------------------------------------------------------------
(* What a queue ends up telling: the last of its elements that are in S is  *)
(* in T, and where there is none the fact holds already.                    *)

NoneIn(q, S)    == \A i \in 1..Len(q) : q[i] \notin S
LastIn(q, S, T) ==
  \A i \in 1..Len(q) : q[i] \in S /\ (\A j \in (i + 1)..Len(q) : q[j] \notin S) => q[i] \in T
Tells(q, S, T, fact) == LastIn(q, S, T) /\ (NoneIn(q, S) => fact)

\* An empty queue tells nothing.
LEMMA EmptyTells ==
  ASSUME NEW S, NEW T, NEW fact, fact
  PROVE  Tells(<<>>, S, T, fact)
<1>1. \A i \in 1..Len(<<>>) : FALSE
  OBVIOUS
<1> QED
  BY <1>1 DEF Tells, LastIn

\* What is put into a queue is what it tells, when it is about the fact at all.
LEMMA TellsAppend ==
  ASSUME NEW M, NEW q \in Seq(M), NEW e \in M, NEW S, NEW T, NEW fact
  PROVE  /\ e \notin S /\ Tells(q, S, T, fact) => Tells(Append(q, e), S, T, fact)
         /\ e \in S /\ e \in T => Tells(Append(q, e), S, T, fact)
<1> DEFINE p == Append(q, e)
<1>1. /\ Len(q) \in Nat /\ Len(p) = Len(q) + 1 /\ p[Len(p)] = e
      /\ \A i \in 1..Len(q) : p[i] = q[i]
  BY AppendProperties, LenProperties
<1> HIDE DEF p
<1>2. ASSUME e \notin S, Tells(q, S, T, fact)
      PROVE  Tells(p, S, T, fact)
  <2>1. NoneIn(p, S) => NoneIn(q, S)
    BY <1>1 DEF NoneIn
  <2>2. ASSUME NEW i \in 1..Len(p), p[i] \in S, \A j \in (i + 1)..Len(p) : p[j] \notin S
        PROVE  p[i] \in T
    <3>1. i \in 1..Len(q) /\ q[i] \in S
      BY <1>1, <1>2, <2>2
    <3>2. \A j \in (i + 1)..Len(q) : q[j] \notin S
      BY <1>1, <2>2, <3>1
    <3> QED
      BY <1>1, <1>2, <3>1, <3>2 DEF Tells, LastIn
  <2> QED
    BY <1>2, <2>1, <2>2 DEF Tells, LastIn
<1>3. ASSUME e \in S, e \in T
      PROVE  Tells(p, S, T, fact)
  <2>1. ~NoneIn(p, S)
    BY <1>1, <1>3 DEF NoneIn
  <2>2. ASSUME NEW i \in 1..Len(p), \A j \in (i + 1)..Len(p) : p[j] \notin S
        PROVE  p[i] \in T
    <3>1. i = Len(p)
      BY <1>1, <1>3, <2>2
    <3> QED
      BY <1>1, <1>3, <3>1
  <2> QED
    BY <2>1, <2>2 DEF Tells, LastIn
<1> QED
  BY <1>2, <1>3 DEF p

\* What is taken from a queue makes the fact so, when nothing after it is about
\* it.
LEMMA TellsTail ==
  ASSUME NEW M, NEW q \in Seq(M), q # <<>>, NEW S, NEW T, NEW old, NEW fact,
         Tells(q, S, T, old),
         Head(q) \in S /\ Head(q) \in T => fact,
         Head(q) \notin S /\ old => fact
  PROVE  Tells(Tail(q), S, T, fact)
<1> DEFINE p == Tail(q)
<1>1. /\ Len(q) \in Nat /\ Len(p) \in Nat /\ Len(q) = Len(p) + 1 /\ Head(q) = q[1]
      /\ \A i \in 1..Len(p) : p[i] = q[i + 1]
  BY HeadTailProperties, LenProperties
<1> HIDE DEF p
<1>2. ASSUME NEW i \in 1..Len(p), p[i] \in S, \A j \in (i + 1)..Len(p) : p[j] \notin S
      PROVE  p[i] \in T
  <2>1. i + 1 \in 1..Len(q) /\ q[i + 1] \in S /\ q[i + 1] = p[i]
    BY <1>1, <1>2
  <2>2. ASSUME NEW j \in ((i + 1) + 1)..Len(q)
        PROVE  q[j] \notin S
    <3>1. j - 1 \in (i + 1)..Len(p) /\ p[j - 1] = q[j]
      BY <1>1
    <3> QED
      BY <1>2, <3>1
  <2> QED
    BY <2>1, <2>2 DEF Tells, LastIn
<1>3. ASSUME NoneIn(p, S)
      PROVE  fact
  <2>1. \A j \in 2..Len(q) : q[j] \notin S
    <3> SUFFICES ASSUME NEW j \in 2..Len(q) PROVE q[j] \notin S
      OBVIOUS
    <3>1. j - 1 \in 1..Len(p) /\ p[j - 1] = q[j]
      BY <1>1
    <3> QED
      BY <1>3, <3>1 DEF NoneIn
  <2>2. CASE Head(q) \in S
    BY <1>1, <2>1, <2>2 DEF Tells, LastIn
  <2>3. CASE Head(q) \notin S
    BY <1>1, <2>1, <2>3 DEF Tells, NoneIn
  <2> QED
    BY <2>2, <2>3
<1> QED
  BY <1>2, <1>3 DEF Tells, LastIn, p

-----------------------------------------------------------------------------
(* The faces of rooms: what requests are about, but for the lights.         *)

Face(room, lit, source, override, paused, until) ==
  /\ room.lightsOn = lit /\ room.source = source /\ room.overrideUntil = override
  /\ room.paused = paused /\ room.pausedUntil = until
Alike(a, b) == Face(a, b.lightsOn, b.source, b.overrideUntil, b.paused, b.pausedUntil)

\* The updates whose effect on the face of a room does not depend on the time.
TimelessKinds == {"LightsOn", "LightsOff", "CircadianPause", "ManualOverrideTtl", "JehaPush", "RestoreLights"}

\* What each update makes of the face of a room.
LEMMA FaceApplies ==
  ASSUME NEW room \in Room, NEW u \in Updates, NEW i \in Nat, NEW next, next = ApplyUpdate(room, u, i)
  PROVE  /\ next \in Room
         /\ u.update = "JehaPush" =>
              Alike(next, room)
         /\ u.update = "LightsOn" =>
              Face(next, TRUE, u.source, room.overrideUntil, room.paused, room.pausedUntil)
         /\ u.update = "LightsOff" =>
              Face(next, FALSE, room.source, room.overrideUntil, FALSE, None)
         /\ u.update = "CircadianPause" =>
              Face(next, room.lightsOn, room.source, room.overrideUntil, u.paused, u.until)
         /\ u.update = "ManualOverrideTtl" =>
              Face(next, room.lightsOn, room.source, u.until, room.paused, room.pausedUntil)
         /\ u.update = "ExternalChange" =>
              Face(next, room.lightsOn, "Manual", i + u.ttl, room.paused, room.pausedUntil)
         /\ u.update = "RestoreLights" =>
              Face(next, u.snapshot.lightsOn,
                              IF room.overrideUntil = u.snapshot.overrideUntil THEN u.snapshot.source
                              ELSE room.source,
                              room.overrideUntil, u.snapshot.paused, u.snapshot.pausedUntil)
<1>0. next \in Room
  BY ApplyUpdateType
<1>1. CASE u.update = "JehaPush"
  BY <1>0, <1>1 DEF ApplyUpdate, ApplyJehaPush, Face, Alike, Room
<1>2. CASE u.update = "LightsOn"
  BY <1>0, <1>2 DEF ApplyUpdate, ApplyLightsOn, Face, Alike, Room
<1>3. CASE u.update = "LightsOff"
  BY <1>0, <1>3 DEF ApplyUpdate, ApplyLightsOff, Face, Alike, Room
<1>4. CASE u.update = "CircadianPause"
  BY <1>0, <1>4 DEF ApplyUpdate, Face, Alike, Room
<1>5. CASE u.update = "ManualOverrideTtl"
  BY <1>0, <1>5 DEF ApplyUpdate, Face, Alike, Room
<1>6. CASE u.update = "ExternalChange"
  BY <1>0, <1>6 DEF ApplyUpdate, ApplyExternalChange, Face, Alike, Room
<1>7. CASE u.update = "RestoreLights"
  BY <1>0, <1>7 DEF ApplyUpdate, ApplyRestoreLights, Face, Alike, Room
<1> QED BY <1>0, <1>1, <1>2, <1>3, <1>4, <1>5, <1>6, <1>7

\* What an update makes of the last push.
LEMMA PushApplies ==
  ASSUME NEW room \in Room, NEW u \in Updates, NEW i, NEW next, next = ApplyUpdate(room, u, i)
  PROVE  /\ u.update = "JehaPush" => next.lastPush = i /\ next.intended = Or(u.level, room.intended)
         /\ u.update \in {"LightsOn", "LightsOff", "CircadianPause", "ManualOverrideTtl", "ExternalChange"} =>
              next.lastPush = room.lastPush /\ next.intended = room.intended
<1>1. CASE u.update = "JehaPush"
  BY <1>1 DEF ApplyUpdate, ApplyJehaPush, Room
<1>2. CASE u.update = "LightsOn"
  BY <1>2 DEF ApplyUpdate, ApplyLightsOn, Room
<1>3. CASE u.update = "LightsOff"
  BY <1>3 DEF ApplyUpdate, ApplyLightsOff, Room
<1>4. CASE u.update = "CircadianPause"
  BY <1>4 DEF ApplyUpdate, Room
<1>5. CASE u.update = "ManualOverrideTtl"
  BY <1>5 DEF ApplyUpdate, Room
<1>6. CASE u.update = "ExternalChange"
  BY <1>6 DEF ApplyUpdate, ApplyExternalChange, Room
<1> QED BY <1>1, <1>2, <1>3, <1>4, <1>5, <1>6

\* Rooms alike are alike after a timeless update.
LEMMA FaceFollows ==
  ASSUME NEW a \in Room, NEW b \in Room, Alike(a, b), NEW u \in Updates, u.update \in TimelessKinds,
         NEW i \in Nat, NEW j \in Nat
  PROVE  Alike(ApplyUpdate(a, u, i), ApplyUpdate(b, u, j))
<1>x. PICK x : x = ApplyUpdate(a, u, i)
  OBVIOUS
<1>y. PICK y : y = ApplyUpdate(b, u, j)
  OBVIOUS
<1> SUFFICES Alike(x, y)
  BY <1>x, <1>y
<1>0. /\ a.lightsOn = b.lightsOn /\ a.source = b.source /\ a.overrideUntil = b.overrideUntil
      /\ a.paused = b.paused /\ a.pausedUntil = b.pausedUntil
  BY DEF Alike, Face
<1>1. CASE u.update = "JehaPush"
  <2>1. Alike(x, a) /\ Alike(y, b)
    BY <1>1, <1>x, <1>y, FaceApplies
  <2> QED BY <1>0, <2>1 DEF Alike, Face
<1>2. CASE u.update = "LightsOn"
  <2>1. /\ Face(x, TRUE, u.source, a.overrideUntil, a.paused, a.pausedUntil)
        /\ Face(y, TRUE, u.source, b.overrideUntil, b.paused, b.pausedUntil)
    BY <1>2, <1>x, <1>y, FaceApplies
  <2> QED BY <1>0, <2>1 DEF Alike, Face
<1>3. CASE u.update = "LightsOff"
  <2>1. /\ Face(x, FALSE, a.source, a.overrideUntil, FALSE, None)
        /\ Face(y, FALSE, b.source, b.overrideUntil, FALSE, None)
    BY <1>3, <1>x, <1>y, FaceApplies
  <2> QED BY <1>0, <2>1 DEF Alike, Face
<1>4. CASE u.update = "CircadianPause"
  <2>1. /\ Face(x, a.lightsOn, a.source, a.overrideUntil, u.paused, u.until)
        /\ Face(y, b.lightsOn, b.source, b.overrideUntil, u.paused, u.until)
    BY <1>4, <1>x, <1>y, FaceApplies
  <2> QED BY <1>0, <2>1 DEF Alike, Face
<1>5. CASE u.update = "ManualOverrideTtl"
  <2>1. /\ Face(x, a.lightsOn, a.source, u.until, a.paused, a.pausedUntil)
        /\ Face(y, b.lightsOn, b.source, u.until, b.paused, b.pausedUntil)
    BY <1>5, <1>x, <1>y, FaceApplies
  <2> QED BY <1>0, <2>1 DEF Alike, Face
<1>6. CASE u.update = "RestoreLights"
  <2> DEFINE s == u.snapshot
  <2>1. /\ Face(x, s.lightsOn, IF a.overrideUntil = s.overrideUntil THEN s.source ELSE a.source,
                        a.overrideUntil, s.paused, s.pausedUntil)
        /\ Face(y, s.lightsOn, IF b.overrideUntil = s.overrideUntil THEN s.source ELSE b.source,
                        b.overrideUntil, s.paused, s.pausedUntil)
    BY <1>6, <1>x, <1>y, FaceApplies
  <2> QED BY <1>0, <2>1 DEF Alike, Face
<1> QED BY <1>1, <1>2, <1>3, <1>4, <1>5, <1>6 DEF TimelessKinds

LEMMA AlikeTwice ==
  ASSUME NEW a, NEW b, NEW c, Alike(a, b), Alike(b, c)
  PROVE  Alike(a, c) /\ Alike(b, a) /\ Alike(a, a)
BY DEF Alike, Face

-----------------------------------------------------------------------------
(* What a queue holds.                                                      *)

Has(q, e) == \E i \in 1..Len(q) : q[i] = e

LEMMA HasSeq ==
  ASSUME NEW M, NEW q \in Seq(M)
  PROVE  /\ q # <<>> => \A e : Has(q, e) <=> e = Head(q) \/ Has(Tail(q), e)
         /\ \A c \in M : \A e : Has(Append(q, c), e) <=> e = c \/ Has(q, e)
         /\ \A e : ~Has(<<>>, e)
         /\ \A e : Has(q, e) => e \in M
<1>1. ASSUME q # <<>>
      PROVE  \A e : Has(q, e) <=> e = Head(q) \/ Has(Tail(q), e)
  <2> DEFINE p == Tail(q)
  <2>1. /\ Len(p) \in Nat /\ Len(q) = Len(p) + 1 /\ Head(q) = q[1]
        /\ \A i \in 1..Len(p) : p[i] = q[i + 1]
    BY <1>1, HeadTailProperties, LenProperties
  <2> HIDE DEF p
  <2>2. \A i \in 1..Len(q) : i = 1 \/ (i - 1 \in 1..Len(p) /\ (i - 1) + 1 = i)
    BY <2>1
  <2>3. 1 \in 1..Len(q) /\ \A i \in 1..Len(p) : i + 1 \in 1..Len(q)
    BY <2>1
  <2>4. \A e : Has(q, e) <=> e = Head(q) \/ Has(p, e)
    BY <2>1, <2>2, <2>3 DEF Has
  <2> QED BY <2>4 DEF p
<1>2. ASSUME NEW c \in M
      PROVE  \A e : Has(Append(q, c), e) <=> e = c \/ Has(q, e)
  <2> DEFINE p == Append(q, c)
  <2>1. /\ Len(q) \in Nat /\ Len(p) = Len(q) + 1 /\ p[Len(q) + 1] = c
        /\ \A i \in 1..Len(q) : p[i] = q[i]
    BY AppendProperties, LenProperties
  <2> HIDE DEF p
  <2>2. /\ \A i \in 1..Len(p) : i = Len(q) + 1 \/ i \in 1..Len(q)
        /\ Len(q) + 1 \in 1..Len(p) /\ \A i \in 1..Len(q) : i \in 1..Len(p)
    BY <2>1
  <2>3. \A e : Has(p, e) <=> e = c \/ Has(q, e)
    BY <2>1, <2>2 DEF Has
  <2> QED BY <2>3 DEF p
<1>3. \A e : ~Has(<<>>, e)
  BY DEF Has
<1>4. \A e : Has(q, e) => e \in M
  BY DEF Has
<1> QED BY <1>1, <1>2, <1>3, <1>4

LEMMA HasConcat ==
  ASSUME NEW M, NEW q1 \in Seq(M), NEW q2 \in Seq(M)
  PROVE  \A e : Has(q1 \o q2, e) <=> Has(q1, e) \/ Has(q2, e)
<1>1. /\ Len(q1 \o q2) = Len(q1) + Len(q2) /\ Len(q1) \in Nat /\ Len(q2) \in Nat
      /\ \A i \in 1..(Len(q1) + Len(q2)) : (q1 \o q2)[i] = IF i <= Len(q1) THEN q1[i] ELSE q2[i - Len(q1)]
  BY ConcatProperties, LenProperties
<1>2. ASSUME NEW e, Has(q1 \o q2, e)
      PROVE  Has(q1, e) \/ Has(q2, e)
  <2>1. PICK i \in 1..(Len(q1) + Len(q2)) : (q1 \o q2)[i] = e
    BY <1>1, <1>2 DEF Has
  <2>2. CASE i <= Len(q1)
    BY <1>1, <2>1, <2>2 DEF Has
  <2>3. CASE ~(i <= Len(q1))
    <3>1. i - Len(q1) \in 1..Len(q2) /\ q2[i - Len(q1)] = e
      BY <1>1, <2>1, <2>3
    <3> QED BY <3>1 DEF Has
  <2> QED BY <2>2, <2>3
<1>3. ASSUME NEW e, Has(q1, e)
      PROVE  Has(q1 \o q2, e)
  <2>1. PICK i \in 1..Len(q1) : q1[i] = e
    BY <1>3 DEF Has
  <2>2. i \in 1..Len(q1 \o q2) /\ (q1 \o q2)[i] = e
    BY <1>1, <2>1
  <2> QED BY <2>2 DEF Has
<1>4. ASSUME NEW e, Has(q2, e)
      PROVE  Has(q1 \o q2, e)
  <2>1. PICK i \in 1..Len(q2) : q2[i] = e
    BY <1>4 DEF Has
  <2>2. i + Len(q1) \in 1..Len(q1 \o q2) /\ (q1 \o q2)[i + Len(q1)] = e
    BY <1>1, <2>1
  <2> QED BY <2>2 DEF Has
<1> QED BY <1>2, <1>3, <1>4

LEMMA HasShort ==
  ASSUME NEW a, NEW b
  PROVE  /\ \A e : ~Has(<<>>, e)
         /\ \A e : Has(<<a>>, e) <=> e = a
         /\ \A e : Has(<<a, b>>, e) <=> e \in {a, b}
<1>1. \A e : ~Has(<<>>, e)
  BY DEF Has
<1>2. \A e : Has(<<a>>, e) <=> e = a
  BY DEF Has
<1>3. \A e : Has(<<a, b>>, e) <=> e \in {a, b}
  <2>1. /\ \A k \in 1..Len(<<a, b>>) : <<a, b>>[k] \in {a, b}
        /\ 1 \in 1..Len(<<a, b>>) /\ <<a, b>>[1] = a /\ 2 \in 1..Len(<<a, b>>) /\ <<a, b>>[2] = b
    OBVIOUS
  <2> DEFINE q == <<a, b>>
  <2> HIDE DEF q
  <2>2. \A e : Has(q, e) <=> e \in {a, b}
    BY <2>1 DEF Has, q
  <2> QED BY <2>2 DEF q
<1> QED BY <1>1, <1>2, <1>3

LEMMA HasFour ==
  ASSUME NEW a, NEW b, NEW c, NEW d
  PROVE  \A e : Has(<<a, b, c, d>>, e) <=> e \in {a, b, c, d}
<1>1. /\ \A k \in 1..Len(<<a, b, c, d>>) : <<a, b, c, d>>[k] \in {a, b, c, d}
      /\ 1 \in 1..Len(<<a, b, c, d>>) /\ <<a, b, c, d>>[1] = a
      /\ 2 \in 1..Len(<<a, b, c, d>>) /\ <<a, b, c, d>>[2] = b
      /\ 3 \in 1..Len(<<a, b, c, d>>) /\ <<a, b, c, d>>[3] = c
      /\ 4 \in 1..Len(<<a, b, c, d>>) /\ <<a, b, c, d>>[4] = d
  OBVIOUS
<1> QED BY <1>1 DEF Has

\* What short sequences say.
LEMMA ShortSays ==
  ASSUME NEW x, NEW y, NEW z
  PROVE  /\ \A k \in 1..Len(<<>>) : FALSE
         /\ \A k \in 1..Len(<<x>>) : <<x>>[k] = x
         /\ \A k \in 1..Len(<<x, y>>) : <<x, y>>[k] \in {x, y}
         /\ \A k \in 1..Len(<<x, y, z>>) : <<x, y, z>>[k] \in {x, y, z}
         /\ 2 \in 1..Len(<<x, y>>) /\ <<x, y>>[2] = y
OBVIOUS

-----------------------------------------------------------------------------
(* What a queue leads to.                                                   *)

\* What elements of a queue that are in S, and say timeless updates, make of a
\* record: h is how it changes.
Made(S, e, room) == IF e \in S THEN ApplyUpdate(room, e.update, 0) ELSE room
Leads(q, S, a, b) ==
  \E h \in [0..Len(q) -> Room] :
    /\ Alike(h[0], a) /\ h[Len(q)] = b
    /\ \A i \in 1..Len(q) : /\ h[i] = Made(S, q[i], h[i - 1])
                            /\ q[i] \in S => q[i].update.update \in TimelessKinds

\* A queue with nothing to say changes nothing.
LEMMA LeadsNothing ==
  ASSUME NEW M, NEW q \in Seq(M), NEW S, NEW a \in Room, NoneIn(q, S)
  PROVE  Leads(q, S, a, a)
<1> DEFINE n == Len(q)
           h == [i \in 0..n |-> a]
<1>1. n \in Nat
  BY LenProperties
<1>2. Alike(a, a)
  BY DEF Alike, Face
<1>3. 0 \in 0..n /\ n \in 0..n /\ \A i \in 1..n : i \in 0..n /\ i - 1 \in 0..n
  BY <1>1
<1>4. h \in [0..n -> Room] /\ \A i \in 0..n : h[i] = a
  OBVIOUS
<1>5. \A i \in 1..n : q[i] \notin S
  BY DEF NoneIn
<1> HIDE DEF n, h
<1>6. Alike(h[0], a) /\ h[n] = a
  BY <1>2, <1>3, <1>4
<1>7. \A i \in 1..n : h[i] = Made(S, q[i], h[i - 1])
  BY <1>3, <1>4, <1>5 DEF Made
<1> QED BY <1>4, <1>5, <1>6, <1>7 DEF Leads, n

LEMMA LeadsFrom ==
  ASSUME NEW q, NEW S, NEW a, NEW b, NEW c, Alike(c, a), Leads(q, S, c, b)
  PROVE  Leads(q, S, a, b)
<1>1. \A x : Alike(x, c) => Alike(x, a)
  BY AlikeTwice
<1> QED BY <1>1 DEF Leads

\* Something more is said.
LEMMA LeadsAppend ==
  ASSUME NEW M, NEW q \in Seq(M), NEW e \in M, NEW S, NEW a, NEW b, Leads(q, S, a, b),
         NEW c \in Room, c = Made(S, e, b), e \in S => e.update.update \in TimelessKinds
  PROVE  Leads(Append(q, e), S, a, c)
<1> DEFINE p == Append(q, e)
           n == Len(q)
<1>1. /\ n \in Nat /\ Len(p) = n + 1 /\ p[n + 1] = e /\ \A i \in 1..n : p[i] = q[i]
  BY AppendProperties, LenProperties
<1>2. PICK h \in [0..n -> Room] :
        /\ Alike(h[0], a) /\ h[n] = b
        /\ \A i \in 1..n : /\ h[i] = Made(S, q[i], h[i - 1])
                           /\ q[i] \in S => q[i].update.update \in TimelessKinds
  BY DEF Leads
<1> DEFINE g == [i \in 0..(n + 1) |-> IF i = n + 1 THEN c ELSE h[i]]
<1> HIDE DEF p, n
<1>3. g \in [0..(n + 1) -> Room] /\ g[n + 1] = c /\ \A i \in 0..n : g[i] = h[i]
  BY <1>1, <1>2
<1> HIDE DEF g
<1>4. 0 \in 0..n /\ n \in 0..n /\ \A i \in 1..(n + 1) : i - 1 \in 0..n /\ (i = n + 1 \/ (i \in 1..n /\ i \in 0..n))
  BY <1>1
<1>5. Alike(g[0], a)
  BY <1>2, <1>3, <1>4
<1>6. ASSUME NEW i \in 1..(n + 1)
      PROVE  g[i] = Made(S, p[i], g[i - 1]) /\ (p[i] \in S => p[i].update.update \in TimelessKinds)
  <2>1. CASE i = n + 1
    <3>1. i - 1 = n
      BY <1>1, <2>1
    <3>2. g[i] = c /\ g[i - 1] = b /\ p[i] = e
      BY <1>1, <1>2, <1>3, <1>4, <2>1, <3>1
    <3> QED BY <3>2
  <2>2. CASE i \in 1..n
    <3>1. g[i] = h[i] /\ g[i - 1] = h[i - 1] /\ p[i] = q[i]
      BY <1>1, <1>3, <1>4, <2>2
    <3> QED BY <1>2, <2>2, <3>1
  <2> QED BY <1>4, <2>1, <2>2
<1>7. Leads(p, S, a, c)
  BY <1>1, <1>3, <1>5, <1>6 DEF Leads
<1> QED BY <1>7 DEF p

\* The first thing was said.
LEMMA LeadsTail ==
  ASSUME NEW M, NEW q \in Seq(M), q # <<>>, NEW S, NEW a, NEW b, Leads(q, S, a, b), NEW next,
         \A room \in Room :
           Alike(room, a) /\ (Head(q) \in S => Head(q).update.update \in TimelessKinds)
             => Alike(Made(S, Head(q), room), next)
  PROVE  Leads(Tail(q), S, next, b)
<1> DEFINE p == Tail(q)
           m == Len(p)
<1>1. /\ m \in Nat /\ Len(q) = m + 1 /\ Head(q) = q[1] /\ \A i \in 1..m : p[i] = q[i + 1]
  BY HeadTailProperties, LenProperties
<1>2. PICK h \in [0..Len(q) -> Room] :
        /\ Alike(h[0], a) /\ h[Len(q)] = b
        /\ \A i \in 1..Len(q) : /\ h[i] = Made(S, q[i], h[i - 1])
                                /\ q[i] \in S => q[i].update.update \in TimelessKinds
  BY DEF Leads
<1> DEFINE g == [i \in 0..m |-> h[i + 1]]
<1> HIDE DEF p, m
<1>3. /\ 0 \in 0..m /\ m \in 0..m /\ 1 \in 1..Len(q) /\ 0 \in 0..Len(q) /\ 1 - 1 = 0
      /\ \A i \in 0..m : i + 1 \in 0..Len(q)
      /\ \A i \in 1..m : /\ i \in 0..m /\ i - 1 \in 0..m /\ i + 1 \in 1..Len(q)
                         /\ (i - 1) + 1 = i /\ (i + 1) - 1 = i
  BY <1>1
<1>4. g \in [0..m -> Room] /\ \A i \in 0..m : g[i] = h[i + 1]
  BY <1>2, <1>3
<1> HIDE DEF g
<1>5. Alike(g[0], next) /\ g[m] = b
  <2>1. h[1] = Made(S, q[1], h[0]) /\ h[0] \in Room /\ (q[1] \in S => q[1].update.update \in TimelessKinds)
    BY <1>2, <1>3
  <2>2. Alike(h[1], next)
    BY <1>1, <1>2, <2>1
  <2>3. g[0] = h[1] /\ g[m] = h[Len(q)]
    BY <1>1, <1>3, <1>4
  <2> QED BY <1>2, <2>2, <2>3
<1>6. ASSUME NEW i \in 1..m
      PROVE  g[i] = Made(S, p[i], g[i - 1]) /\ (p[i] \in S => p[i].update.update \in TimelessKinds)
  <2>1. g[i] = h[i + 1] /\ g[i - 1] = h[i] /\ p[i] = q[i + 1]
    BY <1>1, <1>3, <1>4
  <2>2. /\ h[i + 1] = Made(S, q[i + 1], h[i])
        /\ q[i + 1] \in S => q[i + 1].update.update \in TimelessKinds
    BY <1>2, <1>3
  <2> QED BY <2>1, <2>2
<1>7. Leads(p, S, next, b)
  BY <1>4, <1>5, <1>6 DEF Leads, m
<1> QED BY <1>7 DEF p

\* With nothing left to say the record is as it will be.
LEMMA LeadsEnds ==
  ASSUME NEW M, NEW q \in Seq(M), NEW S, NEW a, NEW b, Leads(q, S, a, b), NoneIn(q, S)
  PROVE  Alike(b, a) /\ Alike(a, b)
<1> DEFINE n == Len(q)
<1>1. n \in Nat /\ \A i \in 1..n : q[i] \notin S
  BY LenProperties DEF NoneIn
<1>2. PICK h \in [0..n -> Room] :
        /\ Alike(h[0], a) /\ h[n] = b
        /\ \A i \in 1..n : h[i] = Made(S, q[i], h[i - 1])
  BY DEF Leads
<1>3. \A i \in 1..n : h[i] = h[i - 1]
  BY <1>1, <1>2 DEF Made
<1> DEFINE other == {k \in 0..n : h[k] # h[0]}
<1> HIDE DEF n
<1>4. other = {}
  <2> SUFFICES ASSUME other # {} PROVE FALSE
    OBVIOUS
  <2>1. other \in SUBSET Nat
    BY <1>1
  <2>2. PICK k \in other : \A m \in other : ~(m < k)
    <3>1. PICK k \in other : \A m \in other : <<m, k>> \notin OpToRel(<, Nat)
      BY <2>1, NatLessThanWellFounded, WFMin, Zenon
    <3> HIDE DEF other
    <3> QED BY <2>1, <3>1, Zenon DEF OpToRel
  <2>3. k \in 0..n /\ h[k] # h[0] /\ k # 0
    BY <2>2
  <2>4. k \in 1..n /\ k - 1 \in 0..n /\ k - 1 < k
    BY <1>1, <2>3
  <2>5. h[k - 1] = h[0]
    BY <2>2, <2>4
  <2> QED BY <1>3, <2>3, <2>4, <2>5
<1>5. h[n] = h[0]
  BY <1>1, <1>4
<1>6. Alike(b, a)
  BY <1>2, <1>5
<1> QED BY <1>6 DEF Alike, Face

\* What up to three things said lead to.
LEMMA LeadsUpTo ==
  ASSUME NEW S, NEW a, NEW b, NEW c, a \in S, b \in S, c \in S,
         a.update.update \in TimelessKinds, b.update.update \in TimelessKinds, c.update.update \in TimelessKinds,
         NEW x \in Room, NEW y \in Room, NEW z \in Room, NEW v \in Room,
         y = Made(S, a, x), z = Made(S, b, y), v = Made(S, c, z)
  PROVE  /\ Leads(<<>>, S, x, x) /\ Leads(<<a>>, S, x, y)
         /\ Leads(<<a, b>>, S, x, z) /\ Leads(<<a, b, c>>, S, x, v)
<1> DEFINE M == {a, b, c}
<1>1. <<>> \in Seq(M) /\ <<a>> \in Seq(M) /\ <<a, b>> \in Seq(M)
  OBVIOUS
<1>2. <<a>> = Append(<<>>, a) /\ <<a, b>> = Append(<<a>>, b) /\ <<a, b, c>> = Append(<<a, b>>, c)
  OBVIOUS
<1>3. a \in M /\ b \in M /\ c \in M
  OBVIOUS
<1> HIDE DEF M
<1>4. Leads(<<>>, S, x, x)
  <2>1. NoneIn(<<>>, S)
    BY DEF NoneIn
  <2> QED BY <1>1, <2>1, LeadsNothing
<1>5. Leads(<<a>>, S, x, y)
  BY <1>1, <1>2, <1>3, <1>4, LeadsAppend
<1>6. Leads(<<a, b>>, S, x, z)
  BY <1>1, <1>2, <1>3, <1>5, LeadsAppend
<1>7. Leads(<<a, b, c>>, S, x, v)
  BY <1>1, <1>2, <1>3, <1>6, LeadsAppend
<1> QED BY <1>4, <1>5, <1>6, <1>7

-----------------------------------------------------------------------------
(* What tasks have still to say and to publish, and what steps leave of it. *)

\* The sends about a room, and the commands they become.
SendsOf(r)    == [do : {"send"}, room : {r}, update : Updates]
CommandsOf(r) == [from : Tasks, room : {r}, update : Updates]

\* What has still to be said of a room, and to be published to it, by which task.
Pending(t, r) ==
  {u \in Updates : Has(todo[t], Send(r, u)) \/ Has(rx, [from |-> t, room |-> r, update |-> u])}
Goings(t, r) == {p \in PublishSteps : p.room = r /\ Has(todo[t], p)}

\* The step at the head of what a task has to do.
LEMMA HeadStep ==
  ASSUME QueuesOK, NEW t \in Tasks, todo[t] # <<>>
  PROVE  /\ Head(todo[t]) \in Steps /\ Tail(todo[t]) \in Seq(Steps)
         /\ Continue(t, <<>>) => todo' = [todo EXCEPT ![t] = Tail(todo[t])]
<1>1. todo[t] \in Seq(Steps)
  BY DEF QueuesOK
<1>2. Head(todo[t]) \in Steps /\ Tail(todo[t]) \in Seq(Steps)
  BY <1>1, HeadTailProperties
<1>3. <<>> \o Tail(todo[t]) = Tail(todo[t])
  BY <1>2, ConcatProperties
<1> QED BY <1>2, <1>3 DEF Continue

LEMMA WorkIs ==
  ASSUME NEW plan \in Seq(Steps), NEW r \in Rooms
  PROVE  (\E i \in 1..Len(plan) : plan[i].do \in {"send", "publish"} /\ plan[i].room = r)
           <=> \/ \E u \in Updates : Has(plan, Send(r, u))
               \/ \E p \in PublishSteps : p.room = r /\ Has(plan, p)
<1>1. ASSUME NEW i \in 1..Len(plan), plan[i].do \in {"send", "publish"}, plan[i].room = r
      PROVE  \/ \E u \in Updates : Has(plan, Send(r, u))
             \/ \E p \in PublishSteps : p.room = r /\ Has(plan, p)
  <2> DEFINE s == plan[i]
  <2>0. s \in Steps
    OBVIOUS
  <2>1. CASE s.do = "send"
    <3>1. s \in [do : {"send"}, room : Rooms, update : Updates]
      BY <2>0, <2>1, StepFields DEF SimpleSteps
    <3>2. s = Send(r, s.update) /\ s.update \in Updates
      BY <1>1, <3>1 DEF Send
    <3> QED BY <3>2 DEF Has
  <2>2. CASE s.do = "publish"
    BY <1>1, <2>0, <2>2, StepFields DEF Has
  <2> QED BY <1>1, <2>1, <2>2
<1>2. ASSUME NEW u \in Updates, Has(plan, Send(r, u))
      PROVE  \E i \in 1..Len(plan) : plan[i].do \in {"send", "publish"} /\ plan[i].room = r
  BY <1>2 DEF Has, Send
<1>3. ASSUME NEW p \in PublishSteps, p.room = r, Has(plan, p)
      PROVE  \E i \in 1..Len(plan) : plan[i].do \in {"send", "publish"} /\ plan[i].room = r
  BY <1>3, PublishFields DEF Has
<1> QED BY <1>1, <1>2, <1>3

LEMMA QueueIs ==
  ASSUME NEW queue \in Seq(Commands), NEW t \in Tasks, NEW r \in Rooms
  PROVE  (\E i \in 1..Len(queue) : queue[i].from = t /\ "room" \in DOMAIN queue[i] /\ queue[i].room = r)
           <=> \E u \in Updates : Has(queue, [from |-> t, room |-> r, update |-> u])
<1>1. ASSUME NEW i \in 1..Len(queue), queue[i].from = t, "room" \in DOMAIN queue[i], queue[i].room = r
      PROVE  \E u \in Updates : Has(queue, [from |-> t, room |-> r, update |-> u])
  <2>1. queue[i] \in [from : Tasks, room : Rooms, update : Updates]
    <3>1. queue[i] \in Commands
      OBVIOUS
    <3> QED BY <1>1, <3>1 DEF Commands
  <2>2. queue[i] = [from |-> t, room |-> r, update |-> queue[i].update] /\ queue[i].update \in Updates
    BY <1>1, <2>1
  <2> QED BY <2>2 DEF Has
<1>2. ASSUME NEW u \in Updates, Has(queue, [from |-> t, room |-> r, update |-> u])
      PROVE  \E i \in 1..Len(queue) : queue[i].from = t /\ "room" \in DOMAIN queue[i] /\ queue[i].room = r
  <2>1. PICK i \in 1..Len(queue) : queue[i] = [from |-> t, room |-> r, update |-> u]
    BY <1>2 DEF Has
  <2>2. queue[i].from = t /\ "room" \in DOMAIN queue[i] /\ queue[i].room = r
    BY <2>1
  <2> QED BY <2>2
<1> QED BY <1>1, <1>2

\* A task is busy with a room as long as it has something to say or to publish.
LEMMA BusyIs ==
  /\ QueuesOK => \A t \in Tasks, r \in Rooms : Busy(t, r) <=> Pending(t, r) # {} \/ Goings(t, r) # {}
  /\ QueuesOK' => \A t \in Tasks, r \in Rooms : Busy(t, r)' <=> Pending(t, r)' # {} \/ Goings(t, r)' # {}
<1>1. ASSUME QueuesOK, NEW t \in Tasks, NEW r \in Rooms
      PROVE  Busy(t, r) <=> Pending(t, r) # {} \/ Goings(t, r) # {}
  <2> DEFINE works == \E i \in 1..Len(todo[t]) : todo[t][i].do \in {"send", "publish"} /\ todo[t][i].room = r
             waits == \E i \in 1..Len(rx) : rx[i].from = t /\ "room" \in DOMAIN rx[i] /\ rx[i].room = r
             says == {u \in Updates : Has(todo[t], Send(r, u))
                                       \/ Has(rx, [from |-> t, room |-> r, update |-> u])}
             goes == {p \in PublishSteps : p.room = r /\ Has(todo[t], p)}
  <2>1. todo[t] \in Seq(Steps) /\ rx \in Seq(Commands)
    BY <1>1 DEF QueuesOK
  <2>5. works <=> \/ \E u \in Updates : Has(todo[t], Send(r, u))
                  \/ \E p \in PublishSteps : p.room = r /\ Has(todo[t], p)
    BY <2>1, WorkIs
  <2>6. waits <=> \E u \in Updates : Has(rx, [from |-> t, room |-> r, update |-> u])
    BY <2>1, QueueIs
  <2>2. works \/ waits <=> says # {} \/ goes # {}
    <3> HIDE DEF works, waits
    <3> QED BY <2>5, <2>6
  <2>3. Busy(t, r) <=> works \/ waits
    BY DEF Busy, Working, Queued
  <2>4. Pending(t, r) = says /\ Goings(t, r) = goes
    BY DEF Pending, Goings
  <2> QED BY <2>2, <2>3, <2>4
<1>2. ASSUME QueuesOK', NEW t \in Tasks, NEW r \in Rooms
      PROVE  Busy(t, r)' <=> Pending(t, r)' # {} \/ Goings(t, r)' # {}
  <2> DEFINE works == \E i \in 1..Len(todo'[t]) : todo'[t][i].do \in {"send", "publish"} /\ todo'[t][i].room = r
             waits == \E i \in 1..Len(rx') : rx'[i].from = t /\ "room" \in DOMAIN rx'[i] /\ rx'[i].room = r
             says == {u \in Updates : Has(todo'[t], Send(r, u))
                                       \/ Has(rx', [from |-> t, room |-> r, update |-> u])}
             goes == {p \in PublishSteps : p.room = r /\ Has(todo'[t], p)}
  <2>1. todo'[t] \in Seq(Steps) /\ rx' \in Seq(Commands)
    BY <1>2 DEF QueuesOK
  <2>5. works <=> \/ \E u \in Updates : Has(todo'[t], Send(r, u))
                  \/ \E p \in PublishSteps : p.room = r /\ Has(todo'[t], p)
    BY <2>1, WorkIs
  <2>6. waits <=> \E u \in Updates : Has(rx', [from |-> t, room |-> r, update |-> u])
    BY <2>1, QueueIs
  <2>2. works \/ waits <=> says # {} \/ goes # {}
    <3> HIDE DEF works, waits
    <3> QED BY <2>5, <2>6
  <2>3. Busy(t, r)' <=> works \/ waits
    BY DEF Busy, Working, Queued
  <2>4. Pending(t, r)' = says /\ Goings(t, r)' = goes
    BY DEF Pending, Goings
  <2> QED BY <2>2, <2>3, <2>4
<1> QED BY <1>1, <1>2

\* A step that leaves what the tasks have to say of a room, and to publish to it.
Leaves(t, r) == Pending(t, r)' = Pending(t, r) /\ Goings(t, r)' = Goings(t, r)

\* The command that a send becomes.
LEMMA SendCommand ==
  ASSUME QueuesOK, NEW t \in Tasks, SendStep(t), NEW s, s = Head(todo[t])
  PROVE  /\ todo[t] # <<>> /\ s \in Steps /\ todo' = [todo EXCEPT ![t] = Tail(todo[t])]
         /\ s.do \in {"send", "connected"} /\ \A p \in PublishSteps : s # p
         /\ \E c \in Commands :
              /\ rx' = Append(rx, c) /\ c.from = t
              /\ \A r \in Rooms, u \in Updates : s = Send(r, u) <=> c = [from |-> t, room |-> r, update |-> u]
              /\ \A r \in Rooms : /\ s \in SendsOf(r) <=> c \in CommandsOf(r)
                                  /\ c \in CommandsOf(r) => c.update = s.update
<1> DEFINE c == IF s.do = "send" THEN [from |-> t, room |-> s.room, update |-> s.update]
                ELSE [from |-> t, connected |-> s.up]
<1>0. todo \in [Tasks -> Seq(Steps)] /\ rx \in Seq(Commands) /\ todo[t] \in Seq(Steps)
  BY DEF QueuesOK
<1>1. /\ todo[t] # <<>> /\ s.do \in {"send", "connected"} /\ rx' = Append(rx, c)
      /\ todo' = [todo EXCEPT ![t] = Tail(todo[t])] /\ s \in Steps
  BY <1>0, HeadStep DEF SendStep, HeadIs
<1>2. \A p \in PublishSteps : s # p
  BY <1>1, PublishFields
<1>3. /\ c \in Commands /\ c.from = t
      /\ \A r \in Rooms, u \in Updates : s = Send(r, u) <=> c = [from |-> t, room |-> r, update |-> u]
      /\ \A r \in Rooms : /\ s \in SendsOf(r) <=> c \in CommandsOf(r)
                          /\ c \in CommandsOf(r) => c.update = s.update
  <2>1. CASE s.do = "send"
    <3>1. s \in [do : {"send"}, room : Rooms, update : Updates]
      BY <1>1, <2>1, StepFields DEF SimpleSteps
    <3>2. c = [from |-> t, room |-> s.room, update |-> s.update]
      BY <2>1
    <3> HIDE DEF c
    <3>3. c \in Commands /\ c.from = t
      BY <3>1, <3>2 DEF Commands
    <3>4. \A r \in Rooms, u \in Updates : s = Send(r, u) <=> c = [from |-> t, room |-> r, update |-> u]
      <4>1. \A r \in Rooms, u \in Updates : s = Send(r, u) <=> s.room = r /\ s.update = u
        BY <3>1 DEF Send
      <4>2. \A r \in Rooms, u \in Updates : c = [from |-> t, room |-> r, update |-> u] <=> s.room = r /\ s.update = u
        BY <3>2
      <4> QED BY <4>1, <4>2
    <3>5. \A r \in Rooms : (s \in SendsOf(r) <=> s.room = r) /\ (c \in CommandsOf(r) <=> s.room = r)
      BY <3>1, <3>2 DEF SendsOf, CommandsOf
    <3> QED BY <3>2, <3>3, <3>4, <3>5
  <2>2. CASE s.do # "send"
    <3>1. s.do = "connected" /\ c = [from |-> t, connected |-> s.up] /\ s.up \in BOOLEAN
      BY <1>1, <2>2, StepFields
    <3> HIDE DEF c
    <3>2. c \in Commands /\ c.from = t /\ "room" \notin DOMAIN c
      BY <3>1 DEF Commands
    <3>3. \A r, u : "room" \in DOMAIN [from |-> t, room |-> r, update |-> u]
      OBVIOUS
    <3>4. (\A r, u : Send(r, u).do = "send") /\ \A r : s \notin SendsOf(r) /\ c \notin CommandsOf(r)
      BY <3>1, <3>2 DEF Send, SendsOf, CommandsOf
    <3> QED BY <3>1, <3>2, <3>3, <3>4
  <2> QED BY <2>1, <2>2
<1> QED BY <1>1, <1>2, <1>3

\* A command is sent.
LEMMA SendLeaves ==
  ASSUME QueuesOK, NEW t \in Tasks, SendStep(t)
  PROVE  \A u \in Tasks, r \in Rooms : Leaves(u, r)
<1>0. todo \in [Tasks -> Seq(Steps)] /\ rx \in Seq(Commands) /\ todo[t] \in Seq(Steps)
  BY DEF QueuesOK
<1> DEFINE s == Head(todo[t])
<1>1. /\ todo[t] # <<>> /\ todo' = [todo EXCEPT ![t] = Tail(todo[t])]
      /\ \A p \in PublishSteps : s # p
  BY SendCommand
<1>2. PICK c \in Commands :
        /\ rx' = Append(rx, c) /\ c.from = t
        /\ \A r \in Rooms, u \in Updates : s = Send(r, u) <=> c = [from |-> t, room |-> r, update |-> u]
  BY SendCommand
<1>3. /\ \A e : Has(todo[t], e) <=> e = s \/ Has(Tail(todo[t]), e)
      /\ \A e : Has(rx', e) <=> e = c \/ Has(rx, e)
  BY <1>0, <1>1, <1>2, HasSeq
<1>4. todo'[t] = Tail(todo[t]) /\ \A u \in Tasks : u # t => todo'[u] = todo[u]
  BY <1>0, <1>1
<1> HIDE DEF s
<1>5. ASSUME NEW u \in Tasks, NEW r \in Rooms
      PROVE  Leaves(u, r)
  <2>1. CASE u = t
    <3>1. \A x \in Updates : Has(todo'[t], Send(r, x)) \/ Has(rx', [from |-> t, room |-> r, update |-> x])
              <=> Has(todo[t], Send(r, x)) \/ Has(rx, [from |-> t, room |-> r, update |-> x])
      BY <1>2, <1>3, <1>4
    <3>2. \A p \in PublishSteps : Has(todo'[t], p) <=> Has(todo[t], p)
      BY <1>1, <1>3, <1>4
    <3> QED BY <2>1, <3>1, <3>2 DEF Leaves, Pending, Goings
  <2>2. CASE u # t
    <3>1. \A x : [from |-> u, room |-> r, update |-> x] # c
      BY <1>2, <2>2
    <3> QED BY <1>3, <1>4, <2>2, <3>1 DEF Leaves, Pending, Goings
  <2> QED BY <2>1, <2>2
<1> QED BY <1>5

\* An event goes out.
LEMMA AnnounceLeaves ==
  ASSUME QueuesOK, NEW t \in Tasks, AnnounceStep(t)
  PROVE  \A u \in Tasks, r \in Rooms : Leaves(u, r)
<1>0. todo \in [Tasks -> Seq(Steps)] /\ todo[t] \in Seq(Steps)
  BY DEF QueuesOK
<1> DEFINE s == Head(todo[t])
<1>1. /\ todo[t] # <<>> /\ s.do = "announce" /\ todo' = [todo EXCEPT ![t] = Tail(todo[t])] /\ rx' = rx
  BY <1>0, HeadStep DEF AnnounceStep, HeadIs
<1>2. (\A p \in PublishSteps : s # p) /\ \A r, u : s # Send(r, u)
  BY <1>1, PublishFields DEF Send
<1>3. \A e : Has(todo[t], e) <=> e = s \/ Has(Tail(todo[t]), e)
  BY <1>0, <1>1, HasSeq
<1>4. todo'[t] = Tail(todo[t]) /\ \A u \in Tasks : u # t => todo'[u] = todo[u]
  BY <1>0, <1>1
<1> HIDE DEF s
<1>5. ASSUME NEW u \in Tasks, NEW r \in Rooms
      PROVE  Leaves(u, r)
  <2>1. /\ \A x : Has(todo'[u], Send(r, x)) <=> Has(todo[u], Send(r, x))
        /\ \A p \in PublishSteps : Has(todo'[u], p) <=> Has(todo[u], p)
    BY <1>2, <1>3, <1>4
  <2> QED BY <1>1, <2>1 DEF Leaves, Pending, Goings
<1> QED BY <1>5

\* A task that says nothing at the moment takes up new steps.
LEMMA TakesUp ==
  ASSUME QueuesOK, NEW t \in Tasks, NEW steps, todo' = [todo EXCEPT ![t] = steps], rx' = rx,
         \A r \in Rooms, u \in Updates : ~Has(todo[t], Send(r, u))
  PROVE  \A r \in Rooms :
           /\ \A u \in Tasks : u # t => Leaves(u, r)
           /\ Pending(t, r)' = Pending(t, r) \union {u \in Updates : Has(steps, Send(r, u))}
           /\ Goings(t, r)' = {p \in PublishSteps : p.room = r /\ Has(steps, p)}
<1>1. todo'[t] = steps /\ \A u \in Tasks : u # t => todo'[u] = todo[u]
  BY DEF QueuesOK
<1> QED BY <1>1 DEF Leaves, Pending, Goings

\* The actor takes a command.
LEMMA ActorLeaves ==
  ASSUME QueuesOK, rx # <<>>, rx' = Tail(rx), todo' = todo
  PROVE  \A t \in Tasks, r \in Rooms :
           /\ Goings(t, r)' = Goings(t, r)
           /\ Pending(t, r)' \subseteq Pending(t, r)
           /\ Pending(t, r) \subseteq
                Pending(t, r)' \union {u \in Updates : Head(rx) = [from |-> t, room |-> r, update |-> u]}
<1>1. \A e : Has(rx, e) <=> e = Head(rx) \/ Has(rx', e)
  BY HasSeq DEF QueuesOK
<1> QED BY <1>1 DEF Pending, Goings

LEMMA BusyOn ==
  ASSUME QueuesOK, QueuesOK', NEW t \in Tasks, NEW r \in Rooms, Leaves(t, r)
  PROVE  Busy(t, r)' <=> Busy(t, r)
BY BusyIs DEF Leaves

\* A task that takes up something new.
TakenUp(t, steps, r) ==
  /\ \A u \in Tasks : u # t => Leaves(u, r) /\ todo'[u] = todo[u]
  /\ Pending(t, r)' = Pending(t, r) \union {u \in Updates : Has(steps, Send(r, u))}
  /\ Goings(t, r)' = {p \in PublishSteps : p.room = r /\ Has(steps, p)}
  /\ (\A e : Has(steps, e) /\ e.do \in {"send", "publish"} => e.room # r) => Leaves(t, r)

LEMMA TookUp ==
  ASSUME QueuesOK, NEW t \in Tasks, todo[t] = <<>>, NEW steps, todo' = [todo EXCEPT ![t] = steps], rx' = rx,
         NEW r \in Rooms
  PROVE  TakenUp(t, steps, r)
<1>1. \A e : ~Has(todo[t], e)
  BY DEF Has
<1>2. \A o \in Rooms, u \in Updates : ~Has(todo[t], Send(o, u))
  BY <1>1
<1>3. /\ \A u \in Tasks : u # t => Leaves(u, r)
      /\ Pending(t, r)' = Pending(t, r) \union {u \in Updates : Has(steps, Send(r, u))}
      /\ Goings(t, r)' = {p \in PublishSteps : p.room = r /\ Has(steps, p)}
  <2>1. \A o \in Rooms :
           /\ \A u \in Tasks : u # t => Leaves(u, o)
           /\ Pending(t, o)' = Pending(t, o) \union {u \in Updates : Has(steps, Send(o, u))}
           /\ Goings(t, o)' = {p \in PublishSteps : p.room = o /\ Has(steps, p)}
    BY <1>2, TakesUp
  <2> QED BY <2>1
<1>4. \A u \in Tasks : u # t => todo'[u] = todo[u]
  BY DEF QueuesOK
<1>5. ASSUME \A e : Has(steps, e) /\ e.do \in {"send", "publish"} => e.room # r
      PROVE  Leaves(t, r)
  <2>1. {u \in Updates : Has(steps, Send(r, u))} = {}
    BY <1>5 DEF Send
  <2>2. {p \in PublishSteps : p.room = r /\ Has(steps, p)} = {}
    BY <1>5 DEF PublishSteps
  <2>3. Goings(t, r) = {}
    BY <1>1 DEF Goings
  <2>4. Pending(t, r)' = Pending(t, r)
    BY <1>3, <2>1
  <2>5. Goings(t, r)' = {}
    BY <1>3, <2>2
  <2> QED BY <2>3, <2>4, <2>5 DEF Leaves
<1> QED BY <1>3, <1>4, <1>5 DEF TakenUp

\* What follows a publish, however it goes.
LEMMA GoesOn ==
  ASSUME QueuesOK, NEW t \in Tasks, HeadIs(t, "publish"), rx' = rx, NEW p, p = Head(todo[t]),
         NEW next, next \in {p.ok, p.err}, Continue(t, next)
  PROVE  /\ p \in PublishSteps /\ todo[t] # <<>> /\ p \in Goings(t, p.room)
         /\ \A u \in Tasks, r \in Rooms : u # t => Leaves(u, r) /\ todo'[u] = todo[u]
         /\ \A r \in Rooms :
              /\ Pending(t, r)' = Pending(t, r) \union {u \in Updates : Has(next, Send(r, u))}
              /\ Goings(t, r)' \subseteq Goings(t, r)
              /\ Goings(t, r) \subseteq Goings(t, r)' \union {p}
<1>0. /\ todo \in [Tasks -> Seq(Steps)] /\ todo[t] \in Seq(Steps) /\ todo[t] # <<>>
      /\ p.do = "publish" /\ todo' = [todo EXCEPT ![t] = next \o Tail(todo[t])]
  BY DEF QueuesOK, HeadIs, Continue
<1>1. p \in PublishSteps /\ Tail(todo[t]) \in Seq(Steps)
  BY <1>0, HeadStep, StepFields
<1>2. next \in Seq(SimpleSteps) /\ next \in Seq(Steps)
  <2>1. next \in Seq(SimpleSteps)
    BY <1>1, PublishFields
  <2> QED BY <2>1, SeqMonotonic DEF Steps
<1>3. /\ \A e : Has(todo[t], e) <=> e = p \/ Has(Tail(todo[t]), e)
      /\ \A e : Has(todo'[t], e) <=> Has(next, e) \/ Has(Tail(todo[t]), e)
      /\ \A e : Has(next, e) => e \in SimpleSteps
  <2>1. todo'[t] = next \o Tail(todo[t])
    BY <1>0
  <2>2. \A e : Has(next \o Tail(todo[t]), e) <=> Has(next, e) \/ Has(Tail(todo[t]), e)
    BY <1>1, <1>2, HasConcat
  <2>3. \A e : Has(todo[t], e) <=> e = p \/ Has(Tail(todo[t]), e)
    BY <1>0, HasSeq
  <2>4. \A e : Has(next, e) => e \in SimpleSteps
    BY <1>2, HasSeq
  <2> QED BY <2>1, <2>2, <2>3, <2>4
<1>4. /\ \A q \in PublishSteps : q \notin SimpleSteps
      /\ \A r, u : Send(r, u) # p
  <2>1. \A q \in PublishSteps : q.do = "publish"
    BY PublishFields
  <2>2. \A s \in SimpleSteps : s.do # "publish"
    BY DEF SimpleSteps
  <2>3. \A r, u : Send(r, u).do = "send"
    BY DEF Send
  <2> QED BY <1>0, <2>1, <2>2, <2>3
<1>5. ASSUME NEW u \in Tasks, NEW r \in Rooms, u # t PROVE Leaves(u, r) /\ todo'[u] = todo[u]
  <2>1. todo'[u] = todo[u]
    BY <1>0, <1>5
  <2> QED BY <2>1 DEF Leaves, Pending, Goings
<1>6. ASSUME NEW r \in Rooms
      PROVE  /\ Pending(t, r)' = Pending(t, r) \union {u \in Updates : Has(next, Send(r, u))}
             /\ Goings(t, r)' \subseteq Goings(t, r)
             /\ Goings(t, r) \subseteq Goings(t, r)' \union {p}
  <2>1. \A u : Has(todo'[t], Send(r, u)) <=> Has(todo[t], Send(r, u)) \/ Has(next, Send(r, u))
    BY <1>3, <1>4
  <2>2. \A q \in PublishSteps : /\ Has(todo'[t], q) => Has(todo[t], q)
                                /\ Has(todo[t], q) => Has(todo'[t], q) \/ q = p
    BY <1>3, <1>4
  <2>3. /\ Goings(t, r)' \subseteq Goings(t, r)
        /\ Goings(t, r) \subseteq Goings(t, r)' \union {p}
    <3>1. \A q : q \in Goings(t, r) <=> q \in PublishSteps /\ q.room = r /\ Has(todo[t], q)
      BY DEF Goings
    <3>2. \A q : q \in Goings(t, r)' <=> q \in PublishSteps /\ q.room = r /\ Has(todo'[t], q)
      BY DEF Goings
    <3> QED BY <2>2, <3>1, <3>2
  <2>4. \A u \in Updates : u \in Pending(t, r)' <=> u \in Pending(t, r) \/ Has(next, Send(r, u))
    BY <1>0, <2>1 DEF Pending
  <2>5. Pending(t, r) \subseteq Updates /\ Pending(t, r)' \subseteq Updates
    BY DEF Pending
  <2> QED BY <2>3, <2>4, <2>5
<1>7. p \in Goings(t, p.room)
  BY <1>1, <1>3 DEF Goings
<1> QED BY <1>0, <1>1, <1>5, <1>6, <1>7

\* A publish that reaches Z2M: the task goes on with what follows it.
LEMMA PublishMoves ==
  ASSUME QueuesOK, NEW t \in Tasks, PublishStep(t), NEW p, p = Head(todo[t])
  PROVE  /\ p \in PublishSteps /\ todo[t] # <<>> /\ p \in Goings(t, p.room)
         /\ \A u \in Tasks, r \in Rooms : u # t => Leaves(u, r)
         /\ \A r \in Rooms :
              /\ Pending(t, r)' = Pending(t, r) \union {u \in Updates : Has(p.ok, Send(r, u))}
              /\ Goings(t, r)' \subseteq Goings(t, r)
              /\ Goings(t, r) \subseteq Goings(t, r)' \union {p}
BY GoesOn DEF PublishStep

=============================================================================
