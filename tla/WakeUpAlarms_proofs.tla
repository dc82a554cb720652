------------------------- MODULE WakeUpAlarms_proofs -------------------------
(***************************************************************************)
(* Night mode: its types, and the lights of a room that has settled fit    *)
(* its mode and its pause (NightSound), and its schedule lights no dark    *)
(* room (ScheduleKeepsDark), for any rooms, users and windows.             *)
(* An alarm fades a room in once a day (RingsOnce), for any alarms and     *)
(* settings.                                                               *)
(***************************************************************************)
EXTENDS WakeUpAlarms, Daemon_proofs, WellFoundedInduction

-----------------------------------------------------------------------------
(* The calendar.                                                            *)

LEMMA Least ==
  ASSUME NEW S \in SUBSET Nat, S # {}
  PROVE  \E n \in S : \A m \in S : n <= m
<1>1. \E n \in S : \A k \in S : ~(k < n)
  <2>1. PICK n \in S : \A k \in S : <<k, n>> \notin OpToRel(<, Nat)
    BY NatLessThanWellFounded, WFMin, Zenon
  <2> QED BY <2>1, Zenon DEF OpToRel
<1>2. PICK n \in S : \A k \in S : ~(k < n)
  BY <1>1
<1> QED BY <1>2

LEMMA EarliestOf ==
  ASSUME NEW S \in SUBSET Nat, S # {}
  PROVE  Times!Earliest(S) \in S
<1>1. \E n \in S : \A m \in S : n <= m
  BY Least
<1> QED BY <1>1 DEF Times!Earliest

\* the moment a time of a day comes is on that day
LEMMA DayOf ==
  ASSUME NEW date \in Int, NEW time \in TimesOfDay
  PROVE  Times!Today(date * Day + time) = date
BY NightAssumption DEF Times!Today, TimesOfDay

LEMMA DaysPass ==
  ASSUME NEW t \in Nat
  PROVE  Times!Today(t) \in Nat /\ Times!Today(t) <= Times!Today(t + 1)
BY NightAssumption DEF Times!Today

LEMMA ClockIsNat ==
  ASSUME now \in Nat
  PROVE  Clock \in Nat /\ Times!Today(Clock) \in Nat
<1>1. Clock \in Nat
  BY NightAssumption DEF Clock
<1> QED BY <1>1, DaysPass

LEMMA EffectiveTime ==
  ASSUME overrides \in [Ids -> Setting], NEW id \in Ids
  PROVE  Effective(id).time \in TimesOfDay
<1>1. Alarms[id] \in AlarmConfig
  BY AlarmAssumption DEF Ids
<1>2. overrides[id] \in Setting
  OBVIOUS
<1> QED BY <1>1, <1>2 DEF Effective, AlarmConfig, Setting

-----------------------------------------------------------------------------
(* What is due.                                                             *)

LEMMA DueDates ==
  ASSUME now \in Nat, overrides \in [Ids -> Setting], NEW id \in Ids,
         Times!Due(Effective(id), Clock)
  PROVE  /\ Times!DueDate(Effective(id), Clock) \in Nat
         /\ Times!DueDate(Effective(id), Clock) >= Times!Today(Clock)
         /\ Times!Today(Times!RingTime(Effective(id), Times!DueDate(Effective(id), Clock)))
              = Times!DueDate(Effective(id), Clock)
<1> DEFINE alarm == Effective(id)
           dates == Times!DueDates(alarm, Clock)
           date  == Times!DueDate(alarm, Clock)
<1>1. Times!Today(Clock) \in Nat
  BY ClockIsNat
<1>2. dates \subseteq {Times!Today(Clock), Times!Today(Clock) + 1}
  BY DEF Times!DueDates
<1>3. dates \in SUBSET Nat /\ dates # {}
  BY <1>1, <1>2 DEF Times!Due
<1>4. date \in dates
  <2>1. Times!Earliest(dates) \in dates
    <3> HIDE DEF dates
    <3> QED BY <1>3, EarliestOf
  <2> QED BY <2>1 DEF Times!DueDate
<1>5. date \in Nat /\ date >= Times!Today(Clock)
  BY <1>1, <1>2, <1>4
<1>6. Times!Today(Times!RingTime(alarm, date)) = date
  <2>1. alarm.time \in TimesOfDay
    BY EffectiveTime
  <2> HIDE DEF date, alarm
  <2>2. Times!Today(date * Day + alarm.time) = date
    BY <2>1, <1>5, DayOf
  <2> QED BY <2>2 DEF Times!RingTime
<1> QED BY <1>5, <1>6

\* the alarms that are due have not rung, and are due today or tomorrow
LEMMA DueNowIs ==
  ASSUME now \in Nat, overrides \in [Ids -> Setting], NEW x \in DueNow
  PROVE  /\ x \in Ids \X Nat
         /\ x[2] >= Times!Today(Clock)
         /\ x \notin rung
         /\ Times!Today(Times!RingTime(Effective(x[1]), x[2])) = x[2]
<1>1. PICK id \in Ids : Times!Due(Effective(id), Clock)
                        /\ x = <<id, Times!DueDate(Effective(id), Clock)>>
  BY DEF DueNow
<1>2. x \notin rung
  BY DEF DueNow
<1> DEFINE date == Times!DueDate(Effective(id), Clock)
<1>3. /\ date \in Nat /\ date >= Times!Today(Clock)
      /\ Times!Today(Times!RingTime(Effective(id), date)) = date
  BY <1>1, DueDates
<1>4. x[1] = id /\ x[2] = date
  BY <1>1
<1> HIDE DEF date
<1> QED BY <1>1, <1>2, <1>3, <1>4

\* a room that starts fading does so for an alarm that is due
LEMMA StartedIsDue ==
  ASSUME now \in Nat, overrides \in [Ids -> Setting],
         NEW r \in Starts({x[1] : x \in DueNow})
  PROVE  \E x \in DueNow : x[1] = StartedBy(r, {y[1] : y \in DueNow})
<1> DEFINE ids == {x[1] : x \in DueNow}
           mine == {id \in ids : r \in Alarms[id].rooms}
<1>1. ids \subseteq Ids
  <2>1. \A x \in DueNow : x[1] \in Ids
    BY DueNowIs
  <2> QED BY <2>1
<1>2. Ids \in SUBSET Nat
  BY AlarmAssumption DEF Ids
<1>3. mine \in SUBSET Nat /\ mine # {}
  BY <1>1, <1>2 DEF Starts
<1>4. Times!Earliest(mine) \in mine
  <2> HIDE DEF mine
  <2> QED BY <1>3, EarliestOf
<1>5. StartedBy(r, ids) \in ids
  BY <1>4 DEF StartedBy
<1> QED BY <1>5

-----------------------------------------------------------------------------
(* What has been due has rung, until its day is long over.                  *)

HeardInv ==
  /\ now \in Nat
  /\ overrides \in [Ids -> Setting]
  /\ fade = [r \in Rooms |-> fade[r]]
  /\ heard \subseteq Ids \X Nat
  /\ \A x \in heard : x \in rung \/ x[2] < Times!Today(Clock) - 1

\* the actions of all that is not the scheduler leave its memory alone, and
\* start no fade
Frame ==
  /\ now' \in {now, now + 1}
  /\ overrides' \in [Ids -> Setting]
  /\ fade' = [r \in Rooms |-> fade'[r]]
  /\ \A r \in Rooms : fade[r] = None => fade'[r] = None
  /\ heard' = heard /\ rung' = rung

LEMMA FrameKeeps ==
  ASSUME HeardInv, Frame
  PROVE  HeardInv'
<1>1. now' \in Nat
  BY DEF HeardInv, Frame
<1>2. Clock \in Nat /\ (Clock' = Clock \/ Clock' = Clock + 1)
  BY ClockIsNat, NightAssumption DEF HeardInv, Frame, Clock
<1>3. /\ Times!Today(Clock) \in Nat /\ Times!Today(Clock) <= Times!Today(Clock + 1)
      /\ Times!Today(Clock + 1) \in Nat
  BY <1>2, DaysPass
<1>4. \A t : Times!Today(t) = t \div Day
  BY DEF Times!Today
<1>5. /\ Times!Today(Clock) \in Nat /\ Times!Today(Clock)' \in Nat
      /\ Times!Today(Clock) <= Times!Today(Clock)'
  BY <1>2, <1>3, <1>4
<1>6. \A x \in heard : x[2] \in Nat
  BY DEF HeardInv
<1>7. \A x \in heard : x \in rung \/ x[2] < Times!Today(Clock)' - 1
  BY <1>5, <1>6 DEF HeardInv
<1> QED BY <1>1, <1>7 DEF HeardInv, Frame

LEMMA CheckKeeps ==
  ASSUME HeardInv, CheckAlarms
  PROVE  HeardInv'
<1>1. now' = now /\ overrides' = overrides /\ fade' = [r \in Rooms |-> fade'[r]]
  BY DEF CheckAlarms, daemon
<1>2. Clock' = Clock
  BY <1>1 DEF Clock
<1>3. heard' = heard \union DueNow /\ rung' = StillRung \union DueNow
  BY DEF CheckAlarms, RungAfter
<1>4. DueNow \subseteq Ids \X Nat
  BY DueNowIs DEF HeardInv
<1>5. Times!Today(Clock) \in Nat
  BY ClockIsNat DEF HeardInv
<1>6. ASSUME NEW x \in heard'
      PROVE  x \in rung' \/ x[2] < Times!Today(Clock) - 1
  <2>1. CASE x \in DueNow
    BY <2>1, <1>3
  <2>2. CASE x \notin DueNow
    <3>1. x \in heard /\ x[2] \in Nat
      BY <2>2, <1>3, <1>6 DEF HeardInv
    <3> QED BY <3>1, <1>3, <1>5 DEF HeardInv, StillRung
  <2> QED BY <2>1, <2>2
<1>7. Times!Today(Clock)' = Times!Today(Clock)
  BY <1>2 DEF Times!Today
<1> QED BY <1>1, <1>3, <1>4, <1>6, <1>7 DEF HeardInv

-----------------------------------------------------------------------------
(* The frame of each action.                                                *)

LEMMA SameClock ==
  ASSUME HeardInv, now' = now, UNCHANGED alarms
  PROVE  Frame
BY DEF HeardInv, Frame, alarms

LEMMA NightSystemFrame ==
  ASSUME HeardInv, NightSystem
  PROVE  Frame
<1>1. UNCHANGED alarms
  BY DEF NightSystem
<1>2. ASSUME Actor PROVE now' = now
  BY <1>2 DEF Actor, ApplyRoomUpdate, ApplyConnected
<1>3. ASSUME NEW t \in Tasks, Step(t) PROVE now' = now
  BY <1>3 DEF Step, TaskStep, SendStep, AnnounceStep, PublishStep, PublishQueuedStep, PublishTimeoutStep
<1>4. ASSUME NEW t \in Switchers, NextSwitch(t) \/ Decide(t) PROVE now' = now
  BY <1>4 DEF NextSwitch, Decide
<1>5. ASSUME HandleNightModeChanged PROVE now' = now
  BY <1>5 DEF HandleNightModeChanged
<1>6. ASSUME NEW r \in Rooms, CyclesRoom(r) PROVE now' = now
  BY <1>6 DEF CyclesRoom, CycleRoom
<1>7. ASSUME ReadReport PROVE now' = now
  BY <1>7 DEF ReadReport, HandleReport
<1>8. ASSUME Connection PROVE now' = now
  BY <1>8 DEF Connection, PollError, ConnAck, DeliverQueued
<1>9. ASSUME BeginsCycle PROVE now' = now
  BY <1>9 DEF BeginsCycle, CycleTick, HandleMqttConnected, daemon
<1>10. now' = now
  BY <1>2, <1>3, <1>4, <1>5, <1>6, <1>7, <1>8, <1>9 DEF NightSystem
<1> QED BY <1>1, <1>10, SameClock

\* an action that leaves the alarms alone but for the record of who took over
LEMMA UsersFrame ==
  ASSUME HeardInv, now' = now, NoAlarms
  PROVE  Frame
BY DEF HeardInv, Frame, NoAlarms

LEMMA FadesFrame ==
  ASSUME HeardInv, NEW r \in Rooms, BeginFade(r) \/ StepFade(r) \/ StopFade(r)
  PROVE  Frame
<1>1. now' = now /\ overrides' = overrides /\ heard' = heard /\ rung' = rung
  BY DEF BeginFade, StepFade, StopFade, NoSchedules
<1>2. fade[r] # None
  BY DEF BeginFade, StepFade, StopFade, FadeIs
<1>3. DOMAIN fade = Rooms
  BY DEF HeardInv
<1>4. /\ fade' = [s \in Rooms |-> fade'[s]]
      /\ \A s \in Rooms \ {r} : fade'[s] = fade[s]
  BY <1>3 DEF BeginFade, StepFade, StopFade
<1> QED BY <1>1, <1>2, <1>4 DEF HeardInv, Frame

LEMMA ActionFrames ==
  ASSUME HeardInv, AlarmNext
  PROVE  CheckAlarms \/ Frame
<1>1. ASSUME NightSystem PROVE Frame
  BY <1>1, NightSystemFrame
<1>2. ASSUME SchedulesNight \/ UserPresses \/ Hand \/ Outage PROVE Frame
  <2>1. now' = now /\ NoAlarms
    BY <1>2 DEF SchedulesNight, CheckSchedules, UserPresses, Press, Hand, Touch, TouchLight,
                Outage, LinkLost, LoseLink, daemon
  <2> QED BY <2>1, UsersFrame
<1>3. ASSUME NEW r \in Rooms, BeginFade(r) \/ StepFade(r) \/ StopFade(r) PROVE Frame
  BY <1>3, FadesFrame
<1>4. ASSUME NEW p \in Presses, NEW r \in Rooms, NEW op \in Ops, AskRoom(p, r, op) PROVE Frame
  BY <1>4 DEF AskRoom, HeardInv, Frame
<1>5. ASSUME NEW id \in Ids, NEW setting \in Settings, SetAlarm(id, setting) PROVE Frame
  <2>1. overrides' = [overrides EXCEPT ![id] = setting] /\ now' = now
        /\ rung' = rung /\ heard' = heard /\ fade' = fade
    BY <1>5 DEF SetAlarm, daemon
  <2>2. setting \in Setting
    BY AlarmAssumption
  <2> QED BY <2>1, <2>2 DEF HeardInv, Frame
<1>6. ASSUME FiresLightsOut PROVE Frame
  BY <1>6 DEF FiresLightsOut, daemon, HeardInv, Frame
<1>7. ASSUME NEW r \in Rooms, SweepsRoom(r) PROVE Frame
  BY <1>7 DEF SweepsRoom, HeardInv, Frame
<1>8. ASSUME AlarmTick PROVE Frame
  BY <1>8 DEF AlarmTick, Tick, PassTime, Elapse, alarms, HeardInv, Frame
<1> QED BY <1>1, <1>2, <1>3, <1>4, <1>5, <1>6, <1>7, <1>8 DEF AlarmNext

-----------------------------------------------------------------------------

HeardOnce ==
  \A r \in Rooms :
    fade[r] = None /\ fade'[r] # None =>
      <<fade'[r].id, Times!Today(fade'[r].end)>> \notin heard

LEMMA CheckHeardOnce ==
  ASSUME HeardInv, CheckAlarms
  PROVE  HeardOnce
<1> SUFFICES ASSUME NEW r \in Rooms, fade[r] = None, fade'[r] # None
             PROVE  <<fade'[r].id, Times!Today(fade'[r].end)>> \notin heard
  BY DEF HeardOnce
<1> DEFINE ids == {x[1] : x \in DueNow}
           by == CHOOSE x \in DueNow : x[1] = StartedBy(r, ids)
<1>1. r \in Starts(ids)
  BY DEF CheckAlarms
<1>2. by \in DueNow
  BY <1>1, StartedIsDue DEF HeardInv
<1>3. fade'[r] = NewFade(by[1], by[2])
  BY <1>1 DEF CheckAlarms
<1> HIDE DEF by
<1>4. /\ by \in Ids \X Nat /\ by[2] >= Times!Today(Clock) /\ by \notin rung
      /\ Times!Today(Times!RingTime(Effective(by[1]), by[2])) = by[2]
  BY <1>2, DueNowIs DEF HeardInv
<1>5. fade'[r].id = by[1] /\ Times!Today(fade'[r].end) = by[2]
  BY <1>3, <1>4 DEF NewFade
<1>6. <<by[1], by[2]>> = by
  BY <1>4
<1>7. by \notin heard
  <2>1. Times!Today(Clock) \in Nat /\ by[2] \in Nat
    BY <1>4, ClockIsNat DEF HeardInv
  <2> QED BY <2>1, <1>4 DEF HeardInv
<1> QED BY <1>5, <1>6, <1>7

LEMMA HeardInit == AlarmInit => HeardInv
<1> SUFFICES ASSUME AlarmInit PROVE HeardInv
  OBVIOUS
<1>1. now = 0
  BY DEF AlarmInit, Init, DaemonInit
<1>2. NoOverride \in Setting
  BY DEF NoOverride, Setting
<1>3. overrides \in [Ids -> Setting]
  BY <1>2 DEF AlarmInit
<1> QED BY <1>1, <1>3 DEF AlarmInit, HeardInv

\* An alarm fades a room in once a day (AlarmScheduler::check and rung): not
\* after it was stopped, not when it skipped the room because the lights were
\* on, and not after somebody has moved it to a later time of the same day.
THEOREM AlarmRingsOnce == AlarmSpec => RingsOnce
<1>1. HeardInv /\ [AlarmNext]_allVars => HeardInv'
  <2> SUFFICES ASSUME HeardInv, [AlarmNext]_allVars PROVE HeardInv'
    OBVIOUS
  <2>1. CASE AlarmNext
    BY <2>1, ActionFrames, CheckKeeps, FrameKeeps
  <2>2. CASE UNCHANGED allVars
    <3>1. now' = now /\ UNCHANGED alarms
      BY <2>2 DEF allVars, vars, daemon, alarms
    <3> QED BY <3>1, SameClock, FrameKeeps
  <2> QED BY <2>1, <2>2
<1>2. HeardInv /\ [AlarmNext]_allVars => [HeardOnce]_allVars
  <2> SUFFICES ASSUME HeardInv, AlarmNext PROVE HeardOnce
    OBVIOUS
  <2>1. CASE CheckAlarms
    BY <2>1, CheckHeardOnce
  <2>2. CASE Frame
    BY <2>2 DEF Frame, HeardOnce
  <2> QED BY <2>1, <2>2, ActionFrames
<1>3. AlarmSpec => [][HeardOnce]_allVars
  BY HeardInit, <1>1, <1>2, PTL DEF AlarmSpec
<1> QED BY <1>3 DEF RingsOnce, HeardOnce

-----------------------------------------------------------------------------
(* Night mode: the types.                                                   *)

\* What the scheduler hears.
NightEvents == [event : {"NightModeChanged"}, room : Rooms, active : BOOLEAN]
HearsNight == inbox["night"] \in Seq(NightEvents)

NightTypeOK == TypeOK /\ HearsNight

LEMMA NightTasks ==
  /\ "night" \in Tasks /\ "night" \in Subscribers /\ "night" \in Switchers
  /\ Presses \subseteq Tasks /\ Presses \subseteq Switchers /\ "night" \notin Presses
  /\ "circadian" \in Tasks /\ "circadian" \in Subscribers /\ "mqtt" \in Tasks
  /\ Switchers \subseteq Tasks /\ "circadian" \notin Switchers /\ "mqtt" \notin Switchers
  /\ \A t \in Tasks : t \in Switchers \/ t \in {"circadian", "mqtt"}
BY NightAssumption, DaemonAssumption, EngineAssumption
DEF NightAssumption, DaemonAssumption, EngineAssumption, Switchers

LEMMA NightValues ==
  /\ "night" \in MaybeLevel /\ "circadian" \in MaybeLevel /\ None \in MaybeLevel
  /\ None \in MaybeInstant /\ {"ON", "keep"} \subseteq Power /\ None \in Goal \union {None}
  /\ {"Circadian", "Automation"} \subseteq Sources
  /\ Day \in Nat \ {0} /\ FirstTick \in Nat
BY NightAssumption, DaemonAssumption
DEF NightAssumption, DaemonAssumption, MaybeLevel, MaybeInstant, Power, Sources

LEMMA SwitchType ==
  ASSUME NEW r \in Rooms, NEW active \in BOOLEAN, NEW user \in BOOLEAN
  PROVE  Switch(r, active, user) \in Switches
BY DEF Switch, Switches

LEMMA Joined ==
  ASSUME NEW x, NEW y
  PROVE  <<x>> \o <<y>> = <<x, y>>
<1> DEFINE S == {x, y}
           p == <<x>>
           q == <<y>>
           both == <<x, y>>
<1>1. /\ p \in Seq(S) /\ Len(p) = 1 /\ p[1] = x
      /\ q \in Seq(S) /\ Len(q) = 1 /\ q[1] = y
      /\ both \in Seq(S) /\ Len(both) = 2 /\ both[1] = x /\ both[2] = y
  OBVIOUS
<1> HIDE DEF p, q, both, S
<1>a. /\ p \o q \in Seq(S) /\ Len(p \o q) = Len(p) + Len(q)
      /\ \A i \in 1..(Len(p) + Len(q)) : (p \o q)[i] = IF i <= Len(p) THEN p[i] ELSE q[i - Len(p)]
  BY <1>1, ConcatProperties
<1>2. /\ p \o q \in Seq(S) /\ Len(p \o q) = 2
      /\ \A i \in 1..2 : (p \o q)[i] = IF i <= 1 THEN p[i] ELSE q[i - 1]
  BY <1>1, <1>a
<1>3. \A i \in 1..Len(both) : (p \o q)[i] = both[i]
  BY <1>1, <1>2
<1>4. p \o q = both
  BY <1>1, <1>2, <1>3, SeqEqual
<1> QED BY <1>4 DEF p, q, both

\* What a switch of night mode puts down.
LEMMA SwitchStepsType ==
  ASSUME NEW s \in Switches, NEW lit \in BOOLEAN
  PROVE  /\ << Send(s.room, NightMode(s.active)),
               Send(s.room, CircadianPause(s.active, None)) >> \in Seq(Steps)
         /\ NightSteps(s, lit) \in Seq(Steps)
         /\ DaySteps(s, lit) \in Seq(Steps)
<1> DEFINE r == s.room
           mode == Send(r, NightMode(s.active))
           pause == Send(r, CircadianPause(s.active, None))
           on == Send(r, LightsOn(None, "Circadian"))
           night1 == Send(r, LightsOnWithPush("night", "Automation"))
           day1 == Send(r, LightsOnWithPush("circadian", "Circadian"))
           told == Announce(NightModeChanged(r, s.active))
<1>1. r \in Rooms /\ s.active \in BOOLEAN
  BY DEF Switches
<1>2. mode \in SimpleSteps /\ pause \in SimpleSteps /\ on \in SimpleSteps
      /\ night1 \in SimpleSteps /\ day1 \in SimpleSteps
  BY <1>1, NightValues, UpdateTypes, StepTypes
<1>3. told \in SimpleSteps
  BY <1>1, StepTypes DEF NightModeChanged, Events
<1> DEFINE A == SimpleSteps
<1>4. \A x \in A : x \in Steps
  BY DEF Steps
<1> HIDE DEF mode, pause, on, night1, day1, told, r, A
<1>5. /\ << night1, told >> \in Seq(A) /\ << day1, told >> \in Seq(A) /\ <<>> \in Seq(A)
      /\ << mode, pause >> \in Seq(Steps) /\ << told >> \in Seq(Steps)
  <2>1. << night1, told >> \in Seq(A) /\ << day1, told >> \in Seq(A) /\ <<>> \in Seq(A)
    BY <1>2, <1>3, ShortSeqs DEF A
  <2>2. << mode, pause >> \in Seq(Steps) /\ << told >> \in Seq(Steps)
    BY <1>2, <1>3, <1>4, ShortSeqs DEF A
  <2> QED BY <2>1, <2>2
<1> DEFINE up == Publish(r, "ON", "night", None, << night1, told >>, <<>>)
           down == Publish(r, "ON", "circadian", None, << day1, told >>, << day1, told >>)
<1>6. up \in Steps /\ down \in Steps
  <2>1. up \in StepsOver(A) /\ down \in StepsOver(A)
    BY <1>1, <1>5, NightValues, PublishType DEF A
  <2> QED BY <2>1, Vocabulary DEF A
<1> HIDE DEF up, down
<1>7. << up >> \in Seq(Steps) /\ << on, down >> \in Seq(Steps)
  BY <1>2, <1>4, <1>6, ShortSeqs DEF A
<1>a. /\ Pushed(r, "night", "Automation") = << night1 >> /\ Told(s) = << told >>
      /\ Pushed(r, "circadian", "Circadian") = << day1 >>
  BY DEF Pushed, Told, night1, day1, told, r
<1>8. Pushed(r, "night", "Automation") \o Told(s) = << night1, told >>
      /\ Pushed(r, "circadian", "Circadian") \o Told(s) = << day1, told >>
      /\ Told(s) = << told >>
  BY <1>a, Joined
<1>9. NightSteps(s, lit) \in {<< up >>, << told >>} /\ DaySteps(s, lit) \in {<< on, down >>, << told >>}
  BY <1>8 DEF NightSteps, DaySteps, up, down, on, r
<1> QED BY <1>5, <1>7, <1>9 DEF mode, pause, r

\* What the engine puts down for a room, by its snapshot and the time.
LEMMA CycleStepsType ==
  ASSUME NEW r \in Rooms, NEW room
  PROVE  RoomSteps(r, room) \in Seq(Steps)
<1> DEFINE S == StepsOver(Sends)
           lit(level) == Send(r, LightsOn(level, "Circadian"))
           push == Send(r, JehaPush("circadian"))
           unpause == Send(r, CircadianPause(FALSE, None))
           ttl == Send(r, ManualOverrideTtl(None))
<1>1. /\ lit(None) \in Sends /\ lit("circadian") \in Sends /\ push \in Sends
      /\ unpause \in Sends /\ ttl \in Sends
  BY SendTypes, NightValues
<1>2. \A s \in Sends : s \in S
  BY SendsType
<1> HIDE DEF lit, push, unpause, ttl
<1>3. << lit("circadian"), push >> \in Seq(Sends) /\ <<>> \in Seq(Sends)
  BY <1>1, ShortSeqs
<1> DEFINE cycled == Publish(r, "keep", "circadian", None, << lit("circadian"), push >>, <<>>)
<1>4. cycled \in S
  BY <1>3, PushType, NightValues
<1> HIDE DEF cycled, S
<1>5. /\ << cycled >> \in Seq(S) /\ << unpause >> \in Seq(S)
      /\ << lit(None), ttl >> \in Seq(S) /\ <<>> \in Seq(S)
  BY <1>1, <1>2, <1>4, ShortSeqs
<1>6. ResumeSteps(r, room) \in Seq(S) /\ OverrideSteps(r, room) \in Seq(S) /\ PushRoom(r) = << cycled >>
  BY <1>5 DEF ResumeSteps, OverrideSteps, PushRoom, cycled, lit, push, unpause, ttl
<1>7. RoomSteps(r, room) \in Seq(S)
  <2>1. OverrideSteps(r, room) \o PushRoom(r) \in Seq(S)
    BY <1>5, <1>6, ConcatProperties
  <2> QED
    BY <1>5, <1>6, <2>1, ConcatProperties DEF RoomSteps
<1> QED
  BY <1>7, SendsType, SeqMonotonic DEF S

\* The variables of night mode.
NightVarsOK ==
  /\ scheduled \in [Rooms -> BOOLEAN]
  /\ agenda \in [Switchers -> Seq(SUBSET Switches)]
  /\ switching \in [Switchers -> Switches \union {None}]
  /\ suppressed \subseteq Rooms
  /\ preWake \subseteq Rooms
  /\ checked \in MaybeInstant
  /\ asked \in [Rooms -> BOOLEAN \union {None}]
  /\ raced \in [Rooms -> BOOLEAN]
  /\ spent \in [presses : Nat, touches : Nat, outages : Nat]

LEMMA NightParts ==
  /\ NightTypeOK <=> DaemonTypeOK /\ EngineTypeOK /\ NightVarsOK /\ HearsNight
  /\ NightTypeOK' <=> DaemonTypeOK' /\ EngineTypeOK' /\ NightVarsOK' /\ HearsNight'
BY DEF NightTypeOK, TypeOK, NightVarsOK

LEMMA NightInitType == Init => NightTypeOK
<1> SUFFICES ASSUME Init PROVE NightTypeOK
  OBVIOUS
<1>1. DaemonTypeOK
  BY StartRooms, DaemonInitType DEF Init
<1>2. EngineTypeOK
  BY StartRooms DEF Init, EngineInit, EngineTypeOK, NoView, DarkRoom
<1>3. NightVarsOK
  BY NightValues DEF Init, NightVarsOK
<1>4. HearsNight
  BY NightTasks DEF Init, DaemonInit, HearsNight
<1> QED BY <1>1, <1>2, <1>3, <1>4, NightParts

\* The scheduler hears of switches only.
LEMMA BroadcastHears ==
  ASSUME QueuesOK, HearsNight, NEW e \in Events, Broadcast(e)
  PROVE  HearsNight'
<1> DEFINE q == inbox["night"]
<1>1. /\ q \in Seq(NightEvents) /\ Len(q) \in Nat /\ BusCap \in Nat \ {0}
  BY LenProperties, DaemonAssumption DEF HearsNight, DaemonAssumption
<1>2. inbox'["night"] = IF Heeds("night", e)
                        THEN Append(IF Len(q) < BusCap THEN q ELSE Tail(q), e)
                        ELSE q
  BY NightTasks DEF Broadcast
<1>3. ASSUME Heeds("night", e) PROVE e \in NightEvents
  <2>1. e.event = "NightModeChanged"
    BY <1>3 DEF Heeds
  <2> QED BY <2>1 DEF Events, NightEvents
<1>4. ~(Len(q) < BusCap) => q # <<>> /\ Tail(q) \in Seq(NightEvents)
  <2>1. Len(<<>>) = 0
    OBVIOUS
  <2>2. q # <<>> => Tail(q) \in Seq(NightEvents)
    BY <1>1, HeadTailProperties
  <2> HIDE DEF q
  <2> QED BY <1>1, <2>1, <2>2
<1> HIDE DEF q
<1>5. inbox'["night"] \in Seq(NightEvents)
  BY <1>1, <1>2, <1>3, <1>4, AppendProperties
<1> QED BY <1>5 DEF HearsNight

LEMMA StepHears ==
  ASSUME DaemonTypeOK, HearsNight, NEW t \in Tasks, TaskStep(t)
  PROVE  HearsNight'
<1>1. CASE AnnounceStep(t)
  <2>1. QueuesOK
    BY TypeParts
  <2>2. todo[t] # <<>> /\ Head(todo[t]).do = "announce" /\ Broadcast(Head(todo[t]).event)
    BY <1>1 DEF AnnounceStep, HeadIs
  <2>3. Head(todo[t]).event \in Events
    BY <2>1, <2>2, HeadStep, StepFields
  <2> QED BY <2>1, <2>2, <2>3, BroadcastHears
<1>2. CASE ~AnnounceStep(t)
  <2>1. inbox' = inbox
    BY <1>2 DEF TaskStep, SendStep, PublishStep, PublishQueuedStep, PublishTimeoutStep
  <2> QED BY <2>1 DEF HearsNight
<1> QED BY <1>1, <1>2

\* A cycle begins with a snapshot of rooms.
LEMMA BeginsType ==
  ASSUME DaemonTypeOK, EngineTypeOK, CycleTick \/ HandleMqttConnected
  PROVE  DaemonTypeOK' /\ EngineTypeOK'
<1>0. QueuesOK /\ WorldOK /\ RecordOK
  BY TypeParts
<1>1. EngineTypeOK'
  <2>1. rooms \in [Rooms -> Room] /\ BeginCycle
    BY <1>0 DEF RecordOK, CycleTick, HandleMqttConnected
  <2> QED BY <2>1 DEF BeginCycle, EngineTypeOK, Lit
<1>2. WorldOK' /\ RecordOK'
  BY <1>0 DEF CycleTick, HandleMqttConnected, daemon, shared, world, WorldOK, RecordOK
<1>3. QueuesOK'
  <2>1. CASE CycleTick
    BY <1>0, <2>1 DEF CycleTick, daemon, QueuesOK
  <2>2. CASE HandleMqttConnected
    <3> DEFINE q == inbox["circadian"]
    <3>1. q \in Seq(Events) /\ q # <<>> /\ Len(q) <= BusCap /\ inbox' = [inbox EXCEPT !["circadian"] = Tail(q)]
      BY <1>0, <2>2, NightTasks DEF QueuesOK, HandleMqttConnected, EngineTakes
    <3>2. Tail(q) \in Seq(Events) /\ Len(Tail(q)) <= BusCap
      BY <3>1, HeadTailProperties, LenProperties, CapsType DEF Caps
    <3> QED BY <1>0, <2>2, <3>1, <3>2 DEF QueuesOK, HandleMqttConnected
  <2> QED BY <2>1, <2>2
<1> QED BY <1>1, <1>2, <1>3, TypeParts

\* Taking an event leaves the scheduler's.
LEMMA BeginsHears ==
  ASSUME HearsNight, QueuesOK, CycleTick \/ HandleMqttConnected
  PROVE  HearsNight'
<1>1. inbox'["night"] = inbox["night"]
  <2>1. "night" # "circadian"
    OBVIOUS
  <2> QED
    BY <2>1, NightTasks DEF QueuesOK, CycleTick, daemon, HandleMqttConnected, EngineTakes
<1> QED BY <1>1 DEF HearsNight

LEMMA OverlapKeeps ==
  ASSUME raced \in [Rooms -> BOOLEAN], NEW rs, Overlap(rs)
  PROVE  /\ raced' \in [Rooms -> BOOLEAN]
         /\ \A r \in Rooms : ~raced'[r] => ~raced[r] /\ r \notin rs
BY DEF Overlap

\* What the task of a switch has on its list.
Listed(t, s) == \E i \in 1..Len(agenda[t]) : s \in agenda[t][i]

LEMMA TakesSwitch ==
  ASSUME NightVarsOK, NEW t \in Switchers, NextSwitch(t)
  PROVE  \E s \in Switches :
           /\ Listed(t, s)
           /\ switching[t] = None /\ switching' = [switching EXCEPT ![t] = s]
           /\ todo[t] = <<>>
           /\ todo' = [todo EXCEPT ![t] = << Send(s.room, NightMode(s.active)),
                                             Send(s.room, CircadianPause(s.active, None)) >>]
           /\ agenda' \in [Switchers -> Seq(SUBSET Switches)]
           /\ \A u \in Switchers : \A x : Listed(u, x)' => Listed(u, x)
<1> DEFINE q == agenda[t]
<1>1. PICK s \in Head(q) :
        /\ switching' = [switching EXCEPT ![t] = s]
        /\ agenda' = [agenda EXCEPT ![t] =
                        IF Head(q) = {s} THEN Tail(q) ELSE << Head(q) \ {s} >> \o Tail(q)]
        /\ todo' = [todo EXCEPT ![t] = << Send(s.room, NightMode(s.active)),
                                          Send(s.room, CircadianPause(s.active, None)) >>]
  BY DEF NextSwitch, NightVarsOK
<1>2. /\ q \in Seq(SUBSET Switches) /\ q # <<>> /\ todo[t] = <<>> /\ switching[t] = None
      /\ agenda \in [Switchers -> Seq(SUBSET Switches)]
  BY DEF NextSwitch, NightVarsOK
<1>3. /\ Head(q) \in SUBSET Switches /\ Tail(q) \in Seq(SUBSET Switches)
      /\ \A e : Has(q, e) <=> e = Head(q) \/ Has(Tail(q), e)
  BY <1>2, HeadTailProperties, HasSeq
<1>4. Head(q) \ {s} \in SUBSET Switches /\ << Head(q) \ {s} >> \in Seq(SUBSET Switches)
  BY <1>3
<1>5. /\ << Head(q) \ {s} >> \o Tail(q) \in Seq(SUBSET Switches)
      /\ \A e : Has(<< Head(q) \ {s} >> \o Tail(q), e) <=> e = Head(q) \ {s} \/ Has(Tail(q), e)
  <2> DEFINE rest == Head(q) \ {s}
  <2>1. << rest >> \in Seq(SUBSET Switches)
    BY <1>4
  <2> HIDE DEF rest
  <2>2. \A e : Has(<< rest >>, e) <=> e = rest
    BY HasShort
  <2>3. << rest >> \o Tail(q) \in Seq(SUBSET Switches)
    BY <1>3, <2>1, ConcatProperties
  <2>4. \A e : Has(<< rest >> \o Tail(q), e) <=> Has(<< rest >>, e) \/ Has(Tail(q), e)
    BY <1>3, <2>1, HasConcat
  <2>5. /\ << rest >> \o Tail(q) \in Seq(SUBSET Switches)
        /\ \A e : Has(<< rest >> \o Tail(q), e) <=> e = rest \/ Has(Tail(q), e)
    BY <2>2, <2>3, <2>4
  <2> QED BY <2>5 DEF rest
<1> DEFINE next == IF Head(q) = {s} THEN Tail(q) ELSE << Head(q) \ {s} >> \o Tail(q)
<1>6. /\ next \in Seq(SUBSET Switches)
      /\ \A e : Has(next, e) => e = Head(q) \ {s} \/ Has(q, e)
  BY <1>3, <1>5
<1>7. agenda' = [agenda EXCEPT ![t] = next]
  BY <1>1
<1> HIDE DEF next
<1>8. agenda' \in [Switchers -> Seq(SUBSET Switches)] /\ agenda'[t] = next
      /\ \A u \in Switchers : u # t => agenda'[u] = agenda[u]
  BY <1>2, <1>6, <1>7
<1>9. \A u, x : /\ Listed(u, x) <=> \E e : Has(agenda[u], e) /\ x \in e
                /\ Listed(u, x)' <=> \E e : Has(agenda'[u], e) /\ x \in e
  BY DEF Listed, Has
<1>10. ASSUME NEW u \in Switchers, NEW x, Listed(u, x)' PROVE Listed(u, x)
  <2>1. CASE u = t
    <3>1. PICK e : Has(next, e) /\ x \in e
      BY <1>8, <1>9, <1>10, <2>1
    <3>2. Has(q, e) \/ (x \in Head(q) /\ Has(q, Head(q)))
      BY <1>3, <1>6, <3>1
    <3> QED BY <1>9, <2>1, <3>1, <3>2
  <2>2. CASE u # t
    BY <1>8, <1>9, <1>10, <2>2
  <2> QED BY <2>1, <2>2
<1>11. s \in Switches /\ Listed(t, s)
  BY <1>3, <1>9
<1> QED BY <1>1, <1>2, <1>8, <1>10, <1>11

LEMMA PassType ==
  ASSUME NEW S, NEW switches \in S
  PROVE  /\ Pass(switches) \in Seq(S)
         /\ \A e : Has(Pass(switches), e) => e = switches
<1>1. <<>> \in Seq(S) /\ << switches >> \in Seq(S)
  OBVIOUS
<1>2. (\A e : ~Has(<<>>, e)) /\ \A e : Has(<< switches >>, e) <=> e = switches
  BY HasShort
<1> QED BY <1>1, <1>2 DEF Pass

\* The passes of a check, and what they switch.
LEMMA PassesType ==
  ASSUME RecordOK
  PROVE
  /\ Passes \in Seq(SUBSET Switches)
  /\ \A x : (\E i \in 1..Len(Passes) : x \in Passes[i]) =>
       /\ x \in Switches /\ x.room \in Rooms /\ x.active = ~rooms[x.room].nightMode /\ ~x.user
<1> DEFINE a == OnBy(Entered) \union OffBy(Left)
           b == OffBy(Woken)
           c == OffBy(Forgotten)
<1>1. /\ Entered \subseteq Rooms \ Active /\ Left \subseteq Active /\ Woken \subseteq Active
      /\ Forgotten \subseteq Active /\ Active = {r \in Rooms : rooms[r].nightMode}
  BY DEF Entered, Left, Woken, Forgotten, Active
<1>2. a \in SUBSET Switches /\ b \in SUBSET Switches /\ c \in SUBSET Switches
  BY <1>1, SwitchType DEF OnBy, OffBy
<1>3. \A x \in a \union b \union c :
        x \in Switches /\ x.room \in Rooms /\ x.active = ~rooms[x.room].nightMode /\ ~x.user
  <2>1. ASSUME NEW x \in a \union b \union c
        PROVE  \/ \E r \in Rooms \ Active : x = Switch(r, TRUE, FALSE)
               \/ \E r \in Active : x = Switch(r, FALSE, FALSE)
    BY <1>1 DEF OnBy, OffBy
  <2>2. \A r \in Rooms, active \in BOOLEAN :
          LET x == Switch(r, active, FALSE) IN x \in Switches /\ x.room = r /\ x.active = active /\ x.user = FALSE
    BY SwitchType DEF Switch
  <2> HIDE DEF a, b, c
  <2>3. ASSUME NEW x \in a \union b \union c
        PROVE  x \in Switches /\ x.room \in Rooms /\ x.active = ~rooms[x.room].nightMode /\ ~x.user
    <3>1. CASE \E r \in Rooms \ Active : x = Switch(r, TRUE, FALSE)
      <4>1. PICK r \in Rooms \ Active : x = Switch(r, TRUE, FALSE)
        BY <3>1
      <4>2. x \in Switches /\ x.room = r /\ x.active = TRUE /\ x.user = FALSE
        BY <2>2, <4>1
      <4>3. rooms[r].nightMode = FALSE
        BY <1>1
      <4> QED BY <4>2, <4>3
    <3>2. CASE \E r \in Active : x = Switch(r, FALSE, FALSE)
      <4>1. PICK r \in Active : x = Switch(r, FALSE, FALSE)
        BY <3>2
      <4>2. r \in Rooms /\ rooms[r].nightMode
        BY <1>1
      <4>3. x \in Switches /\ x.room = r /\ x.active = FALSE /\ x.user = FALSE
        BY <2>2, <4>1, <4>2
      <4> QED BY <4>2, <4>3
    <3> QED BY <2>1, <3>1, <3>2
  <2> QED BY <2>3
<1>4. Passes = Pass(a) \o Pass(b) \o Pass(c)
  BY DEF Passes
<1> DEFINE S == SUBSET Switches
<1> HIDE DEF a, b, c, S
<1>5. /\ Pass(a) \in Seq(S) /\ Pass(b) \in Seq(S) /\ Pass(c) \in Seq(S)
      /\ \A e : Has(Pass(a), e) => e = a
      /\ \A e : Has(Pass(b), e) => e = b
      /\ \A e : Has(Pass(c), e) => e = c
  BY <1>2, PassType DEF S
<1>6. /\ Pass(a) \o Pass(b) \in Seq(S)
      /\ \A e : Has(Pass(a) \o Pass(b), e) <=> Has(Pass(a), e) \/ Has(Pass(b), e)
  BY <1>5, ConcatProperties, HasConcat
<1>7. /\ Passes \in Seq(S)
      /\ \A e : Has(Passes, e) <=> Has(Pass(a) \o Pass(b), e) \/ Has(Pass(c), e)
  BY <1>4, <1>5, <1>6, ConcatProperties, HasConcat
<1>8. \A e : Has(Passes, e) => e \in {a, b, c}
  BY <1>5, <1>6, <1>7
<1>9. \A x : (\E i \in 1..Len(Passes) : x \in Passes[i]) => x \in a \union b \union c
  BY <1>8 DEF Has
<1> QED BY <1>3, <1>7, <1>9 DEF S

LEMMA SwitchesType ==
  ASSUME NightTypeOK, NEW t \in Switchers, NextSwitch(t) \/ Decide(t)
  PROVE  NightTypeOK'
<1>0. DaemonTypeOK /\ EngineTypeOK /\ NightVarsOK /\ HearsNight /\ RecordOK /\ t \in Tasks
  BY NightParts, TypeParts, NightTasks
<1>1. CASE NextSwitch(t)
  <2>1. PICK s \in Switches :
          /\ switching' = [switching EXCEPT ![t] = s]
          /\ todo' = [todo EXCEPT ![t] = << Send(s.room, NightMode(s.active)),
                                            Send(s.room, CircadianPause(s.active, None)) >>]
          /\ agenda' \in [Switchers -> Seq(SUBSET Switches)]
    BY <1>0, <1>1, TakesSwitch
  <2>2. UNCHANGED <<shared, rx, inbox, dedup, world, now, wish, cycle,
                    scheduled, suppressed, preWake, checked, asked, raced, spent>>
    BY <1>1 DEF NextSwitch
  <2>3. << Send(s.room, NightMode(s.active)), Send(s.room, CircadianPause(s.active, None)) >> \in Seq(Steps)
    BY SwitchStepsType
  <2>4. DaemonTypeOK'
    BY <1>0, <2>1, <2>2, <2>3, TodoType
  <2>5. EngineTypeOK' /\ NightVarsOK' /\ HearsNight'
    BY <1>0, <2>1, <2>2 DEF EngineTypeOK, NightVarsOK, HearsNight
  <2> QED BY <2>4, <2>5, NightParts
<1>2. CASE Decide(t)
  <2> DEFINE s == switching[t]
             lit == rooms[s.room].lightsOn
             steps == IF s.active THEN NightSteps(s, lit) ELSE DaySteps(s, lit)
  <2>1. /\ todo' = [todo EXCEPT ![t] = steps] /\ switching' = [switching EXCEPT ![t] = None]
        /\ switching[t] # None
        /\ UNCHANGED <<shared, rx, inbox, dedup, world, now, wish, cycle,
                       scheduled, agenda, suppressed, preWake, checked, asked, raced, spent>>
    BY <1>2 DEF Decide
  <2>2. s \in Switches
    BY <1>0, <2>1 DEF NightVarsOK
  <2>3. lit \in BOOLEAN
    BY <1>0, <2>2 DEF RecordOK, Room, Switches
  <2>4. steps \in Seq(Steps)
    BY <2>2, <2>3, SwitchStepsType
  <2> HIDE DEF steps
  <2>5. DaemonTypeOK'
    BY <1>0, <2>1, <2>4, TodoType
  <2>6. EngineTypeOK' /\ NightVarsOK' /\ HearsNight'
    BY <1>0, <2>1 DEF EngineTypeOK, NightVarsOK, HearsNight
  <2> QED BY <2>5, <2>6, NightParts
<1> QED BY <1>1, <1>2

LEMMA PressType ==
  ASSUME NightTypeOK, NEW p \in Presses, NEW rs \in SUBSET Rooms, NEW active \in BOOLEAN, Press(p, rs, active)
  PROVE  NightTypeOK'
<1>0. DaemonTypeOK /\ EngineTypeOK /\ NightVarsOK /\ HearsNight
  BY NightParts
<1>1. {Switch(r, active, TRUE) : r \in rs} \in SUBSET Switches
  BY SwitchType
<1> DEFINE pass == {Switch(r, active, TRUE) : r \in rs}
<1>2. << pass >> \in Seq(SUBSET Switches)
  <2> HIDE DEF pass
  <2>1. pass \in SUBSET Switches
    BY <1>1 DEF pass
  <2> QED BY <2>1
<1>3. raced' \in [Rooms -> BOOLEAN]
  BY <1>0, OverlapKeeps DEF Press, NightVarsOK
<1>4. NightVarsOK'
  <2>1. agenda' = [agenda EXCEPT ![p] = << pass >>]
    BY DEF Press
  <2>2. agenda' \in [Switchers -> Seq(SUBSET Switches)]
    <3> HIDE DEF pass
    <3> QED BY <1>0, <1>2, <2>1 DEF NightVarsOK
  <2>3. spent' \in [presses : Nat, touches : Nat, outages : Nat]
    <3>1. spent \in [presses : Nat, touches : Nat, outages : Nat]
      BY <1>0 DEF NightVarsOK
    <3>2. spent' = [spent EXCEPT !.presses = spent.presses + 1]
      BY DEF Press
    <3> QED BY <3>1, <3>2
  <2>4. asked' \in [Rooms -> BOOLEAN \union {None}]
    BY <1>0 DEF Press, NightVarsOK
  <2>5. UNCHANGED <<scheduled, switching, suppressed, preWake, checked>>
    BY DEF Press
  <2> HIDE DEF pass
  <2> QED BY <1>0, <1>3, <2>2, <2>3, <2>4, <2>5 DEF NightVarsOK
<1>5. DaemonTypeOK' /\ EngineTypeOK' /\ HearsNight'
  BY <1>0, TypeParts DEF Press, daemon, shared, world, QueuesOK, WorldOK, RecordOK, EngineTypeOK, HearsNight
<1> QED BY <1>4, <1>5, NightParts

LEMMA SchedulerType ==
  ASSUME NightTypeOK, CheckSchedules \/ HandleNightModeChanged
  PROVE  NightTypeOK'
<1>0. /\ DaemonTypeOK /\ EngineTypeOK /\ NightVarsOK /\ HearsNight
      /\ QueuesOK /\ WorldOK /\ RecordOK
  BY NightParts, TypeParts
<1>1. CASE CheckSchedules
  <2>1. raced' \in [Rooms -> BOOLEAN]
    BY <1>0, <1>1, OverlapKeeps DEF CheckSchedules, NightVarsOK
  <2>2. agenda' \in [Switchers -> Seq(SUBSET Switches)]
    BY <1>0, <1>1, PassesType DEF CheckSchedules, NightVarsOK
  <2>3. suppressed' \subseteq Rooms /\ preWake' \subseteq Rooms
    BY <1>0, <1>1 DEF CheckSchedules, NightVarsOK, Woken, Forgotten, Active
  <2>4. checked' \in MaybeInstant
    BY <1>0, <1>1 DEF CheckSchedules, MaybeInstant, RecordOK
  <2>5. NightVarsOK'
    BY <1>0, <1>1, <2>1, <2>2, <2>3, <2>4 DEF CheckSchedules, NightVarsOK
  <2>6. DaemonTypeOK' /\ EngineTypeOK' /\ HearsNight'
    BY <1>0, <1>1, TypeParts
    DEF CheckSchedules, daemon, shared, world, QueuesOK, WorldOK, RecordOK, EngineTypeOK, HearsNight
  <2> QED BY <2>5, <2>6, NightParts
<1>2. CASE HandleNightModeChanged
  <2> DEFINE q == inbox["night"]
  <2>1. /\ q \in Seq(NightEvents) /\ q # <<>> /\ inbox' = [inbox EXCEPT !["night"] = Tail(q)]
        /\ q \in Seq(Events) /\ Len(q) <= BusCap
    BY <1>0, <1>2, NightTasks DEF HandleNightModeChanged, HearsNight, QueuesOK
  <2>2. /\ Head(q) \in NightEvents /\ Tail(q) \in Seq(NightEvents) /\ Tail(q) \in Seq(Events)
        /\ Len(Tail(q)) <= BusCap
    BY <2>1, HeadTailProperties, LenProperties, CapsType DEF Caps
  <2>3. HearsNight' /\ QueuesOK'
    BY <1>0, <1>2, <2>1, <2>2, NightTasks DEF HandleNightModeChanged, HearsNight, QueuesOK
  <2>4. WorldOK' /\ RecordOK' /\ EngineTypeOK'
    BY <1>0, <1>2 DEF HandleNightModeChanged, shared, world, WorldOK, RecordOK, EngineTypeOK
  <2>5. NightVarsOK'
    BY <1>0, <1>2, <2>2 DEF HandleNightModeChanged, NightVarsOK, NightEvents
  <2> QED BY <2>3, <2>4, <2>5, TypeParts, NightParts
<1> QED BY <1>1, <1>2

LEMMA CyclesType ==
  ASSUME NightTypeOK, BeginsCycle \/ \E r \in Rooms : CyclesRoom(r)
  PROVE  NightTypeOK'
<1>0. DaemonTypeOK /\ EngineTypeOK /\ NightVarsOK /\ HearsNight /\ QueuesOK
  BY NightParts, TypeParts
<1>1. CASE BeginsCycle
  <2>1. DaemonTypeOK' /\ EngineTypeOK' /\ HearsNight'
    BY <1>0, <1>1, BeginsType, BeginsHears DEF BeginsCycle
  <2>2. raced' \in [Rooms -> BOOLEAN]
    BY <1>0, <1>1, OverlapKeeps DEF BeginsCycle, NightVarsOK
  <2>3. NightVarsOK'
    BY <1>0, <1>1, <2>2 DEF BeginsCycle, NoNight, NightVarsOK
  <2> QED BY <2>1, <2>3, NightParts
<1>2. CASE \E r \in Rooms : CyclesRoom(r)
  <2>1. PICK r \in Rooms : CycleRoom(r) /\ UNCHANGED night
    BY <1>2 DEF CyclesRoom
  <2>2. RoomSteps(r, cycle.view[r]) \in Seq(Steps)
    BY CycleStepsType
  <2>3. DaemonTypeOK'
    BY <1>0, <2>1, <2>2, TodoType, NightTasks DEF CycleRoom
  <2>4. EngineTypeOK'
    BY <1>0, <2>1, StartRooms DEF CycleRoom, EngineTypeOK, NoView, DarkRoom
  <2>5. NightVarsOK' /\ HearsNight'
    BY <1>0, <2>1 DEF CycleRoom, night, NightVarsOK, HearsNight
  <2> QED BY <2>3, <2>4, <2>5, NightParts
<1> QED BY <1>1, <1>2

LEMMA WorldType ==
  ASSUME NightTypeOK, Actor \/ ReadReport \/ Connection \/ (\E r \in Rooms : Touch(r)) \/ LinkLost \/ Tick
  PROVE  NightTypeOK'
<1>0. DaemonTypeOK /\ EngineTypeOK /\ NightVarsOK /\ HearsNight
  BY NightParts
<1>1. DaemonTypeOK'
  BY <1>0, ActorType, HandleReportType, ConnectionType, OutsideType, Zenon
  DEF Actor, ReadReport, Connection, Touch, LinkLost, Tick
<1>2. UNCHANGED <<cycle, inbox>>
  BY DEF Actor, ReadReport, Connection, Touch, LinkLost, Tick, ApplyRoomUpdate, ApplyConnected,
         HandleReport, PollError, ConnAck, DeliverQueued, TouchLight, LoseLink, PassTime, Elapse
<1>3. EngineTypeOK' /\ HearsNight'
  BY <1>0, <1>2 DEF EngineTypeOK, HearsNight
<1>4. NightVarsOK'
  <2>1. CASE Actor \/ Connection
    BY <1>0, <2>1 DEF Actor, Connection, night, NightVarsOK
  <2>2. CASE ReadReport \/ (\E r \in Rooms : Touch(r)) \/ LinkLost
    <3>1. (\E rs : Overlap(rs)) /\ NoNight
      BY <2>2 DEF ReadReport, Touch, LinkLost
    <3>2. raced' \in [Rooms -> BOOLEAN]
      BY <1>0, <3>1, OverlapKeeps DEF NightVarsOK
    <3>3. \/ spent' = spent
          \/ spent' = [spent EXCEPT !.touches = spent.touches + 1]
          \/ spent' = [spent EXCEPT !.outages = spent.outages + 1]
      BY <2>2 DEF ReadReport, Touch, LinkLost
    <3>4. spent' \in [presses : Nat, touches : Nat, outages : Nat]
      <4>1. spent \in [presses : Nat, touches : Nat, outages : Nat]
        BY <1>0 DEF NightVarsOK
      <4> QED BY <3>3, <4>1
    <3> QED BY <1>0, <3>1, <3>2, <3>4 DEF NoNight, NightVarsOK
  <2>3. CASE Tick
    BY <1>0, <2>3 DEF Tick, NightVarsOK
  <2> QED BY <2>1, <2>2, <2>3
<1> QED BY <1>1, <1>3, <1>4, NightParts

LEMMA NightStepType ==
  ASSUME NightTypeOK, NEW t \in Tasks, Step(t)
  PROVE  NightTypeOK'
<1>0. DaemonTypeOK /\ EngineTypeOK /\ NightVarsOK /\ HearsNight
  BY NightParts
<1>1. DaemonTypeOK' /\ HearsNight'
  BY <1>0, TaskStepType, StepHears DEF Step
<1>2. EngineTypeOK' /\ NightVarsOK'
  BY <1>0 DEF Step, night, EngineTypeOK, NightVarsOK
<1> QED BY <1>1, <1>2, NightParts

LEMMA NightNextType == NightTypeOK /\ [Next]_vars => NightTypeOK'
<1> SUFFICES ASSUME NightTypeOK, [Next]_vars PROVE NightTypeOK'
  OBVIOUS
<1>1. CASE UNCHANGED vars
  BY <1>1, NightParts, TypeParts
  DEF vars, daemon, shared, world, night, QueuesOK, WorldOK, RecordOK, EngineTypeOK, NightVarsOK, HearsNight
<1>2. CASE Next
  <2>1. CASE \E t \in Tasks : Step(t)
    BY <2>1, NightStepType
  <2>2. CASE \E t \in Switchers : NextSwitch(t) \/ Decide(t)
    BY <2>2, SwitchesType
  <2>3. CASE CheckSchedules \/ HandleNightModeChanged
    BY <2>3, SchedulerType
  <2>4. CASE BeginsCycle \/ \E r \in Rooms : CyclesRoom(r)
    BY <2>4, CyclesType
  <2>5. CASE Actor \/ ReadReport \/ Connection \/ (\E r \in Rooms : Touch(r)) \/ LinkLost \/ Tick
    BY <2>5, WorldType
  <2>6. CASE \E p \in Presses, active \in BOOLEAN : Press(p, Rooms, active) \/ \E r \in Rooms : Press(p, {r}, active)
    <3>1. PICK p \in Presses, active \in BOOLEAN : \E rs \in SUBSET Rooms : Press(p, rs, active)
      BY <2>6
    <3> QED BY <3>1, PressType
  <2> QED BY <1>2, <2>1, <2>2, <2>3, <2>4, <2>5, <2>6 DEF Next, System
<1> QED BY <1>1, <1>2
-----------------------------------------------------------------------------
(* Night mode, the pause and the lights fit together, as long as nobody has *)
(* touched the lights and the connection has stood.                         *)

Calm == Upsets = 0

\* What the tasks say of rooms, and publish to them.
PutNight == LightsOnWithPush("night", "Automation")
PutDay   == LightsOnWithPush("circadian", "Circadian")
SwitchUpdates ==
  {LightsOn(None, "Circadian"), PutNight, PutDay}
    \union {NightMode(active) : active \in BOOLEAN}
    \union {CircadianPause(paused, None) : paused \in BOOLEAN}
CycleUpdates ==
  {CircadianPause(FALSE, None), LightsOn(None, "Circadian"), ManualOverrideTtl(None),
   LightsOn("circadian", "Circadian"), JehaPush("circadian")}

Afterwards(r, update, active) == << Send(r, update), Announce(NightModeChanged(r, active)) >>
NightGoing(r) == Publish(r, "ON", "night", None, Afterwards(r, PutNight, TRUE), <<>>)
DayGoing(r) ==
  Publish(r, "ON", "circadian", None, Afterwards(r, PutDay, FALSE), Afterwards(r, PutDay, FALSE))
CycleGoing(r) ==
  Publish(r, "keep", "circadian", None,
    << Send(r, LightsOn("circadian", "Circadian")), Send(r, JehaPush("circadian")) >>, <<>>)

\* Who says what.
KeepsTo(r) ==
  /\ \A t \in Switchers :
       Pending(t, r) \subseteq SwitchUpdates /\ Goings(t, r) \subseteq {NightGoing(r), DayGoing(r)}
  /\ Pending("circadian", r) \subseteq CycleUpdates /\ Goings("circadian", r) \subseteq {CycleGoing(r)}
  /\ \A u \in Pending("mqtt", r) : u.update \in {"LightsOn", "ExternalChange"}
  /\ Goings("mqtt", r) = {}

\* Lights that are on stay on, and are known to be.
StaysLit(r) ==
  /\ rooms[r].lightsOn => bulb[r].on
  /\ \A t \in Tasks : \A u \in Pending(t, r) :
       u.update \in {"LightsOn", "LightsOnWithPush"} => bulb[r].on
  /\ \A t \in Tasks : \A p \in Goings(t, r) : p.level # "night" => rooms[r].lightsOn
  /\ r \in cycle.left => rooms[r].lightsOn
  /\ bulb[r].level = "night" => bulb[r].on
  /\ \A i \in 1..Len(reports) : reports[i].room = r => reports[i].on /\ bulb[r].on

Switching(t, r) == switching[t] # None /\ switching[t].room = r
LevelFits(r, active) ==
  IF active THEN bulb[r].on => bulb[r].level = "night" ELSE bulb[r].level # "night"

\* Nothing is said of the room but that it is to be in night mode, or not to be.
Agree(r, active) ==
  /\ \A t \in Tasks : \A u \in Pending(t, r) :
       /\ u.update = "NightMode" => u.active = active
       /\ u.update = "CircadianPause" => u.paused = active
       /\ u = PutNight => active
  /\ \A t \in Tasks : \A p \in Goings(t, r) : p.level = IF active THEN "night" ELSE "circadian"
  /\ \A t \in Switchers : Switching(t, r) => switching[t].active = active

\* And that is what the room is in, or is still to be told.
ComesTo(r, active) ==
  /\ rooms[r].nightMode = active \/ \E t \in Tasks : \E u \in Pending(t, r) : u.update = "NightMode"
  /\ rooms[r].paused = active \/ \E t \in Tasks : \E u \in Pending(t, r) : u.update = "CircadianPause"
  /\ LevelFits(r, active) \/ \E t \in Switchers : Switching(t, r) \/ Goings(t, r) # {}
  /\ bulb[r].on => \/ rooms[r].lightsOn
                   \/ bulb[r].level = "night" /\ \E t \in Tasks : PutNight \in Pending(t, r)

\* Neither does the task say anything of the room, nor publish to it.
Free(t, r) == Pending(t, r) = {} /\ Goings(t, r) = {}

\* The switches that are listed come when those before them are over, and none
\* while the engine works on the room.
TakeTurns(r, active, listed) ==
  /\ r \in cycle.left \/ ~Free("circadian", r) =>
       /\ ~active
       /\ \A t \in Switchers :
            /\ Free(t, r) /\ ~Switching(t, r)
            /\ \A s \in Switches : s.room = r => ~Listed(t, s)
  /\ \A t \in Switchers : \A s \in Switches : Listed(t, s) /\ s.room = r => s.active = listed
  /\ active # listed => \A t \in Switchers : Free(t, r) /\ ~Switching(t, r)

NightFits(r) ==
  \E active, listed \in BOOLEAN : Agree(r, active) /\ ComesTo(r, active) /\ TakeTurns(r, active, listed)

NightInv ==
  Calm => /\ link = "up" /\ outq = <<>>
          /\ \A r \in Rooms : KeepsTo(r) /\ StaysLit(r) /\ (~raced[r] => NightFits(r))

-----------------------------------------------------------------------------
(* A room that nothing happens to.                                          *)

Still(r) ==
  /\ \A t \in Tasks : Leaves(t, r)
  /\ rooms'[r] = rooms[r] /\ bulb'[r] = bulb[r]
  /\ r \in cycle'.left => r \in cycle.left
  /\ \A t \in Switchers :
       /\ Switching(t, r)' <=> Switching(t, r)
       /\ Switching(t, r) => switching'[t] = switching[t]
  /\ \A t \in Switchers : \A s \in Switches : s.room = r /\ Listed(t, s)' => Listed(t, s)
  /\ \A i \in 1..Len(reports') : reports'[i].room = r => Has(reports, reports'[i])

LEMMA StillKeeps ==
  ASSUME NEW r \in Rooms, Still(r), KeepsTo(r), StaysLit(r)
  PROVE  /\ KeepsTo(r)' /\ StaysLit(r)'
         /\ NightFits(r) => NightFits(r)'
<1>1. \A t \in Tasks : Pending(t, r)' = Pending(t, r) /\ Goings(t, r)' = Goings(t, r)
  BY DEF Still, Leaves
<1>2. KeepsTo(r)'
  BY <1>1, NightTasks DEF KeepsTo
<1>3. StaysLit(r)'
  <2>1. \A i \in 1..Len(reports') : reports'[i].room = r => reports'[i].on /\ bulb[r].on
    BY DEF Still, StaysLit, Has
  <2> QED BY <1>1, <2>1 DEF Still, StaysLit
<1>4. ASSUME NightFits(r) PROVE NightFits(r)'
  <2>1. PICK active \in BOOLEAN, listed \in BOOLEAN :
          Agree(r, active) /\ ComesTo(r, active) /\ TakeTurns(r, active, listed)
    BY <1>4 DEF NightFits
  <2>a. /\ \A t \in Switchers :
             /\ Switching(t, r)' <=> Switching(t, r)
             /\ Switching(t, r) => switching'[t] = switching[t]
        /\ \A t \in Switchers : \A s \in Switches : s.room = r /\ Listed(t, s)' => Listed(t, s)
        /\ rooms'[r] = rooms[r] /\ bulb'[r] = bulb[r]
        /\ r \in cycle'.left => r \in cycle.left
    BY DEF Still
  <2>b. \A t \in Tasks : Free(t, r)' <=> Free(t, r)
    BY <1>1 DEF Free
  <2>2. Agree(r, active)'
    <3>1. \A t \in Tasks : \A u \in Pending(t, r)' :
            /\ u.update = "NightMode" => u.active = active
            /\ u.update = "CircadianPause" => u.paused = active
            /\ u = PutNight => active
      BY <1>1, <2>1, Zenon DEF Agree
    <3>2. \A t \in Tasks : \A p \in Goings(t, r)' : p.level = IF active THEN "night" ELSE "circadian"
      BY <1>1, <2>1 DEF Agree
    <3>3. \A t \in Switchers : Switching(t, r)' => switching'[t].active = active
      BY <2>1, <2>a DEF Agree, Switching
    <3> QED BY <3>1, <3>2, <3>3 DEF Agree, PutNight, LightsOnWithPush
  <2>3. ComesTo(r, active)'
    <3>1. rooms'[r].nightMode = active \/ \E t \in Tasks : \E u \in Pending(t, r)' : u.update = "NightMode"
      BY <1>1, <2>1, <2>a DEF ComesTo
    <3>2. rooms'[r].paused = active \/ \E t \in Tasks : \E u \in Pending(t, r)' : u.update = "CircadianPause"
      BY <1>1, <2>1, <2>a DEF ComesTo
    <3>3. LevelFits(r, active)' \/ \E t \in Switchers : Switching(t, r)' \/ Goings(t, r)' # {}
      <4>1. LevelFits(r, active)' <=> LevelFits(r, active)
        BY <2>a DEF LevelFits
      <4>2. LevelFits(r, active) \/ \E t \in Switchers : Switching(t, r) \/ Goings(t, r) # {}
        BY <2>1 DEF ComesTo
      <4>3. \A t \in Switchers : Goings(t, r)' = Goings(t, r)
        BY <1>1, NightTasks
      <4> QED BY <2>a, <4>1, <4>2, <4>3, Zenon
    <3>4. bulb'[r].on => \/ rooms'[r].lightsOn
                         \/ bulb'[r].level = "night" /\ \E t \in Tasks : PutNight \in Pending(t, r)'
      BY <1>1, <2>1, <2>a DEF ComesTo
    <3> QED BY <3>1, <3>2, <3>3, <3>4 DEF ComesTo, PutNight, LightsOnWithPush
  <2>4. TakeTurns(r, active, listed)'
    <3>1. "circadian" \in Tasks /\ \A t \in Switchers : t \in Tasks
      BY NightTasks
    <3>2. r \in cycle'.left \/ ~Free("circadian", r)' =>
            /\ ~active
            /\ \A t \in Switchers :
                 /\ Free(t, r)' /\ ~Switching(t, r)'
                 /\ \A s \in Switches : s.room = r => ~Listed(t, s)'
      BY <2>1, <2>a, <2>b, <3>1, Zenon DEF TakeTurns
    <3>3. \A t \in Switchers : \A s \in Switches : Listed(t, s)' /\ s.room = r => s.active = listed
      BY <2>1, <2>a, Zenon DEF TakeTurns
    <3>4. active # listed => \A t \in Switchers : Free(t, r)' /\ ~Switching(t, r)'
      BY <2>1, <2>a, <2>b, <3>1, Zenon DEF TakeTurns
    <3> QED BY <3>2, <3>3, <3>4, Zenon DEF TakeTurns
  <2> QED BY <2>2, <2>3, <2>4 DEF NightFits
<1> QED BY <1>2, <1>3, <1>4

-----------------------------------------------------------------------------
(* What is kept of a room, and the steps of tasks.                          *)

Links == link = "up" /\ outq = <<>>
Held(r) == KeepsTo(r) /\ StaysLit(r) /\ (~raced[r] => NightFits(r))

LEMMA HeldStill ==
  ASSUME NEW r \in Rooms, Held(r), Still(r), ~raced'[r] => ~raced[r]
  PROVE  Held(r)'
BY StillKeeps DEF Held

\* What the publishes carry.
LEMMA GoingSays ==
  ASSUME NEW r \in Rooms
  PROVE  /\ NightGoing(r).power = "ON" /\ NightGoing(r).level = "night"
         /\ \A o, u : Has(NightGoing(r).ok, Send(o, u)) => o = r /\ u = PutNight
         /\ Has(NightGoing(r).ok, Send(r, PutNight))
         /\ DayGoing(r).power = "ON" /\ DayGoing(r).level = "circadian"
         /\ \A o, u : Has(DayGoing(r).ok, Send(o, u)) => o = r /\ u = PutDay
         /\ CycleGoing(r).power = "keep" /\ CycleGoing(r).level = "circadian"
         /\ \A o, u : Has(CycleGoing(r).ok, Send(o, u)) =>
              o = r /\ u \in {LightsOn("circadian", "Circadian"), JehaPush("circadian")}
<1> DEFINE on  == Announce(NightModeChanged(r, TRUE))
           off == Announce(NightModeChanged(r, FALSE))
           set == Send(r, LightsOn("circadian", "Circadian"))
           push == Send(r, JehaPush("circadian"))
<1>1. /\ NightGoing(r).power = "ON" /\ NightGoing(r).level = "night"
      /\ NightGoing(r).ok = << Send(r, PutNight), on >>
      /\ DayGoing(r).power = "ON" /\ DayGoing(r).level = "circadian"
      /\ DayGoing(r).ok = << Send(r, PutDay), off >>
      /\ CycleGoing(r).power = "keep" /\ CycleGoing(r).level = "circadian"
      /\ CycleGoing(r).ok = << set, push >>
  BY DEF NightGoing, DayGoing, CycleGoing, Publish, Afterwards
<1>2. /\ \A e : Has(<< Send(r, PutNight), on >>, e) <=> e \in {Send(r, PutNight), on}
      /\ \A e : Has(<< Send(r, PutDay), off >>, e) <=> e \in {Send(r, PutDay), off}
      /\ \A e : Has(<< set, push >>, e) <=> e \in {set, push}
  <2> HIDE DEF on, off, set, push
  <2> QED BY HasShort
<1>3. /\ \A o, u : Send(o, u) # on /\ Send(o, u) # off
      /\ \A o, u, v : Send(o, u) = Send(r, v) => o = r /\ u = v
  BY DEF Send, Announce
<1>4. /\ \A o, u : Has(NightGoing(r).ok, Send(o, u)) => o = r /\ u = PutNight
      /\ Has(NightGoing(r).ok, Send(r, PutNight))
  <2> HIDE DEF on, off
  <2> QED BY <1>1, <1>2, <1>3
<1>5. \A o, u : Has(DayGoing(r).ok, Send(o, u)) => o = r /\ u = PutDay
  <2> HIDE DEF on, off
  <2> QED BY <1>1, <1>2, <1>3
<1>6. \A o, u : Has(CycleGoing(r).ok, Send(o, u)) =>
        o = r /\ u \in {LightsOn("circadian", "Circadian"), JehaPush("circadian")}
  BY <1>1, <1>2, <1>3
<1> QED BY <1>1, <1>4, <1>5, <1>6, Zenon

\* What a light is after a publish.
LEMMA PublishShines ==
  ASSUME NightTypeOK, Links, NEW t \in Tasks, PublishStep(t), NEW p \in PublishSteps, p = Head(todo[t])
  PROVE  /\ \A r \in Rooms : r # p.room => bulb'[r] = bulb[r]
         /\ p.power = "ON" => bulb'[p.room].on
         /\ p.power = "keep" /\ bulb[p.room].on => bulb'[p.room].on
         /\ p.level \in Levels => bulb'[p.room].level = p.level
         /\ \A i \in 1..Len(reports') : \/ Has(reports, reports'[i])
                                        \/ reports'[i].room = p.room /\ reports'[i].on = bulb'[p.room].on
<1>0. WorldOK /\ p.room \in Rooms
  BY NightParts, TypeParts, PublishFields
<1> DEFINE m == Message(p)
<1>1. PICK lit \in BOOLEAN :
        LET b == After(bulb[m.room], m.power, m.level, lit)
        IN  /\ bulb' = [bulb EXCEPT ![m.room] = b]
            /\ reports' = Append(reports, [room |-> m.room, on |-> b.on, level |-> b.level])
  BY DEF PublishStep, Deliver
<1>2. m.room = p.room /\ m.power = p.power /\ m.level = p.level
  BY DEF Message
<1> DEFINE b == After(bulb[p.room], p.power, p.level, lit)
           report == [room |-> p.room, on |-> b.on, level |-> b.level]
<1>3. bulb' = [bulb EXCEPT ![p.room] = b] /\ reports' = Append(reports, report)
  BY <1>1, <1>2
<1>4. /\ p.power = "ON" => b.on
      /\ p.power = "keep" /\ bulb[p.room].on => b.on
      /\ p.level \in Levels => b.level = p.level
  BY NoneIsNoLevel DEF After, Or
<1>5. bulb'[p.room] = b /\ \A r \in Rooms : r # p.room => bulb'[r] = bulb[r]
  <2> HIDE DEF b
  <2> QED BY <1>0, <1>3 DEF WorldOK
<1>6. \A e : Has(reports', e) <=> e = report \/ Has(reports, e)
  <2>1. b \in Bulb
    <3>1. bulb' \in [Rooms -> Bulb]
      <4>1. NightTypeOK' => WorldOK'
        BY NightParts, TypeParts
      <4> QED
        BY <1>0, TypeParts, NightParts, TaskStepType DEF TaskStep, WorldOK
    <3> QED BY <1>0, <1>5, <3>1
  <2>2. report \in Report
    <3> HIDE DEF b
    <3> QED BY <1>0, <2>1 DEF Report, Bulb
  <2> HIDE DEF report
  <2> QED BY <1>0, <1>3, <2>2, HasSeq DEF WorldOK
<1>7. \A i \in 1..Len(reports') : Has(reports', reports'[i])
  BY DEF Has
<1>8. report.room = p.room /\ report.on = b.on
  OBVIOUS
<1> HIDE DEF b, report
<1>9. \A i \in 1..Len(reports') : \/ Has(reports, reports'[i])
                                  \/ reports'[i].room = p.room /\ reports'[i].on = bulb'[p.room].on
  <2> TAKE i \in 1..Len(reports')
  <2>1. reports'[i] = report \/ Has(reports, reports'[i])
    BY <1>6, <1>7
  <2> QED BY <1>5, <1>8, <2>1
<1>10. p.power = "ON" => bulb'[p.room].on
  BY <1>4, <1>5
<1>11. p.power = "keep" /\ bulb[p.room].on => bulb'[p.room].on
  BY <1>4, <1>5
<1>12. p.level \in Levels => bulb'[p.room].level = p.level
  BY <1>4, <1>5
<1> QED BY <1>5, <1>9, <1>10, <1>11, <1>12, Zenon

\* The rooms a step does not touch.
LEMMA StillRoom ==
  ASSUME NEW r \in Rooms, \A t \in Tasks : Leaves(t, r),
         rooms'[r] = rooms[r], bulb'[r] = bulb[r], r \in cycle'.left => r \in cycle.left,
         switching' = switching,
         \A t \in Switchers : \A s \in Switches : s.room = r /\ Listed(t, s)' => Listed(t, s),
         \A i \in 1..Len(reports') : reports'[i].room = r => Has(reports, reports'[i])
  PROVE  Still(r)
BY DEF Still, Switching

\* A task says something, to the actor or to all.
LEMMA SayingHolds ==
  ASSUME NightTypeOK, NEW t \in Tasks, SendStep(t) \/ AnnounceStep(t), UNCHANGED <<cycle, night>>,
         NEW r \in Rooms, Held(r)
  PROVE  Held(r)'
<1>1. \A u \in Tasks : Leaves(u, r)
  BY NightParts, TypeParts, SendLeaves, AnnounceLeaves
<1>2. UNCHANGED <<rooms, bulb, cycle, switching, agenda, reports, raced>>
  BY DEF SendStep, AnnounceStep, shared, world, night
<1>3. Still(r)
  <2>1. \A i \in 1..Len(reports') : Has(reports, reports'[i])
    BY <1>2 DEF Has
  <2>2. \A u \in Switchers, s \in Switches : Listed(u, s)' => Listed(u, s)
    BY <1>2 DEF Listed
  <2> QED BY <1>1, <1>2, <2>1, <2>2, StillRoom
<1> QED BY <1>2, <1>3, HeldStill

\* What a publish to the room is, and what it says of the room.
LEMMA PublishIs ==
  ASSUME NEW t \in Tasks, NEW r \in Rooms, KeepsTo(r), NEW p \in Goings(t, r)
  PROVE  /\ \/ t \in Switchers /\ p = NightGoing(r)
            \/ t \in Switchers /\ p = DayGoing(r)
            \/ t = "circadian" /\ p = CycleGoing(r)
         /\ p.room = r /\ p.level \in {"night", "circadian"}
<1>1. \/ t \in Switchers /\ p = NightGoing(r)
      \/ t \in Switchers /\ p = DayGoing(r)
      \/ t = "circadian" /\ p = CycleGoing(r)
  <2>1. CASE t \in Switchers
    <3>1. Goings(t, r) \subseteq {NightGoing(r), DayGoing(r)}
      BY <2>1 DEF KeepsTo
    <3> QED BY <2>1, <3>1
  <2>2. CASE t = "circadian"
    <3>1. Goings("circadian", r) \subseteq {CycleGoing(r)}
      BY DEF KeepsTo
    <3> QED BY <2>2, <3>1
  <2>3. CASE t = "mqtt"
    <3>1. Goings("mqtt", r) = {}
      BY DEF KeepsTo
    <3> QED BY <2>3, <3>1
  <2> QED BY <2>1, <2>2, <2>3, NightTasks
<1>2. p.room = r
  BY DEF Goings
<1>3. p.level \in {"night", "circadian"}
  BY <1>1, GoingSays
<1> QED BY <1>1, <1>2, <1>3

\* What updates are told apart.
LEMMA UpdatesApart ==
  /\ PutNight # PutDay /\ \A source : PutNight # LightsOn("circadian", source) /\ PutNight # LightsOn(None, source)
  /\ PutNight.update = "LightsOnWithPush" /\ PutDay.update = "LightsOnWithPush"
  /\ \A level, source : LightsOn(level, source).update = "LightsOn"
  /\ \A level : JehaPush(level).update = "JehaPush"
  /\ \A until : ManualOverrideTtl(until).update = "ManualOverrideTtl"
  /\ \A active : NightMode(active).update = "NightMode" /\ NightMode(active).active = active
  /\ \A paused, until : /\ CircadianPause(paused, until).update = "CircadianPause"
                        /\ CircadianPause(paused, until).paused = paused
  /\ PutNight \in Updates /\ PutDay \in Updates
<1>1. PutNight \in Updates /\ PutDay \in Updates
  BY UpdateTypes, NightValues DEF PutNight, PutDay
<1>2. PutNight # PutDay
  <2>1. PutNight.level = "night" /\ PutDay.level = "circadian"
    BY DEF PutNight, PutDay, LightsOnWithPush
  <2> QED BY <2>1
<1>3. \A source : PutNight # LightsOn("circadian", source) /\ PutNight # LightsOn(None, source)
  BY DEF PutNight, LightsOn, LightsOnWithPush
<1> QED
  BY <1>1, <1>2, <1>3
  DEF PutNight, PutDay, LightsOn, LightsOnWithPush, JehaPush, ManualOverrideTtl, NightMode, CircadianPause

\* A publish reaches the room's lights.
LEMMA PublishHolds ==
  ASSUME NightTypeOK, Links, NEW t \in Tasks, PublishStep(t), UNCHANGED <<cycle, night>>,
         NEW r \in Rooms, Head(todo[t]).room = r, Held(r)
  PROVE  Held(r)'
<1> DEFINE p == Head(todo[t])
           says == {u \in Updates : Has(p.ok, Send(r, u))}
<1>0. QueuesOK /\ KeepsTo(r) /\ StaysLit(r)
  BY NightParts, TypeParts DEF Held
<1>1. /\ p \in PublishSteps /\ p \in Goings(t, r)
      /\ \A u \in Tasks : u # t => Pending(u, r)' = Pending(u, r) /\ Goings(u, r)' = Goings(u, r)
      /\ Pending(t, r)' = Pending(t, r) \union says
      /\ Goings(t, r)' \subseteq Goings(t, r)
  BY <1>0, PublishMoves DEF Leaves
<1>2. /\ \/ t \in Switchers /\ p = NightGoing(r)
         \/ t \in Switchers /\ p = DayGoing(r)
         \/ t = "circadian" /\ p = CycleGoing(r)
      /\ p.room = r
  BY <1>0, <1>1, PublishIs
<1>3. /\ \A o \in Rooms : o # p.room => bulb'[o] = bulb[o]
      /\ p.power = "ON" => bulb'[p.room].on
      /\ p.power = "keep" /\ bulb[p.room].on => bulb'[p.room].on
      /\ p.level \in Levels => bulb'[p.room].level = p.level
      /\ \A i \in 1..Len(reports') : \/ Has(reports, reports'[i])
                                     \/ reports'[i].room = p.room /\ reports'[i].on = bulb'[p.room].on
  BY <1>1, PublishShines
<1>4. /\ p = NightGoing(r) => p.power = "ON" /\ p.level = "night" /\ says = {PutNight}
      /\ p = DayGoing(r) => p.power = "ON" /\ p.level = "circadian" /\ says \subseteq {PutDay}
      /\ p = CycleGoing(r) =>
           /\ p.power = "keep" /\ p.level = "circadian"
           /\ says \subseteq {LightsOn("circadian", "Circadian"), JehaPush("circadian")}
  BY GoingSays, UpdatesApart
<1>5. UNCHANGED <<rooms, cycle, switching, agenda, raced>>
  BY DEF PublishStep, shared, night
<1> HIDE DEF p, says
<1>6. p.level # "night" => rooms[r].lightsOn
  BY <1>0, <1>1 DEF StaysLit
<1>7. bulb'[r].on /\ bulb'[r].level = p.level
  <2>1. p.power = "keep" => bulb[r].on
    BY <1>0, <1>2, <1>4, <1>6, GoingSays DEF StaysLit
  <2>2. p.level \in Levels
    BY <1>2, <1>4, NightAssumption, DaemonAssumption DEF NightAssumption, DaemonAssumption
  <2> QED BY <1>2, <1>3, <1>4, <2>1, <2>2
<1>8. \A i \in 1..Len(reports') : reports'[i].room = r => reports'[i].on
  <2> TAKE i \in 1..Len(reports')
  <2>1. CASE Has(reports, reports'[i])
    BY <1>0, <2>1 DEF StaysLit, Has
  <2>2. CASE reports'[i].room = p.room /\ reports'[i].on = bulb'[p.room].on
    BY <1>2, <1>7, <2>2
  <2> QED BY <1>3, <2>1, <2>2
<1>9. says \subseteq {PutNight, PutDay, LightsOn("circadian", "Circadian"), JehaPush("circadian")}
  BY <1>2, <1>4
<1>10. KeepsTo(r)'
  <2>1. t \in Switchers => says \subseteq SwitchUpdates
    BY <1>2, <1>4, NightTasks DEF SwitchUpdates
  <2>2. t = "circadian" => says \subseteq CycleUpdates
    BY <1>2, <1>4, NightTasks DEF CycleUpdates
  <2>3. t # "mqtt"
    BY <1>2, NightTasks
  <2> QED BY <1>0, <1>1, <2>1, <2>2, <2>3, NightTasks DEF KeepsTo
<1>11. StaysLit(r)'
  <2>1. \A u \in Tasks : \A v \in Goings(u, r)' : v.level # "night" => rooms'[r].lightsOn
    BY <1>0, <1>1, <1>5 DEF StaysLit
  <2> QED BY <1>0, <1>5, <1>7, <1>8, <2>1 DEF StaysLit
<1>12. ASSUME NightFits(r) PROVE NightFits(r)'
  <2>1. PICK active \in BOOLEAN, listed \in BOOLEAN :
          Agree(r, active) /\ ComesTo(r, active) /\ TakeTurns(r, active, listed)
    BY <1>12 DEF NightFits
  <2>2. p.level = IF active THEN "night" ELSE "circadian"
    BY <1>1, <2>1 DEF Agree
  <2>3. Agree(r, active)'
    <3>1. \A u \in Tasks : \A v \in Pending(u, r)' :
            /\ v.update = "NightMode" => v.active = active
            /\ v.update = "CircadianPause" => v.paused = active
            /\ v = PutNight => active
      <4>1. \A v \in says : /\ v.update \notin {"NightMode", "CircadianPause"}
                            /\ v = PutNight => active
        <5>1. PutNight \in says => active
          <6>1. PutNight \in says => p = NightGoing(r)
            BY <1>2, <1>4, UpdatesApart
          <6> QED BY <1>4, <2>2, <6>1
        <5> QED BY <1>9, <5>1, UpdatesApart
      <4> QED BY <1>1, <2>1, <4>1 DEF Agree
    <3>2. \A u \in Tasks : \A v \in Goings(u, r)' : v.level = IF active THEN "night" ELSE "circadian"
      BY <1>1, <2>1 DEF Agree
    <3>3. \A u \in Switchers : Switching(u, r)' => switching'[u].active = active
      BY <1>5, <2>1 DEF Agree, Switching
    <3> QED BY <3>1, <3>2, <3>3 DEF Agree, PutNight, LightsOnWithPush
  <2>4. ComesTo(r, active)'
    <3>1. \A u \in Tasks : Pending(u, r) \subseteq Pending(u, r)'
      BY <1>1
    <3>2. rooms'[r].nightMode = active \/ \E u \in Tasks : \E v \in Pending(u, r)' : v.update = "NightMode"
      BY <1>5, <2>1, <3>1 DEF ComesTo
    <3>3. rooms'[r].paused = active \/ \E u \in Tasks : \E v \in Pending(u, r)' : v.update = "CircadianPause"
      BY <1>5, <2>1, <3>1 DEF ComesTo
    <3>4. LevelFits(r, active)'
      BY <1>7, <2>2 DEF LevelFits
    <3>5. \/ rooms'[r].lightsOn
          \/ bulb'[r].level = "night" /\ \E u \in Tasks : PutNight \in Pending(u, r)'
      <4>1. CASE p.level = "night"
        <5>1. PutNight \in says
          BY <1>2, <1>4, <4>1
        <5> QED BY <1>1, <1>7, <4>1, <5>1
      <4>2. CASE p.level # "night"
        BY <1>5, <1>6, <4>2
      <4> QED BY <4>1, <4>2
    <3> QED BY <3>2, <3>3, <3>4, <3>5 DEF ComesTo, PutNight, LightsOnWithPush
  <2>5. TakeTurns(r, active, listed)'
    <3>1. ~Free(t, r)
      BY <1>1 DEF Free
    <3>2. \A u \in Tasks : Free(u, r)' \/ ~Free(u, r)' => (Free(u, r) => Free(u, r)')
      BY <1>1, <3>1 DEF Free
    <3>3. /\ \A u \in Tasks : Free(u, r) => Free(u, r)'
          /\ \A u \in Switchers : Switching(u, r)' <=> Switching(u, r)
          /\ \A u \in Switchers, s \in Switches : Listed(u, s)' <=> Listed(u, s)
          /\ cycle' = cycle
      BY <1>5, <3>2 DEF Switching, Listed
    <3>4. r \in cycle.left \/ ~Free("circadian", r) =>
            /\ ~active
            /\ \A u \in Switchers :
                 /\ Free(u, r) /\ ~Switching(u, r)
                 /\ \A s \in Switches : s.room = r => ~Listed(u, s)
      BY <2>1 DEF TakeTurns
    <3>5. ~Free("circadian", r)' => ~Free("circadian", r)
      BY <3>3, NightTasks
    <3>6. r \in cycle'.left \/ ~Free("circadian", r)' =>
            /\ ~active
            /\ \A u \in Switchers :
                 /\ Free(u, r)' /\ ~Switching(u, r)'
                 /\ \A s \in Switches : s.room = r => ~Listed(u, s)'
      BY <3>3, <3>4, <3>5, NightTasks
    <3>7. /\ \A u \in Switchers : \A s \in Switches : Listed(u, s)' /\ s.room = r => s.active = listed
          /\ active # listed => \A u \in Switchers : Free(u, r)' /\ ~Switching(u, r)'
      BY <2>1, <3>3, NightTasks DEF TakeTurns
    <3> QED BY <3>6, <3>7, Zenon DEF TakeTurns
  <2> QED BY <2>3, <2>4, <2>5 DEF NightFits
<1> QED BY <1>5, <1>10, <1>11, <1>12 DEF Held

\* A publish reaches the lights of another room.
LEMMA PublishElsewhere ==
  ASSUME NightTypeOK, Links, NEW t \in Tasks, PublishStep(t), UNCHANGED <<cycle, night>>,
         NEW r \in Rooms, Head(todo[t]).room # r, NEW o \in Rooms, Head(todo[t]).room = o, KeepsTo(o), Held(r)
  PROVE  Held(r)'
<1> DEFINE p == Head(todo[t])
<1>0. QueuesOK
  BY NightParts, TypeParts
<1>1. /\ p \in PublishSteps /\ p \in Goings(t, o)
      /\ \A u \in Tasks : u # t => Leaves(u, r)
      /\ Pending(t, r)' = Pending(t, r) \union {u \in Updates : Has(p.ok, Send(r, u))}
      /\ Goings(t, r)' \subseteq Goings(t, r)
      /\ Goings(t, r) \subseteq Goings(t, r)' \union {p}
  BY <1>0, PublishMoves
<1>2. /\ \/ p = NightGoing(o)
         \/ p = DayGoing(o)
         \/ p = CycleGoing(o)
      /\ p.room = o
  BY <1>1, PublishIs
<1>3. {u \in Updates : Has(p.ok, Send(r, u))} = {}
  BY <1>2, GoingSays
<1>4. p \notin Goings(t, r)
  BY DEF Goings
<1>5. /\ bulb'[r] = bulb[r]
      /\ \A i \in 1..Len(reports') : \/ Has(reports, reports'[i])
                                     \/ reports'[i].room = p.room /\ reports'[i].on = bulb'[p.room].on
  BY <1>1, PublishShines
<1>6. UNCHANGED <<rooms, cycle, switching, agenda, raced>>
  BY DEF PublishStep, shared, night
<1> HIDE DEF p
<1>7. Leaves(t, r)
  BY <1>1, <1>3, <1>4 DEF Leaves
<1>8. \A i \in 1..Len(reports') : reports'[i].room = r => Has(reports, reports'[i])
  BY <1>2, <1>5 DEF p
<1>9. \A u \in Switchers : \A s \in Switches : s.room = r /\ Listed(u, s)' => Listed(u, s)
  BY <1>6 DEF Listed
<1>10. \A u \in Tasks : Leaves(u, r)
  BY <1>1, <1>7
<1>11. Still(r)
  BY <1>5, <1>6, <1>8, <1>9, <1>10, StillRoom
<1> QED BY <1>6, <1>11, HeldStill

LEMMA StepHolds ==
  ASSUME NightTypeOK, Links, \A r \in Rooms : Held(r), NEW t \in Tasks, Step(t)
  PROVE  Links' /\ \A r \in Rooms : Held(r)'
<1>1. UNCHANGED <<cycle, night>> /\ TaskStep(t) /\ QueuesOK
  BY NightParts, TypeParts DEF Step
<1>2. ~PublishQueuedStep(t) /\ ~PublishTimeoutStep(t)
  BY DEF PublishQueuedStep, PublishTimeoutStep, Links
<1>3. CASE SendStep(t) \/ AnnounceStep(t)
  <2>1. Links'
    BY <1>3 DEF Links, SendStep, AnnounceStep, world
  <2> QED BY <1>1, <1>3, <2>1, SayingHolds
<1>4. CASE PublishStep(t)
  <2>1. Links'
    BY <1>4 DEF Links, PublishStep
  <2>2. Head(todo[t]).room \in Rooms
    <3>1. Head(todo[t]) \in PublishSteps
      BY <1>1, <1>4, PublishMoves
    <3> QED BY <3>1, PublishFields
  <2>3. ASSUME NEW r \in Rooms PROVE Held(r)'
    <3>1. CASE Head(todo[t]).room = r
      BY <1>1, <1>4, <3>1, PublishHolds
    <3>2. CASE Head(todo[t]).room # r
      <4>1. KeepsTo(Head(todo[t]).room)
        BY <2>2 DEF Held
      <4> QED BY <1>1, <1>4, <2>2, <3>2, <4>1, PublishElsewhere
    <3> QED BY <3>1, <3>2
  <2> QED BY <2>1, <2>3
<1> QED BY <1>1, <1>2, <1>3, <1>4 DEF TaskStep

-----------------------------------------------------------------------------
(* The actor.                                                               *)

\* What is said at all.
LEMMA SaidOf ==
  ASSUME NEW t \in Tasks, NEW r \in Rooms, KeepsTo(r), NEW u \in Pending(t, r)
  PROVE  u.update \in {"LightsOn", "LightsOnWithPush", "NightMode", "CircadianPause",
                       "ManualOverrideTtl", "JehaPush", "ExternalChange"}
<1>1. CASE t \in Switchers
  <2>1. u \in SwitchUpdates
    BY <1>1 DEF KeepsTo
  <2> QED BY <2>1, UpdatesApart DEF SwitchUpdates
<1>2. CASE t = "circadian"
  <2>1. u \in CycleUpdates
    BY <1>2 DEF KeepsTo
  <2> QED BY <2>1 DEF CycleUpdates, CircadianPause, LightsOn, ManualOverrideTtl, JehaPush
<1>3. CASE t = "mqtt"
  <2>1. \A v \in Pending("mqtt", r) : v.update \in {"LightsOn", "ExternalChange"}
    BY DEF KeepsTo
  <2> QED BY <1>3, <2>1
<1> QED BY <1>1, <1>2, <1>3, NightTasks

\* What an update changes of the lights, night mode and the pause.
LEMMA Applied ==
  ASSUME NEW room \in Room, NEW u, NEW time,
         u.update \in {"LightsOn", "LightsOnWithPush", "NightMode", "CircadianPause",
                       "ManualOverrideTtl", "JehaPush", "ExternalChange"}
  PROVE  LET new == ApplyUpdate(room, u, time)
         IN  /\ new.lightsOn = (room.lightsOn \/ u.update \in {"LightsOn", "LightsOnWithPush"})
             /\ new.nightMode = IF u.update = "NightMode" THEN u.active ELSE room.nightMode
             /\ new.paused = IF u.update = "CircadianPause" THEN u.paused ELSE room.paused
BY DEF Room, ApplyUpdate, ApplyLightsOn, ApplyLightsOnWithPush, ApplyNightMode, ApplyJehaPush, ApplyExternalChange

LEMMA ApplyHolds ==
  ASSUME NightTypeOK, ApplyRoomUpdate, UNCHANGED <<cycle, night>>, NEW r \in Rooms, Held(r)
  PROVE  Held(r)'
<1>0. /\ QueuesOK /\ RecordOK /\ rx # <<>> /\ rx' = Tail(rx) /\ todo' = todo
      /\ UNCHANGED <<bulb, reports, cycle, switching, agenda, raced>>
      /\ rooms' = [rooms EXCEPT ![Head(rx).room] = ApplyUpdate(rooms[Head(rx).room], Head(rx).update, now)]
  BY NightParts, TypeParts DEF ApplyRoomUpdate, world, night
<1>1. \A t \in Tasks :
        /\ Goings(t, r)' = Goings(t, r)
        /\ Pending(t, r)' \subseteq Pending(t, r)
        /\ Pending(t, r) \subseteq
             Pending(t, r)' \union {u \in Updates : Head(rx) = [from |-> t, room |-> r, update |-> u]}
  BY <1>0, ActorLeaves
<1>2. CASE Head(rx).room # r
  <2>1. \A t \in Tasks : Leaves(t, r)
    <3>1. \A t, u : Head(rx) # [from |-> t, room |-> r, update |-> u]
      BY <1>2
    <3> QED BY <1>1, <3>1 DEF Leaves
  <2>2. rooms'[r] = rooms[r]
    BY <1>0, <1>2 DEF RecordOK
  <2>3. /\ \A i \in 1..Len(reports') : reports'[i].room = r => Has(reports, reports'[i])
        /\ \A t \in Switchers : \A s \in Switches : s.room = r /\ Listed(t, s)' => Listed(t, s)
    BY <1>0 DEF Has, Listed
  <2>4. Still(r)
    BY <1>0, <2>1, <2>2, <2>3, StillRoom
  <2> QED BY <1>0, <2>4, HeldStill
<1>3. CASE Head(rx).room = r
  <2>0. KeepsTo(r) /\ StaysLit(r)
    BY DEF Held
  <2> DEFINE u == Head(rx).update
  <2>1. PICK f \in Tasks : Head(rx) = [from |-> f, room |-> r, update |-> u] /\ u \in Pending(f, r)
    <3>1. Head(rx) \in Commands /\ "room" \in DOMAIN Head(rx) /\ Has(rx, Head(rx))
      BY <1>0, HeadTailProperties, HasSeq DEF QueuesOK, ApplyRoomUpdate
    <3>2. Head(rx) \in [from : Tasks, room : Rooms, update : Updates]
      BY <3>1 DEF Commands
    <3>3. Head(rx) = [from |-> Head(rx).from, room |-> r, update |-> u] /\ Head(rx).from \in Tasks /\ u \in Updates
      BY <1>3, <3>2
    <3> QED BY <3>1, <3>3 DEF Pending
  <2>2. u.update \in {"LightsOn", "LightsOnWithPush", "NightMode", "CircadianPause",
                      "ManualOverrideTtl", "JehaPush", "ExternalChange"}
    BY <2>0, <2>1, SaidOf
  <2>3. /\ rooms'[r].lightsOn = (rooms[r].lightsOn \/ u.update \in {"LightsOn", "LightsOnWithPush"})
        /\ rooms'[r].nightMode = IF u.update = "NightMode" THEN u.active ELSE rooms[r].nightMode
        /\ rooms'[r].paused = IF u.update = "CircadianPause" THEN u.paused ELSE rooms[r].paused
    <3>1. rooms'[r] = ApplyUpdate(rooms[r], u, now) /\ rooms[r] \in Room
      BY <1>0, <1>3 DEF RecordOK
    <3> HIDE DEF u
    <3> QED BY <2>2, <3>1, Applied
  <2>4. \A t \in Tasks : \A v \in Pending(t, r) : v \in Pending(t, r)' \/ v = u
    BY <1>1, <2>1
  <2> HIDE DEF u
  <2>5. KeepsTo(r)'
    BY <1>1, <2>0, NightTasks DEF KeepsTo
  <2>6. StaysLit(r)'
    <3>1. rooms'[r].lightsOn => bulb'[r].on
      BY <1>0, <2>0, <2>1, <2>3 DEF StaysLit
    <3>2. \A t \in Tasks : \A v \in Pending(t, r)' : v.update \in {"LightsOn", "LightsOnWithPush"} => bulb'[r].on
      BY <1>0, <1>1, <2>0 DEF StaysLit
    <3>3. \A t \in Tasks : \A p \in Goings(t, r)' : p.level # "night" => rooms'[r].lightsOn
      BY <1>1, <2>0, <2>3 DEF StaysLit
    <3>4. r \in cycle'.left => rooms'[r].lightsOn
      BY <1>0, <2>0, <2>3 DEF StaysLit
    <3> QED BY <1>0, <2>0, <3>1, <3>2, <3>3, <3>4 DEF StaysLit
  <2>7. ASSUME NightFits(r) PROVE NightFits(r)'
    <3>1. PICK active \in BOOLEAN, listed \in BOOLEAN :
            Agree(r, active) /\ ComesTo(r, active) /\ TakeTurns(r, active, listed)
      BY <2>7 DEF NightFits
    <3>2. Agree(r, active)'
      <4>1. \A t \in Tasks : \A v \in Pending(t, r)' :
              /\ v.update = "NightMode" => v.active = active
              /\ v.update = "CircadianPause" => v.paused = active
              /\ v = PutNight => active
        BY <1>1, <3>1, Zenon DEF Agree
      <4>2. \A t \in Tasks : \A p \in Goings(t, r)' : p.level = IF active THEN "night" ELSE "circadian"
        BY <1>1, <3>1 DEF Agree
      <4>3. \A t \in Switchers : Switching(t, r)' => switching'[t].active = active
        BY <1>0, <3>1 DEF Agree, Switching
      <4> QED BY <4>1, <4>2, <4>3 DEF Agree, PutNight, LightsOnWithPush
    <3>3. ComesTo(r, active)'
      <4>1. rooms'[r].nightMode = active \/ \E t \in Tasks : \E v \in Pending(t, r)' : v.update = "NightMode"
        <5>1. CASE u.update = "NightMode"
          BY <2>1, <2>3, <3>1, <5>1 DEF Agree
        <5>2. CASE u.update # "NightMode"
          BY <2>3, <2>4, <3>1, <5>2 DEF ComesTo
        <5> QED BY <5>1, <5>2
      <4>2. rooms'[r].paused = active \/ \E t \in Tasks : \E v \in Pending(t, r)' : v.update = "CircadianPause"
        <5>1. CASE u.update = "CircadianPause"
          BY <2>1, <2>3, <3>1, <5>1 DEF Agree
        <5>2. CASE u.update # "CircadianPause"
          BY <2>3, <2>4, <3>1, <5>2 DEF ComesTo
        <5> QED BY <5>1, <5>2
      <4>3. LevelFits(r, active)' \/ \E t \in Switchers : Switching(t, r)' \/ Goings(t, r)' # {}
        <5>1. /\ LevelFits(r, active)' <=> LevelFits(r, active)
              /\ \A t : Switching(t, r)' <=> Switching(t, r)
          BY <1>0 DEF LevelFits, Switching
        <5>2. \A t \in Switchers : Goings(t, r)' = Goings(t, r)
          BY <1>1, NightTasks
        <5>3. LevelFits(r, active) \/ \E t \in Switchers : Switching(t, r) \/ Goings(t, r) # {}
          BY <3>1 DEF ComesTo
        <5> QED BY <5>1, <5>2, <5>3, Zenon
      <4>4. bulb'[r].on => \/ rooms'[r].lightsOn
                           \/ bulb'[r].level = "night" /\ \E t \in Tasks : PutNight \in Pending(t, r)'
        <5>1. u = PutNight => rooms'[r].lightsOn
          BY <2>3, UpdatesApart
        <5>2. bulb[r].on => \/ rooms[r].lightsOn
                            \/ bulb[r].level = "night" /\ \E t \in Tasks : PutNight \in Pending(t, r)
          BY <3>1 DEF ComesTo
        <5> QED BY <1>0, <2>3, <2>4, <5>1, <5>2
      <4> QED BY <4>1, <4>2, <4>3, <4>4 DEF ComesTo, PutNight, LightsOnWithPush
    <3>4. TakeTurns(r, active, listed)'
      <4>1. /\ \A t \in Tasks : Free(t, r) => Free(t, r)'
            /\ \A t : Switching(t, r)' <=> Switching(t, r)
            /\ \A t, s : Listed(t, s)' <=> Listed(t, s)
            /\ cycle' = cycle
        BY <1>0, <1>1 DEF Free, Switching, Listed
      <4> QED BY <3>1, <4>1, NightTasks, Zenon DEF TakeTurns
    <3> QED BY <3>2, <3>3, <3>4 DEF NightFits
  <2> QED BY <1>0, <2>5, <2>6, <2>7 DEF Held
<1> QED BY <1>2, <1>3

LEMMA ActorHolds ==
  ASSUME NightTypeOK, Links, \A r \in Rooms : Held(r), Actor
  PROVE  Links' /\ \A r \in Rooms : Held(r)'
<1>1. Links'
  BY DEF Links, Actor, ApplyRoomUpdate, ApplyConnected, world
<1>2. CASE ApplyRoomUpdate
  BY <1>1, <1>2, ApplyHolds DEF Actor
<1>3. CASE ApplyConnected
  <2>0. QueuesOK /\ rx # <<>> /\ rx' = Tail(rx) /\ todo' = todo
    BY <1>3, NightParts, TypeParts DEF ApplyConnected
  <2>1. UNCHANGED <<rooms, bulb, reports, cycle, switching, agenda, raced>>
    BY <1>3 DEF Actor, ApplyConnected, world, night
  <2>2. ASSUME NEW r \in Rooms PROVE Held(r)'
    <3>1. \A t, u : Head(rx) # [from |-> t, room |-> r, update |-> u]
      <4>1. Head(rx) \in Commands /\ "connected" \in DOMAIN Head(rx)
        BY <1>3, <2>0, HeadTailProperties DEF QueuesOK, ApplyConnected
      <4>2. \A t, u : "connected" \notin DOMAIN [from |-> t, room |-> r, update |-> u]
        OBVIOUS
      <4> QED BY <4>1, <4>2
    <3>2. \A t \in Tasks : Leaves(t, r)
      BY <2>0, <3>1, ActorLeaves DEF Leaves
    <3>3. /\ \A i \in 1..Len(reports') : reports'[i].room = r => Has(reports, reports'[i])
          /\ \A t \in Switchers : \A s \in Switches : s.room = r /\ Listed(t, s)' => Listed(t, s)
      BY <2>1 DEF Has, Listed
    <3>4. Still(r)
      BY <2>1, <3>2, <3>3, StillRoom
    <3> QED BY <2>1, <3>4, HeldStill
  <2> QED BY <1>1, <2>2
<1> QED BY <1>2, <1>3 DEF Actor

-----------------------------------------------------------------------------
(* The switches.                                                            *)

\* A task takes the next room.
LEMMA NextSwitchHolds ==
  ASSUME NightTypeOK, NEW t \in Switchers, NextSwitch(t), NEW r \in Rooms, Held(r)
  PROVE  Held(r)'
<1>0. QueuesOK /\ NightVarsOK /\ t \in Tasks /\ KeepsTo(r) /\ StaysLit(r)
  BY NightParts, TypeParts, NightTasks DEF Held
<1>1. PICK s \in Switches :
        /\ Listed(t, s)
        /\ switching[t] = None /\ switching' = [switching EXCEPT ![t] = s]
        /\ todo[t] = <<>>
        /\ todo' = [todo EXCEPT ![t] = << Send(s.room, NightMode(s.active)),
                                          Send(s.room, CircadianPause(s.active, None)) >>]
        /\ \A u \in Switchers : \A x : Listed(u, x)' => Listed(u, x)
  BY <1>0, TakesSwitch
<1>2. UNCHANGED <<rooms, bulb, rx, reports, cycle, raced>>
  BY DEF NextSwitch, shared, world
<1> DEFINE mode == NightMode(s.active)
           pause == CircadianPause(s.active, None)
           steps == << Send(s.room, mode), Send(s.room, pause) >>
<1>3. TakenUp(t, steps, r)
  BY <1>0, <1>1, <1>2, TookUp
<1>4. \A e : Has(steps, e) <=> e \in {Send(s.room, mode), Send(s.room, pause)}
  <2> DEFINE a == Send(s.room, mode)
             b == Send(s.room, pause)
  <2> HIDE DEF a, b
  <2>1. \A e : Has(<<a, b>>, e) <=> e \in {a, b}
    BY HasShort
  <2> QED BY <2>1 DEF a, b
<1>5. /\ switching'[t] = s /\ \A u \in Switchers : u # t => switching'[u] = switching[u]
      /\ s # None
  BY <1>0, <1>1, NoneIsNoSwitch DEF NightVarsOK
<1> HIDE DEF mode, pause, steps
<1>6. CASE s.room # r
  <2>1. Leaves(t, r)
    <3>1. \A e : Has(steps, e) => e.room # r
      BY <1>4, <1>6 DEF Send
    <3> QED BY <1>3, <3>1 DEF TakenUp
  <2>2. \A u \in Tasks : Leaves(u, r)
    BY <1>3, <2>1 DEF TakenUp
  <2>3. \A u \in Switchers : /\ Switching(u, r)' <=> Switching(u, r)
                             /\ Switching(u, r) => switching'[u] = switching[u]
    BY <1>1, <1>5, <1>6 DEF Switching
  <2>4. Still(r)
    BY <1>1, <1>2, <2>2, <2>3 DEF Still, Has
  <2> QED BY <1>2, <2>4, HeldStill
<1>7. CASE s.room = r
  <2>1. /\ Pending(t, r)' = Pending(t, r) \union {mode, pause}
        /\ \A u \in Tasks : Goings(u, r)' \subseteq Goings(u, r) /\ Goings(u, r) \subseteq Goings(u, r)'
        /\ \A u \in Tasks : u # t => Pending(u, r)' = Pending(u, r)
    <3>1. mode \in Updates /\ pause \in Updates
      BY UpdateTypes, NightValues DEF mode, pause, Switches
    <3>2. \A u \in Updates : Has(steps, Send(r, u)) <=> u \in {mode, pause}
      BY <1>4, <1>7 DEF Send
    <3>3. \A p \in PublishSteps : ~Has(steps, p)
      BY <1>4, PublishFields DEF Send
    <3>4. Goings(t, r) = {}
      BY <1>1 DEF Goings, Has
    <3> QED BY <1>3, <3>1, <3>2, <3>3, <3>4 DEF TakenUp, Leaves
  <2>2. /\ mode.update = "NightMode" /\ mode.active = s.active
        /\ pause.update = "CircadianPause" /\ pause.paused = s.active
        /\ mode # PutNight /\ pause # PutNight
    BY UpdatesApart DEF mode, pause
  <2>3. KeepsTo(r)'
    <3>1. mode \in SwitchUpdates /\ pause \in SwitchUpdates
      BY DEF mode, pause, SwitchUpdates, Switches
    <3> QED BY <1>0, <2>1, <3>1, NightTasks DEF KeepsTo
  <2>4. StaysLit(r)'
    <3>1. \A u \in Tasks : \A v \in Pending(u, r)' : v.update \in {"LightsOn", "LightsOnWithPush"} => bulb'[r].on
      BY <1>0, <1>2, <2>1, <2>2 DEF StaysLit
    <3>2. \A u \in Tasks : \A p \in Goings(u, r)' : p.level # "night" => rooms'[r].lightsOn
      BY <1>0, <1>2, <2>1 DEF StaysLit
    <3> QED BY <1>0, <1>2, <3>1, <3>2 DEF StaysLit
  <2>5. ASSUME NightFits(r) PROVE NightFits(r)'
    <3>1. PICK active \in BOOLEAN, listed \in BOOLEAN :
            Agree(r, active) /\ ComesTo(r, active) /\ TakeTurns(r, active, listed)
      BY <2>5 DEF NightFits
    <3>2. s.active = listed
      BY <1>1, <1>7, <3>1 DEF TakeTurns
    <3>3. r \notin cycle.left /\ Free("circadian", r)
      BY <1>1, <1>7, <3>1, NightTasks DEF TakeTurns
    <3>4. active # listed => \A u \in Switchers : Free(u, r) /\ ~Switching(u, r)
      BY <3>1 DEF TakeTurns
    <3>5. Agree(r, listed)'
      <4>1. ASSUME NEW u \in Tasks, NEW v \in Pending(u, r)
            PROVE  /\ v.update = "NightMode" => v.active = listed
                   /\ v.update = "CircadianPause" => v.paused = listed
                   /\ v = PutNight => listed
        <5>1. CASE active = listed
          BY <3>1, <5>1 DEF Agree
        <5>2. CASE active # listed
          <6>1. u = "mqtt"
            BY <3>3, <3>4, <5>2, NightTasks DEF Free
          <6>2. v.update \in {"LightsOn", "ExternalChange"}
            BY <1>0, <6>1 DEF KeepsTo
          <6> QED BY <6>2, UpdatesApart
        <5> QED BY <5>1, <5>2
      <4>2. ASSUME NEW u \in Tasks, NEW v \in Pending(u, r)'
            PROVE  /\ v.update = "NightMode" => v.active = listed
                   /\ v.update = "CircadianPause" => v.paused = listed
                   /\ v = PutNight => listed
        <5>1. v \in Pending(u, r) \/ v \in {mode, pause}
          BY <2>1
        <5>2. CASE v \in Pending(u, r)
          BY <4>1, <5>2
        <5>3. CASE v \in {mode, pause}
          BY <2>2, <3>2, <5>3
        <5> QED BY <5>1, <5>2, <5>3
      <4>3. \A u \in Tasks : \A p \in Goings(u, r)' : p.level = IF listed THEN "night" ELSE "circadian"
        <5>1. ASSUME NEW u \in Tasks, NEW p \in Goings(u, r) PROVE active = listed
          <6>1. u # "circadian"
            BY <3>3, <5>1 DEF Free
          <6>2. u # "mqtt"
            BY <1>0, <5>1 DEF KeepsTo
          <6> QED BY <3>4, <6>1, <6>2, NightTasks DEF Free
        <5>2. \A u \in Tasks : \A p \in Goings(u, r) : p.level = IF active THEN "night" ELSE "circadian"
          BY <3>1 DEF Agree
        <5> QED BY <2>1, <5>1, <5>2
      <4>4. \A u \in Switchers : Switching(u, r)' => switching'[u].active = listed
        <5> TAKE u \in Switchers
        <5>1. CASE u = t
          BY <1>5, <3>2, <5>1
        <5>2. CASE u # t
          <6>1. Switching(u, r)' <=> Switching(u, r)
            BY <1>5, <5>2 DEF Switching
          <6>2. Switching(u, r) => switching[u].active = active /\ active = listed
            BY <3>1, <3>4 DEF Agree
          <6> QED BY <1>5, <5>2, <6>1, <6>2
        <5> QED BY <5>1, <5>2
      <4> QED BY <4>2, <4>3, <4>4 DEF Agree, PutNight, LightsOnWithPush
    <3>6. ComesTo(r, listed)'
      <4>1. \E u \in Tasks : \E v \in Pending(u, r)' : v.update = "NightMode"
        BY <1>0, <2>1, <2>2
      <4>2. \E u \in Tasks : \E v \in Pending(u, r)' : v.update = "CircadianPause"
        BY <1>0, <2>1, <2>2
      <4>3. Switching(t, r)'
        BY <1>5, <1>7 DEF Switching
      <4>4. bulb'[r].on => \/ rooms'[r].lightsOn
                           \/ bulb'[r].level = "night" /\ \E u \in Tasks : PutNight \in Pending(u, r)'
        <5>1. \A u \in Tasks : Pending(u, r) \subseteq Pending(u, r)'
          BY <2>1
        <5>2. bulb[r].on => \/ rooms[r].lightsOn
                            \/ bulb[r].level = "night" /\ \E u \in Tasks : PutNight \in Pending(u, r)
          BY <3>1 DEF ComesTo
        <5> QED BY <1>2, <5>1, <5>2
      <4> QED BY <4>1, <4>2, <4>3, <4>4 DEF ComesTo, PutNight, LightsOnWithPush
    <3>7. TakeTurns(r, listed, listed)'
      <4>1. Free("circadian", r)' /\ r \notin cycle'.left
        BY <1>2, <2>1, <3>3, NightTasks DEF Free
      <4>2. \A u \in Switchers : \A x \in Switches : Listed(u, x)' /\ x.room = r => x.active = listed
        BY <1>1, <3>1 DEF TakeTurns
      <4> QED BY <4>1, <4>2 DEF TakeTurns
    <3> QED BY <3>5, <3>6, <3>7 DEF NightFits
  <2> QED BY <1>2, <2>3, <2>4, <2>5 DEF Held
<1> QED BY <1>6, <1>7

\* What a switch comes to.
LEMMA DecidesIs ==
  ASSUME NEW s \in Switches, NEW lit \in BOOLEAN
  PROVE  /\ s.active => \/ NightSteps(s, lit) = << NightGoing(s.room) >> /\ (lit \/ s.user)
                        \/ NightSteps(s, lit) = Told(s) /\ ~lit
         /\ ~s.active => \/ /\ DaySteps(s, lit) = << Send(s.room, LightsOn(None, "Circadian")), DayGoing(s.room) >>
                            /\ lit
                         \/ DaySteps(s, lit) = Told(s) /\ ~lit
<1> DEFINE r == s.room
<1>0. s.active \in BOOLEAN
  BY DEF Switches
<1>1. /\ s.active => Pushed(r, "night", "Automation") \o Told(s) = Afterwards(r, PutNight, TRUE)
      /\ ~s.active => Pushed(r, "circadian", "Circadian") \o Told(s) = Afterwards(r, PutDay, FALSE)
  <2> DEFINE night1 == Send(r, PutNight)
             day1 == Send(r, PutDay)
             told == Announce(NightModeChanged(r, s.active))
  <2>1. /\ Pushed(r, "night", "Automation") = << night1 >> /\ Told(s) = << told >>
        /\ Pushed(r, "circadian", "Circadian") = << day1 >>
        /\ s.active => Afterwards(r, PutNight, TRUE) = << night1, told >>
        /\ ~s.active => Afterwards(r, PutDay, FALSE) = << day1, told >>
    <3>1. (s.active => s.active = TRUE) /\ (~s.active => s.active = FALSE)
      BY <1>0
    <3> QED BY <3>1 DEF Pushed, Told, Afterwards, PutNight, PutDay
  <2> HIDE DEF night1, day1, told
  <2> QED BY <2>1, Joined
<1>2. ASSUME s.active
      PROVE  \/ NightSteps(s, lit) = << NightGoing(s.room) >> /\ (lit \/ s.user)
             \/ NightSteps(s, lit) = Told(s) /\ ~lit
  BY <1>1, <1>2 DEF NightSteps, NightGoing
<1>3. ASSUME ~s.active
      PROVE  \/ /\ DaySteps(s, lit) = << Send(s.room, LightsOn(None, "Circadian")), DayGoing(s.room) >>
                /\ lit
             \/ DaySteps(s, lit) = Told(s) /\ ~lit
  BY <1>1, <1>3 DEF DaySteps, DayGoing
<1> QED BY <1>2, <1>3

\* A task looks at the lights and decides.
LEMMA Decided ==
  ASSUME NightTypeOK, NEW t \in Switchers, Decide(t)
  PROVE  \E s \in Switches, steps \in Seq(Steps) :
           /\ s = switching[t] /\ s # None
           /\ todo[t] = <<>> /\ todo' = [todo EXCEPT ![t] = steps]
           /\ switching' = [switching EXCEPT ![t] = None]
           /\ \A e : Has(steps, e) /\ e.do \in {"send", "publish"} => e.room = s.room
           /\ \A u : Has(steps, Send(s.room, u)) => u = LightsOn(None, "Circadian") /\ rooms[s.room].lightsOn
           /\ \A p \in PublishSteps : Has(steps, p) =>
                \/ p = NightGoing(s.room) /\ s.active /\ (rooms[s.room].lightsOn \/ s.user)
                \/ p = DayGoing(s.room) /\ ~s.active /\ rooms[s.room].lightsOn
           /\ rooms[s.room].lightsOn => \E p \in PublishSteps : p.room = s.room /\ Has(steps, p)
<1> DEFINE s == switching[t]
           lit == rooms[s.room].lightsOn
           steps == IF s.active THEN NightSteps(s, lit) ELSE DaySteps(s, lit)
           say == Send(s.room, LightsOn(None, "Circadian"))
           told == Announce(NightModeChanged(s.room, s.active))
<1>1. /\ todo[t] = <<>> /\ s # None /\ todo' = [todo EXCEPT ![t] = steps]
      /\ switching' = [switching EXCEPT ![t] = None]
  BY DEF Decide
<1>2. s \in Switches
  BY <1>1, NightParts DEF NightVarsOK
<1>3. lit \in BOOLEAN /\ s.active \in BOOLEAN
  BY <1>2, NightParts, TypeParts DEF RecordOK, Room, Switches
<1>4. \/ s.active /\ steps = << NightGoing(s.room) >> /\ (lit \/ s.user)
      \/ ~s.active /\ steps = << say, DayGoing(s.room) >> /\ lit
      \/ steps = << told >> /\ ~lit
  BY <1>2, <1>3, DecidesIs DEF Told
<1>5. /\ say.do = "send" /\ say.room = s.room /\ told.do = "announce"
      /\ NightGoing(s.room).do = "publish" /\ NightGoing(s.room).room = s.room
      /\ DayGoing(s.room).do = "publish" /\ DayGoing(s.room).room = s.room
      /\ \A u : /\ Send(s.room, u).do = "send"
                /\ Send(s.room, u) = say => u = LightsOn(None, "Circadian")
  BY DEF Send, Announce, NightGoing, DayGoing, Publish
<1>6. steps \in Seq(Steps)
  BY <1>2, <1>3, SwitchStepsType
<1>7. \A e : Has(steps, e) => e \in Steps
  <2> HIDE DEF steps
  <2> QED BY <1>6, HasSeq
<1> HIDE DEF steps, say, told, s
<1>8. \/ s.active /\ (lit \/ s.user) /\ \A e : Has(steps, e) <=> e = NightGoing(s.room)
      \/ ~s.active /\ lit /\ \A e : Has(steps, e) <=> e \in {say, DayGoing(s.room)}
      \/ ~lit /\ \A e : Has(steps, e) <=> e = told
  <2>1. CASE s.active /\ steps = << NightGoing(s.room) >> /\ (lit \/ s.user)
    BY <2>1, HasShort
  <2>2. CASE ~s.active /\ steps = << say, DayGoing(s.room) >> /\ lit
    <3> DEFINE day == DayGoing(s.room)
    <3> HIDE DEF day
    <3>1. \A e : Has(<< say, day >>, e) <=> e \in {say, day}
      BY HasShort
    <3> QED BY <2>2, <3>1, Zenon DEF day
  <2>3. CASE steps = << told >> /\ ~lit
    BY <2>3, HasShort
  <2> QED BY <1>4, <2>1, <2>2, <2>3
<1>9. \A e : Has(steps, e) /\ e.do \in {"send", "publish"} => e.room = s.room
  BY <1>5, <1>8
<1>10. \A u : Has(steps, Send(s.room, u)) => u = LightsOn(None, "Circadian") /\ lit
  BY <1>5, <1>8
<1>11. \A p \in PublishSteps : Has(steps, p) =>
         \/ p = NightGoing(s.room) /\ s.active /\ (lit \/ s.user)
         \/ p = DayGoing(s.room) /\ ~s.active /\ lit
  <2>1. \A p \in PublishSteps : p.do = "publish"
    BY PublishFields
  <2> QED BY <1>5, <1>8, <2>1
<1>12. lit => \E p \in PublishSteps : p.room = s.room /\ Has(steps, p)
  <2>1. ASSUME lit PROVE Has(steps, NightGoing(s.room)) \/ Has(steps, DayGoing(s.room))
    BY <1>8, <2>1
  <2>2. /\ Has(steps, NightGoing(s.room)) => NightGoing(s.room) \in PublishSteps
        /\ Has(steps, DayGoing(s.room)) => DayGoing(s.room) \in PublishSteps
    BY <1>5, <1>7, StepFields
  <2> QED BY <1>5, <2>1, <2>2
<1> HIDE DEF lit
<1>13. lit = rooms[s.room].lightsOn
  BY DEF lit
<1> QED BY <1>1, <1>2, <1>6, <1>9, <1>10, <1>11, <1>12, <1>13 DEF s

LEMMA DecideHolds ==
  ASSUME NightTypeOK, NEW t \in Switchers, Decide(t), NEW r \in Rooms, Held(r)
  PROVE  Held(r)'
<1>0. QueuesOK /\ NightVarsOK /\ t \in Tasks /\ KeepsTo(r) /\ StaysLit(r)
  BY NightParts, TypeParts, NightTasks DEF Held
<1>1. PICK s \in Switches, steps \in Seq(Steps) :
        /\ s = switching[t] /\ s # None
        /\ todo[t] = <<>> /\ todo' = [todo EXCEPT ![t] = steps]
        /\ switching' = [switching EXCEPT ![t] = None]
        /\ \A e : Has(steps, e) /\ e.do \in {"send", "publish"} => e.room = s.room
        /\ \A u : Has(steps, Send(s.room, u)) => u = LightsOn(None, "Circadian") /\ rooms[s.room].lightsOn
        /\ \A p \in PublishSteps : Has(steps, p) =>
             \/ p = NightGoing(s.room) /\ s.active /\ (rooms[s.room].lightsOn \/ s.user)
             \/ p = DayGoing(s.room) /\ ~s.active /\ rooms[s.room].lightsOn
        /\ rooms[s.room].lightsOn => \E p \in PublishSteps : p.room = s.room /\ Has(steps, p)
  BY Decided
<1>2. UNCHANGED <<rooms, bulb, rx, reports, cycle, agenda, raced>>
  BY DEF Decide, shared, world
<1>3. TakenUp(t, steps, r)
  BY <1>0, <1>1, <1>2, TookUp
<1>4. /\ switching'[t] = None /\ \A u \in Switchers : u # t => switching'[u] = switching[u]
      /\ \A u \in Switchers : Switching(u, r)' => Switching(u, r) /\ switching'[u] = switching[u]
  <2>1. switching'[t] = None /\ \A u \in Switchers : u # t => switching'[u] = switching[u]
    BY <1>0, <1>1 DEF NightVarsOK
  <2> QED BY <2>1 DEF Switching
<1>5. \A u, x : Listed(u, x)' <=> Listed(u, x)
  BY <1>2 DEF Listed
<1>6. CASE s.room # r
  <2>1. Leaves(t, r)
    <3>1. \A e : Has(steps, e) /\ e.do \in {"send", "publish"} => e.room # r
      BY <1>1, <1>6
    <3> QED BY <1>3, <3>1 DEF TakenUp
  <2>2. \A u \in Tasks : Leaves(u, r)
    BY <1>3, <2>1 DEF TakenUp
  <2>3. \A u \in Switchers : /\ Switching(u, r)' <=> Switching(u, r)
                             /\ Switching(u, r) => switching'[u] = switching[u]
    BY <1>1, <1>4, <1>6 DEF Switching
  <2>4. Still(r)
    BY <1>2, <1>5, <2>2, <2>3 DEF Still, Has
  <2> QED BY <1>2, <2>4, HeldStill
<1>7. CASE s.room = r
  <2> DEFINE says == {u \in Updates : Has(steps, Send(r, u))}
  <2>1. /\ \A u \in Tasks : u # t => Pending(u, r)' = Pending(u, r) /\ Goings(u, r)' = Goings(u, r)
        /\ Pending(t, r)' = Pending(t, r) \union says
        /\ Goings(t, r)' \subseteq {NightGoing(r), DayGoing(r)}
    <3>1. /\ \A u \in Tasks : u # t => Leaves(u, r)
          /\ Pending(t, r)' = Pending(t, r) \union says
          /\ Goings(t, r)' = {p \in PublishSteps : p.room = r /\ Has(steps, p)}
      BY <1>3 DEF TakenUp
    <3> QED BY <1>1, <1>7, <3>1 DEF Leaves
  <2>2. /\ \A v \in says : v = LightsOn(None, "Circadian") /\ rooms[r].lightsOn
        /\ \A p \in Goings(t, r)' : \/ p = NightGoing(r) /\ s.active
                                    \/ p = DayGoing(r) /\ ~s.active /\ rooms[r].lightsOn
        /\ rooms[r].lightsOn => Goings(t, r)' # {}
    <3>1. Goings(t, r)' = {p \in PublishSteps : p.room = r /\ Has(steps, p)}
      BY <1>3 DEF TakenUp
    <3> QED BY <1>1, <1>7, <3>1
  <2> HIDE DEF says
  <2>3. KeepsTo(r)'
    <3>1. says \subseteq SwitchUpdates
      BY <2>2 DEF SwitchUpdates
    <3> QED BY <1>0, <2>1, <3>1, NightTasks DEF KeepsTo
  <2>4. StaysLit(r)'
    <3>1. \A u \in Tasks : \A v \in Pending(u, r)' : v.update \in {"LightsOn", "LightsOnWithPush"} => bulb'[r].on
      BY <1>0, <1>2, <2>1, <2>2 DEF StaysLit
    <3>2. \A u \in Tasks : \A p \in Goings(u, r)' : p.level # "night" => rooms'[r].lightsOn
      BY <1>0, <1>2, <2>1, <2>2, GoingSays DEF StaysLit
    <3> QED BY <1>0, <1>2, <3>1, <3>2 DEF StaysLit
  <2>5. ASSUME NightFits(r) PROVE NightFits(r)'
    <3>1. PICK active \in BOOLEAN, listed \in BOOLEAN :
            Agree(r, active) /\ ComesTo(r, active) /\ TakeTurns(r, active, listed)
      BY <2>5 DEF NightFits
    <3>2. Switching(t, r) /\ s.active = active
      BY <1>1, <1>7, <3>1 DEF Agree, Switching
    <3>3. active = listed
      BY <3>1, <3>2, Zenon DEF TakeTurns
    <3>4. r \notin cycle.left /\ Free("circadian", r)
      BY <3>1, <3>2, Zenon DEF TakeTurns
    <3>5. Agree(r, active)'
      <4>1. \A u \in Tasks : \A v \in Pending(u, r)' :
              /\ v.update = "NightMode" => v.active = active
              /\ v.update = "CircadianPause" => v.paused = active
              /\ v = PutNight => active
        <5>1. \A v \in says : v.update = "LightsOn" /\ v # PutNight
          BY <2>2, UpdatesApart
        <5>2. \A u \in Tasks : \A v \in Pending(u, r)' : v \in Pending(u, r) \/ v \in says
          BY <2>1
        <5> QED BY <3>1, <5>1, <5>2 DEF Agree
      <4>2. \A u \in Tasks : \A p \in Goings(u, r)' : p.level = IF active THEN "night" ELSE "circadian"
        <5>1. \A p \in Goings(t, r)' : p.level = IF active THEN "night" ELSE "circadian"
          <6> TAKE p \in Goings(t, r)'
          <6>1. CASE p = NightGoing(r) /\ s.active
            BY <3>2, <6>1, GoingSays
          <6>2. CASE p = DayGoing(r) /\ ~s.active
            BY <3>2, <6>2, GoingSays
          <6> QED BY <2>2, <6>1, <6>2
        <5> QED BY <2>1, <3>1, <5>1 DEF Agree
      <4>3. \A u \in Switchers : Switching(u, r)' => switching'[u].active = active
        BY <1>4, <3>1 DEF Agree
      <4> QED BY <4>1, <4>2, <4>3 DEF Agree, PutNight, LightsOnWithPush
    <3>6. ComesTo(r, active)'
      <4>0. \A u \in Tasks : Pending(u, r) \subseteq Pending(u, r)'
        BY <2>1
      <4>1. rooms'[r].nightMode = active \/ \E u \in Tasks : \E v \in Pending(u, r)' : v.update = "NightMode"
        BY <1>2, <3>1, <4>0 DEF ComesTo
      <4>2. rooms'[r].paused = active \/ \E u \in Tasks : \E v \in Pending(u, r)' : v.update = "CircadianPause"
        BY <1>2, <3>1, <4>0 DEF ComesTo
      <4>a. bulb[r].on => \/ rooms[r].lightsOn
                          \/ bulb[r].level = "night" /\ \E u \in Tasks : PutNight \in Pending(u, r)
        BY <3>1 DEF ComesTo
      <4>3. LevelFits(r, active)' \/ Goings(t, r)' # {}
        <5>1. CASE rooms[r].lightsOn
          BY <2>2, <5>1
        <5>2. CASE ~rooms[r].lightsOn /\ active
          BY <1>2, <4>a, <5>2 DEF LevelFits
        <5>3. CASE ~rooms[r].lightsOn /\ ~active
          <6>1. \A u \in Tasks : PutNight \notin Pending(u, r)
            BY <3>1, <5>3 DEF Agree
          <6>2. bulb[r].level # "night"
            BY <1>0, <4>a, <5>3, <6>1 DEF StaysLit
          <6> QED BY <1>2, <5>3, <6>2 DEF LevelFits
        <5> QED BY <5>1, <5>2, <5>3
      <4>4. bulb'[r].on => \/ rooms'[r].lightsOn
                           \/ bulb'[r].level = "night" /\ \E u \in Tasks : PutNight \in Pending(u, r)'
        BY <1>2, <4>0, <4>a
      <4> QED BY <4>1, <4>2, <4>3, <4>4 DEF ComesTo, PutNight, LightsOnWithPush
    <3>7. TakeTurns(r, active, listed)'
      <4>1. Free("circadian", r)' /\ r \notin cycle'.left
        BY <1>2, <2>1, <3>4, NightTasks DEF Free
      <4>2. \A u \in Switchers : \A x \in Switches : Listed(u, x)' /\ x.room = r => x.active = listed
        BY <1>5, <3>1 DEF TakeTurns
      <4> QED BY <3>3, <4>1, <4>2 DEF TakeTurns
    <3> QED BY <3>5, <3>6, <3>7 DEF NightFits
  <2> QED BY <1>2, <2>3, <2>4, <2>5 DEF Held
<1> QED BY <1>6, <1>7

-----------------------------------------------------------------------------
(* Reports, and the cycles of the engine.                                   *)

\* What a report that the lights are on makes the MQTT loop say.
LEMMA ReportSays ==
  ASSUME NEW m, m.on, NEW room, NEW external
  PROVE  \A e : Has(ReportSteps(m, room, external), e) =>
           \E u : e = Send(m.room, u) /\ u.update \in {"LightsOn", "ExternalChange"}
<1> DEFINE a == Send(m.room, LightsOn(m.level, room.source))
           b == Send(m.room, ExternalChange(ExternalTtl))
<1>1. ReportSteps(m, room, external) = << a >> \o IF external THEN << b >> ELSE <<>>
  BY DEF ReportSteps
<1>2. /\ \E u : a = Send(m.room, u) /\ u.update \in {"LightsOn", "ExternalChange"}
      /\ \E u : b = Send(m.room, u) /\ u.update \in {"LightsOn", "ExternalChange"}
  <2>1. /\ LightsOn(m.level, room.source).update = "LightsOn"
        /\ ExternalChange(ExternalTtl).update = "ExternalChange"
    BY DEF LightsOn, ExternalChange
  <2> QED BY <2>1
<1> HIDE DEF a, b
<1>3. << a >> \o << b >> = << a, b >>
  BY Joined
<1>4. << a >> \o <<>> = << a >>
  <2> DEFINE S == {a}
  <2>1. << a >> \in Seq(S)
    OBVIOUS
  <2> HIDE DEF S
  <2> QED BY <2>1, ConcatProperties
<1>5. /\ \A e : Has(<< a >>, e) <=> e = a
      /\ \A e : Has(<< a, b >>, e) <=> e \in {a, b}
  BY HasShort
<1>6. \A e : Has(ReportSteps(m, room, external), e) => e \in {a, b}
  BY <1>1, <1>3, <1>4, <1>5
<1> QED BY <1>2, <1>6

LEMMA ReportHolds ==
  ASSUME NightTypeOK, Links, \A r \in Rooms : Held(r), ReadReport
  PROVE  Links' /\ \A r \in Rooms : Held(r)'
<1> DEFINE m == Head(reports)
           o == m.room
           steps == ReportSteps(m, rooms[o], LooksExternal(m, rooms[o]) /\ ~Deduplicated(o))
<1>0. QueuesOK /\ WorldOK /\ RecordOK /\ NightVarsOK
  BY NightParts, TypeParts
<1>1. /\ todo["mqtt"] = <<>> /\ todo' = [todo EXCEPT !["mqtt"] = steps]
      /\ reports # <<>> /\ reports' = Tail(reports)
      /\ UNCHANGED <<rooms, bulb, rx, link, outq, cycle, switching, agenda>>
  BY DEF ReadReport, HandleReport, LoopIdle, LoopDoes, NoNight, shared
<1>2. Links'
  BY <1>1 DEF Links
<1>3. o \in Rooms /\ (\E i \in 1..Len(reports) : reports[i] = m) /\ \A e : Has(reports', e) => Has(reports, e)
  <2>1. m \in Report /\ \A e : Has(reports, e) <=> e = m \/ Has(reports', e)
    BY <1>0, <1>1, HeadTailProperties, HasSeq DEF WorldOK
  <2> QED BY <2>1 DEF Report, Has
<1>4. m.on /\ bulb[o].on
  <2>1. StaysLit(o)
    BY <1>3 DEF Held
  <2> QED BY <1>3, <2>1 DEF StaysLit
<1>5. \A e : Has(steps, e) => \E u : e = Send(o, u) /\ u.update \in {"LightsOn", "ExternalChange"}
  BY <1>4, ReportSays
<1>6. \A r \in Rooms : ~raced'[r] => ~raced[r]
  BY <1>0, OverlapKeeps DEF ReadReport, NightVarsOK
<1>7. \A i \in 1..Len(reports') : Has(reports, reports'[i])
  <2>1. \A i \in 1..Len(reports') : Has(reports', reports'[i])
    BY DEF Has
  <2> QED BY <1>3, <2>1
<1>8. \A t, s : Listed(t, s)' <=> Listed(t, s)
  BY <1>1 DEF Listed
<1>9. \A t, x : Switching(t, x)' <=> Switching(t, x)
  BY <1>1 DEF Switching
<1> HIDE DEF steps, o, m
<1>10. ASSUME NEW r \in Rooms PROVE Held(r)'
  <2>0. TakenUp("mqtt", steps, r) /\ KeepsTo(r) /\ StaysLit(r)
    BY <1>0, <1>1, <1>10, TookUp, NightTasks DEF Held
  <2>1. CASE r # o
    <3>1. Leaves("mqtt", r)
      <4>1. \A e : Has(steps, e) => e.room # r
        BY <1>5, <2>1 DEF Send
      <4> QED BY <2>0, <4>1 DEF TakenUp
    <3>2. \A t \in Tasks : Leaves(t, r)
      BY <2>0, <3>1 DEF TakenUp
    <3>3. Still(r)
      BY <1>1, <1>7, <1>8, <3>2, StillRoom
    <3> QED BY <1>6, <3>3, HeldStill
  <2>2. CASE r = o
    <3> DEFINE says == {u \in Updates : Has(steps, Send(r, u))}
    <3>1. /\ \A t \in Tasks : t # "mqtt" => Pending(t, r)' = Pending(t, r) /\ Goings(t, r)' = Goings(t, r)
          /\ Pending("mqtt", r)' = Pending("mqtt", r) \union says
          /\ Goings("mqtt", r)' = {p \in PublishSteps : p.room = r /\ Has(steps, p)}
      BY <2>0 DEF TakenUp, Leaves
    <3>2. Goings("mqtt", r)' = {}
      <4>1. \A p \in PublishSteps : ~Has(steps, p)
        BY <1>5, PublishFields DEF Send
      <4> QED BY <3>1, <4>1
    <3>3. \A u \in says : u.update \in {"LightsOn", "ExternalChange"}
      <4>1. \A u, v : Send(r, u) = Send(o, v) => u = v
        BY DEF Send
      <4> QED BY <1>5, <4>1
    <3> HIDE DEF says
    <3>4. /\ \A t \in Tasks : Pending(t, r) \subseteq Pending(t, r)' /\ Goings(t, r)' = Goings(t, r)
          /\ \A t \in Tasks : \A u \in Pending(t, r)' :
               u \in Pending(t, r) \/ u.update \in {"LightsOn", "ExternalChange"}
      BY <2>0, <3>1, <3>2, <3>3 DEF KeepsTo
    <3>5. KeepsTo(r)'
      BY <2>0, <3>1, <3>2, <3>3, NightTasks DEF KeepsTo
    <3>6. StaysLit(r)'
      <4>1. \A i \in 1..Len(reports') : reports'[i].room = r => reports'[i].on /\ bulb'[r].on
        BY <1>1, <1>7, <2>0 DEF StaysLit, Has
      <4>2. \A t \in Tasks : \A u \in Pending(t, r)' : u.update \in {"LightsOn", "LightsOnWithPush"} => bulb'[r].on
        BY <1>1, <1>4, <2>2
      <4>3. \A t \in Tasks : \A p \in Goings(t, r)' : p.level # "night" => rooms'[r].lightsOn
        BY <1>1, <2>0, <3>4 DEF StaysLit
      <4> QED BY <1>1, <2>0, <4>1, <4>2, <4>3 DEF StaysLit
    <3>7. ASSUME NightFits(r) PROVE NightFits(r)'
      <4>1. PICK active \in BOOLEAN, listed \in BOOLEAN :
              Agree(r, active) /\ ComesTo(r, active) /\ TakeTurns(r, active, listed)
        BY <3>7 DEF NightFits
      <4>2. Agree(r, active)'
        <5>1. \A t \in Tasks : \A v \in Pending(t, r)' :
                /\ v.update = "NightMode" => v.active = active
                /\ v.update = "CircadianPause" => v.paused = active
                /\ v = PutNight => active
          <6>1. \A t \in Tasks : \A v \in Pending(t, r) :
                  /\ v.update = "NightMode" => v.active = active
                  /\ v.update = "CircadianPause" => v.paused = active
                  /\ v = PutNight => active
            BY <4>1 DEF Agree
          <6> QED BY <3>4, <6>1, UpdatesApart
        <5>2. \A t \in Tasks : \A p \in Goings(t, r)' : p.level = IF active THEN "night" ELSE "circadian"
          BY <3>4, <4>1 DEF Agree
        <5>3. \A t \in Switchers : Switching(t, r)' => switching'[t].active = active
          BY <1>1, <1>9, <4>1 DEF Agree
        <5> QED BY <5>1, <5>2, <5>3 DEF Agree, PutNight, LightsOnWithPush
      <4>3. ComesTo(r, active)'
        <5>1. rooms'[r].nightMode = active \/ \E t \in Tasks : \E u \in Pending(t, r)' : u.update = "NightMode"
          BY <1>1, <3>4, <4>1 DEF ComesTo
        <5>2. rooms'[r].paused = active \/ \E t \in Tasks : \E u \in Pending(t, r)' : u.update = "CircadianPause"
          BY <1>1, <3>4, <4>1 DEF ComesTo
        <5>3. LevelFits(r, active)' \/ \E t \in Switchers : Switching(t, r)' \/ Goings(t, r)' # {}
          <6>1. LevelFits(r, active)' <=> LevelFits(r, active)
            BY <1>1 DEF LevelFits
          <6>2. LevelFits(r, active) \/ \E t \in Switchers : Switching(t, r) \/ Goings(t, r) # {}
            BY <4>1 DEF ComesTo
          <6>3. \A t \in Switchers : Goings(t, r)' = Goings(t, r)
            BY <3>4, NightTasks
          <6> QED BY <1>9, <6>1, <6>2, <6>3, Zenon
        <5>4. bulb'[r].on => \/ rooms'[r].lightsOn
                             \/ bulb'[r].level = "night" /\ \E t \in Tasks : PutNight \in Pending(t, r)'
          <6>1. bulb[r].on => \/ rooms[r].lightsOn
                              \/ bulb[r].level = "night" /\ \E t \in Tasks : PutNight \in Pending(t, r)
            BY <4>1 DEF ComesTo
          <6> QED BY <1>1, <3>4, <6>1
        <5> QED BY <5>1, <5>2, <5>3, <5>4 DEF ComesTo, PutNight, LightsOnWithPush
      <4>4. TakeTurns(r, active, listed)'
        <5>1. \A t \in Tasks : t # "mqtt" => (Free(t, r)' <=> Free(t, r))
          BY <3>1 DEF Free
        <5>2. /\ Free("circadian", r)' <=> Free("circadian", r)
              /\ \A t \in Switchers : Free(t, r)' <=> Free(t, r)
          BY <5>1, NightTasks
        <5>3. cycle' = cycle
          BY <1>1
        <5> QED BY <1>8, <1>9, <4>1, <5>2, <5>3, Zenon DEF TakeTurns
      <4> QED BY <4>2, <4>3, <4>4 DEF NightFits
    <3> QED BY <1>6, <3>5, <3>6, <3>7 DEF Held
  <2> QED BY <2>1, <2>2
<1> QED BY <1>2, <1>10

\* What the engine says of a room, and publishes to it.
LEMMA CycleSays ==
  ASSUME NEW r \in Rooms, NEW room
  PROVE  \A e : Has(RoomSteps(r, room), e) =>
           e = CycleGoing(r) \/ \E u \in CycleUpdates : e = Send(r, u)
<1> DEFINE unpause == Send(r, CircadianPause(FALSE, None))
           lit == Send(r, LightsOn(None, "Circadian"))
           ttl == Send(r, ManualOverrideTtl(None))
           going == CycleGoing(r)
           S == {unpause, lit, ttl, going}
<1>1. \A e \in S : e = CycleGoing(r) \/ \E u \in CycleUpdates : e = Send(r, u)
  BY DEF CycleUpdates
<1>2. /\ << unpause >> \in Seq(S) /\ << lit, ttl >> \in Seq(S) /\ << going >> \in Seq(S) /\ <<>> \in Seq(S)
  OBVIOUS
<1>3. PushRoom(r) = << going >>
  BY DEF PushRoom, CycleGoing
<1> HIDE DEF going, S
<1>4. ResumeSteps(r, room) \in Seq(S) /\ OverrideSteps(r, room) \in Seq(S) /\ PushRoom(r) \in Seq(S)
  BY <1>2, <1>3 DEF ResumeSteps, OverrideSteps
<1>5. RoomSteps(r, room) \in Seq(S)
  <2>1. OverrideSteps(r, room) \o PushRoom(r) \in Seq(S)
    BY <1>4, ConcatProperties
  <2> QED BY <1>2, <1>4, <2>1, ConcatProperties DEF RoomSteps
<1>6. \A e : Has(RoomSteps(r, room), e) => e \in S
  BY <1>5, HasSeq
<1> QED BY <1>1, <1>6

LEMMA CycleHolds ==
  ASSUME NightTypeOK, Links, \A r \in Rooms : Held(r), NEW o \in Rooms, CyclesRoom(o)
  PROVE  Links' /\ \A r \in Rooms : Held(r)'
<1> DEFINE steps == RoomSteps(o, cycle.view[o])
<1>0. QueuesOK /\ EngineTypeOK
  BY NightParts, TypeParts
<1>1. /\ todo["circadian"] = <<>> /\ todo' = [todo EXCEPT !["circadian"] = steps]
      /\ o \in cycle.left
      /\ UNCHANGED <<rooms, bulb, rx, link, outq, reports, switching, agenda, raced>>
  BY DEF CyclesRoom, CycleRoom, shared, world, night
<1>2. Links'
  BY <1>1 DEF Links
<1>3. \A r : r \in cycle'.left => r \in cycle.left
  <2>1. cycle' = IF cycle.left = {o} THEN [left |-> {}, view |-> NoView]
                 ELSE [cycle EXCEPT !.left = cycle.left \ {o}]
    BY DEF CyclesRoom, CycleRoom
  <2> QED BY <1>0, <2>1 DEF EngineTypeOK
<1>4. \A e : Has(steps, e) => e = CycleGoing(o) \/ \E u \in CycleUpdates : e = Send(o, u)
  BY CycleSays
<1>5. CycleGoing(o).do = "publish" /\ CycleGoing(o).room = o
  BY DEF CycleGoing, Publish
<1>8. \A t, s : Listed(t, s)' <=> Listed(t, s)
  BY <1>1 DEF Listed
<1>9. \A t, x : Switching(t, x)' <=> Switching(t, x)
  BY <1>1 DEF Switching
<1> HIDE DEF steps
<1>10. ASSUME NEW r \in Rooms PROVE Held(r)'
  <2>0. TakenUp("circadian", steps, r) /\ KeepsTo(r) /\ StaysLit(r)
    BY <1>0, <1>1, <1>10, TookUp, NightTasks DEF Held
  <2>1. CASE r # o
    <3>1. Leaves("circadian", r)
      <4>1. \A e : Has(steps, e) => e.room # r
        BY <1>4, <1>5, <2>1 DEF Send
      <4> QED BY <2>0, <4>1 DEF TakenUp
    <3>2. \A t \in Tasks : Leaves(t, r)
      BY <2>0, <3>1 DEF TakenUp
    <3>3. \A i \in 1..Len(reports') : Has(reports, reports'[i])
      BY <1>1 DEF Has
    <3>4. Still(r)
      BY <1>1, <1>3, <1>8, <3>2, <3>3, StillRoom
    <3> QED BY <1>1, <3>4, HeldStill
  <2>2. CASE r = o
    <3> DEFINE says == {u \in Updates : Has(steps, Send(r, u))}
    <3>1. /\ \A t \in Tasks : t # "circadian" => Pending(t, r)' = Pending(t, r) /\ Goings(t, r)' = Goings(t, r)
          /\ Pending("circadian", r)' = Pending("circadian", r) \union says
          /\ Goings("circadian", r)' = {p \in PublishSteps : p.room = r /\ Has(steps, p)}
      BY <2>0 DEF TakenUp, Leaves
    <3>2. Goings("circadian", r)' \subseteq {CycleGoing(r)}
      <4>1. \A p \in PublishSteps : \A u : p # Send(o, u)
        BY PublishFields DEF Send
      <4> QED BY <1>4, <2>2, <3>1, <4>1
    <3>3. says \subseteq CycleUpdates
      <4>1. \A u, v : Send(r, u) = Send(o, v) => u = v
        BY DEF Send
      <4>2. \A u : Send(r, u) # CycleGoing(o)
        BY <1>5 DEF Send
      <4> QED BY <1>4, <4>1, <4>2
    <3>4. \A u \in CycleUpdates :
            /\ u.update # "NightMode" /\ u # PutNight /\ u.update # "LightsOnWithPush"
            /\ u.update = "CircadianPause" => u.paused = FALSE
      <4> QED BY DEF CycleUpdates, CircadianPause, LightsOn, ManualOverrideTtl, JehaPush, PutNight, LightsOnWithPush
    <3> HIDE DEF says
    <3>5. KeepsTo(r)'
      BY <2>0, <3>1, <3>2, <3>3, NightTasks DEF KeepsTo
    <3>a. rooms[r].lightsOn /\ bulb[r].on
      BY <1>1, <2>0, <2>2 DEF StaysLit
    <3>6. StaysLit(r)'
      <4>2. \A t \in Tasks : \A u \in Pending(t, r)' : u.update \in {"LightsOn", "LightsOnWithPush"} => bulb'[r].on
        BY <1>1, <3>a
      <4>3. \A t \in Tasks : \A p \in Goings(t, r)' : p.level # "night" => rooms'[r].lightsOn
        BY <1>1, <3>a
      <4> QED BY <1>1, <2>0, <3>a, <4>2, <4>3 DEF StaysLit
    <3>7. ASSUME NightFits(r) PROVE NightFits(r)'
      <4>1. PICK active \in BOOLEAN, listed \in BOOLEAN :
              Agree(r, active) /\ ComesTo(r, active) /\ TakeTurns(r, active, listed)
        BY <3>7 DEF NightFits
      <4>a. /\ ~active
            /\ \A t \in Switchers :
                 /\ Free(t, r) /\ ~Switching(t, r)
                 /\ \A s \in Switches : s.room = r => ~Listed(t, s)
        BY <1>1, <2>2, <4>1 DEF TakeTurns
      <4>b. /\ \A t \in Tasks : Pending(t, r) \subseteq Pending(t, r)'
            /\ \A t \in Tasks : \A u \in Pending(t, r)' : u \in Pending(t, r) \/ u \in CycleUpdates
        BY <3>1, <3>3
      <4>2. Agree(r, active)'
        <5>1. \A t \in Tasks : \A v \in Pending(t, r)' :
                /\ v.update = "NightMode" => v.active = active
                /\ v.update = "CircadianPause" => v.paused = active
                /\ v = PutNight => active
          <6>1. \A t \in Tasks : \A v \in Pending(t, r) :
                  /\ v.update = "NightMode" => v.active = active
                  /\ v.update = "CircadianPause" => v.paused = active
                  /\ v = PutNight => active
            BY <4>1 DEF Agree
          <6>2. active = FALSE
            BY <4>a
          <6> QED BY <3>4, <4>b, <6>1, <6>2
        <5>2. \A t \in Tasks : \A p \in Goings(t, r)' : p.level = IF active THEN "night" ELSE "circadian"
          <6> TAKE t \in Tasks
          <6>1. CASE t = "circadian"
            BY <3>2, <4>a, <6>1, GoingSays
          <6>2. CASE t # "circadian"
            BY <3>1, <4>1, <6>2 DEF Agree
          <6> QED BY <6>1, <6>2
        <5>3. \A t \in Switchers : Switching(t, r)' => switching'[t].active = active
          BY <1>1, <1>9, <4>1 DEF Agree
        <5> QED BY <5>1, <5>2, <5>3 DEF Agree, PutNight, LightsOnWithPush
      <4>3. ComesTo(r, active)'
        <5>1. rooms'[r].nightMode = active \/ \E t \in Tasks : \E u \in Pending(t, r)' : u.update = "NightMode"
          BY <1>1, <4>b, <4>1 DEF ComesTo
        <5>2. rooms'[r].paused = active \/ \E t \in Tasks : \E u \in Pending(t, r)' : u.update = "CircadianPause"
          BY <1>1, <4>b, <4>1 DEF ComesTo
        <5>3. LevelFits(r, active)' \/ \E t \in Switchers : Switching(t, r)' \/ Goings(t, r)' # {}
          <6>1. LevelFits(r, active)' <=> LevelFits(r, active)
            BY <1>1 DEF LevelFits
          <6>2. LevelFits(r, active) \/ \E t \in Switchers : Switching(t, r) \/ Goings(t, r) # {}
            BY <4>1 DEF ComesTo
          <6>3. \A t \in Switchers : Goings(t, r)' = Goings(t, r)
            BY <3>1, NightTasks
          <6> QED BY <1>9, <6>1, <6>2, <6>3, Zenon
        <5>4. bulb'[r].on => \/ rooms'[r].lightsOn
                             \/ bulb'[r].level = "night" /\ \E t \in Tasks : PutNight \in Pending(t, r)'
          BY <1>1, <3>a
        <5> QED BY <5>1, <5>2, <5>3, <5>4 DEF ComesTo, PutNight, LightsOnWithPush
      <4>4. TakeTurns(r, active, listed)'
        <5>1. \A t \in Tasks : t # "circadian" => (Free(t, r)' <=> Free(t, r))
          BY <3>1 DEF Free
        <5>2. \A t \in Switchers : Free(t, r)' <=> Free(t, r)
          BY <5>1, NightTasks
        <5> QED BY <1>8, <1>9, <4>1, <4>a, <5>2, Zenon DEF TakeTurns
      <4> QED BY <4>2, <4>3, <4>4 DEF NightFits
    <3> QED BY <1>1, <3>5, <3>6, <3>7 DEF Held
  <2> QED BY <2>1, <2>2
<1> QED BY <1>2, <1>10

\* Who has nothing to do with a room.
LEMMA HoldsNot ==
  ASSUME NightTypeOK, NEW r \in Rooms
  PROVE  /\ \A t \in Switchers : ~Holds(t, r) =>
              /\ Free(t, r) /\ ~Switching(t, r)
              /\ \A s \in Switches : s.room = r => ~Listed(t, s)
         /\ \A t \in Tasks : ~Busy(t, r) <=> Free(t, r)
         /\ Settled(r) =>
              /\ \A t \in Tasks : Free(t, r)
              /\ \A t \in Switchers : /\ ~Switching(t, r)
                                      /\ \A s \in Switches : s.room = r => ~Listed(t, s)
              /\ r \notin cycle.left
<1>1. \A t \in Tasks : ~Busy(t, r) <=> Free(t, r)
  BY BusyIs, NightParts, TypeParts DEF Free
<1>2. ASSUME NEW t \in Switchers, ~Holds(t, r)
      PROVE  /\ Free(t, r) /\ ~Switching(t, r)
             /\ \A s \in Switches : s.room = r => ~Listed(t, s)
  <2>1. Free(t, r)
    BY <1>1, <1>2, NightTasks DEF Holds
  <2> QED BY <1>2, <2>1 DEF Holds, Switching, Listed
<1>3. ASSUME Settled(r)
      PROVE  /\ \A t \in Tasks : Free(t, r)
             /\ \A t \in Switchers : /\ ~Switching(t, r)
                                     /\ \A s \in Switches : s.room = r => ~Listed(t, s)
             /\ r \notin cycle.left
  <2>1. /\ \A t \in Switchers : ~Holds(t, r)
        /\ ~Busy("circadian", r) /\ ~Busy("mqtt", r) /\ r \notin cycle.left
    BY <1>3 DEF Settled, EngineBusy
  <2>2. Free("circadian", r) /\ Free("mqtt", r)
    BY <1>1, <2>1, NightTasks
  <2> QED BY <1>2, <2>1, <2>2, NightTasks
<1> QED BY <1>1, <1>2, <1>3

\* A cycle begins.
LEMMA BeginsHolds ==
  ASSUME NightTypeOK, Links, \A r \in Rooms : Held(r), BeginsCycle
  PROVE  Links' /\ \A r \in Rooms : Held(r)'
<1>0. QueuesOK /\ EngineTypeOK /\ NightVarsOK /\ RecordOK
  BY NightParts, TypeParts
<1>1. /\ UNCHANGED <<rooms, bulb, rx, todo, link, outq, reports, switching, agenda>>
      /\ cycle.left = {} /\ BeginCycle
      /\ todo["circadian"] = <<>>
  BY DEF BeginsCycle, CycleTick, HandleMqttConnected, EngineTakes, EngineIdle, daemon, shared, world, NoNight
<1>2. Links'
  BY <1>1 DEF Links
<1>3. \A r \in Rooms : ~raced'[r] =>
        /\ ~raced[r]
        /\ r \in Lit /\ connected => ~AnySwitches(r) /\ ~Busy("mqtt", r)
  BY <1>0, OverlapKeeps DEF BeginsCycle, NightVarsOK
<1>4. \A t, r : Pending(t, r)' = Pending(t, r) /\ Goings(t, r)' = Goings(t, r)
  BY <1>1 DEF Pending, Goings
<1>5. \A t, s : Listed(t, s)' <=> Listed(t, s)
  BY <1>1 DEF Listed
<1>6. \A t, x : Switching(t, x)' <=> Switching(t, x)
  BY <1>1 DEF Switching
<1>7. \A r : r \in cycle'.left => r \in Lit /\ connected
  BY <1>1 DEF BeginCycle
<1>8. ASSUME NEW r \in Rooms PROVE Held(r)'
  <2>0. KeepsTo(r) /\ StaysLit(r)
    BY <1>8 DEF Held
  <2>1. CASE r \notin cycle'.left
    <3>1. \A t \in Tasks : Leaves(t, r)
      BY <1>4 DEF Leaves
    <3>2. \A i \in 1..Len(reports') : Has(reports, reports'[i])
      BY <1>1 DEF Has
    <3>3. Still(r)
      BY <1>1, <1>5, <2>1, <3>1, <3>2, StillRoom
    <3> QED BY <1>3, <3>3, HeldStill
  <2>2. CASE r \in cycle'.left
    <3>1. rooms[r].lightsOn /\ ~rooms[r].nightMode
      BY <1>7, <2>2 DEF Lit
    <3>2. KeepsTo(r)'
      BY <1>4, <2>0 DEF KeepsTo
    <3>3. StaysLit(r)'
      <4>1. \A t \in Tasks : \A u \in Pending(t, r)' : u.update \in {"LightsOn", "LightsOnWithPush"} => bulb'[r].on
        BY <1>1, <1>4, <2>0 DEF StaysLit
      <4>2. \A t \in Tasks : \A p \in Goings(t, r)' : p.level # "night" => rooms'[r].lightsOn
        BY <1>1, <1>4, <2>0 DEF StaysLit
      <4> QED BY <1>1, <2>0, <3>1, <4>1, <4>2 DEF StaysLit
    <3>4. ASSUME ~raced'[r], NightFits(r) PROVE NightFits(r)'
      <4>1. PICK active \in BOOLEAN, listed \in BOOLEAN :
              Agree(r, active) /\ ComesTo(r, active) /\ TakeTurns(r, active, listed)
        BY <3>4 DEF NightFits
      <4>2. \A t \in Switchers : /\ Free(t, r) /\ ~Switching(t, r)
                                 /\ \A s \in Switches : s.room = r => ~Listed(t, s)
        <5>1. \A t \in Switchers : ~Holds(t, r)
          BY <1>3, <1>7, <2>2, <3>4 DEF AnySwitches
        <5> QED BY <5>1, HoldsNot
      <4>3. ~active
        <5>1. ASSUME NEW t \in Tasks, NEW u \in Pending(t, r) PROVE u.update # "NightMode"
          <6>1. t \notin Switchers
            BY <4>2, <5>1 DEF Free
          <6>2. CASE t = "circadian"
            <7>1. u \in CycleUpdates
              BY <2>0, <5>1, <6>2 DEF KeepsTo
            <7> QED BY <7>1 DEF CycleUpdates, CircadianPause, LightsOn, ManualOverrideTtl, JehaPush
          <6>3. CASE t = "mqtt"
            BY <2>0, <5>1, <6>3 DEF KeepsTo
          <6> QED BY <6>1, <6>2, <6>3, NightTasks
        <5>2. rooms[r].nightMode = active
          BY <4>1, <5>1 DEF ComesTo
        <5> QED BY <3>1, <5>2
      <4>4. Agree(r, active)'
        <5>1. \A t \in Tasks : \A v \in Pending(t, r)' :
                /\ v.update = "NightMode" => v.active = active
                /\ v.update = "CircadianPause" => v.paused = active
                /\ v = PutNight => active
          BY <1>4, <4>1, Zenon DEF Agree
        <5>2. \A t \in Tasks : \A p \in Goings(t, r)' : p.level = IF active THEN "night" ELSE "circadian"
          BY <1>4, <4>1 DEF Agree
        <5>3. \A t \in Switchers : Switching(t, r)' => switching'[t].active = active
          BY <1>1, <1>6, <4>1 DEF Agree
        <5> QED BY <5>1, <5>2, <5>3 DEF Agree, PutNight, LightsOnWithPush
      <4>5. ComesTo(r, active)'
        <5>1. rooms'[r].nightMode = active \/ \E t \in Tasks : \E u \in Pending(t, r)' : u.update = "NightMode"
          BY <1>1, <1>4, <4>1 DEF ComesTo
        <5>2. rooms'[r].paused = active \/ \E t \in Tasks : \E u \in Pending(t, r)' : u.update = "CircadianPause"
          BY <1>1, <1>4, <4>1 DEF ComesTo
        <5>3. LevelFits(r, active)' \/ \E t \in Switchers : Switching(t, r)' \/ Goings(t, r)' # {}
          <6>1. LevelFits(r, active)' <=> LevelFits(r, active)
            BY <1>1 DEF LevelFits
          <6>2. LevelFits(r, active) \/ \E t \in Switchers : Switching(t, r) \/ Goings(t, r) # {}
            BY <4>1 DEF ComesTo
          <6> QED BY <1>4, <1>6, <6>1, <6>2, Zenon
        <5>4. bulb'[r].on => \/ rooms'[r].lightsOn
                             \/ bulb'[r].level = "night" /\ \E t \in Tasks : PutNight \in Pending(t, r)'
          BY <1>1, <3>1
        <5> QED BY <5>1, <5>2, <5>3, <5>4 DEF ComesTo, PutNight, LightsOnWithPush
      <4>6. TakeTurns(r, active, listed)'
        <5>1. \A t : Free(t, r)' <=> Free(t, r)
          BY <1>4 DEF Free
        <5> QED BY <1>5, <1>6, <4>1, <4>2, <4>3, <5>1, Zenon DEF TakeTurns
      <4> QED BY <4>4, <4>5, <4>6 DEF NightFits
    <3> QED BY <1>3, <3>2, <3>3, <3>4 DEF Held
  <2> QED BY <2>1, <2>2
<1> QED BY <1>2, <1>8

-----------------------------------------------------------------------------
(* What is put on the lists.                                                *)

LEMMA ListsHolds ==
  ASSUME NightTypeOK, UNCHANGED <<rooms, bulb, rx, todo, reports, cycle, switching>>,
         NEW r \in Rooms, Held(r), ~raced'[r] => ~raced[r],
         \/ \A t \in Switchers : \A s \in Switches : s.room = r /\ Listed(t, s)' => Listed(t, s)
         \/ /\ ~raced'[r] => Settled(r)
            /\ \E anew \in BOOLEAN : \A t \in Switchers : \A s \in Switches :
                 s.room = r /\ Listed(t, s)' => s.active = anew \/ Listed(t, s)
  PROVE  Held(r)'
<1>1. \A t, o : Pending(t, o)' = Pending(t, o) /\ Goings(t, o)' = Goings(t, o)
  BY DEF Pending, Goings
<1>2. \A t, x : Switching(t, x)' <=> Switching(t, x)
  BY DEF Switching
<1>3. KeepsTo(r)' /\ StaysLit(r)'
  <2>0. KeepsTo(r) /\ StaysLit(r)
    BY DEF Held
  <2>1. KeepsTo(r)'
    BY <1>1, <2>0 DEF KeepsTo
  <2>2. StaysLit(r)'
    BY <1>1, <2>0 DEF StaysLit
  <2> QED BY <2>1, <2>2
<1>4. CASE \A t \in Switchers : \A s \in Switches : s.room = r /\ Listed(t, s)' => Listed(t, s)
  <2>1. \A t \in Tasks : Leaves(t, r)
    BY <1>1 DEF Leaves
  <2>2. \A i \in 1..Len(reports') : Has(reports, reports'[i])
    BY DEF Has
  <2>3. Still(r)
    BY <1>4, <2>1, <2>2, StillRoom
  <2> QED BY <2>3, HeldStill
<1>5. CASE /\ ~raced'[r] => Settled(r)
           /\ \E anew \in BOOLEAN : \A t \in Switchers : \A s \in Switches :
                s.room = r /\ Listed(t, s)' => s.active = anew \/ Listed(t, s)
  <2>1. ASSUME ~raced'[r] PROVE NightFits(r)'
    <3>1. PICK active \in BOOLEAN, listed \in BOOLEAN :
            Agree(r, active) /\ ComesTo(r, active) /\ TakeTurns(r, active, listed)
      BY <2>1 DEF Held, NightFits
    <3>2. /\ \A t \in Tasks : Free(t, r)
          /\ \A t \in Switchers : /\ ~Switching(t, r)
                                  /\ \A s \in Switches : s.room = r => ~Listed(t, s)
          /\ r \notin cycle.left
      BY <1>5, <2>1, HoldsNot
    <3>3. PICK anew \in BOOLEAN : \A t \in Switchers : \A s \in Switches :
                s.room = r /\ Listed(t, s)' => s.active = anew
      BY <1>5, <3>2
    <3>4. Agree(r, active)'
      <4>1. \A t \in Tasks : \A v \in Pending(t, r)' :
              /\ v.update = "NightMode" => v.active = active
              /\ v.update = "CircadianPause" => v.paused = active
              /\ v = PutNight => active
        BY <1>1, <3>1, Zenon DEF Agree
      <4>2. \A t \in Tasks : \A p \in Goings(t, r)' : p.level = IF active THEN "night" ELSE "circadian"
        BY <1>1, <3>1 DEF Agree
      <4>3. \A t \in Switchers : Switching(t, r)' => switching'[t].active = active
        BY <1>2, <3>1 DEF Agree
      <4> QED BY <4>1, <4>2, <4>3 DEF Agree, PutNight, LightsOnWithPush
    <3>5. ComesTo(r, active)'
      <4>1. rooms'[r].nightMode = active \/ \E t \in Tasks : \E u \in Pending(t, r)' : u.update = "NightMode"
        BY <1>1, <3>1 DEF ComesTo
      <4>2. rooms'[r].paused = active \/ \E t \in Tasks : \E u \in Pending(t, r)' : u.update = "CircadianPause"
        BY <1>1, <3>1 DEF ComesTo
      <4>3. LevelFits(r, active)' \/ \E t \in Switchers : Switching(t, r)' \/ Goings(t, r)' # {}
        <5>1. LevelFits(r, active)' <=> LevelFits(r, active)
          BY DEF LevelFits
        <5>2. LevelFits(r, active) \/ \E t \in Switchers : Switching(t, r) \/ Goings(t, r) # {}
          BY <3>1 DEF ComesTo
        <5> QED BY <1>1, <1>2, <5>1, <5>2, Zenon
      <4>4. bulb'[r].on => \/ rooms'[r].lightsOn
                           \/ bulb'[r].level = "night" /\ \E t \in Tasks : PutNight \in Pending(t, r)'
        BY <1>1, <3>1 DEF ComesTo
      <4> QED BY <4>1, <4>2, <4>3, <4>4 DEF ComesTo, PutNight, LightsOnWithPush
    <3>6. TakeTurns(r, active, anew)'
      <4>1. \A t : Free(t, r)' <=> Free(t, r)
        BY <1>1 DEF Free
      <4>2. \A t \in Switchers : Free(t, r)' /\ ~Switching(t, r)'
        BY <1>2, <3>2, <4>1, NightTasks
      <4>3. r \notin cycle'.left /\ Free("circadian", r)'
        BY <3>2, <4>1, NightTasks
      <4> QED BY <3>3, <4>2, <4>3, Zenon DEF TakeTurns
    <3> QED BY <3>4, <3>5, <3>6 DEF NightFits
  <2> QED BY <1>3, <2>1 DEF Held
<1> QED BY <1>4, <1>5

\* A user switches rooms.
LEMMA PressHolds ==
  ASSUME NightTypeOK, NEW p \in Presses, NEW rs \in SUBSET Rooms, NEW active \in BOOLEAN, Press(p, rs, active),
         NEW r \in Rooms, Held(r)
  PROVE  Held(r)'
<1> DEFINE pass == {Switch(o, active, TRUE) : o \in rs}
<1>0. NightVarsOK
  BY NightParts
<1>1. /\ agenda' = [agenda EXCEPT ![p] = << pass >>]
      /\ UNCHANGED <<rooms, bulb, rx, todo, reports, cycle, switching>>
  BY DEF Press, daemon, shared, world
<1>2. ~raced'[r] => ~raced[r] /\ (r \in rs => Settled(r))
  BY <1>0, OverlapKeeps DEF Press, NightVarsOK
<1>3. \A s \in pass : s.room \in rs /\ s.active = active
  BY DEF Switch
<1>4. agenda'[p] = << pass >> /\ \A t \in Switchers : t # p => agenda'[t] = agenda[t]
  <2> HIDE DEF pass
  <2> QED BY <1>0, <1>1, NightTasks DEF NightVarsOK
<1> HIDE DEF pass
<1>5. ASSUME NEW t \in Switchers, NEW s \in Switches, Listed(t, s)'
      PROVE  Listed(t, s) \/ s \in pass
  <2>1. CASE t = p
    <3>1. \E i \in 1..Len(<< pass >>) : s \in << pass >>[i]
      BY <1>4, <1>5, <2>1 DEF Listed
    <3> QED BY <3>1
  <2>2. CASE t # p
    BY <1>4, <1>5, <2>2 DEF Listed
  <2> QED BY <2>1, <2>2
<1>6. CASE r \in rs
  <2>1. \A t \in Switchers : \A s \in Switches : s.room = r /\ Listed(t, s)' => s.active = active \/ Listed(t, s)
    BY <1>3, <1>5
  <2> QED BY <1>1, <1>2, <1>6, <2>1, ListsHolds
<1>7. CASE r \notin rs
  <2>1. \A t \in Switchers : \A s \in Switches : s.room = r /\ Listed(t, s)' => Listed(t, s)
    BY <1>3, <1>5, <1>7
  <2> QED BY <1>1, <1>2, <2>1, ListsHolds
<1> QED BY <1>6, <1>7

\* The scheduler makes its plan.
LEMMA CheckHolds ==
  ASSUME NightTypeOK, CheckSchedules, NEW r \in Rooms, Held(r)
  PROVE  Held(r)'
<1>0. NightVarsOK /\ RecordOK
  BY NightParts, TypeParts
<1>1. /\ agenda' = [agenda EXCEPT !["night"] = Passes]
      /\ UNCHANGED <<rooms, bulb, rx, todo, reports, cycle, switching>>
  BY DEF CheckSchedules, daemon, shared, world
<1>2. ~raced'[r] =>
        /\ ~raced[r]
        /\ (\E i \in 1..Len(Passes) : \E s \in Passes[i] : s.room = r) => Settled(r)
  BY <1>0, OverlapKeeps DEF CheckSchedules, NightVarsOK
<1>3. \A x : (\E i \in 1..Len(Passes) : x \in Passes[i]) => x.active = ~rooms[x.room].nightMode
  BY <1>0, PassesType
<1>4. agenda'["night"] = Passes /\ \A t \in Switchers : t # "night" => agenda'[t] = agenda[t]
  BY <1>0, <1>1, NightTasks DEF NightVarsOK
<1>5. ASSUME NEW t \in Switchers, NEW s \in Switches, Listed(t, s)'
      PROVE  Listed(t, s) \/ \E i \in 1..Len(Passes) : s \in Passes[i]
  BY <1>4, <1>5 DEF Listed
<1>6. CASE \E i \in 1..Len(Passes) : \E s \in Passes[i] : s.room = r
  <2>1. \A t \in Switchers : \A s \in Switches :
          s.room = r /\ Listed(t, s)' => s.active = ~rooms[r].nightMode \/ Listed(t, s)
    BY <1>3, <1>5
  <2>2. (~rooms[r].nightMode) \in BOOLEAN
    <3>1. rooms[r].nightMode \in BOOLEAN
      BY <1>0 DEF RecordOK, Room
    <3> QED BY <3>1
  <2> QED BY <1>1, <1>2, <1>6, <2>1, <2>2, ListsHolds
<1>7. CASE ~ \E i \in 1..Len(Passes) : \E s \in Passes[i] : s.room = r
  <2>1. \A t \in Switchers : \A s \in Switches : s.room = r /\ Listed(t, s)' => Listed(t, s)
    BY <1>5, <1>7
  <2> QED BY <1>1, <1>2, <2>1, ListsHolds
<1> QED BY <1>6, <1>7

-----------------------------------------------------------------------------
(* The invariant.                                                           *)

LEMMA NightInvInit == Init => NightInv
<1> SUFFICES ASSUME Init PROVE NightInv
  OBVIOUS
<1>0. DaemonInit({DarkRoom, LitRoom}) /\ EngineInit /\ raced = [r \in Rooms |-> FALSE]
      /\ agenda = [t \in Switchers |-> <<>>] /\ switching = [t \in Switchers |-> None]
  BY DEF Init
<1>1. link = "up" /\ outq = <<>> /\ reports = <<>> /\ cycle.left = {}
  BY <1>0 DEF DaemonInit, EngineInit
<1>2. \A t \in Tasks : \A r : Pending(t, r) = {} /\ Goings(t, r) = {}
  <2>1. rx = <<>> /\ \A t \in Tasks : todo[t] = <<>>
    BY <1>0 DEF DaemonInit
  <2>2. \A e : ~Has(<<>>, e)
    BY DEF Has
  <2> QED BY <2>1, <2>2 DEF Pending, Goings
<1>3. ASSUME NEW r \in Rooms PROVE KeepsTo(r) /\ StaysLit(r) /\ NightFits(r)
  <2>1. /\ rooms[r].nightMode = FALSE /\ rooms[r].paused = FALSE
        /\ bulb[r].on = rooms[r].lightsOn
        /\ bulb[r].level = "circadian"
    <3>1. rooms[r] \in {DarkRoom, LitRoom} /\ bulb[r] = [on |-> rooms[r].lightsOn,
                                                         level |-> Or(rooms[r].current, "circadian"),
                                                         ramp |-> "none"]
      BY <1>0 DEF DaemonInit
    <3>2. "circadian" # None
      BY DaemonAssumption, NoneIsNoLevel DEF DaemonAssumption
    <3>3. /\ DarkRoom.nightMode = FALSE /\ DarkRoom.paused = FALSE /\ DarkRoom.current = None
          /\ LitRoom.nightMode = FALSE /\ LitRoom.paused = FALSE /\ LitRoom.current = "circadian"
      BY DEF DarkRoom, LitRoom, DefaultRoom
    <3> HIDE DEF DarkRoom, LitRoom
    <3>4. CASE rooms[r] = DarkRoom
      BY <3>1, <3>3, <3>4 DEF Or
    <3>5. CASE rooms[r] = LitRoom
      BY <3>1, <3>2, <3>3, <3>5 DEF Or
    <3> QED BY <3>1, <3>4, <3>5
  <2>2. KeepsTo(r)
    BY <1>2, NightTasks DEF KeepsTo
  <2>3. StaysLit(r)
    BY <1>1, <1>2, <2>1 DEF StaysLit
  <2>4. Agree(r, FALSE)
    BY <1>0, <1>2 DEF Agree, Switching
  <2>5. ComesTo(r, FALSE)
    BY <2>1 DEF ComesTo, LevelFits
  <2>6. TakeTurns(r, FALSE, FALSE)
    <3>1. r \notin cycle.left /\ Free("circadian", r)
      BY <1>1, <1>2, NightTasks DEF Free
    <3>2. \A t \in Switchers : \A s : ~Listed(t, s)
      BY <1>0 DEF Listed
    <3> QED BY <3>1, <3>2 DEF TakeTurns
  <2> QED BY <2>2, <2>3, <2>4, <2>5, <2>6 DEF NightFits
<1> QED BY <1>1, <1>3 DEF NightInv

LEMMA CalmBefore ==
  ASSUME NightTypeOK, [Next]_vars, Calm'
  PROVE  Calm /\ (\A r \in Rooms : ~Touch(r)) /\ ~LinkLost
<1>1. spent \in [presses : Nat, touches : Nat, outages : Nat] /\ spent'.touches + spent'.outages = 0
  BY NightParts DEF NightVarsOK, Calm, Upsets
<1>2. spent' \in [presses : Nat, touches : Nat, outages : Nat]
  <2>1. NightTypeOK'
    BY NightNextType
  <2> QED BY <2>1, NightParts DEF NightVarsOK
<1>3. spent'.touches = 0 /\ spent'.outages = 0
  BY <1>1, <1>2
<1>4. ~LinkLost
  BY <1>1, <1>3 DEF LinkLost
<1>5. \A r \in Rooms : ~Touch(r)
  BY <1>1, <1>3 DEF Touch
<1>6. spent'.touches = spent.touches /\ spent'.outages = spent.outages
  <2>1. CASE spent' = spent
    BY <2>1
  <2>2. CASE spent' # spent
    <3>1. \E p \in Presses, active \in BOOLEAN, rs \in SUBSET Rooms : Press(p, rs, active)
      <4>1. Next
        BY <2>2 DEF vars, night
      <4>2. ~System
        BY <2>2
        DEF System, Actor, Step, NextSwitch, Decide, CheckSchedules, HandleNightModeChanged, CyclesRoom, ReadReport,
            Connection, night
      <4>3. ~Tick /\ ~BeginsCycle
        BY <2>2 DEF Tick, BeginsCycle
      <4> QED BY <1>4, <1>5, <4>1, <4>2, <4>3 DEF Next
    <3>2. spent' = [spent EXCEPT !.presses = spent.presses + 1]
      BY <3>1 DEF Press
    <3> QED BY <1>1, <3>2
  <2> QED BY <2>1, <2>2
<1> QED BY <1>3, <1>4, <1>5, <1>6 DEF Calm, Upsets

LEMMA NightInvStep == NightTypeOK /\ NightInv /\ [Next]_vars => NightInv'
<1> SUFFICES ASSUME NightTypeOK, NightInv, [Next]_vars, Calm'
             PROVE  Links' /\ \A r \in Rooms : Held(r)'
  BY DEF NightInv, Links, Held
<1>1. Calm /\ (\A r \in Rooms : ~Touch(r)) /\ ~LinkLost
  BY CalmBefore
<1>2. Links /\ \A r \in Rooms : Held(r)
  BY <1>1 DEF NightInv, Links, Held
<1>3. CASE UNCHANGED vars \/ HandleNightModeChanged \/ Tick
  <2>1. UNCHANGED <<rooms, bulb, rx, todo, reports, cycle, switching, agenda, raced, link, outq>>
    BY <1>3 DEF vars, daemon, shared, world, night, HandleNightModeChanged, Tick, PassTime, Elapse
  <2>2. \A t, s : Listed(t, s)' <=> Listed(t, s)
    BY <2>1 DEF Listed
  <2> QED BY <1>2, <2>1, <2>2, ListsHolds DEF Links
<1>4. CASE Next
  <2>1. CASE \E t \in Tasks : Step(t)
    BY <1>2, <2>1, StepHolds
  <2>2. CASE \E t \in Switchers : NextSwitch(t) \/ Decide(t)
    <3>1. Links'
      BY <1>2, <2>2 DEF Links, NextSwitch, Decide, world
    <3> QED BY <1>2, <2>2, <3>1, NextSwitchHolds, DecideHolds
  <2>3. CASE CheckSchedules
    <3>1. Links'
      BY <1>2, <2>3 DEF Links, CheckSchedules, daemon, world
    <3> QED BY <1>2, <2>3, <3>1, CheckHolds
  <2>4. CASE Actor
    BY <1>2, <2>4, ActorHolds
  <2>5. CASE \E r \in Rooms : CyclesRoom(r)
    BY <1>2, <2>5, CycleHolds
  <2>6. CASE ReadReport
    BY <1>2, <2>6, ReportHolds
  <2>7. CASE BeginsCycle
    BY <1>2, <2>7, BeginsHolds
  <2>8. ~Connection
    BY <1>2 DEF Connection, Links, PollError, ConnAck, DeliverQueued
  <2>9. CASE \E p \in Presses, active \in BOOLEAN : Press(p, Rooms, active) \/ \E r \in Rooms : Press(p, {r}, active)
    <3>1. PICK p \in Presses, active \in BOOLEAN, rs \in SUBSET Rooms : Press(p, rs, active)
      BY <2>9
    <3>2. Links'
      BY <1>2, <3>1 DEF Links, Press, daemon, world
    <3> QED BY <1>2, <3>1, <3>2, PressHolds
  <2> QED BY <1>1, <1>3, <1>4, <2>1, <2>2, <2>3, <2>4, <2>5, <2>6, <2>7, <2>8, <2>9 DEF Next, System
<1> QED BY <1>3, <1>4

LEMMA NightInvShows == NightTypeOK /\ NightInv => NightShows
<1> SUFFICES ASSUME NightTypeOK, NightInv, NEW r \in Rooms, Settled(r), ~raced[r], Upsets = 0
             PROVE  IF rooms[r].nightMode
                    THEN rooms[r].paused /\ (bulb[r].on => bulb[r].level = "night")
                    ELSE ~rooms[r].paused /\ bulb[r].level # "night"
  BY DEF NightShows
<1>1. PICK active \in BOOLEAN, listed \in BOOLEAN :
        Agree(r, active) /\ ComesTo(r, active) /\ TakeTurns(r, active, listed)
  BY DEF NightInv, Calm, NightFits
<1>2. /\ \A t \in Tasks : Pending(t, r) = {} /\ Goings(t, r) = {}
      /\ \A t \in Switchers : ~Switching(t, r)
  BY HoldsNot DEF Free
<1>3. rooms[r].nightMode = active /\ rooms[r].paused = active /\ LevelFits(r, active)
  BY <1>1, <1>2, NightTasks DEF ComesTo
<1> QED BY <1>1, <1>3 DEF LevelFits

\* The rooms, the lists and the queues of night mode stay well formed
\* (night_mode.rs).
THEOREM NightTyped == Spec => []TypeOK
<1>1. Init => NightTypeOK
  BY NightInitType
<1>2. NightTypeOK /\ [Next]_vars => NightTypeOK'
  BY NightNextType
<1>3. NightTypeOK => TypeOK
  BY DEF NightTypeOK
<1> QED BY <1>1, <1>2, <1>3, PTL DEF Spec

\* Night mode, the pause and the lights of a room that has settled fit together
\* (activate_night_mode, deactivate_night_mode), however many users, rooms and
\* windows there are.
THEOREM NightIsSound == Spec => []NightSound
<1>1. Init => NightTypeOK /\ NightInv
  BY NightInitType, NightInvInit
<1>2. (NightTypeOK /\ NightInv) /\ [Next]_vars => (NightTypeOK /\ NightInv)'
  BY NightNextType, NightInvStep
<1>3. NightTypeOK /\ NightInv => NightSound
  BY NightInvShows DEF NightSound, NightTypeOK
<1> QED BY <1>1, <1>2, <1>3, PTL DEF Spec


-----------------------------------------------------------------------------
(* The schedule keeps the dark dark, whatever upsets the lights or the       *)
(* connection.                                                              *)

LitKinds == {"LightsOn", "LightsOnWithPush"}

\* Who says what at any time.
Voices(r) ==
  /\ \A t \in Switchers :
       Pending(t, r) \subseteq SwitchUpdates /\ Goings(t, r) \subseteq {NightGoing(r), DayGoing(r)}
  /\ Pending("circadian", r) \subseteq CycleUpdates /\ Goings("circadian", r) \subseteq {CycleGoing(r)}
  /\ \A u \in Pending("mqtt", r) : u.update \in {"LightsOn", "LightsOff", "ExternalChange"}
  /\ Goings("mqtt", r) = {}

\* What waits in the client switches no light off.
NothingOff == \A i \in 1..Len(outq) : outq[i].power \in {"ON", "keep"}

\* The scheduler switches on nobody's behalf.
OwnSwitches ==
  /\ \A s \in Switches : Listed("night", s) => ~s.user
  /\ switching["night"] # None => ~switching["night"].user

\* The task has nothing to do with the room, and nobody has but the task.
Away(t, r) ==
  /\ Free(t, r)
  /\ t \in Switchers => ~Switching(t, r) /\ \A s \in Switches : s.room = r => ~Listed(t, s)
  /\ t = "circadian" => r \notin cycle.left
Only(t, r) == \A u \in Tasks : u # t => Away(u, r)

\* Reports are handled while nobody else is at work on the room, and the last
\* one on its way is true.
LoopOnly(r) == ~Free("mqtt", r) => Only("mqtt", r)
Reporting(r)   == {m \in Report : m.room = r}
Showing(r, on) == {m \in Report : m.room = r /\ m.on = on}
LastIsTrue(r)  == LastIn(reports, Reporting(r), Showing(r, bulb[r].on))

\* The loop ends up telling that the lights are off, or has told it.
SaysLights(r)  == {Send(r, u) : u \in {v \in Updates : v.update \in LitKinds \union {"LightsOff"}}}
SaysOff(r)     == {Send(r, LightsOff)}
TellsLights(r) == {c \in CommandsOf(r) : c.update.update \in LitKinds \union {"LightsOff"}}
TellsOff(r)    == {c \in CommandsOf(r) : c.update = LightsOff}
OffInQueue(r)  == Tells(rx, TellsLights(r), TellsOff(r), ~rooms[r].lightsOn)
OffIsSaid(r)   == Tells(todo["mqtt"], SaysLights(r), SaysOff(r), OffInQueue(r))

\* Lights that are off are known to be off, and nobody says otherwise.
KnownOff(r) ==
  /\ r \notin cycle.left /\ Goings("circadian", r) = {}
  /\ \A t \in Tasks : t # "mqtt" => \A u \in Pending(t, r) : u.update \notin LitKinds
  /\ \A t \in Switchers : DayGoing(r) \notin Goings(t, r)
  /\ OffIsSaid(r)

\* Or something is on its way to them, or a report from them.
LightsUp(r) == \E i \in 1..Len(outq) : outq[i].room = r /\ outq[i].power = "ON"
FollowsLights(r) == bulb[r].on \/ LightsUp(r) \/ Reported(r) \/ KnownOff(r)

\* The scheduler works alone on a room, and leaves a dark one dark.
LeavesDark(r) ==
  /\ ~rooms[r].lightsOn /\ Goings("night", r) = {}
  /\ \A u \in Pending("night", r) : u.update \notin LitKinds
ScheduleOnly(r) == ~Away("night", r) => Only("night", r) /\ (bulb[r].on \/ LeavesDark(r))

Sure(r) == LoopOnly(r) /\ LastIsTrue(r) /\ FollowsLights(r) /\ ScheduleOnly(r)
Kept(r) == Voices(r) /\ (~raced[r] => Sure(r))
DarkInv == NothingOff /\ OwnSwitches /\ \A r \in Rooms : Kept(r)

-----------------------------------------------------------------------------
(* What is kept of a room that nobody turns to.                             *)

LEMMA KindsOf ==
  /\ \A u \in SwitchUpdates : u.update \in {"LightsOn", "LightsOnWithPush", "NightMode", "CircadianPause"}
  /\ \A u \in CycleUpdates : u.update \in {"LightsOn", "CircadianPause", "ManualOverrideTtl", "JehaPush"}
BY DEF SwitchUpdates, CycleUpdates, PutNight, PutDay, LightsOn, LightsOnWithPush, NightMode, CircadianPause,
       ManualOverrideTtl, JehaPush

LEMMA VoicesStay ==
  ASSUME NEW r \in Rooms, Voices(r),
         \A t \in Tasks : Pending(t, r)' \subseteq Pending(t, r) /\ Goings(t, r)' \subseteq Goings(t, r)
  PROVE  Voices(r)'
BY NightTasks DEF Voices

LEMMA KnownOffStays ==
  ASSUME NEW r \in Rooms, KnownOff(r), OffIsSaid(r)', r \in cycle'.left => r \in cycle.left,
         \A t \in Tasks : Pending(t, r)' \subseteq Pending(t, r) /\ Goings(t, r)' \subseteq Goings(t, r)
  PROVE  KnownOff(r)'
<1>1. Goings("circadian", r)' = {}
  BY NightTasks DEF KnownOff
<1>2. \A t \in Tasks : t # "mqtt" => \A u \in Pending(t, r)' : u.update \notin LitKinds
  BY DEF KnownOff
<1>3. \A t \in Switchers : DayGoing(r) \notin Goings(t, r)'
  BY NightTasks DEF KnownOff
<1>4. DayGoing(r)' = DayGoing(r)
  BY DEF DayGoing
<1> QED BY <1>1, <1>2, <1>3, <1>4 DEF KnownOff, LitKinds

LEMMA AwayStays ==
  ASSUME NEW t \in Tasks, NEW r \in Rooms, Away(t, r), Free(t, r)',
         r \in cycle'.left => r \in cycle.left,
         t \in Switchers => (Switching(t, r)' => Switching(t, r)),
         t \in Switchers => \A s \in Switches : s.room = r /\ Listed(t, s)' => Listed(t, s)
  PROVE  Away(t, r)'
BY DEF Away

\* Nobody turns to the room, and what is said of it is not about its lights.
LEMMA QuietStays ==
  ASSUME NEW r \in Rooms, Kept(r),
         \A t \in Tasks : Pending(t, r)' \subseteq Pending(t, r) /\ Goings(t, r)' \subseteq Goings(t, r),
         \A t \in Switchers : /\ Switching(t, r)' => Switching(t, r)
                              /\ \A s \in Switches : s.room = r /\ Listed(t, s)' => Listed(t, s),
         r \in cycle'.left => r \in cycle.left,
         ~raced'[r] =>
           /\ ~raced[r]
           /\ bulb'[r].on = bulb[r].on
           /\ Only("night", r) /\ LeavesDark(r) => ~rooms'[r].lightsOn
           /\ LightsUp(r) => LightsUp(r)'
           /\ Reported(r) => Reported(r)'
           /\ LastIsTrue(r) => LastIsTrue(r)'
           /\ KnownOff(r) => OffIsSaid(r)'
  PROVE  Kept(r)'
<1>1. Voices(r)'
  BY VoicesStay DEF Kept
<1>2. ASSUME ~raced'[r] PROVE Sure(r)'
  <2>0. Sure(r) /\ "mqtt" \in Tasks /\ "night" \in Tasks
    BY <1>2, NightTasks DEF Kept
  <2>1. \A t \in Tasks : Free(t, r) => Free(t, r)'
    BY DEF Free
  <2>2. \A t \in Tasks : Away(t, r) => Away(t, r)'
    BY <2>1, AwayStays DEF Away
  <2>3. \A t : Only(t, r) => Only(t, r)'
    BY <2>2 DEF Only
  <2>4. LoopOnly(r)'
    BY <2>0, <2>1, <2>3 DEF Sure, LoopOnly
  <2>5. Only("night", r) /\ LeavesDark(r) => LeavesDark(r)'
    <3>1. LitKinds' = LitKinds
      BY DEF LitKinds
    <3> QED BY <1>2, <2>0, <3>1, Zenon DEF LeavesDark
  <2>6. ScheduleOnly(r)'
    <3> SUFFICES ASSUME ~Away("night", r)'
                 PROVE  Only("night", r)' /\ (bulb'[r].on \/ LeavesDark(r)')
      BY DEF ScheduleOnly
    <3>1. ~Away("night", r)
      BY <2>0, <2>2
    <3>2. Only("night", r) /\ (bulb[r].on \/ LeavesDark(r))
      BY <2>0, <3>1 DEF Sure, ScheduleOnly
    <3> QED BY <1>2, <2>3, <2>5, <3>2
  <2>7. KnownOff(r) => KnownOff(r)'
    <3> SUFFICES ASSUME KnownOff(r) PROVE KnownOff(r)'
      OBVIOUS
    <3>1. OffIsSaid(r)'
      BY <1>2 DEF KnownOff
    <3> QED BY <3>1, KnownOffStays
  <2>8. FollowsLights(r)'
    BY <1>2, <2>0, <2>7 DEF Sure, FollowsLights
  <2> QED BY <1>2, <2>0, <2>4, <2>6, <2>8 DEF Sure
<1> QED BY <1>1, <1>2 DEF Kept

\* Whoever is at work on a room goes on with it.
LEMMA WorksOn ==
  ASSUME NEW r \in Rooms, Sure(r), NEW t \in Tasks, t # "mqtt", ~Away(t, r),
         \A u \in Tasks : u # t /\ Away(u, r) => Away(u, r)',
         t = "night" /\ (bulb[r].on \/ LeavesDark(r)) => bulb'[r].on \/ LeavesDark(r)'
  PROVE  LoopOnly(r)' /\ ScheduleOnly(r)' /\ Free("mqtt", r)
<1>0. LoopOnly(r) /\ ScheduleOnly(r) /\ "mqtt" \in Tasks /\ "night" \in Tasks
  BY NightTasks DEF Sure
<1>1. Free("mqtt", r)
  BY <1>0 DEF LoopOnly, Only
<1>2. Free("mqtt", r)'
  <2>1. Away("mqtt", r)
    BY <1>1, NightTasks DEF Away
  <2> QED BY <1>0, <2>1 DEF Away
<1>3. ScheduleOnly(r)'
  <2>1. CASE t = "night"
    <3>1. Only(t, r) /\ (bulb[r].on \/ LeavesDark(r))
      BY <1>0, <2>1 DEF ScheduleOnly
    <3>2. Only("night", r)'
      BY <2>1, <3>1 DEF Only
    <3> QED BY <2>1, <3>1, <3>2 DEF ScheduleOnly
  <2>2. CASE t # "night"
    <3>1. Away("night", r)
      BY <1>0, <2>2 DEF ScheduleOnly, Only
    <3> QED BY <1>0, <2>2, <3>1 DEF ScheduleOnly
  <2> QED BY <2>1, <2>2
<1> QED BY <1>1, <1>2, <1>3 DEF LoopOnly

\* Nobody but the loop says anything of lights known to be off.
LEMMA SaysNothingLit ==
  ASSUME NEW r \in Rooms, Voices(r), KnownOff(r), NEW t \in Tasks, t # "mqtt", NEW u \in Pending(t, r)
  PROVE  u.update \notin LitKinds \union {"LightsOff"}
<1>1. u.update \notin LitKinds
  BY DEF KnownOff
<1>2. u.update # "LightsOff"
  <2>1. CASE t \in Switchers
    <3>1. u \in SwitchUpdates
      BY <2>1 DEF Voices
    <3> QED BY <3>1, KindsOf
  <2>2. CASE t = "circadian"
    <3>1. u \in CycleUpdates
      BY <2>2 DEF Voices
    <3> QED BY <3>1, KindsOf
  <2> QED BY <2>1, <2>2, NightTasks
<1> QED BY <1>1, <1>2

\* The loop, when it is free, has told all.
LEMMA KnownOffShows ==
  ASSUME NightTypeOK, NEW r \in Rooms, Voices(r), KnownOff(r), Free("mqtt", r)
  PROVE  ~rooms[r].lightsOn
<1>0. QueuesOK /\ todo["mqtt"] \in Seq(Steps) /\ rx \in Seq(Commands)
  BY NightParts, TypeParts, NightTasks DEF QueuesOK
<1>1. NoneIn(todo["mqtt"], SaysLights(r))
  <2>1. \A u \in Updates : ~Has(todo["mqtt"], Send(r, u))
    BY DEF Free, Pending
  <2> QED BY <2>1 DEF NoneIn, SaysLights, Has
<1>2. NoneIn(rx, TellsLights(r))
  <2> SUFFICES ASSUME NEW i \in 1..Len(rx), rx[i] \in TellsLights(r) PROVE FALSE
    BY DEF NoneIn
  <2>1. PICK t \in Tasks, u \in Updates : rx[i] = [from |-> t, room |-> r, update |-> u]
    BY DEF TellsLights, CommandsOf
  <2>2. u.update \in LitKinds \union {"LightsOff"}
    BY <2>1 DEF TellsLights
  <2>3. u \in Pending(t, r)
    BY <2>1 DEF Pending, Has
  <2>4. t # "mqtt"
    BY <2>3 DEF Free
  <2> QED BY <2>2, <2>3, <2>4, SaysNothingLit
<1> QED BY <1>1, <1>2 DEF KnownOff, OffIsSaid, OffInQueue, Tells

-----------------------------------------------------------------------------
(* The steps of tasks.                                                      *)

\* What the loop sends it has said, and nobody else says that lights are on.
LEMMA SendTells ==
  ASSUME NightTypeOK, NEW t \in Tasks, SendStep(t), NEW r \in Rooms, Voices(r), KnownOff(r)
  PROVE  OffIsSaid(r)'
<1> DEFINE s == Head(todo[t])
<1>0. QueuesOK /\ todo \in [Tasks -> Seq(Steps)] /\ todo["mqtt"] \in Seq(Steps) /\ rx \in Seq(Commands)
      /\ rooms' = rooms
  BY NightParts, TypeParts, NightTasks DEF QueuesOK, SendStep, shared
<1>1. PICK c \in Commands :
        /\ rx' = Append(rx, c) /\ c.from = t
        /\ \A o \in Rooms, u \in Updates : s = Send(o, u) <=> c = [from |-> t, room |-> o, update |-> u]
  BY <1>0, SendCommand
<1>2. todo[t] # <<>> /\ todo' = [todo EXCEPT ![t] = Tail(todo[t])]
  BY <1>0, SendCommand
<1> HIDE DEF s
<1>3. /\ \A u \in Updates : Send(r, u).update = u
      /\ \A u \in Updates : [from |-> t, room |-> r, update |-> u].update = u
  BY DEF Send
<1>4. c \in TellsLights(r) => \E u \in Updates :
        /\ c = [from |-> t, room |-> r, update |-> u] /\ s = Send(r, u)
        /\ u.update \in LitKinds \union {"LightsOff"}
  <2> SUFFICES ASSUME c \in TellsLights(r)
               PROVE  \E u \in Updates :
                        /\ c = [from |-> t, room |-> r, update |-> u] /\ s = Send(r, u)
                        /\ u.update \in LitKinds \union {"LightsOff"}
    OBVIOUS
  <2>1. PICK f \in Tasks, u \in Updates : c = [from |-> f, room |-> r, update |-> u]
    BY DEF TellsLights, CommandsOf
  <2>2. f = t /\ c.update = u
    BY <1>1, <2>1
  <2> QED BY <1>1, <2>1, <2>2 DEF TellsLights
<1>5. CASE t = "mqtt"
  <2>1. todo'["mqtt"] = Tail(todo["mqtt"]) /\ s = Head(todo["mqtt"])
    BY <1>0, <1>2, <1>5 DEF s
  <2>2. Tells(todo["mqtt"], SaysLights(r), SaysOff(r), OffInQueue(r))
    BY DEF KnownOff, OffIsSaid
  <2>3. s \in SaysLights(r) /\ s \in SaysOff(r) => c \in TellsLights(r) /\ c \in TellsOff(r)
    <3> SUFFICES ASSUME s \in SaysOff(r) PROVE c \in TellsLights(r) /\ c \in TellsOff(r)
      OBVIOUS
    <3>1. LightsOff \in Updates /\ LightsOff.update = "LightsOff"
      BY UpdateTypes DEF LightsOff
    <3>2. c = [from |-> t, room |-> r, update |-> LightsOff]
      BY <1>1, <3>1 DEF SaysOff
    <3>3. c \in CommandsOf(r) /\ c.update = LightsOff
      BY <3>1, <3>2 DEF CommandsOf
    <3> QED BY <3>1, <3>3 DEF TellsLights, TellsOff
  <2>4. s \notin SaysLights(r) => c \notin TellsLights(r)
    BY <1>4 DEF SaysLights
  <2> DEFINE told == Tells(rx', TellsLights(r), TellsOff(r), ~rooms[r].lightsOn)
  <2>5. s \in SaysLights(r) /\ s \in SaysOff(r) => told
    BY <1>0, <1>1, <2>3, TellsAppend
  <2>6. s \notin SaysLights(r) /\ OffInQueue(r) => told
    BY <1>0, <1>1, <2>4, TellsAppend DEF OffInQueue
  <2> HIDE DEF told
  <2>7. Tells(Tail(todo["mqtt"]), SaysLights(r), SaysOff(r), told)
    BY <1>0, <1>2, <1>5, <2>1, <2>2, <2>5, <2>6, TellsTail
  <2>8. SaysLights(r)' = SaysLights(r) /\ SaysOff(r)' = SaysOff(r) /\ TellsLights(r)' = TellsLights(r)
        /\ TellsOff(r)' = TellsOff(r)
    BY DEF SaysLights, SaysOff, TellsLights, TellsOff, LitKinds
  <2> QED BY <1>0, <2>1, <2>7, <2>8 DEF OffIsSaid, OffInQueue, told
<1>6. CASE t # "mqtt"
  <2>1. todo'["mqtt"] = todo["mqtt"]
    BY <1>0, <1>2, <1>6
  <2>2. c \notin TellsLights(r)
    <3> SUFFICES ASSUME c \in TellsLights(r) PROVE FALSE
      OBVIOUS
    <3>1. PICK u \in Updates : s = Send(r, u) /\ u.update \in LitKinds \union {"LightsOff"}
      BY <1>4
    <3>2. Has(todo[t], s)
      BY <1>0, <1>2, HasSeq DEF s
    <3>3. u \in Pending(t, r)
      BY <3>1, <3>2 DEF Pending
    <3> QED BY <1>6, <3>1, <3>3, SaysNothingLit
  <2>3. OffInQueue(r) => Tells(rx', TellsLights(r), TellsOff(r), ~rooms[r].lightsOn)
    BY <1>0, <1>1, <2>2, TellsAppend DEF OffInQueue
  <2>4. OffIsSaid(r)
    BY DEF KnownOff
  <2> QED BY <1>0, <2>1, <2>3, <2>4 DEF OffIsSaid, OffInQueue, Tells
<1> QED BY <1>5, <1>6

\* The loop and the queue say what they said.
LEMMA OffIsKept ==
  ASSUME NEW r \in Rooms, todo'["mqtt"] = todo["mqtt"], rx' = rx, rooms'[r].lightsOn = rooms[r].lightsOn,
         KnownOff(r)
  PROVE  OffIsSaid(r)'
BY DEF KnownOff, OffIsSaid, OffInQueue, SaysLights, SaysOff, TellsLights, TellsOff, LitKinds

LEMMA AnnounceTells ==
  ASSUME NightTypeOK, NEW t \in Tasks, AnnounceStep(t), NEW r \in Rooms, KnownOff(r)
  PROVE  OffIsSaid(r)'
<1>0. QueuesOK /\ todo \in [Tasks -> Seq(Steps)] /\ todo["mqtt"] \in Seq(Steps)
      /\ UNCHANGED <<rooms, rx>>
  BY NightParts, TypeParts, NightTasks DEF QueuesOK, AnnounceStep, shared
<1>1. todo[t] # <<>> /\ todo' = [todo EXCEPT ![t] = Tail(todo[t])] /\ Head(todo[t]).do = "announce"
  BY <1>0, HeadStep DEF AnnounceStep, HeadIs
<1>2. CASE t = "mqtt"
  <2>1. todo'["mqtt"] = Tail(todo["mqtt"])
    BY <1>0, <1>1, <1>2
  <2>2. Head(todo["mqtt"]) \notin SaysLights(r)
    BY <1>1, <1>2 DEF SaysLights, Send
  <2>3. Tells(todo["mqtt"], SaysLights(r), SaysOff(r), OffInQueue(r))
    BY DEF KnownOff, OffIsSaid
  <2> DEFINE told == OffInQueue(r)
  <2>4. told' = told
    BY <1>0 DEF OffInQueue, TellsLights, TellsOff, LitKinds
  <2> HIDE DEF told
  <2>5. Tells(Tail(todo["mqtt"]), SaysLights(r), SaysOff(r), told)
    BY <1>0, <1>1, <1>2, <2>2, <2>3, TellsTail DEF told
  <2>6. SaysLights(r)' = SaysLights(r) /\ SaysOff(r)' = SaysOff(r)
    BY DEF SaysLights, SaysOff, LitKinds
  <2> QED BY <2>1, <2>4, <2>5, <2>6 DEF OffIsSaid, told
<1>3. CASE t # "mqtt"
  BY <1>0, <1>1, <1>3, OffIsKept
<1> QED BY <1>2, <1>3

\* A task says something, to the actor or to all.
LEMMA SayingKept ==
  ASSUME NightTypeOK, NEW t \in Tasks, SendStep(t) \/ AnnounceStep(t), UNCHANGED <<cycle, night>>,
         NEW r \in Rooms, Kept(r)
  PROVE  Kept(r)'
<1>1. \A u \in Tasks : Leaves(u, r)
  BY NightParts, TypeParts, SendLeaves, AnnounceLeaves
<1>2. UNCHANGED <<rooms, bulb, cycle, switching, agenda, reports, outq, raced>>
  BY DEF SendStep, AnnounceStep, shared, world, night
<1>3. KnownOff(r) => OffIsSaid(r)'
  BY SendTells, AnnounceTells DEF Kept
<1>4. /\ \A u \in Tasks : Pending(u, r)' \subseteq Pending(u, r) /\ Goings(u, r)' \subseteq Goings(u, r)
      /\ \A u \in Switchers : /\ Switching(u, r)' => Switching(u, r)
                              /\ \A s \in Switches : s.room = r /\ Listed(u, s)' => Listed(u, s)
      /\ LightsUp(r) => LightsUp(r)'
      /\ Reported(r) => Reported(r)'
      /\ LastIsTrue(r) => LastIsTrue(r)'
  BY <1>1, <1>2 DEF Leaves, Switching, Listed, LightsUp, Reported, LastIsTrue, Reporting, Showing
<1>5. LeavesDark(r) => ~rooms'[r].lightsOn
  BY <1>2 DEF LeavesDark
<1> QED BY <1>2, <1>3, <1>4, <1>5, QuietStays

\* What a publish to the room says of it, and what follows it.
LEMMA PublishFollows ==
  ASSUME QueuesOK, NEW t \in Tasks, HeadIs(t, "publish"), rx' = rx, NEW p, p = Head(todo[t]),
         NEW next, next \in {p.ok, p.err}, Continue(t, next), NEW r \in Rooms, p.room = r, Voices(r)
  PROVE  /\ p \in Goings(t, r) /\ Goings(t, r)' \subseteq Goings(t, r) /\ Voices(r)'
         /\ \A u \in Tasks : u # t => Leaves(u, r) /\ todo'[u] = todo[u]
         /\ \/ t \in Switchers /\ p \in {NightGoing(r), DayGoing(r)} /\ p.power = "ON"
            \/ t = "circadian" /\ p = CycleGoing(r) /\ p.power = "keep"
         /\ next = p.err /\ p # DayGoing(r) => Pending(t, r)' = Pending(t, r)
         /\ \A o \in Rooms : o # r => Leaves(t, o)
<1>1. /\ p \in PublishSteps /\ p \in Goings(t, r)
      /\ \A u \in Tasks, o \in Rooms : u # t => Leaves(u, o) /\ todo'[u] = todo[u]
      /\ \A o \in Rooms :
           /\ Pending(t, o)' = Pending(t, o) \union {u \in Updates : Has(next, Send(o, u))}
           /\ Goings(t, o)' \subseteq Goings(t, o)
           /\ Goings(t, o) \subseteq Goings(t, o)' \union {p}
  BY GoesOn
<1>2. \/ t \in Switchers /\ p \in {NightGoing(r), DayGoing(r)}
      \/ t = "circadian" /\ p = CycleGoing(r)
  <2>1. CASE t \in Switchers
    BY <1>1, <2>1 DEF Voices
  <2>2. CASE t = "circadian"
    BY <1>1, <2>2 DEF Voices
  <2>3. CASE t = "mqtt"
    BY <1>1, <2>3 DEF Voices
  <2> QED BY <2>1, <2>2, <2>3, NightTasks
<1>3. /\ NightGoing(r).err = <<>> /\ CycleGoing(r).err = <<>> /\ DayGoing(r).err = DayGoing(r).ok
      /\ NightGoing(r).power = "ON" /\ DayGoing(r).power = "ON" /\ CycleGoing(r).power = "keep"
  BY DEF NightGoing, CycleGoing, DayGoing, Publish
<1>4. /\ \A e : ~Has(<<>>, e)
      /\ \A o, u : Has(NightGoing(r).ok, Send(o, u)) => o = r /\ u = PutNight
      /\ \A o, u : Has(DayGoing(r).ok, Send(o, u)) => o = r /\ u = PutDay
      /\ \A o, u : Has(CycleGoing(r).ok, Send(o, u)) =>
           o = r /\ u \in {LightsOn("circadian", "Circadian"), JehaPush("circadian")}
  BY GoingSays, HasShort
<1>5. \A o, u : Has(next, Send(o, u)) =>
        /\ o = r
        /\ t \in Switchers => u \in SwitchUpdates
        /\ t = "circadian" => u \in CycleUpdates
        /\ next = p.err => p = DayGoing(r)
  <2> TAKE o, u
  <2> HAVE Has(next, Send(o, u))
  <2>1. CASE t \in Switchers /\ p = NightGoing(r)
    <3>1. next # <<>> /\ next = p.ok
      BY <1>3, <1>4, <2>1
    <3> QED BY <1>3, <1>4, <2>1, <3>1, NightTasks DEF SwitchUpdates
  <2>2. CASE t \in Switchers /\ p = DayGoing(r)
    <3>1. next = p.ok
      BY <1>3, <2>2
    <3> QED BY <1>3, <1>4, <2>2, <3>1, NightTasks DEF SwitchUpdates
  <2>3. CASE t = "circadian" /\ p = CycleGoing(r)
    <3>1. next # <<>> /\ next = p.ok
      BY <1>3, <1>4, <2>3
    <3> QED BY <1>3, <1>4, <2>3, <3>1, NightTasks DEF CycleUpdates
  <2> QED BY <1>2, <2>1, <2>2, <2>3
<1>6. /\ t \in Switchers => Pending(t, r)' \subseteq Pending(t, r) \union SwitchUpdates
      /\ t = "circadian" => Pending(t, r)' \subseteq Pending(t, r) \union CycleUpdates
      /\ next = p.err /\ p # DayGoing(r) => Pending(t, r)' = Pending(t, r)
  BY <1>1, <1>5
<1>7. Voices(r)'
  <2>1. \A u \in Tasks : u # t => Pending(u, r)' = Pending(u, r) /\ Goings(u, r)' = Goings(u, r)
    BY <1>1 DEF Leaves
  <2> QED BY <1>1, <1>2, <1>6, <2>1, NightTasks DEF Voices
<1>8. ASSUME NEW o \in Rooms, o # r PROVE Leaves(t, o)
  <2>1. {u \in Updates : Has(next, Send(o, u))} = {}
    BY <1>5, <1>8
  <2>2. p \notin Goings(t, o)
    BY <1>8 DEF Goings
  <2> QED BY <1>1, <2>1, <2>2 DEF Leaves
<1> QED BY <1>1, <1>2, <1>3, <1>6, <1>7, <1>8

\* The lights as a command that reaches them leaves them, and the report of it.
LEMMA Delivered ==
  ASSUME WorldOK, NEW m \in Outgoing, Deliver(m)
  PROVE  /\ \A r \in Rooms : r # m.room => bulb'[r] = bulb[r]
         /\ m.power = "ON" => bulb'[m.room].on
         /\ m.power = "keep" /\ bulb[m.room].on => bulb'[m.room].on
         /\ \E e \in Report : /\ reports' = Append(reports, e) /\ e.room = m.room
                              /\ e.on = bulb'[m.room].on
<1>1. PICK lit \in BOOLEAN :
        LET b == After(bulb[m.room], m.power, m.level, lit)
        IN  /\ bulb' = [bulb EXCEPT ![m.room] = b]
            /\ reports' = Append(reports, [room |-> m.room, on |-> b.on, level |-> b.level])
  BY DEF Deliver
<1> DEFINE b == After(bulb[m.room], m.power, m.level, lit)
           e == [room |-> m.room, on |-> b.on, level |-> b.level]
<1>2. bulb' = [bulb EXCEPT ![m.room] = b] /\ reports' = Append(reports, e)
  BY <1>1
<1>3. /\ m.power = "ON" => b.on
      /\ m.power = "keep" /\ bulb[m.room].on => b.on
  BY DEF After
<1>4. m.room \in Rooms
  BY DEF Outgoing
<1>5. bulb'[m.room] = b /\ \A r \in Rooms : r # m.room => bulb'[r] = bulb[r]
  <2> HIDE DEF b
  <2> QED BY <1>2, <1>4 DEF WorldOK
<1>6. e.room = m.room /\ e.on = b.on
  OBVIOUS
<1>7. b \in Bulb
  <2>1. bulb' \in [Rooms -> Bulb]
    BY DeliverType
  <2> QED BY <1>4, <1>5, <2>1
<1>8. e \in Report
  <2> HIDE DEF b
  <2> QED BY <1>4, <1>7 DEF Report, Bulb
<1> HIDE DEF b, e
<1> QED BY <1>2, <1>3, <1>5, <1>6, <1>8

\* A report that is true joins the others.
LEMMA ReportJoins ==
  ASSUME reports \in Seq(Report), NEW e \in Report, reports' = Append(reports, e),
         e.on = bulb'[e.room].on, NEW r \in Rooms, r # e.room => bulb'[r].on = bulb[r].on
  PROVE  /\ Reported(r) => Reported(r)'
         /\ e.room = r => Reported(r)' /\ LastIsTrue(r)'
         /\ LastIsTrue(r) => LastIsTrue(r)'
<1>0. /\ Len(reports') = Len(reports) + 1 /\ Len(reports) \in Nat
      /\ \A i \in 1..Len(reports) : reports'[i] = reports[i]
      /\ reports'[Len(reports) + 1] = e
  BY AppendProperties, LenProperties
<1>1. Reported(r) => Reported(r)'
  <2> SUFFICES ASSUME NEW i \in 1..Len(reports), reports[i].room = r PROVE Reported(r)'
    BY DEF Reported
  <2>1. i \in 1..Len(reports') /\ reports'[i].room = r
    BY <1>0
  <2> QED BY <2>1 DEF Reported
<1>2. e.room = r => Reported(r)'
  <2>1. Len(reports) + 1 \in 1..Len(reports')
    BY <1>0
  <2> QED BY <1>0, <2>1 DEF Reported
<1>3. LastIsTrue(r)' <=> Tells(reports', Reporting(r), Showing(r, bulb'[r].on), TRUE)
  BY DEF LastIsTrue, Tells, Reporting, Showing
<1>4. LastIsTrue(r) <=> Tells(reports, Reporting(r), Showing(r, bulb[r].on), TRUE)
  BY DEF LastIsTrue, Tells
<1>5. e.room = r => LastIsTrue(r)'
  <2>1. e.room = r => e \in Reporting(r) /\ e \in Showing(r, bulb'[r].on)
    BY DEF Reporting, Showing
  <2> QED BY <1>3, <2>1, TellsAppend
<1>6. e.room # r /\ LastIsTrue(r) => LastIsTrue(r)'
  <2>1. e.room # r => e \notin Reporting(r)
    BY DEF Reporting
  <2>2. e.room # r => Showing(r, bulb'[r].on) = Showing(r, bulb[r].on)
    BY DEF Showing
  <2> QED BY <1>3, <1>4, <2>1, <2>2, TellsAppend
<1> QED BY <1>1, <1>2, <1>5, <1>6

\* A publish to a room is the work of one task, and the scheduler's goes to
\* lights that are on.
LEMMA PublisherAlone ==
  ASSUME NEW r \in Rooms, Sure(r), NEW t \in Tasks, t # "mqtt", Goings(t, r) # {},
         \A u \in Tasks : u # t => Leaves(u, r),
         bulb[r].on => bulb'[r].on, UNCHANGED <<cycle, switching, agenda>>
  PROVE  LoopOnly(r)' /\ ScheduleOnly(r)'
<1>1. ~Away(t, r)
  BY DEF Away, Free
<1>2. \A u \in Tasks : u # t /\ Away(u, r) => Away(u, r)'
  <2> SUFFICES ASSUME NEW u \in Tasks, u # t, Away(u, r) PROVE Away(u, r)'
    OBVIOUS
  <2>1. Free(u, r)'
    BY DEF Leaves, Free, Away
  <2>2. /\ Switching(u, r)' => Switching(u, r)
        /\ \A s \in Switches : Listed(u, s)' => Listed(u, s)
    BY DEF Switching, Listed
  <2> QED BY <2>1, <2>2, AwayStays
<1>3. t = "night" /\ (bulb[r].on \/ LeavesDark(r)) => bulb'[r].on
  BY DEF LeavesDark
<1> QED BY <1>1, <1>2, <1>3, WorksOn

PublishStepOf(t) == PublishStep(t) \/ PublishQueuedStep(t) \/ PublishTimeoutStep(t)

\* A task publishes to the room.
LEMMA PublishKept ==
  ASSUME NightTypeOK, NEW t \in Tasks, PublishStepOf(t), UNCHANGED <<cycle, night>>,
         NEW r \in Rooms, Head(todo[t]).room = r, Kept(r)
  PROVE  Kept(r)'
<1> DEFINE p == Head(todo[t])
<1>0. /\ QueuesOK /\ WorldOK /\ UNCHANGED <<rooms, rx, cycle, switching, agenda, raced>>
      /\ HeadIs(t, "publish") /\ Voices(r)
  BY NightParts, TypeParts
  DEF PublishStepOf, PublishStep, PublishQueuedStep, PublishTimeoutStep, shared, night, Kept
<1>1. PICK next \in {p.ok, p.err} :
        /\ Continue(t, next)
        /\ PublishTimeoutStep(t) => next = p.err
  BY DEF PublishStepOf, PublishStep, PublishQueuedStep, PublishTimeoutStep
<1>2. /\ p \in Goings(t, r) /\ Goings(t, r)' \subseteq Goings(t, r) /\ Voices(r)'
      /\ \A u \in Tasks : u # t => Leaves(u, r) /\ todo'[u] = todo[u]
      /\ \/ t \in Switchers /\ p \in {NightGoing(r), DayGoing(r)} /\ p.power = "ON"
         \/ t = "circadian" /\ p = CycleGoing(r) /\ p.power = "keep"
      /\ next = p.err /\ p # DayGoing(r) => Pending(t, r)' = Pending(t, r)
  BY <1>0, <1>1, PublishFollows
<1>3. Message(p) \in Outgoing /\ Message(p).room = r /\ Message(p).power = p.power
  <2>1. p \in PublishSteps
    BY <1>2 DEF Goings
  <2> QED BY <2>1, PublishFields DEF Message, Outgoing
<1> HIDE DEF p
<1>4. t # "mqtt" /\ Goings(t, r) # {} /\ "mqtt" \in Tasks
  BY <1>2, NightTasks
<1>5. ASSUME Sure(r), PublishStep(t) PROVE Sure(r)'
  <2>1. Deliver(Message(p))
    BY <1>5 DEF PublishStep, p
  <2>2. PICK e \in Report : reports' = Append(reports, e) /\ e.room = r /\ e.on = bulb'[r].on
    BY <1>0, <1>3, <2>1, Delivered
  <2>3. bulb[r].on => bulb'[r].on
    BY <1>0, <1>2, <1>3, <2>1, Delivered
  <2>4. Reported(r)' /\ LastIsTrue(r)'
    BY <1>0, <2>2, ReportJoins DEF WorldOK
  <2>5. LoopOnly(r)' /\ ScheduleOnly(r)'
    BY <1>0, <1>2, <1>4, <1>5, <2>3, PublisherAlone
  <2> QED BY <2>4, <2>5 DEF Sure, FollowsLights
<1>6. ASSUME Sure(r), PublishQueuedStep(t) PROVE Sure(r)'
  <2>1. outq' = Append(outq, Message(p)) /\ UNCHANGED <<bulb, reports>>
    BY <1>6 DEF PublishQueuedStep, p
  <2>2. LoopOnly(r)' /\ ScheduleOnly(r)'
    BY <1>0, <1>2, <1>4, <1>6, <2>1, PublisherAlone
  <2>3. /\ Len(outq') = Len(outq) + 1 /\ Len(outq) \in Nat
        /\ \A i \in 1..Len(outq) : outq'[i] = outq[i]
        /\ outq'[Len(outq) + 1] = Message(p)
    BY <1>0, <1>3, <2>1, AppendProperties, LenProperties DEF WorldOK
  <2>4. LightsUp(r) => LightsUp(r)'
    <3> SUFFICES ASSUME NEW i \in 1..Len(outq), outq[i].room = r /\ outq[i].power = "ON" PROVE LightsUp(r)'
      BY DEF LightsUp
    <3>1. i \in 1..Len(outq') /\ outq'[i] = outq[i]
      BY <2>3
    <3> QED BY <3>1 DEF LightsUp
  <2>5. p.power = "ON" => LightsUp(r)'
    <3>1. Len(outq) + 1 \in 1..Len(outq')
      BY <2>3
    <3> QED BY <1>3, <2>3, <3>1 DEF LightsUp
  <2>6. KnownOff(r) => t # "circadian"
    BY <1>4 DEF KnownOff
  <2>7. FollowsLights(r)'
    BY <1>2, <1>6, <2>1, <2>4, <2>5, <2>6, NightTasks DEF Sure, FollowsLights, Reported
  <2>8. LastIsTrue(r)'
    BY <1>6, <2>1 DEF Sure, LastIsTrue, Reporting, Showing
  <2> QED BY <2>2, <2>7, <2>8 DEF Sure
<1>7. ASSUME Sure(r), PublishTimeoutStep(t) PROVE Sure(r)'
  <2>1. UNCHANGED <<bulb, reports, outq>>
    BY <1>7 DEF PublishTimeoutStep, world
  <2>2. LoopOnly(r)' /\ ScheduleOnly(r)'
    BY <1>0, <1>2, <1>4, <1>7, <2>1, PublisherAlone
  <2>3. KnownOff(r) => KnownOff(r)'
    <3> SUFFICES ASSUME KnownOff(r) PROVE KnownOff(r)'
      OBVIOUS
    <3>1. p # DayGoing(r)
      <4>1. t \in Switchers
        BY <1>2, <1>4 DEF KnownOff
      <4> QED BY <1>2, <4>1 DEF KnownOff
    <3>2. \A u \in Tasks : Pending(u, r)' \subseteq Pending(u, r) /\ Goings(u, r)' \subseteq Goings(u, r)
      BY <1>1, <1>2, <1>7, <3>1 DEF Leaves
    <3>3. OffIsSaid(r)'
      BY <1>0, <1>2, <1>4, OffIsKept
    <3> QED BY <1>0, <3>2, <3>3, KnownOffStays
  <2>4. FollowsLights(r)'
    BY <1>7, <2>1, <2>3 DEF Sure, FollowsLights, LightsUp, Reported
  <2>5. LastIsTrue(r)'
    BY <1>7, <2>1 DEF Sure, LastIsTrue, Reporting, Showing
  <2> QED BY <2>2, <2>4, <2>5 DEF Sure
<1> QED BY <1>0, <1>2, <1>5, <1>6, <1>7 DEF Kept, PublishStepOf

\* A task publishes to another room.
LEMMA PublishesElsewhere ==
  ASSUME NightTypeOK, NEW t \in Tasks, PublishStepOf(t), UNCHANGED <<cycle, night>>,
         NEW r \in Rooms, Kept(r), NEW o \in Rooms, o # r, Head(todo[t]).room = o, Voices(o)
  PROVE  Kept(r)'
<1> DEFINE p == Head(todo[t])
<1>0. /\ QueuesOK /\ WorldOK /\ UNCHANGED <<rooms, rx, cycle, switching, agenda, raced>>
      /\ HeadIs(t, "publish")
  BY NightParts, TypeParts
  DEF PublishStepOf, PublishStep, PublishQueuedStep, PublishTimeoutStep, shared, night
<1>1. PICK next \in {p.ok, p.err} : Continue(t, next)
  BY DEF PublishStepOf, PublishStep, PublishQueuedStep, PublishTimeoutStep
<1>2. /\ p \in Goings(t, o)
      /\ \A u \in Tasks : u # t => todo'[u] = todo[u]
      /\ t \in Switchers \/ t = "circadian"
      /\ Leaves(t, r)
  BY <1>0, <1>1, PublishFollows
<1>3. \A u \in Tasks : Leaves(u, r)
  BY <1>0, <1>1, <1>2, GoesOn
<1>4. Message(p) \in Outgoing /\ Message(p).room = o
  <2>1. p \in PublishSteps
    BY <1>2 DEF Goings
  <2> QED BY <2>1, PublishFields DEF Message, Outgoing
<1> HIDE DEF p
<1>5. bulb'[r].on = bulb[r].on /\ (Reported(r) => Reported(r)') /\ (LastIsTrue(r) => LastIsTrue(r)')
  <2>1. CASE PublishStep(t)
    <3>1. Deliver(Message(p))
      BY <2>1 DEF PublishStep, p
    <3>2. PICK e \in Report : reports' = Append(reports, e) /\ e.room = o /\ e.on = bulb'[o].on
      BY <1>0, <1>4, <3>1, Delivered
    <3>3. bulb'[r].on = bulb[r].on
      BY <1>0, <1>4, <3>1, Delivered
    <3> QED BY <1>0, <3>2, <3>3, ReportJoins DEF WorldOK
  <2>2. CASE PublishQueuedStep(t) \/ PublishTimeoutStep(t)
    <3>1. UNCHANGED <<bulb, reports>>
      BY <2>2 DEF PublishQueuedStep, PublishTimeoutStep, world
    <3> QED BY <3>1 DEF Reported, LastIsTrue, Reporting, Showing
  <2> QED BY <2>1, <2>2 DEF PublishStepOf
<1>6. LightsUp(r) => LightsUp(r)'
  <2> SUFFICES ASSUME NEW i \in 1..Len(outq), outq[i].room = r /\ outq[i].power = "ON" PROVE LightsUp(r)'
    BY DEF LightsUp
  <2>1. CASE outq' = outq
    BY <2>1 DEF LightsUp
  <2>2. CASE outq' = Append(outq, Message(p))
    <3>1. i \in 1..Len(outq') /\ outq'[i] = outq[i]
      BY <1>0, <1>4, <2>2, AppendProperties, LenProperties DEF WorldOK
    <3> QED BY <3>1 DEF LightsUp
  <2> QED BY <2>1, <2>2 DEF PublishStepOf, PublishStep, PublishQueuedStep, PublishTimeoutStep, world, p
<1>7. KnownOff(r) => OffIsSaid(r)'
  BY <1>0, <1>2, NightTasks, OffIsKept
<1>8. /\ \A u \in Tasks : Pending(u, r)' \subseteq Pending(u, r) /\ Goings(u, r)' \subseteq Goings(u, r)
      /\ \A u \in Switchers : /\ Switching(u, r)' => Switching(u, r)
                              /\ \A s \in Switches : s.room = r /\ Listed(u, s)' => Listed(u, s)
  BY <1>0, <1>3 DEF Leaves, Switching, Listed
<1>9. LeavesDark(r) => ~rooms'[r].lightsOn
  BY <1>0 DEF LeavesDark
<1> QED BY <1>0, <1>5, <1>6, <1>7, <1>8, <1>9, QuietStays

\* What waits in the client goes on to switch no light off.
LEMMA QueueKept ==
  ASSUME NightTypeOK, NothingOff, NEW t \in Tasks, PublishStepOf(t), \A r \in Rooms : Voices(r)
  PROVE  NothingOff'
<1> DEFINE p == Head(todo[t])
<1>0. QueuesOK /\ WorldOK /\ HeadIs(t, "publish") /\ rx' = rx
  BY NightParts, TypeParts DEF PublishStepOf, PublishStep, PublishQueuedStep, PublishTimeoutStep
<1>1. PICK next \in {p.ok, p.err} : Continue(t, next)
  BY DEF PublishStepOf, PublishStep, PublishQueuedStep, PublishTimeoutStep
<1>2. p \in PublishSteps /\ p.room \in Rooms
  BY <1>0, <1>1, GoesOn, PublishFields
<1>3. p.power \in {"ON", "keep"}
  BY <1>0, <1>1, <1>2, PublishFollows
<1>4. Message(p) \in Outgoing /\ Message(p).power = p.power
  BY <1>2, PublishFields DEF Message, Outgoing
<1>5. outq' = outq \/ outq' = Append(outq, Message(p))
  BY DEF PublishStepOf, PublishStep, PublishQueuedStep, PublishTimeoutStep, world
<1> HIDE DEF p
<1>6. CASE outq' = Append(outq, Message(p))
  <2>1. /\ Len(outq') = Len(outq) + 1 /\ Len(outq) \in Nat
        /\ \A i \in 1..Len(outq) : outq'[i] = outq[i]
        /\ outq'[Len(outq) + 1] = Message(p)
    BY <1>0, <1>4, <1>6, AppendProperties, LenProperties DEF WorldOK
  <2>2. ASSUME NEW i \in 1..Len(outq') PROVE outq'[i].power \in {"ON", "keep"}
    <3>1. i \in 1..Len(outq) \/ i = Len(outq) + 1
      BY <2>1
    <3> QED BY <1>3, <1>4, <2>1, <3>1 DEF NothingOff
  <2> QED BY <2>2 DEF NothingOff
<1>7. CASE outq' = outq
  BY <1>7 DEF NothingOff
<1> QED BY <1>5, <1>6, <1>7

LEMMA StepKept ==
  ASSUME NightTypeOK, DarkInv, NEW t \in Tasks, Step(t)
  PROVE  DarkInv'
<1>0. /\ UNCHANGED <<cycle, night>> /\ QueuesOK
      /\ NothingOff /\ OwnSwitches /\ \A r \in Rooms : Kept(r) /\ Voices(r)
  BY NightParts, TypeParts DEF Step, DarkInv, Kept
<1>1. OwnSwitches'
  <2>1. \A s : Listed("night", s)' <=> Listed("night", s)
    BY <1>0 DEF night, Listed
  <2> QED BY <1>0, <2>1 DEF night, OwnSwitches
<1>2. CASE SendStep(t) \/ AnnounceStep(t)
  <2>1. NothingOff'
    BY <1>0, <1>2 DEF SendStep, AnnounceStep, world, NothingOff
  <2> QED BY <1>0, <1>1, <1>2, <2>1, SayingKept DEF DarkInv
<1>3. CASE PublishStepOf(t)
  <2>1. NothingOff'
    BY <1>0, <1>3, QueueKept
  <2>2. Head(todo[t]).room \in Rooms
    <3>1. HeadIs(t, "publish")
      BY <1>3 DEF PublishStepOf, PublishStep, PublishQueuedStep, PublishTimeoutStep
    <3>2. Head(todo[t]) \in PublishSteps
      BY <1>0, <3>1, HeadStep, StepFields DEF HeadIs
    <3> QED BY <3>2, PublishFields
  <2>3. ASSUME NEW r \in Rooms PROVE Kept(r)'
    <3>1. CASE Head(todo[t]).room = r
      BY <1>0, <1>3, <3>1, PublishKept
    <3>2. CASE Head(todo[t]).room # r
      BY <1>0, <1>3, <2>2, <3>2, PublishesElsewhere
    <3> QED BY <3>1, <3>2
  <2> QED BY <1>1, <2>1, <2>3 DEF DarkInv
<1> QED BY <1>2, <1>3 DEF Step, TaskStep, PublishStepOf

-----------------------------------------------------------------------------
(* The actor.                                                               *)

\* What is said at all.
LEMMA Spoken ==
  ASSUME NEW t \in Tasks, NEW r \in Rooms, Voices(r), NEW u \in Pending(t, r)
  PROVE  u.update \in {"LightsOn", "LightsOnWithPush", "NightMode", "CircadianPause",
                       "ManualOverrideTtl", "JehaPush", "ExternalChange", "LightsOff"}
<1>1. CASE t \in Switchers
  <2>1. u \in SwitchUpdates
    BY <1>1 DEF Voices
  <2> QED BY <2>1, KindsOf
<1>2. CASE t = "circadian"
  <2>1. u \in CycleUpdates
    BY <1>2 DEF Voices
  <2> QED BY <2>1, KindsOf
<1>3. CASE t = "mqtt"
  <2>1. \A v \in Pending("mqtt", r) : v.update \in {"LightsOn", "LightsOff", "ExternalChange"}
    BY DEF Voices
  <2> QED BY <1>3, <2>1
<1> QED BY <1>1, <1>2, <1>3, NightTasks

\* What of it is about the lights.
LEMMA Lights ==
  ASSUME NEW room \in Room, NEW u, NEW time,
         u.update \in {"LightsOn", "LightsOnWithPush", "NightMode", "CircadianPause",
                       "ManualOverrideTtl", "JehaPush", "ExternalChange", "LightsOff"}
  PROVE  /\ u.update = "LightsOff" => ~ApplyUpdate(room, u, time).lightsOn
         /\ u.update \notin LitKinds /\ ~room.lightsOn => ~ApplyUpdate(room, u, time).lightsOn
BY DEF Room, LitKinds, ApplyUpdate, ApplyLightsOn, ApplyLightsOnWithPush, ApplyNightMode, ApplyJehaPush,
       ApplyExternalChange, ApplyLightsOff

\* The actor applies what is said of a room.
LEMMA ApplyKept ==
  ASSUME NightTypeOK, ApplyRoomUpdate, UNCHANGED <<cycle, night>>, NEW r \in Rooms, Kept(r)
  PROVE  Kept(r)'
<1> DEFINE c == Head(rx)
<1>0. /\ QueuesOK /\ RecordOK /\ rx # <<>> /\ rx' = Tail(rx) /\ todo' = todo /\ rx \in Seq(Commands)
      /\ UNCHANGED <<bulb, reports, outq, cycle, switching, agenda, raced>>
      /\ rooms' = [rooms EXCEPT ![c.room] = ApplyUpdate(rooms[c.room], c.update, now)]
      /\ rooms \in [Rooms -> Room]
      /\ "room" \in DOMAIN c
  BY NightParts, TypeParts DEF ApplyRoomUpdate, world, night, QueuesOK, RecordOK
<1>1. \A t \in Tasks : Goings(t, r)' = Goings(t, r) /\ Pending(t, r)' \subseteq Pending(t, r)
  BY <1>0, ActorLeaves
<1>2. c \in [from : Tasks, room : Rooms, update : Updates] /\ Has(rx, c)
  <2>1. c \in Commands /\ Has(rx, c)
    BY <1>0, HeadTailProperties, HasSeq
  <2> QED BY <1>0, <2>1 DEF Commands
<1> HIDE DEF c
<1>3. c.room = r => c.update \in Pending(c.from, r) /\ c.from \in Tasks /\ c.update \in Updates
  <2>1. c = [from |-> c.from, room |-> c.room, update |-> c.update]
    BY <1>2
  <2> QED BY <1>2, <2>1 DEF Pending
<1>4. c.room # r => rooms'[r] = rooms[r]
  BY <1>0
<1>5. c.room = r => /\ c.update.update = "LightsOff" => ~rooms'[r].lightsOn
                    /\ c.update.update \notin LitKinds /\ ~rooms[r].lightsOn => ~rooms'[r].lightsOn
  <2> SUFFICES ASSUME c.room = r
               PROVE  /\ c.update.update = "LightsOff" => ~rooms'[r].lightsOn
                      /\ c.update.update \notin LitKinds /\ ~rooms[r].lightsOn => ~rooms'[r].lightsOn
    OBVIOUS
  <2>1. rooms'[r] = ApplyUpdate(rooms[r], c.update, now) /\ rooms[r] \in Room
    BY <1>0
  <2> QED BY <1>3, <2>1, Spoken, Lights DEF Kept
<1>6. KnownOff(r) => OffIsSaid(r)'
  <2> DEFINE dark == ~rooms'[r].lightsOn
  <2>1. c \in TellsLights(r) /\ c \in TellsOff(r) => dark
    <3>1. LightsOff.update = "LightsOff"
      BY DEF LightsOff
    <3>2. c \in TellsOff(r) => c.room = r /\ c.update = LightsOff
      BY DEF TellsOff, CommandsOf
    <3> QED BY <1>5, <3>1, <3>2
  <2>2. c \notin TellsLights(r) /\ ~rooms[r].lightsOn => dark
    <3>1. c.room = r /\ c \notin TellsLights(r) => c.update.update \notin LitKinds
      BY <1>2 DEF TellsLights, CommandsOf
    <3> QED BY <1>4, <1>5, <3>1
  <2> HIDE DEF dark
  <2>3. OffInQueue(r) => Tells(rx', TellsLights(r), TellsOff(r), dark)
    BY <1>0, <2>1, <2>2, TellsTail DEF c, OffInQueue
  <2>4. OffInQueue(r) => OffInQueue(r)'
    BY <2>3 DEF OffInQueue, TellsLights, TellsOff, LitKinds, dark
  <2>5. SaysLights(r)' = SaysLights(r) /\ SaysOff(r)' = SaysOff(r)
    BY DEF SaysLights, SaysOff, LitKinds
  <2> QED BY <1>0, <2>4, <2>5 DEF KnownOff, OffIsSaid, Tells
<1>7. Only("night", r) /\ LeavesDark(r) => ~rooms'[r].lightsOn
  <2> SUFFICES ASSUME Only("night", r), LeavesDark(r) PROVE ~rooms'[r].lightsOn
    OBVIOUS
  <2>1. CASE c.room = r
    <3>1. c.from = "night"
      <4>1. ~Free(c.from, r)
        BY <1>3, <2>1 DEF Free
      <4> QED BY <1>3, <2>1, <4>1 DEF Only, Away
    <3>2. c.update.update \notin LitKinds
      BY <1>3, <2>1, <3>1 DEF LeavesDark
    <3> QED BY <1>5, <2>1, <3>2 DEF LeavesDark
  <2>2. CASE c.room # r
    BY <1>4, <2>2 DEF LeavesDark
  <2> QED BY <2>1, <2>2
<1>8. /\ \A t \in Switchers : /\ Switching(t, r)' => Switching(t, r)
                              /\ \A s \in Switches : s.room = r /\ Listed(t, s)' => Listed(t, s)
      /\ LightsUp(r) => LightsUp(r)'
      /\ Reported(r) => Reported(r)'
      /\ LastIsTrue(r) => LastIsTrue(r)'
  BY <1>0 DEF Switching, Listed, LightsUp, Reported, LastIsTrue, Reporting, Showing
<1> QED BY <1>0, <1>1, <1>6, <1>7, <1>8, QuietStays

LEMMA ConnectedKept ==
  ASSUME NightTypeOK, ApplyConnected, UNCHANGED <<cycle, night>>, NEW r \in Rooms, Kept(r)
  PROVE  Kept(r)'
<1>0. /\ QueuesOK /\ rx # <<>> /\ rx' = Tail(rx) /\ todo' = todo /\ rx \in Seq(Commands)
      /\ "connected" \in DOMAIN Head(rx)
      /\ UNCHANGED <<rooms, bulb, reports, outq, cycle, switching, agenda, raced>>
  BY NightParts, TypeParts DEF ApplyConnected, world, shared, night, QueuesOK
<1>1. \A t \in Tasks : Goings(t, r)' = Goings(t, r) /\ Pending(t, r)' \subseteq Pending(t, r)
  BY <1>0, ActorLeaves
<1>2. Head(rx) \notin TellsLights(r)
  <2>1. \A c \in CommandsOf(r) : "connected" \notin DOMAIN c
    BY DEF CommandsOf
  <2> QED BY <1>0, <2>1 DEF TellsLights
<1>3. KnownOff(r) => OffIsSaid(r)'
  <2>1. OffInQueue(r) => Tells(rx', TellsLights(r), TellsOff(r), ~rooms[r].lightsOn)
    BY <1>0, <1>2, TellsTail DEF OffInQueue
  <2>2. OffInQueue(r) => OffInQueue(r)'
    BY <1>0, <2>1 DEF OffInQueue, TellsLights, TellsOff, LitKinds
  <2>3. SaysLights(r)' = SaysLights(r) /\ SaysOff(r)' = SaysOff(r)
    BY DEF SaysLights, SaysOff, LitKinds
  <2> QED BY <1>0, <2>2, <2>3 DEF KnownOff, OffIsSaid, Tells
<1>4. /\ \A t \in Switchers : /\ Switching(t, r)' => Switching(t, r)
                              /\ \A s \in Switches : s.room = r /\ Listed(t, s)' => Listed(t, s)
      /\ LightsUp(r) => LightsUp(r)'
      /\ Reported(r) => Reported(r)'
      /\ LastIsTrue(r) => LastIsTrue(r)'
      /\ LeavesDark(r) => ~rooms'[r].lightsOn
  BY <1>0 DEF Switching, Listed, LightsUp, Reported, LastIsTrue, Reporting, Showing, LeavesDark
<1> QED BY <1>0, <1>1, <1>3, <1>4, QuietStays

\* What is listed, and the queue of the client, while nobody touches them.
LEMMA RestStays ==
  ASSUME UNCHANGED <<outq, switching, agenda>>, NothingOff, OwnSwitches
  PROVE  NothingOff' /\ OwnSwitches'
<1>1. \A s : Listed("night", s)' <=> Listed("night", s)
  BY DEF Listed
<1> QED BY <1>1 DEF NothingOff, OwnSwitches

LEMMA ActorKept ==
  ASSUME NightTypeOK, DarkInv, Actor
  PROVE  DarkInv'
<1>1. UNCHANGED <<cycle, night, outq, switching, agenda>>
  BY DEF Actor, ApplyRoomUpdate, ApplyConnected, world, night
<1>2. NothingOff' /\ OwnSwitches'
  BY <1>1, RestStays DEF DarkInv
<1>3. \A r \in Rooms : Kept(r)'
  BY <1>1, ApplyKept, ConnectedKept DEF DarkInv, Actor
<1> QED BY <1>2, <1>3 DEF DarkInv

-----------------------------------------------------------------------------
(* The switches.                                                            *)

\* A room that a step has nothing to do with.
LEMMA Untouched ==
  ASSUME NEW r \in Rooms, Kept(r), UNCHANGED <<rooms, bulb, outq, reports, rx, todo>>,
         r \in cycle'.left => r \in cycle.left,
         \A t \in Switchers : /\ Switching(t, r)' => Switching(t, r)
                              /\ \A s \in Switches : s.room = r /\ Listed(t, s)' => Listed(t, s),
         ~raced'[r] => ~raced[r]
  PROVE  Kept(r)'
<1>1. \A t \in Tasks : Pending(t, r)' \subseteq Pending(t, r) /\ Goings(t, r)' \subseteq Goings(t, r)
  BY DEF Pending, Goings
<1>2. KnownOff(r) => OffIsSaid(r)'
  BY OffIsKept
<1>3. /\ LightsUp(r) => LightsUp(r)'
      /\ Reported(r) => Reported(r)'
      /\ LastIsTrue(r) => LastIsTrue(r)'
      /\ LeavesDark(r) => ~rooms'[r].lightsOn
  BY DEF LightsUp, Reported, LastIsTrue, Reporting, Showing, LeavesDark
<1> QED BY <1>1, <1>2, <1>3, QuietStays

\* Of a room that has settled and whose lights are off it is known.
LEMMA SettledShows ==
  ASSUME NightTypeOK, NEW r \in Rooms, Voices(r), Sure(r), Settled(r)
  PROVE  /\ \A t \in Tasks : Away(t, r)
         /\ bulb[r].on \/ LeavesDark(r)
<1>1. \A t \in Tasks : Away(t, r)
  <2>1. /\ \A t \in Tasks : Free(t, r)
        /\ \A t \in Switchers : /\ ~Switching(t, r)
                                /\ \A s \in Switches : s.room = r => ~Listed(t, s)
        /\ r \notin cycle.left
    BY HoldsNot
  <2> QED BY <2>1 DEF Away
<1>2. ~Reported(r) /\ ~LightsUp(r)
  BY DEF Settled, LightsUp, Outstanding
<1>3. bulb[r].on \/ KnownOff(r)
  BY <1>2 DEF Sure, FollowsLights
<1>4. Free("mqtt", r) /\ Free("night", r)
  BY <1>1, NightTasks DEF Away
<1>5. KnownOff(r) => ~rooms[r].lightsOn
  BY <1>4, KnownOffShows
<1> QED BY <1>1, <1>3, <1>4, <1>5 DEF LeavesDark, Free

\* A task puts a room that has settled on its list.
LEMMA ListingKept ==
  ASSUME NightTypeOK, NEW r \in Rooms, Kept(r),
         UNCHANGED <<rooms, bulb, outq, reports, rx, todo, switching, cycle>>,
         ~raced'[r] => ~raced[r] /\ Settled(r),
         NEW t \in Switchers, \A u \in Switchers : u # t => agenda'[u] = agenda[u]
  PROVE  Kept(r)'
<1>1. \A u, o : Pending(u, o)' = Pending(u, o) /\ Goings(u, o)' = Goings(u, o)
  BY DEF Pending, Goings
<1>2. Voices(r)'
  BY <1>1, VoicesStay DEF Kept
<1>3. ASSUME ~raced'[r] PROVE Sure(r)'
  <2>0. Sure(r) /\ Settled(r) /\ Voices(r)
    BY <1>3 DEF Kept
  <2>1. (\A u \in Tasks : Away(u, r)) /\ (bulb[r].on \/ LeavesDark(r))
    BY <2>0, SettledShows
  <2>2. ASSUME NEW u \in Tasks, u # t PROVE Away(u, r)'
    <3>1. Free(u, r)'
      BY <1>1, <2>1 DEF Away, Free
    <3>2. u \in Switchers => /\ Switching(u, r)' => Switching(u, r)
                             /\ \A s \in Switches : Listed(u, s)' => Listed(u, s)
      BY <2>2 DEF Switching, Listed
    <3> QED BY <2>1, <3>1, <3>2, AwayStays
  <2>3. Free("mqtt", r)'
    BY <2>2, NightTasks DEF Away
  <2>4. LoopOnly(r)'
    BY <2>3 DEF LoopOnly
  <2>5. LeavesDark(r) => LeavesDark(r)'
    BY <1>1 DEF LeavesDark, LitKinds
  <2>6. ScheduleOnly(r)'
    <3> SUFFICES ASSUME ~Away("night", r)' PROVE Only("night", r)' /\ (bulb'[r].on \/ LeavesDark(r)')
      BY DEF ScheduleOnly
    <3>1. t = "night"
      BY <2>2, NightTasks
    <3> QED BY <2>1, <2>2, <2>5, <3>1 DEF Only
  <2>7. KnownOff(r) => KnownOff(r)'
    BY <1>1, OffIsKept, KnownOffStays
  <2>8. FollowsLights(r)' /\ LastIsTrue(r)'
    BY <2>0, <2>7 DEF Sure, FollowsLights, LightsUp, Reported, LastIsTrue, Reporting, Showing
  <2> QED BY <2>4, <2>6, <2>8 DEF Sure
<1> QED BY <1>2, <1>3 DEF Kept

\* What one task does leaves it known that lights are off, when it is nothing
\* that puts them on.
LEMMA StillOff ==
  ASSUME NEW r \in Rooms, KnownOff(r), OffIsSaid(r)', r \notin cycle'.left,
         NEW t \in Tasks, \A u \in Tasks : u # t => Leaves(u, r),
         t = "circadian" => Goings(t, r)' = {},
         t # "mqtt" => \A v \in Pending(t, r)' : v.update \notin LitKinds,
         DayGoing(r) \notin Goings(t, r)'
  PROVE  KnownOff(r)'
<1>1. Goings("circadian", r)' = {}
  BY NightTasks DEF KnownOff, Leaves
<1>2. \A u \in Tasks : u # "mqtt" => \A v \in Pending(u, r)' : v.update \notin LitKinds
  <2> TAKE u \in Tasks
  <2>1. CASE u = t
    BY <2>1
  <2>2. CASE u # t
    BY <2>2 DEF KnownOff, Leaves
  <2> QED BY <2>1, <2>2
<1>3. \A u \in Switchers : DayGoing(r) \notin Goings(u, r)'
  <2> TAKE u \in Switchers
  <2>1. CASE u = t
    BY <2>1
  <2>2. CASE u # t
    BY <2>2, NightTasks DEF KnownOff, Leaves
  <2> QED BY <2>1, <2>2
<1>4. DayGoing(r)' = DayGoing(r) /\ LitKinds' = LitKinds
  BY DEF DayGoing, LitKinds
<1> QED BY <1>1, <1>2, <1>3, <1>4 DEF KnownOff

\* Others stay away while one task turns to a room.
LEMMA OthersAway ==
  ASSUME NEW t \in Tasks, NEW r \in Rooms, \A u \in Tasks : u # t => Leaves(u, r),
         NEW u \in Tasks, u # t, Away(u, r),
         u = "circadian" => (r \in cycle'.left => r \in cycle.left),
         u \in Switchers => /\ Switching(u, r)' => Switching(u, r)
                            /\ \A s \in Switches : s.room = r /\ Listed(u, s)' => Listed(u, s)
  PROVE  Away(u, r)'
<1>1. Free(u, r)'
  BY DEF Leaves, Away, Free
<1> QED BY <1>1 DEF Away

\* A task takes the next room.
LEMMA NextSwitchKept ==
  ASSUME NightTypeOK, NEW t \in Switchers, NextSwitch(t), DarkInv
  PROVE  DarkInv'
<1>0. /\ QueuesOK /\ NightVarsOK /\ t \in Tasks /\ t # "mqtt" /\ t # "circadian"
      /\ NothingOff /\ OwnSwitches /\ \A r \in Rooms : Kept(r) /\ Voices(r)
  BY NightParts, TypeParts, NightTasks DEF DarkInv, Kept
<1>1. PICK s \in Switches :
        /\ Listed(t, s)
        /\ switching[t] = None /\ switching' = [switching EXCEPT ![t] = s]
        /\ todo[t] = <<>>
        /\ todo' = [todo EXCEPT ![t] = << Send(s.room, NightMode(s.active)),
                                          Send(s.room, CircadianPause(s.active, None)) >>]
        /\ \A u \in Switchers : \A x : Listed(u, x)' => Listed(u, x)
  BY <1>0, TakesSwitch
<1>2. UNCHANGED <<rooms, bulb, rx, reports, outq, cycle, raced>>
  BY DEF NextSwitch, shared, world
<1> DEFINE mode == NightMode(s.active)
           pause == CircadianPause(s.active, None)
           steps == << Send(s.room, mode), Send(s.room, pause) >>
<1>3. \A r \in Rooms : TakenUp(t, steps, r)
  BY <1>0, <1>1, <1>2, TookUp
<1>4. \A e : Has(steps, e) <=> e \in {Send(s.room, mode), Send(s.room, pause)}
  <2> DEFINE a == Send(s.room, mode)
             b == Send(s.room, pause)
  <2> HIDE DEF a, b
  <2>1. \A e : Has(<<a, b>>, e) <=> e \in {a, b}
    BY HasShort
  <2> QED BY <2>1 DEF a, b
<1>5. switching'[t] = s /\ \A u \in Switchers : u # t => switching'[u] = switching[u]
  BY <1>0, <1>1 DEF NightVarsOK
<1>6. s \in Switches /\ s # None /\ s.active \in BOOLEAN
  BY NoneIsNoSwitch DEF Switches
<1>7. NothingOff' /\ OwnSwitches'
  <2>1. NothingOff'
    BY <1>0, <1>2 DEF NothingOff
  <2>2. t = "night" => ~s.user
    BY <1>0, <1>1 DEF OwnSwitches
  <2>3. switching'["night"] # None => ~switching'["night"].user
    BY <1>0, <1>5, <2>2, NightTasks DEF OwnSwitches
  <2>4. \A x \in Switches : Listed("night", x)' => ~x.user
    BY <1>0, <1>1, NightTasks DEF OwnSwitches
  <2> QED BY <2>1, <2>3, <2>4 DEF OwnSwitches
<1>8. \A u \in Tasks, r \in Rooms : u # t => Leaves(u, r) /\ todo'[u] = todo[u]
  BY <1>3 DEF TakenUp
<1> HIDE DEF steps, mode, pause
<1>9. ASSUME NEW r \in Rooms, r # s.room PROVE Kept(r)'
  <2>1. Leaves(t, r)
    <3>1. \A e : Has(steps, e) => e.room # r
      BY <1>4, <1>9 DEF Send
    <3> QED BY <1>3, <3>1 DEF TakenUp
  <2>2. \A u \in Tasks : Pending(u, r)' \subseteq Pending(u, r) /\ Goings(u, r)' \subseteq Goings(u, r)
    BY <1>8, <2>1 DEF Leaves
  <2>3. KnownOff(r) => OffIsSaid(r)'
    BY <1>0, <1>2, <1>8, NightTasks, OffIsKept
  <2>4. /\ LightsUp(r) => LightsUp(r)'
        /\ Reported(r) => Reported(r)'
        /\ LastIsTrue(r) => LastIsTrue(r)'
        /\ LeavesDark(r) => ~rooms'[r].lightsOn
    BY <1>2 DEF LightsUp, Reported, LastIsTrue, Reporting, Showing, LeavesDark
  <2>5. \A u \in Switchers : Switching(u, r)' => Switching(u, r)
    BY <1>5, <1>9 DEF Switching
  <2> QED BY <1>0, <1>1, <1>2, <2>2, <2>3, <2>4, <2>5, QuietStays
<1>10. ASSUME NEW r \in Rooms, r = s.room PROVE Kept(r)'
  <2> DEFINE says == {u \in Updates : Has(steps, Send(r, u))}
  <2>1. /\ Pending(t, r)' = Pending(t, r) \union says
        /\ Goings(t, r)' = {p \in PublishSteps : p.room = r /\ Has(steps, p)}
    BY <1>3 DEF TakenUp
  <2>2. says \subseteq {mode, pause}
    <3>1. \A u, v : Send(r, u) = Send(r, v) => u = v
      BY DEF Send
    <3> QED BY <1>4, <1>10, <3>1
  <2>3. Goings(t, r)' = {}
    <3>1. \A p \in PublishSteps : \A u : p # Send(s.room, u)
      BY PublishFields DEF Send
    <3> QED BY <1>4, <2>1, <3>1
  <2>4. {mode, pause} \subseteq SwitchUpdates /\ \A u \in {mode, pause} : u.update \notin LitKinds
    BY <1>6, UpdatesApart DEF mode, pause, SwitchUpdates, LitKinds
  <2> HIDE DEF says
  <2>5. Voices(r)'
    <3>1. \A u \in Tasks : u # t => Pending(u, r)' = Pending(u, r) /\ Goings(u, r)' = Goings(u, r)
      BY <1>8 DEF Leaves
    <3>2. Pending(t, r)' \subseteq SwitchUpdates /\ Goings(t, r)' \subseteq {NightGoing(r), DayGoing(r)}
      BY <1>0, <2>1, <2>2, <2>3, <2>4 DEF Voices
    <3> QED BY <1>0, <3>1, <3>2, NightTasks DEF Voices
  <2>6. ASSUME Sure(r) PROVE Sure(r)'
    <3>1. ~Away(t, r)
      BY <1>1, <1>10 DEF Away
    <3>2. ASSUME NEW u \in Tasks, u # t, Away(u, r) PROVE Away(u, r)'
      <4>1. u \in Switchers => /\ Switching(u, r)' => Switching(u, r)
                               /\ \A x \in Switches : Listed(u, x)' => Listed(u, x)
        BY <1>1, <1>5, <3>2 DEF Switching
      <4> QED BY <1>0, <1>2, <1>8, <3>2, <4>1, OthersAway
    <3>3. LitKinds' = LitKinds
      BY DEF LitKinds
    <3>4. t = "night" /\ LeavesDark(r) => LeavesDark(r)'
      BY <1>2, <2>1, <2>2, <2>3, <2>4, <3>3 DEF LeavesDark
    <3>5. LoopOnly(r)' /\ ScheduleOnly(r)'
      BY <1>0, <1>2, <2>6, <3>1, <3>2, <3>4, WorksOn
    <3>6. KnownOff(r) => KnownOff(r)'
      <4> SUFFICES ASSUME KnownOff(r) PROVE KnownOff(r)'
        OBVIOUS
      <4>1. OffIsSaid(r)'
        BY <1>0, <1>2, <1>8, NightTasks, OffIsKept
      <4>2. \A v \in Pending(t, r)' : v.update \notin LitKinds
        BY <1>0, <2>1, <2>2, <2>4 DEF KnownOff
      <4> QED BY <1>0, <1>2, <1>8, <2>3, <4>1, <4>2, StillOff DEF KnownOff
    <3>7. FollowsLights(r)' /\ LastIsTrue(r)'
      BY <1>2, <2>6, <3>6 DEF Sure, FollowsLights, LightsUp, Reported, LastIsTrue, Reporting, Showing
    <3> QED BY <3>5, <3>7 DEF Sure
  <2> QED BY <1>0, <1>2, <2>5, <2>6 DEF Kept
<1> QED BY <1>7, <1>9, <1>10 DEF DarkInv

\* A task looks at the lights and decides.
LEMMA DecideKept ==
  ASSUME NightTypeOK, NEW t \in Switchers, Decide(t), DarkInv
  PROVE  DarkInv'
<1>0. /\ QueuesOK /\ NightVarsOK /\ t \in Tasks /\ t # "mqtt" /\ t # "circadian"
      /\ NothingOff /\ OwnSwitches /\ \A r \in Rooms : Kept(r) /\ Voices(r)
  BY NightParts, TypeParts, NightTasks DEF DarkInv, Kept
<1>1. PICK s \in Switches, steps \in Seq(Steps) :
        /\ s = switching[t] /\ s # None
        /\ todo[t] = <<>> /\ todo' = [todo EXCEPT ![t] = steps]
        /\ switching' = [switching EXCEPT ![t] = None]
        /\ \A e : Has(steps, e) /\ e.do \in {"send", "publish"} => e.room = s.room
        /\ \A u : Has(steps, Send(s.room, u)) => u = LightsOn(None, "Circadian") /\ rooms[s.room].lightsOn
        /\ \A p \in PublishSteps : Has(steps, p) =>
             \/ p = NightGoing(s.room) /\ s.active /\ (rooms[s.room].lightsOn \/ s.user)
             \/ p = DayGoing(s.room) /\ ~s.active /\ rooms[s.room].lightsOn
        /\ rooms[s.room].lightsOn => \E p \in PublishSteps : p.room = s.room /\ Has(steps, p)
  BY Decided
<1>2. UNCHANGED <<rooms, bulb, rx, reports, outq, cycle, agenda, raced>>
  BY DEF Decide, shared, world
<1>3. \A r \in Rooms : TakenUp(t, steps, r)
  BY <1>0, <1>1, <1>2, TookUp
<1>4. switching'[t] = None /\ \A u \in Switchers : u # t => switching'[u] = switching[u]
  BY <1>0, <1>1 DEF NightVarsOK
<1>5. \A u, x : Listed(u, x)' <=> Listed(u, x)
  BY <1>2 DEF Listed
<1>6. NothingOff' /\ OwnSwitches'
  <2>1. NothingOff'
    BY <1>0, <1>2 DEF NothingOff
  <2>2. switching'["night"] # None => ~switching'["night"].user
    BY <1>0, <1>4, NightTasks DEF OwnSwitches
  <2> QED BY <1>0, <1>5, <2>1, <2>2 DEF OwnSwitches
<1>7. \A u \in Tasks, r \in Rooms : u # t => Leaves(u, r) /\ todo'[u] = todo[u]
  BY <1>3 DEF TakenUp
<1>8. \A u \in Switchers, r \in Rooms : Switching(u, r)' => Switching(u, r)
  BY <1>4 DEF Switching
<1>9. ASSUME NEW r \in Rooms, r # s.room PROVE Kept(r)'
  <2>1. Leaves(t, r)
    BY <1>1, <1>3, <1>9 DEF TakenUp
  <2>2. \A u \in Tasks : Pending(u, r)' \subseteq Pending(u, r) /\ Goings(u, r)' \subseteq Goings(u, r)
    BY <1>7, <2>1 DEF Leaves
  <2>3. KnownOff(r) => OffIsSaid(r)'
    BY <1>0, <1>2, <1>7, NightTasks, OffIsKept
  <2>4. /\ LightsUp(r) => LightsUp(r)'
        /\ Reported(r) => Reported(r)'
        /\ LastIsTrue(r) => LastIsTrue(r)'
        /\ LeavesDark(r) => ~rooms'[r].lightsOn
    BY <1>2 DEF LightsUp, Reported, LastIsTrue, Reporting, Showing, LeavesDark
  <2> QED BY <1>0, <1>2, <1>5, <1>8, <2>2, <2>3, <2>4, QuietStays
<1>10. ASSUME NEW r \in Rooms, r = s.room PROVE Kept(r)'
  <2> DEFINE says == {u \in Updates : Has(steps, Send(r, u))}
  <2>1. /\ Pending(t, r)' = Pending(t, r) \union says
        /\ Goings(t, r)' = {p \in PublishSteps : p.room = r /\ Has(steps, p)}
    BY <1>3 DEF TakenUp
  <2>2. /\ \A v \in says : v = LightsOn(None, "Circadian") /\ rooms[r].lightsOn
        /\ \A p \in Goings(t, r)' : \/ p = NightGoing(r) /\ (rooms[r].lightsOn \/ s.user)
                                    \/ p = DayGoing(r) /\ rooms[r].lightsOn
    BY <1>1, <1>10, <2>1
  <2>3. ~rooms[r].lightsOn => /\ Pending(t, r)' = Pending(t, r)
                              /\ Goings(t, r)' \subseteq {NightGoing(r)}
                              /\ ~s.user => Goings(t, r)' = {}
    BY <2>1, <2>2
  <2>4. LightsOn(None, "Circadian") \in SwitchUpdates
    BY DEF SwitchUpdates
  <2>5. Voices(r)'
    <3>1. \A u \in Tasks : u # t => Pending(u, r)' = Pending(u, r) /\ Goings(u, r)' = Goings(u, r)
      BY <1>7 DEF Leaves
    <3>2. Pending(t, r)' \subseteq SwitchUpdates /\ Goings(t, r)' \subseteq {NightGoing(r), DayGoing(r)}
      BY <1>0, <2>1, <2>2, <2>4 DEF Voices
    <3> QED BY <1>0, <3>1, <3>2, NightTasks DEF Voices
  <2> HIDE DEF says
  <2>6. ASSUME Sure(r) PROVE Sure(r)'
    <3>1. ~Away(t, r)
      BY <1>1, <1>10 DEF Away, Switching
    <3>2. ASSUME NEW u \in Tasks, u # t, Away(u, r) PROVE Away(u, r)'
      BY <1>0, <1>2, <1>5, <1>7, <1>8, <3>2, OthersAway
    <3>3. LitKinds' = LitKinds
      BY DEF LitKinds
    <3>4. t = "night" /\ LeavesDark(r) => LeavesDark(r)'
      <4> SUFFICES ASSUME t = "night", LeavesDark(r) PROVE LeavesDark(r)'
        OBVIOUS
      <4>1. ~rooms[r].lightsOn /\ ~s.user
        BY <1>0, <1>1 DEF LeavesDark, OwnSwitches
      <4> QED BY <1>2, <2>3, <3>3, <4>1 DEF LeavesDark
    <3>5. LoopOnly(r)' /\ ScheduleOnly(r)' /\ Free("mqtt", r)
      BY <1>0, <1>2, <2>6, <3>1, <3>2, <3>4, WorksOn
    <3>6. KnownOff(r) => KnownOff(r)'
      <4> SUFFICES ASSUME KnownOff(r) PROVE KnownOff(r)'
        OBVIOUS
      <4>1. OffIsSaid(r)'
        BY <1>0, <1>2, <1>7, NightTasks, OffIsKept
      <4>2. ~rooms[r].lightsOn
        BY <1>0, <3>5, KnownOffShows
      <4>3. \A v \in Pending(t, r)' : v.update \notin LitKinds
        BY <1>0, <2>3, <4>2 DEF KnownOff
      <4>4. DayGoing(r) \notin Goings(t, r)'
        <5>1. DayGoing(r) # NightGoing(r)
          <6>1. DayGoing(r).level = "circadian" /\ NightGoing(r).level = "night"
            BY GoingSays
          <6> QED BY <6>1
        <5> QED BY <2>3, <4>2, <5>1
      <4> QED BY <1>0, <1>2, <1>7, <4>1, <4>3, <4>4, StillOff DEF KnownOff
    <3>7. FollowsLights(r)' /\ LastIsTrue(r)'
      BY <1>2, <2>6, <3>6 DEF Sure, FollowsLights, LightsUp, Reported, LastIsTrue, Reporting, Showing
    <3> QED BY <3>5, <3>7 DEF Sure
  <2> QED BY <1>0, <1>2, <2>5, <2>6 DEF Kept
<1> QED BY <1>6, <1>9, <1>10 DEF DarkInv

\* A user switches rooms.
LEMMA PressKept ==
  ASSUME NightTypeOK, NEW p \in Presses, NEW rs \in SUBSET Rooms, NEW active \in BOOLEAN, Press(p, rs, active),
         DarkInv
  PROVE  DarkInv'
<1> DEFINE pass == {Switch(o, active, TRUE) : o \in rs}
<1>0. NightVarsOK /\ p \in Switchers /\ p # "night" /\ NothingOff /\ OwnSwitches /\ \A r \in Rooms : Kept(r)
  BY NightParts, NightTasks DEF DarkInv
<1>1. /\ agenda' = [agenda EXCEPT ![p] = << pass >>]
      /\ UNCHANGED <<rooms, bulb, rx, todo, reports, outq, cycle, switching>>
  BY DEF Press, daemon, shared, world
<1>2. \A r \in Rooms : ~raced'[r] => ~raced[r] /\ (r \in rs => Settled(r))
  BY <1>0, OverlapKeeps DEF Press, NightVarsOK
<1>3. \A s \in pass : s.room \in rs
  BY DEF Switch
<1>4. agenda'[p] = << pass >> /\ \A t \in Switchers : t # p => agenda'[t] = agenda[t]
  <2> HIDE DEF pass
  <2> QED BY <1>0, <1>1 DEF NightVarsOK
<1> HIDE DEF pass
<1>5. ASSUME NEW t \in Switchers, NEW s, Listed(t, s)'
      PROVE  Listed(t, s) \/ (t = p /\ s \in pass)
  <2>1. CASE t = p
    <3>1. \E i \in 1..Len(<< pass >>) : s \in << pass >>[i]
      BY <1>4, <1>5, <2>1 DEF Listed
    <3> QED BY <2>1, <3>1
  <2>2. CASE t # p
    BY <1>4, <1>5, <2>2 DEF Listed
  <2> QED BY <2>1, <2>2
<1>6. NothingOff' /\ OwnSwitches'
  <2>1. \A s : Listed("night", s)' => Listed("night", s)
    BY <1>0, <1>5, NightTasks
  <2> QED BY <1>0, <1>1, <2>1 DEF NothingOff, OwnSwitches
<1>7. ASSUME NEW r \in Rooms PROVE Kept(r)'
  <2>1. CASE r \in rs
    BY <1>0, <1>1, <1>2, <1>4, <2>1, ListingKept
  <2>2. CASE r \notin rs
    <3>1. \A t \in Switchers : \A s \in Switches : s.room = r /\ Listed(t, s)' => Listed(t, s)
      BY <1>3, <1>5, <2>2
    <3>2. \A t \in Switchers : Switching(t, r)' => Switching(t, r)
      BY <1>1 DEF Switching
    <3> QED BY <1>0, <1>1, <1>2, <3>1, <3>2, Untouched
  <2> QED BY <2>1, <2>2
<1> QED BY <1>6, <1>7 DEF DarkInv

\* The scheduler makes its plan.
LEMMA CheckKept ==
  ASSUME NightTypeOK, CheckSchedules, DarkInv
  PROVE  DarkInv'
<1>0. NightVarsOK /\ RecordOK /\ NothingOff /\ OwnSwitches /\ \A r \in Rooms : Kept(r)
  BY NightParts, TypeParts DEF DarkInv
<1>1. /\ agenda' = [agenda EXCEPT !["night"] = Passes]
      /\ UNCHANGED <<rooms, bulb, rx, todo, reports, outq, cycle, switching>>
  BY DEF CheckSchedules, daemon, shared, world
<1>2. \A r \in Rooms : ~raced'[r] =>
        /\ ~raced[r]
        /\ (\E i \in 1..Len(Passes) : \E s \in Passes[i] : s.room = r) => Settled(r)
  BY <1>0, OverlapKeeps DEF CheckSchedules, NightVarsOK
<1>3. \A x : (\E i \in 1..Len(Passes) : x \in Passes[i]) => ~x.user
  BY <1>0, PassesType
<1>4. agenda'["night"] = Passes /\ \A t \in Switchers : t # "night" => agenda'[t] = agenda[t]
  BY <1>0, <1>1, NightTasks DEF NightVarsOK
<1>5. \A x : Listed("night", x)' <=> \E i \in 1..Len(Passes) : x \in Passes[i]
  BY <1>4 DEF Listed
<1>6. NothingOff' /\ OwnSwitches'
  BY <1>0, <1>1, <1>3, <1>5 DEF NothingOff, OwnSwitches
<1>7. ASSUME NEW r \in Rooms PROVE Kept(r)'
  <2>1. CASE \E i \in 1..Len(Passes) : \E s \in Passes[i] : s.room = r
    BY <1>0, <1>1, <1>2, <1>4, <2>1, ListingKept, NightTasks
  <2>2. CASE ~ \E i \in 1..Len(Passes) : \E s \in Passes[i] : s.room = r
    <3>1. \A t \in Switchers : \A s \in Switches : s.room = r /\ Listed(t, s)' => Listed(t, s)
      <4> TAKE t \in Switchers
      <4>1. CASE t = "night"
        BY <1>5, <2>2, <4>1
      <4>2. CASE t # "night"
        BY <1>4, <4>2 DEF Listed
      <4> QED BY <4>1, <4>2
    <3>2. \A t \in Switchers : Switching(t, r)' => Switching(t, r)
      BY <1>1 DEF Switching
    <3> QED BY <1>0, <1>1, <1>2, <3>1, <3>2, Untouched
  <2> QED BY <2>1, <2>2
<1> QED BY <1>6, <1>7 DEF DarkInv

-----------------------------------------------------------------------------
(* The engine.                                                              *)

\* A cycle begins.
LEMMA BeginsKept ==
  ASSUME NightTypeOK, BeginsCycle, DarkInv
  PROVE  DarkInv'
<1>0. /\ QueuesOK /\ EngineTypeOK /\ NightVarsOK
      /\ NothingOff /\ OwnSwitches /\ \A r \in Rooms : Kept(r) /\ Voices(r)
  BY NightParts, TypeParts DEF DarkInv, Kept
<1>1. /\ UNCHANGED <<rooms, bulb, rx, todo, outq, reports, switching, agenda>>
      /\ cycle.left = {} /\ BeginCycle
  BY DEF BeginsCycle, CycleTick, HandleMqttConnected, EngineTakes, EngineIdle, daemon, shared, world, NoNight
<1>2. NothingOff' /\ OwnSwitches'
  BY <1>0, <1>1, RestStays
<1>3. \A r \in Rooms : ~raced'[r] =>
        /\ ~raced[r]
        /\ r \in Lit /\ connected => ~AnySwitches(r) /\ ~Busy("mqtt", r)
  BY <1>0, OverlapKeeps DEF BeginsCycle, NightVarsOK
<1>4. \A t, r : Pending(t, r)' = Pending(t, r) /\ Goings(t, r)' = Goings(t, r)
  BY <1>1 DEF Pending, Goings
<1>5. /\ \A t, s : Listed(t, s)' <=> Listed(t, s)
      /\ \A t, r : Switching(t, r)' <=> Switching(t, r)
  BY <1>1 DEF Listed, Switching
<1>6. \A r : r \in cycle'.left => r \in Lit /\ connected
  BY <1>1 DEF BeginCycle
<1>7. ASSUME NEW r \in Rooms PROVE Kept(r)'
  <2>1. CASE r \notin cycle'.left
    BY <1>0, <1>1, <1>3, <1>5, <2>1, Untouched
  <2>2. CASE r \in cycle'.left
    <3>1. rooms[r].lightsOn
      BY <1>6, <2>2 DEF Lit
    <3>2. Voices(r)'
      BY <1>0, <1>4, VoicesStay
    <3>3. ASSUME ~raced'[r] PROVE Sure(r)'
      <4>1. Sure(r)
        BY <1>0, <1>3, <3>3 DEF Kept
      <4>2. ~AnySwitches(r) /\ ~Busy("mqtt", r)
        BY <1>3, <1>6, <2>2, <3>3
      <4>3. Free("mqtt", r) /\ Away("night", r)
        BY <4>2, HoldsNot, NightTasks DEF AnySwitches, Away
      <4>4. Free("mqtt", r)' /\ Away("night", r)'
        <5>1. Free("mqtt", r)' /\ Free("night", r)'
          BY <1>4, <4>3 DEF Free, Away
        <5>2. "night" # "circadian"
          OBVIOUS
        <5> QED BY <1>5, <4>3, <5>1, <5>2, NightTasks, AwayStays DEF Away
      <4>5. LoopOnly(r)' /\ ScheduleOnly(r)'
        BY <4>4 DEF LoopOnly, ScheduleOnly
      <4>6. ~KnownOff(r)
        BY <1>0, <3>1, <4>3, KnownOffShows
      <4>7. FollowsLights(r)' /\ LastIsTrue(r)'
        BY <1>1, <4>1, <4>6 DEF Sure, FollowsLights, LightsUp, Reported, LastIsTrue, Reporting, Showing
      <4> QED BY <4>5, <4>7 DEF Sure
    <3> QED BY <3>2, <3>3 DEF Kept
  <2> QED BY <2>1, <2>2
<1> QED BY <1>2, <1>7 DEF DarkInv

\* The cycle comes to a room.
LEMMA CycleKept ==
  ASSUME NightTypeOK, NEW o \in Rooms, CyclesRoom(o), DarkInv
  PROVE  DarkInv'
<1> DEFINE steps == RoomSteps(o, cycle.view[o])
<1>0. /\ QueuesOK /\ EngineTypeOK
      /\ NothingOff /\ OwnSwitches /\ \A r \in Rooms : Kept(r) /\ Voices(r)
  BY NightParts, TypeParts DEF DarkInv, Kept
<1>1. /\ todo["circadian"] = <<>> /\ todo' = [todo EXCEPT !["circadian"] = steps]
      /\ o \in cycle.left
      /\ UNCHANGED <<rooms, bulb, rx, link, outq, reports, switching, agenda, raced>>
  BY DEF CyclesRoom, CycleRoom, shared, world, night
<1>2. NothingOff' /\ OwnSwitches'
  BY <1>0, <1>1, RestStays
<1>3. \A r : r \in cycle'.left => r \in cycle.left
  <2>1. cycle' = IF cycle.left = {o} THEN [left |-> {}, view |-> NoView]
                 ELSE [cycle EXCEPT !.left = cycle.left \ {o}]
    BY DEF CyclesRoom, CycleRoom
  <2> QED BY <1>0, <2>1 DEF EngineTypeOK
<1>4. \A e : Has(steps, e) => e = CycleGoing(o) \/ \E u \in CycleUpdates : e = Send(o, u)
  BY CycleSays
<1>5. CycleGoing(o).do = "publish" /\ CycleGoing(o).room = o
  BY DEF CycleGoing, Publish
<1>6. /\ \A t, s : Listed(t, s)' <=> Listed(t, s)
      /\ \A t, r : Switching(t, r)' <=> Switching(t, r)
  BY <1>1 DEF Listed, Switching
<1> HIDE DEF steps
<1>7. \A r \in Rooms : TakenUp("circadian", steps, r)
  BY <1>0, <1>1, TookUp, NightTasks
<1>8. \A u \in Tasks, r \in Rooms : u # "circadian" => Leaves(u, r) /\ todo'[u] = todo[u]
  BY <1>7 DEF TakenUp
<1>9. ASSUME NEW r \in Rooms, r # o PROVE Kept(r)'
  <2>1. Leaves("circadian", r)
    <3>1. \A e : Has(steps, e) => e.room # r
      BY <1>4, <1>5, <1>9 DEF Send
    <3> QED BY <1>7, <3>1 DEF TakenUp
  <2>2. \A u \in Tasks : Pending(u, r)' \subseteq Pending(u, r) /\ Goings(u, r)' \subseteq Goings(u, r)
    BY <1>8, <2>1 DEF Leaves
  <2>3. KnownOff(r) => OffIsSaid(r)'
    BY <1>1, <1>8, NightTasks, OffIsKept
  <2>4. /\ LightsUp(r) => LightsUp(r)'
        /\ Reported(r) => Reported(r)'
        /\ LastIsTrue(r) => LastIsTrue(r)'
        /\ LeavesDark(r) => ~rooms'[r].lightsOn
    BY <1>1 DEF LightsUp, Reported, LastIsTrue, Reporting, Showing, LeavesDark
  <2> QED BY <1>0, <1>1, <1>3, <1>6, <2>2, <2>3, <2>4, QuietStays
<1>10. Kept(o)'
  <2> DEFINE says == {u \in Updates : Has(steps, Send(o, u))}
  <2>1. /\ Pending("circadian", o)' = Pending("circadian", o) \union says
        /\ Goings("circadian", o)' = {p \in PublishSteps : p.room = o /\ Has(steps, p)}
    BY <1>7 DEF TakenUp
  <2>2. Goings("circadian", o)' \subseteq {CycleGoing(o)}
    <3>1. \A p \in PublishSteps : \A u : p # Send(o, u)
      BY PublishFields DEF Send
    <3> QED BY <1>4, <2>1, <3>1
  <2>3. says \subseteq CycleUpdates
    <3>1. \A u, v : Send(o, u) = Send(o, v) => u = v
      BY DEF Send
    <3>2. \A u : Send(o, u) # CycleGoing(o)
      BY <1>5 DEF Send
    <3> QED BY <1>4, <3>1, <3>2
  <2> HIDE DEF says
  <2>4. Voices(o)'
    <3>1. \A u \in Tasks : u # "circadian" => Pending(u, o)' = Pending(u, o) /\ Goings(u, o)' = Goings(u, o)
      BY <1>8 DEF Leaves
    <3> QED BY <1>0, <2>1, <2>2, <2>3, <3>1, NightTasks DEF Voices
  <2>5. ASSUME Sure(o) PROVE Sure(o)'
    <3>1. ~Away("circadian", o)
      BY <1>1 DEF Away
    <3>2. ASSUME NEW u \in Tasks, u # "circadian", Away(u, o) PROVE Away(u, o)'
      BY <1>6, <1>8, <3>2, OthersAway, NightTasks
    <3>3. LoopOnly(o)' /\ ScheduleOnly(o)'
      BY <2>5, <3>1, <3>2, WorksOn, NightTasks
    <3>4. ~KnownOff(o)
      BY <1>1 DEF KnownOff
    <3>5. FollowsLights(o)' /\ LastIsTrue(o)'
      BY <1>1, <2>5, <3>4 DEF Sure, FollowsLights, LightsUp, Reported, LastIsTrue, Reporting, Showing
    <3> QED BY <3>3, <3>5 DEF Sure
  <2> QED BY <1>0, <1>1, <2>4, <2>5 DEF Kept
<1> QED BY <1>2, <1>9, <1>10 DEF DarkInv

-----------------------------------------------------------------------------
(* The loop, and what happens outside.                                      *)

\* What the loop makes of a report.
LEMMA ReportTells ==
  ASSUME NEW m \in Report, NEW room, NEW external
  PROVE  /\ \A e : Has(ReportSteps(m, room, external), e) =>
              \E u : e = Send(m.room, u) /\ u.update \in {"LightsOn", "LightsOff", "ExternalChange"}
         /\ ~m.on => ReportSteps(m, room, external) = << Send(m.room, LightsOff) >>
<1>1. CASE m.on
  <2>1. \A e : Has(ReportSteps(m, room, external), e) =>
          \E u : e = Send(m.room, u) /\ u.update \in {"LightsOn", "ExternalChange"}
    BY <1>1, ReportSays
  <2> QED BY <1>1, <2>1
<1>2. CASE ~m.on
  <2> DEFINE off == Send(m.room, LightsOff)
  <2>1. ReportSteps(m, room, external) = << off >>
    BY <1>2 DEF ReportSteps
  <2>2. LightsOff.update = "LightsOff"
    BY DEF LightsOff
  <2>3. \E u : off = Send(m.room, u) /\ u.update \in {"LightsOn", "LightsOff", "ExternalChange"}
    BY <2>2
  <2> HIDE DEF off
  <2>4. \A e : Has(<< off >>, e) <=> e = off
    BY HasShort
  <2>5. \A e : Has(ReportSteps(m, room, external), e) => e = off
    BY <2>1, <2>4
  <2> QED BY <2>1, <2>3, <2>5 DEF off
<1> QED BY <1>1, <1>2

\* One report is told as it is.
LEMMA OneTells ==
  ASSUME NEW e, NEW S, NEW T, NEW fact, e \in S, e \in T
  PROVE  Tells(<< e >>, S, T, fact)
BY DEF Tells, LastIn, NoneIn

\* A report less.
LEMMA ReportLeaves ==
  ASSUME reports \in Seq(Report), reports # <<>>, reports' = Tail(reports), bulb' = bulb, NEW r \in Rooms
  PROVE  /\ LastIsTrue(r) => LastIsTrue(r)'
         /\ Reported(r) => Reported(r)' \/ Head(reports).room = r
         /\ LastIsTrue(r) /\ Head(reports).room = r /\ ~Reported(r)' => Head(reports).on = bulb[r].on
<1> DEFINE m == Head(reports)
<1>0. /\ Len(reports) \in Nat /\ Len(reports') \in Nat /\ Len(reports) = Len(reports') + 1
      /\ m = reports[1] /\ m \in Report
      /\ \A i \in 1..Len(reports') : reports'[i] = reports[i + 1]
  BY HeadTailProperties, LenProperties
<1>1. LastIsTrue(r) => LastIsTrue(r)'
  <2>1. LastIsTrue(r) => Tells(reports, Reporting(r), Showing(r, bulb[r].on), TRUE)
    BY DEF LastIsTrue, Tells
  <2>2. LastIsTrue(r) => Tells(reports', Reporting(r), Showing(r, bulb[r].on), TRUE)
    BY <2>1, TellsTail
  <2> QED BY <2>2 DEF LastIsTrue, Tells, Reporting, Showing
<1> HIDE DEF m
<1>2. ASSUME Reported(r), m.room # r PROVE Reported(r)'
  <2>1. PICK i \in 1..Len(reports) : reports[i].room = r
    BY <1>2 DEF Reported
  <2>2. i - 1 \in 1..Len(reports') /\ reports'[i - 1] = reports[i]
    <3>1. i # 1
      BY <1>0, <1>2, <2>1
    <3>2. i - 1 \in 1..Len(reports') /\ (i - 1) + 1 = i
      BY <1>0, <3>1
    <3> QED BY <1>0, <3>2
  <2> QED BY <2>1, <2>2 DEF Reported
<1>3. ASSUME LastIsTrue(r), m.room = r, ~Reported(r)' PROVE m.on = bulb[r].on
  <2>1. \A j \in (1 + 1)..Len(reports) : reports[j] \notin Reporting(r)
    <3> SUFFICES ASSUME NEW j \in 2..Len(reports), reports[j].room = r PROVE FALSE
      BY DEF Reporting
    <3>1. j - 1 \in 1..Len(reports') /\ (j - 1) + 1 = j
      BY <1>0
    <3> QED BY <1>0, <1>3, <3>1 DEF Reported
  <2>2. 1 \in 1..Len(reports) /\ reports[1] \in Reporting(r)
    BY <1>0, <1>3 DEF Reporting
  <2>3. reports[1] \in Showing(r, bulb[r].on)
    BY <1>3, <2>1, <2>2 DEF LastIsTrue, LastIn
  <2> QED BY <1>0, <2>3 DEF Showing
<1> QED BY <1>1, <1>2, <1>3 DEF m

LEMMA ReadKept ==
  ASSUME NightTypeOK, ReadReport, DarkInv
  PROVE  DarkInv'
<1> DEFINE m == Head(reports)
           o == m.room
           steps == ReportSteps(m, rooms[o], LooksExternal(m, rooms[o]) /\ ~Deduplicated(o))
<1>0. /\ QueuesOK /\ WorldOK /\ NightVarsOK /\ "mqtt" \in Tasks /\ reports \in Seq(Report)
      /\ NothingOff /\ OwnSwitches /\ \A r \in Rooms : Kept(r) /\ Voices(r)
  BY NightParts, TypeParts, NightTasks DEF DarkInv, Kept, WorldOK
<1>1. /\ todo["mqtt"] = <<>> /\ todo' = [todo EXCEPT !["mqtt"] = steps]
      /\ reports # <<>> /\ reports' = Tail(reports)
      /\ UNCHANGED <<rooms, bulb, rx, outq, cycle, switching, agenda>>
  BY DEF ReadReport, HandleReport, LoopIdle, LoopDoes, NoNight, shared
<1>2. NothingOff' /\ OwnSwitches'
  BY <1>0, <1>1, RestStays
<1>3. m \in Report /\ o \in Rooms
  <2>1. m \in Report
    BY <1>0, <1>1, HeadTailProperties
  <2> QED BY <2>1 DEF Report
<1>4. /\ \A e : Has(steps, e) =>
           \E u : e = Send(o, u) /\ u.update \in {"LightsOn", "LightsOff", "ExternalChange"}
      /\ ~m.on => steps = << Send(o, LightsOff) >>
  BY <1>3, ReportTells
<1>5. \A r \in Rooms : ~raced'[r] => ~raced[r] /\ (r = o => ~EngineBusy(r) /\ ~AnySwitches(r))
  BY <1>0, <1>3, OverlapKeeps DEF ReadReport, NightVarsOK
<1>6. /\ \A t, s : Listed(t, s)' <=> Listed(t, s)
      /\ \A t, r : Switching(t, r)' <=> Switching(t, r)
  BY <1>1 DEF Listed, Switching
<1>7. todo'["mqtt"] = steps
  BY <1>0, <1>1 DEF QueuesOK
<1>8. \A r \in Rooms : /\ LastIsTrue(r) => LastIsTrue(r)'
                       /\ Reported(r) => Reported(r)' \/ o = r
                       /\ LastIsTrue(r) /\ o = r /\ ~Reported(r)' => m.on = bulb[r].on
  BY <1>0, <1>1, ReportLeaves
<1> HIDE DEF steps, o, m
<1>9. \A r \in Rooms : TakenUp("mqtt", steps, r)
  BY <1>0, <1>1, TookUp
<1>10. \A u \in Tasks, r \in Rooms : u # "mqtt" => Leaves(u, r)
  BY <1>9 DEF TakenUp
<1>11. ASSUME NEW r \in Rooms, r # o PROVE Kept(r)'
  <2>1. Leaves("mqtt", r)
    <3>1. \A e : Has(steps, e) => e.room # r
      BY <1>4, <1>11 DEF Send
    <3> QED BY <1>9, <3>1 DEF TakenUp
  <2>2. \A u \in Tasks : Pending(u, r)' \subseteq Pending(u, r) /\ Goings(u, r)' \subseteq Goings(u, r)
    BY <1>10, <2>1 DEF Leaves
  <2>3. KnownOff(r) => OffIsSaid(r)'
    <3>1. \A e : Has(steps, e) => e \notin SaysLights(r)
      <4>1. \A e \in SaysLights(r) : e.room = r
        BY DEF SaysLights, Send
      <4>2. \A e : Has(steps, e) => e.room # r
        BY <1>4, <1>11 DEF Send
      <4> QED BY <4>1, <4>2
    <3>2. NoneIn(steps, SaysLights(r))
      BY <3>1 DEF NoneIn, Has
    <3>3. KnownOff(r) => OffInQueue(r)
      BY <1>1 DEF KnownOff, OffIsSaid, Tells, NoneIn
    <3>4. OffInQueue(r) => OffInQueue(r)'
      BY <1>1 DEF OffInQueue, TellsLights, TellsOff, LitKinds
    <3>5. SaysLights(r)' = SaysLights(r)
      BY DEF SaysLights, LitKinds
    <3>6. LastIn(steps, SaysLights(r), SaysOff(r)')
      BY <3>2 DEF LastIn, NoneIn
    <3> QED BY <1>7, <3>3, <3>4, <3>5, <3>6 DEF OffIsSaid, Tells
  <2>4. /\ LightsUp(r) => LightsUp(r)'
        /\ Reported(r) => Reported(r)'
        /\ LeavesDark(r) => ~rooms'[r].lightsOn
    BY <1>1, <1>8, <1>11 DEF LightsUp, LeavesDark
  <2> QED BY <1>0, <1>1, <1>5, <1>6, <1>8, <2>2, <2>3, <2>4, QuietStays
<1>12. ASSUME NEW r \in Rooms, r = o PROVE Kept(r)'
  <2> DEFINE says == {u \in Updates : Has(steps, Send(r, u))}
  <2>1. /\ Pending("mqtt", r)' = Pending("mqtt", r) \union says
        /\ Goings("mqtt", r)' = {p \in PublishSteps : p.room = r /\ Has(steps, p)}
    BY <1>9 DEF TakenUp
  <2>2. Goings("mqtt", r)' = {}
    <3>1. \A p \in PublishSteps : ~Has(steps, p)
      BY <1>4, PublishFields DEF Send
    <3> QED BY <2>1, <3>1
  <2>3. \A u \in says : u.update \in {"LightsOn", "LightsOff", "ExternalChange"}
    <3>1. \A u, v : Send(r, u) = Send(o, v) => u = v
      BY DEF Send
    <3> QED BY <1>4, <3>1
  <2> HIDE DEF says
  <2>4. Voices(r)'
    <3>1. \A u \in Tasks : u # "mqtt" => Pending(u, r)' = Pending(u, r) /\ Goings(u, r)' = Goings(u, r)
      BY <1>10 DEF Leaves
    <3> QED BY <1>0, <2>1, <2>2, <2>3, <3>1, NightTasks DEF Voices
  <2>5. ASSUME ~raced'[r] PROVE Sure(r)'
    <3>0. Sure(r) /\ ~EngineBusy(r) /\ ~AnySwitches(r)
      BY <1>0, <1>5, <1>12, <2>5 DEF Kept
    <3>1. \A u \in Tasks : u # "mqtt" => Away(u, r)
      <4>1. \A u \in Switchers : Away(u, r)
        BY <3>0, HoldsNot, NightTasks DEF AnySwitches, Away
      <4>2. Away("circadian", r)
        BY <3>0, HoldsNot, NightTasks DEF EngineBusy, Away
      <4> QED BY <4>1, <4>2, NightTasks
    <3>2. ASSUME NEW u \in Tasks, u # "mqtt" PROVE Away(u, r)'
      BY <1>0, <1>1, <1>6, <1>10, <3>1, <3>2, OthersAway
    <3>3. LoopOnly(r)' /\ ScheduleOnly(r)'
      BY <3>2, NightTasks DEF LoopOnly, ScheduleOnly, Only
    <3>4. ~m.on => KnownOff(r)'
      <4> SUFFICES ASSUME ~m.on PROVE KnownOff(r)'
        OBVIOUS
      <4>1. OffIsSaid(r)'
        <5>1. LightsOff \in Updates /\ LightsOff.update = "LightsOff"
          BY UpdateTypes DEF LightsOff
        <5>2. Send(r, LightsOff) \in SaysLights(r)' /\ Send(r, LightsOff) \in SaysOff(r)'
          BY <5>1 DEF SaysLights, SaysOff, Send, LightsOff
        <5> DEFINE e == Send(r, LightsOff)
                   S == SaysLights(r)'
                   T == SaysOff(r)'
                   fact == OffInQueue(r)'
        <5>3. todo'["mqtt"] = << e >>
          BY <1>4, <1>7, <1>12
        <5> HIDE DEF e, S, T, fact
        <5>4. Tells(<< e >>, S, T, fact)
          BY <5>2, OneTells DEF e, S, T
        <5> QED BY <5>3, <5>4 DEF OffIsSaid, S, T, fact
      <4>2. \A u \in Tasks : u # "mqtt" => Free(u, r)'
        BY <3>2 DEF Away
      <4>3. r \notin cycle'.left
        <5>1. "circadian" # "mqtt"
          OBVIOUS
        <5> QED BY <3>2, <5>1, NightTasks DEF Away
      <4>4. Goings("circadian", r)' = {}
        <5>1. "circadian" # "mqtt"
          OBVIOUS
        <5> QED BY <4>2, <5>1, NightTasks DEF Free
      <4>5. \A u \in Tasks : u # "mqtt" => Pending(u, r)' = {}
        BY <4>2 DEF Free
      <4>6. \A u \in Switchers : Goings(u, r)' = {}
        BY <4>2, NightTasks DEF Free
      <4> QED BY <4>1, <4>3, <4>4, <4>5, <4>6 DEF KnownOff
    <3>5. FollowsLights(r)'
      <4>1. LightsUp(r) => LightsUp(r)'
        BY <1>1 DEF LightsUp
      <4>2. bulb[r].on \/ Reported(r)' \/ ~m.on
        BY <1>8, <1>12, <3>0 DEF Sure
      <4> QED BY <1>1, <3>4, <4>1, <4>2 DEF FollowsLights
    <3> QED BY <1>8, <3>0, <3>3, <3>5 DEF Sure
  <2> QED BY <2>4, <2>5 DEF Kept
<1> QED BY <1>2, <1>11, <1>12 DEF DarkInv

\* The loop learns of the connection.
LEMMA LinkHeardKept ==
  ASSUME NightTypeOK, PollError \/ ConnAck, UNCHANGED <<cycle, night>>, DarkInv
  PROVE  DarkInv'
<1>0. /\ QueuesOK /\ "mqtt" \in Tasks /\ \A r \in Rooms : Kept(r)
      /\ UNCHANGED <<rooms, bulb, rx, reports, outq, cycle, switching, agenda, raced>>
  BY NightParts, TypeParts, NightTasks DEF DarkInv, PollError, ConnAck, shared, night
<1>1. NothingOff' /\ OwnSwitches'
  BY <1>0, RestStays DEF DarkInv
<1>2. PICK steps : /\ todo["mqtt"] = <<>> /\ todo' = [todo EXCEPT !["mqtt"] = steps]
                   /\ \A e : Has(steps, e) => e.do \in {"announce", "connected"}
  <2>1. Announce(MqttConnected).do = "announce" /\ \A up : SendConnected(up).do = "connected"
    BY DEF Announce, SendConnected
  <2>2. CASE PollError
    <3>1. \A e : Has(<< SendConnected(FALSE) >>, e) => e = SendConnected(FALSE)
      BY HasShort
    <3> QED BY <2>1, <2>2, <3>1 DEF PollError, LoopIdle, LoopDoes
  <2>3. CASE ConnAck
    <3>1. \A e : Has(<< Announce(MqttConnected), SendConnected(TRUE) >>, e) =>
                   e \in {Announce(MqttConnected), SendConnected(TRUE)}
      BY HasShort
    <3> QED BY <2>1, <2>3, <3>1 DEF ConnAck, LoopIdle, LoopDoes
  <2> QED BY <1>0, <2>2, <2>3
<1>3. todo'["mqtt"] = steps
  BY <1>0, <1>2 DEF QueuesOK
<1>4. ASSUME NEW r \in Rooms PROVE Kept(r)'
  <2>1. TakenUp("mqtt", steps, r)
    BY <1>0, <1>2, TookUp
  <2>2. \A e : Has(steps, e) => e \notin PublishSteps /\ \A u : e # Send(r, u)
    BY <1>2, PublishFields DEF Send
  <2>3. \A u \in Tasks : Pending(u, r)' \subseteq Pending(u, r) /\ Goings(u, r)' \subseteq Goings(u, r)
    BY <2>1, <2>2 DEF TakenUp, Leaves
  <2>4. KnownOff(r) => OffIsSaid(r)'
    <3>1. NoneIn(steps, SaysLights(r))
      BY <2>2 DEF NoneIn, Has, SaysLights
    <3>2. KnownOff(r) => OffInQueue(r)
      BY <1>2 DEF KnownOff, OffIsSaid, Tells, NoneIn
    <3>3. OffInQueue(r) => OffInQueue(r)'
      BY <1>0 DEF OffInQueue, TellsLights, TellsOff, LitKinds
    <3>4. SaysLights(r)' = SaysLights(r)
      BY DEF SaysLights, LitKinds
    <3>5. LastIn(steps, SaysLights(r), SaysOff(r)')
      BY <3>1 DEF LastIn, NoneIn
    <3> QED BY <1>3, <3>2, <3>3, <3>4, <3>5 DEF OffIsSaid, Tells
  <2>5. /\ \A t \in Switchers : /\ Switching(t, r)' => Switching(t, r)
                                /\ \A s \in Switches : s.room = r /\ Listed(t, s)' => Listed(t, s)
        /\ LightsUp(r) => LightsUp(r)'
        /\ Reported(r) => Reported(r)'
        /\ LastIsTrue(r) => LastIsTrue(r)'
        /\ LeavesDark(r) => ~rooms'[r].lightsOn
    BY <1>0 DEF Switching, Listed, LightsUp, Reported, LastIsTrue, Reporting, Showing, LeavesDark
  <2> QED BY <1>0, <2>3, <2>4, <2>5, QuietStays
<1> QED BY <1>1, <1>4 DEF DarkInv

\* A command of the backlog reaches the lights.
LEMMA BacklogKept ==
  ASSUME NightTypeOK, DeliverQueued, UNCHANGED <<cycle, night>>, DarkInv
  PROVE  DarkInv'
<1> DEFINE m == Head(outq)
<1>0. /\ WorldOK /\ outq # <<>> /\ outq \in Seq(Outgoing) /\ reports \in Seq(Report)
      /\ NothingOff /\ OwnSwitches /\ \A r \in Rooms : Kept(r)
      /\ Deliver(m) /\ outq' = Tail(outq)
      /\ UNCHANGED <<rooms, rx, todo, cycle, switching, agenda, raced>>
  BY NightParts, TypeParts DEF DarkInv, DeliverQueued, shared, night, WorldOK
<1>1. /\ Len(outq) \in Nat /\ Len(outq') \in Nat /\ Len(outq) = Len(outq') + 1
      /\ m = outq[1] /\ m \in Outgoing
      /\ \A i \in 1..Len(outq') : outq'[i] = outq[i + 1]
  BY <1>0, HeadTailProperties, LenProperties
<1> HIDE DEF m
<1>2. NothingOff'
  <2> SUFFICES ASSUME NEW i \in 1..Len(outq') PROVE outq'[i].power \in {"ON", "keep"}
    BY DEF NothingOff
  <2>1. i + 1 \in 1..Len(outq)
    BY <1>1
  <2> QED BY <1>0, <1>1, <2>1 DEF NothingOff
<1>3. OwnSwitches'
  <2>1. \A s : Listed("night", s)' <=> Listed("night", s)
    BY <1>0 DEF Listed
  <2> QED BY <1>0, <2>1 DEF OwnSwitches
<1>4. m.power \in {"ON", "keep"} /\ m.room \in Rooms
  <2>1. 1 \in 1..Len(outq)
    BY <1>1
  <2> QED BY <1>0, <1>1, <2>1 DEF NothingOff, Outgoing
<1>5. /\ \A r \in Rooms : r # m.room => bulb'[r] = bulb[r]
      /\ \A r \in Rooms : bulb[r].on => bulb'[r].on
      /\ \E e \in Report : reports' = Append(reports, e) /\ e.room = m.room /\ e.on = bulb'[m.room].on
  BY <1>0, <1>1, <1>4, Delivered
<1>6. PICK e \in Report : reports' = Append(reports, e) /\ e.room = m.room /\ e.on = bulb'[m.room].on
  BY <1>5
<1>7. \A r \in Rooms : /\ Reported(r) => Reported(r)'
                       /\ m.room = r => Reported(r)' /\ LastIsTrue(r)'
                       /\ LastIsTrue(r) => LastIsTrue(r)'
  BY <1>0, <1>5, <1>6, ReportJoins
<1>8. \A r \in Rooms, t \in Tasks : Pending(t, r)' = Pending(t, r) /\ Goings(t, r)' = Goings(t, r)
  BY <1>0 DEF Pending, Goings
<1>9. \A r \in Rooms, t \in Switchers : /\ Switching(t, r)' <=> Switching(t, r)
                                        /\ \A s \in Switches : Listed(t, s)' <=> Listed(t, s)
  BY <1>0 DEF Switching, Listed
<1>10. ASSUME NEW r \in Rooms, r = m.room PROVE Kept(r)'
  <2>1. Voices(r)'
    BY <1>0, <1>8, VoicesStay DEF Kept
  <2>2. ASSUME ~raced'[r] PROVE Sure(r)'
    <3>0. Sure(r)
      BY <1>0, <2>2 DEF Kept
    <3>1. \A t \in Tasks : /\ Free(t, r)' <=> Free(t, r)
                           /\ Away(t, r)' <=> Away(t, r)
      BY <1>0, <1>8, <1>9 DEF Free, Away
    <3>2. LoopOnly(r)'
      BY <3>0, <3>1, NightTasks DEF Sure, LoopOnly, Only
    <3>3. LeavesDark(r) => LeavesDark(r)'
      BY <1>0, <1>8, NightTasks DEF LeavesDark, LitKinds
    <3>4. ScheduleOnly(r)'
      BY <1>5, <3>0, <3>1, <3>3, NightTasks DEF Sure, ScheduleOnly, Only
    <3> QED BY <1>7, <1>10, <3>2, <3>4 DEF Sure, FollowsLights
  <2> QED BY <2>1, <2>2 DEF Kept
<1>11. ASSUME NEW r \in Rooms, r # m.room PROVE Kept(r)'
  <2>1. LightsUp(r) => LightsUp(r)'
    <3> SUFFICES ASSUME NEW i \in 1..Len(outq), outq[i].room = r /\ outq[i].power = "ON" PROVE LightsUp(r)'
      BY DEF LightsUp
    <3>1. i # 1
      BY <1>1, <1>11
    <3>2. i - 1 \in 1..Len(outq') /\ (i - 1) + 1 = i
      BY <1>1, <3>1
    <3>3. outq'[i - 1] = outq[i]
      BY <1>1, <3>2
    <3> QED BY <3>2, <3>3 DEF LightsUp
  <2>2. KnownOff(r) => OffIsSaid(r)'
    BY <1>0, OffIsKept
  <2>3. LeavesDark(r) => ~rooms'[r].lightsOn
    BY <1>0 DEF LeavesDark
  <2>4. bulb'[r].on = bulb[r].on
    BY <1>5, <1>11
  <2> QED BY <1>0, <1>7, <1>8, <1>9, <2>1, <2>2, <2>3, <2>4, QuietStays
<1> QED BY <1>2, <1>3, <1>10, <1>11 DEF DarkInv

\* A light is switched by hand.
LEMMA TouchKept ==
  ASSUME NightTypeOK, NEW o \in Rooms, Touch(o), DarkInv
  PROVE  DarkInv'
<1>0. /\ NightVarsOK /\ WorldOK /\ reports \in Seq(Report) /\ bulb \in [Rooms -> Bulb]
      /\ \A r \in Rooms : Kept(r)
      /\ UNCHANGED <<rooms, rx, todo, outq, cycle, switching, agenda>>
  BY NightParts, TypeParts DEF DarkInv, Touch, TouchLight, NoNight, shared, WorldOK
<1>1. NothingOff' /\ OwnSwitches'
  BY <1>0, RestStays DEF DarkInv
<1>2. PICK b \in {[bulb[o] EXCEPT !.on = FALSE, !.ramp = "none"],
                  [on |-> TRUE, level |-> "external", ramp |-> "none"]} :
        /\ bulb' = [bulb EXCEPT ![o] = b]
        /\ reports' = IF link # "up" THEN reports
                      ELSE Append(reports, [room |-> o, on |-> b.on, level |-> b.level])
  BY DEF Touch, TouchLight
<1>3. \A r \in Rooms : ~raced'[r] => ~raced[r] /\ (r = o => link = "up" /\ ~EngineBusy(r) /\ ~AnySwitches(r))
  BY <1>0, OverlapKeeps DEF Touch, NightVarsOK
<1> DEFINE e == [room |-> o, on |-> b.on, level |-> b.level]
<1>4. b \in Bulb /\ e \in Report /\ e.room = o /\ e.on = b.on
  <2>1. b \in Bulb
    <3>1. bulb' \in [Rooms -> Bulb]
      <4>1. NightTypeOK'
        <5>1. Next
          BY DEF Next
        <5> QED BY <5>1, NightNextType
      <4> QED BY <4>1, NightParts, TypeParts DEF WorldOK
    <3>2. bulb'[o] = b
      BY <1>0, <1>2
    <3> QED BY <3>1, <3>2
  <2> QED BY <2>1 DEF Report, Bulb
<1>5. bulb'[o] = b /\ \A r \in Rooms : r # o => bulb'[r] = bulb[r]
  <2> HIDE DEF e
  <2> QED BY <1>0, <1>2
<1>6. reports' = IF link # "up" THEN reports ELSE Append(reports, e)
  BY <1>2
<1> HIDE DEF e
<1>7. ASSUME NEW r \in Rooms
      PROVE  /\ Reported(r) => Reported(r)'
             /\ link = "up" /\ r = o => Reported(r)' /\ LastIsTrue(r)'
             /\ r # o /\ LastIsTrue(r) => LastIsTrue(r)'
  <2>1. CASE link = "up"
    <3>1. reports' = Append(reports, e)
      BY <1>6, <2>1
    <3>2. r # e.room => bulb'[r].on = bulb[r].on
      BY <1>4, <1>5
    <3> QED BY <1>0, <1>4, <1>5, <3>1, <3>2, ReportJoins
  <2>2. CASE link # "up"
    BY <1>5, <1>6, <2>2 DEF Reported, LastIsTrue, Reporting, Showing
  <2> QED BY <2>1, <2>2
<1>8. \A r \in Rooms, t \in Tasks : Pending(t, r)' = Pending(t, r) /\ Goings(t, r)' = Goings(t, r)
  BY <1>0 DEF Pending, Goings
<1>9. \A r \in Rooms, t \in Switchers : /\ Switching(t, r)' <=> Switching(t, r)
                                        /\ \A s \in Switches : Listed(t, s)' <=> Listed(t, s)
  BY <1>0 DEF Switching, Listed
<1>10. ASSUME NEW r \in Rooms, r = o PROVE Kept(r)'
  <2>1. Voices(r)'
    BY <1>0, <1>8, VoicesStay DEF Kept
  <2>2. ASSUME ~raced'[r] PROVE Sure(r)'
    <3>0. Sure(r) /\ link = "up" /\ ~EngineBusy(r) /\ ~AnySwitches(r)
      BY <1>0, <1>3, <1>10, <2>2 DEF Kept
    <3>1. \A u \in Tasks : u # "mqtt" => Away(u, r)
      <4>1. \A u \in Switchers : Away(u, r)
        BY <3>0, HoldsNot, NightTasks DEF AnySwitches, Away
      <4>2. Away("circadian", r)
        BY <3>0, HoldsNot, NightTasks DEF EngineBusy, Away
      <4> QED BY <4>1, <4>2, NightTasks
    <3>2. \A u \in Tasks : Away(u, r)' <=> Away(u, r)
      BY <1>0, <1>8, <1>9 DEF Free, Away
    <3>3. LoopOnly(r)' /\ ScheduleOnly(r)'
      BY <3>1, <3>2, NightTasks DEF LoopOnly, ScheduleOnly, Only
    <3> QED BY <1>7, <1>10, <3>0, <3>3 DEF Sure, FollowsLights
  <2> QED BY <2>1, <2>2 DEF Kept
<1>11. ASSUME NEW r \in Rooms, r # o PROVE Kept(r)'
  <2>1. LightsUp(r) => LightsUp(r)'
    BY <1>0 DEF LightsUp
  <2>2. KnownOff(r) => OffIsSaid(r)'
    BY <1>0, OffIsKept
  <2>3. LeavesDark(r) => ~rooms'[r].lightsOn
    BY <1>0 DEF LeavesDark
  <2>4. bulb'[r].on = bulb[r].on
    BY <1>5, <1>11
  <2>5. r \in cycle'.left => r \in cycle.left
    BY <1>0
  <2> QED BY <1>0, <1>3, <1>7, <1>8, <1>9, <1>11, <2>1, <2>2, <2>3, <2>4, <2>5, QuietStays
<1> QED BY <1>1, <1>10, <1>11 DEF DarkInv

\* The connection is lost, with the reports on their way.
LEMMA LostKept ==
  ASSUME NightTypeOK, LinkLost, DarkInv
  PROVE  DarkInv'
<1>0. /\ NightVarsOK /\ \A r \in Rooms : Kept(r)
      /\ reports' = <<>>
      /\ UNCHANGED <<rooms, bulb, rx, todo, outq, cycle, switching, agenda>>
  BY NightParts DEF DarkInv, LinkLost, LoseLink, NoNight, shared
<1>1. NothingOff' /\ OwnSwitches'
  BY <1>0, RestStays DEF DarkInv
<1>2. ASSUME NEW r \in Rooms PROVE Kept(r)'
  <2>1. ~raced'[r] => ~raced[r] /\ ~Reported(r)
    BY <1>0, OverlapKeeps DEF LinkLost, NightVarsOK
  <2>2. \A t \in Tasks : Pending(t, r)' = Pending(t, r) /\ Goings(t, r)' = Goings(t, r)
    BY <1>0 DEF Pending, Goings
  <2>3. \A t \in Switchers : /\ Switching(t, r)' <=> Switching(t, r)
                             /\ \A s \in Switches : Listed(t, s)' <=> Listed(t, s)
    BY <1>0 DEF Switching, Listed
  <2>4. LastIsTrue(r)'
    <3>1. Len(reports') = 0
      BY <1>0
    <3> QED BY <3>1 DEF LastIsTrue, LastIn
  <2>5. KnownOff(r) => OffIsSaid(r)'
    BY <1>0, OffIsKept
  <2>6. /\ LightsUp(r) => LightsUp(r)'
        /\ LeavesDark(r) => ~rooms'[r].lightsOn
    BY <1>0 DEF LightsUp, LeavesDark
  <2> QED BY <1>0, <2>1, <2>2, <2>3, <2>4, <2>5, <2>6, QuietStays
<1> QED BY <1>1, <1>2 DEF DarkInv

-----------------------------------------------------------------------------
(* The invariant.                                                           *)

LEMMA DarkInvInit == Init => DarkInv
<1> SUFFICES ASSUME Init PROVE DarkInv
  OBVIOUS
<1>0. DaemonInit({DarkRoom, LitRoom}) /\ EngineInit
      /\ agenda = [t \in Switchers |-> <<>>] /\ switching = [t \in Switchers |-> None]
  BY DEF Init
<1>1. outq = <<>> /\ reports = <<>> /\ rx = <<>> /\ todo = [t \in Tasks |-> <<>>] /\ cycle.left = {}
  BY <1>0 DEF DaemonInit, EngineInit
<1>2. \A t \in Tasks : \A r : Pending(t, r) = {} /\ Goings(t, r) = {}
  <2>1. \A e : ~Has(<<>>, e)
    BY DEF Has
  <2> QED BY <1>1, <2>1 DEF Pending, Goings
<1>3. "night" \in Switchers /\ "mqtt" \in Tasks /\ Switchers \subseteq Tasks /\ "circadian" \in Tasks
  BY NightTasks
<1>4. \A t \in Switchers : \A s : ~Listed(t, s)
  BY <1>0 DEF Listed
<1>5. OwnSwitches
  BY <1>0, <1>3, <1>4 DEF OwnSwitches
<1>6. NothingOff
  BY <1>1 DEF NothingOff
<1>7. ASSUME NEW r \in Rooms PROVE Kept(r)
  <2>1. Voices(r)
    BY <1>2, <1>3 DEF Voices
  <2>2. \A t \in Tasks : Away(t, r)
    BY <1>0, <1>1, <1>2, <1>4 DEF Away, Free, Switching
  <2>3. LoopOnly(r) /\ ScheduleOnly(r)
    BY <1>3, <2>2 DEF LoopOnly, ScheduleOnly, Only, Away
  <2>4. LastIsTrue(r)
    BY <1>1 DEF LastIsTrue, LastIn
  <2>5. bulb[r].on = rooms[r].lightsOn
    BY <1>0 DEF DaemonInit
  <2>6. ~rooms[r].lightsOn => KnownOff(r)
    <3>1. todo["mqtt"] = <<>>
      BY <1>1, <1>3
    <3>2. ~rooms[r].lightsOn => OffIsSaid(r)
      BY <1>1, <3>1, EmptyTells DEF OffIsSaid, OffInQueue
    <3> QED BY <1>1, <1>2, <1>3, <3>2 DEF KnownOff
  <2>7. rooms[r].lightsOn \in BOOLEAN
    <3>1. NightTypeOK
      BY NightInitType
    <3>2. rooms[r] \in Room
      BY <3>1, NightParts, TypeParts DEF RecordOK
    <3> QED BY <3>2 DEF Room
  <2> QED BY <2>1, <2>3, <2>4, <2>5, <2>6, <2>7 DEF Kept, Sure, FollowsLights
<1> QED BY <1>5, <1>6, <1>7 DEF DarkInv

LEMMA DarkInvStep == NightTypeOK /\ DarkInv /\ [Next]_vars => DarkInv'
<1> SUFFICES ASSUME NightTypeOK, DarkInv, [Next]_vars PROVE DarkInv'
  OBVIOUS
<1>1. CASE UNCHANGED vars \/ HandleNightModeChanged \/ Tick
  <2>1. UNCHANGED <<rooms, bulb, rx, todo, reports, cycle, switching, agenda, raced, outq>>
    BY <1>1 DEF vars, daemon, shared, world, night, HandleNightModeChanged, Tick, PassTime, Elapse
  <2>2. NothingOff' /\ OwnSwitches'
    BY <2>1, RestStays DEF DarkInv
  <2>3. ASSUME NEW r \in Rooms PROVE Kept(r)'
    <3>1. \A t, s : Listed(t, s)' <=> Listed(t, s)
      BY <2>1 DEF Listed
    <3>2. \A t : Switching(t, r)' <=> Switching(t, r)
      BY <2>1 DEF Switching
    <3> QED BY <2>1, <3>1, <3>2, Untouched DEF DarkInv
  <2> QED BY <2>2, <2>3 DEF DarkInv
<1>2. CASE \E t \in Tasks : Step(t)
  BY <1>2, StepKept
<1>3. CASE \E t \in Switchers : NextSwitch(t) \/ Decide(t)
  BY <1>3, NextSwitchKept, DecideKept
<1>4. CASE CheckSchedules
  BY <1>4, CheckKept
<1>5. CASE Actor
  BY <1>5, ActorKept
<1>6. CASE \E r \in Rooms : CyclesRoom(r)
  BY <1>6, CycleKept
<1>7. CASE ReadReport
  BY <1>7, ReadKept
<1>8. CASE BeginsCycle
  BY <1>8, BeginsKept
<1>9. CASE Connection
  BY <1>9, LinkHeardKept, BacklogKept DEF Connection
<1>10. CASE \E p \in Presses, active \in BOOLEAN : Press(p, Rooms, active) \/ \E r \in Rooms : Press(p, {r}, active)
  <2>1. PICK p \in Presses, active \in BOOLEAN, rs \in SUBSET Rooms : Press(p, rs, active)
    BY <1>10
  <2> QED BY <2>1, PressKept
<1>11. CASE \E r \in Rooms : Touch(r)
  BY <1>11, TouchKept
<1>12. CASE LinkLost
  BY <1>12, LostKept
<1> QED BY <1>1, <1>2, <1>3, <1>4, <1>5, <1>6, <1>7, <1>8, <1>9, <1>10, <1>11, <1>12 DEF Next, System

\* What the scheduler is about to publish goes to lights that are on.
LEMMA PublishesToLit ==
  ASSUME NightTypeOK, DarkInv, HeadIs("night", "publish"), NEW r \in Rooms, Head(todo["night"]).room = r,
         ~raced[r]
  PROVE  bulb[r].on
<1> DEFINE p == Head(todo["night"])
<1>1. QueuesOK /\ "night" \in Tasks /\ todo["night"] # <<>> /\ todo["night"] \in Seq(Steps) /\ p.do = "publish"
  BY NightParts, TypeParts, NightTasks DEF HeadIs, QueuesOK
<1>2. p \in PublishSteps
  BY <1>1, HeadStep, StepFields
<1>3. Has(todo["night"], p)
  BY <1>1, HasSeq
<1>4. p \in Goings("night", r)
  BY <1>2, <1>3 DEF Goings
<1>5. ~Away("night", r)
  BY <1>4 DEF Away, Free
<1> QED BY <1>4, <1>5 DEF DarkInv, Kept, Sure, ScheduleOnly, LeavesDark

\* "Scheduled night mode never turns lights on" (README.md), nor does the
\* morning (check_schedules, activate_night_mode, deactivate_night_mode): what
\* the scheduler publishes goes to lights that are on, whatever is switched by
\* hand, queued or lost meanwhile, unless two tasks overlapped on the room.
THEOREM ScheduleNeverLights == Spec => ScheduleKeepsDark
<1>1. Init => NightTypeOK /\ DarkInv
  BY NightInitType, DarkInvInit
<1>2. (NightTypeOK /\ DarkInv) /\ [Next]_vars => (NightTypeOK /\ DarkInv)'
  BY NightNextType, DarkInvStep
<1>3. NightTypeOK /\ DarkInv /\ [Next]_vars =>
        [\A r \in Rooms :
           /\ HeadIs("night", "publish") /\ Head(todo["night"]).room = r
           /\ todo'["night"] # todo["night"]
           /\ ~raced[r]
           => bulb[r].on]_vars
  BY PublishesToLit
<1> QED BY <1>1, <1>2, <1>3, PTL DEF Spec, ScheduleKeepsDark

=============================================================================
