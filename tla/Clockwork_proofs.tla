------------------------ MODULE Clockwork_proofs -------------------------
(***************************************************************************)
(* What the passing of time does, for any house and any configuration that *)
(* passes validation.                                                      *)
(*   No publish sets a light to a value that is not its own: every command *)
(*   still to be sent carries, to each known light it reaches, the light's *)
(*   own value of the target or nothing (IInv).                            *)
(*   Schedules open, and alarms ring and begin to fade in, as written: the *)
(*   arithmetic of days and minutes, with the clock running on (Running).  *)
(*   What is on its way fits and stays within the points of the curve: the *)
(*   arithmetic of the curve and of calibration, carried through the       *)
(*   queues and the engine (SoundInv).                                     *)
(*   Every light gets to its own value: what the engine publishes, and     *)
(*   what the queues hold, make up for what is still missing (OwnInv, on   *)
(*   top of IInv and SoundInv).                                            *)
(***************************************************************************)
EXTENDS Clockwork, WellFoundedInduction, TLAPS

\* a command says nothing to a light but its own value of target t
Says(c, i, t) ==
  \A f \in Fields : c.values[f] # None /\ devices[i][f] => c.values[f] = OwnValue(i, f, t)

Reaches(c, i) == c.to = "group" \/ c.to = i

OwnCommands(steps, t) ==
  \A c \in steps : "to" \in DOMAIN c =>
    \A i \in setup.members \cap setup.known : Reaches(c, i) => Says(c, i, t)

\* what every step preserves
IInv ==
  /\ setup \in Setups
  /\ DOMAIN shown = DOMAIN setup.lights
  /\ \A s \in todo : s = Push(s.push) \/ s = Command(s.to, s.values)
  /\ OwnCommands(todo, target)

-----------------------------------------------------------------------------
(* The plan.                                                                *)

\* Of a field that a known member understands, the group command carries the
\* member's own value or nothing.
LEMMA CarriedIsOwn ==
  ASSUME NEW members, NEW settings, NEW lights, NEW t, NEW f \in Fields,
         NEW i \in members \cap DOMAIN lights, lights[i][f],
         Carried(members, settings, lights, t, f) # None
  PROVE  Carried(members, settings, lights, t, f) = Own(i, f, t, settings, lights[i])
<1> DEFINE values == Values(members, settings, lights, t, f)
<1>1. Own(i, f, t, settings, lights[i]) \in values
  BY DEF Values, Supporting
<1>2. values # {} /\ \A v, w \in values : v = w
  BY <1>1, Zenon DEF Carried
<1>3. Carried(members, settings, lights, t, f) = CHOOSE v \in values : TRUE
  BY <1>2, Zenon DEF Carried
<1> QED
  BY <1>1, <1>2, <1>3

\* Every command of the plan of a group says to the lights it reaches their own.
LEMMA GroupCommandsOwn ==
  ASSUME NEW t, setup.known \subseteq DOMAIN setup.lights, "group" \notin setup.members
  PROVE  /\ \A s \in GroupCommands(t) : s = Command(s.to, s.values)
         /\ OwnCommands(GroupCommands(t), t)
<1> DEFINE plan  == PlanGroupPublish(setup.members, setup.calibration, devices, t)
           group == GroupCommand(setup.members, setup.calibration, devices, t)
<1>1. plan.group = group
  BY DEF PlanGroupPublish
<1>2. ASSUME NEW i \in setup.members \cap setup.known, NEW f \in Fields, devices[i][f],
             group[f] # None
      PROVE  group[f] = OwnValue(i, f, t)
  <2>1. i \in setup.members \cap DOMAIN devices
    BY DEF devices
  <2>2. group[f] = Carried(setup.members, setup.calibration, devices, t, f)
    BY DEF GroupCommand
  <2> QED
    BY <1>2, <2>1, <2>2, CarriedIsOwn DEF OwnValue
<1>3. ASSUME NEW i \in DOMAIN plan.members
      PROVE  /\ i \in setup.members
             /\ \A f \in Fields : plan.members[i][f] # None =>
                  plan.members[i][f] = OwnValue(i, f, t)
  BY <1>3 DEF PlanGroupPublish, MemberCommands, OwnValue
<1>4. \A s \in GroupCommands(t) :
        \/ s = Command("group", group)
        \/ \E i \in DOMAIN plan.members : s = Command(i, plan.members[i])
  BY <1>1 DEF GroupCommands
<1>5. \A s \in GroupCommands(t) : s = Command(s.to, s.values)
  BY <1>4 DEF Command
<1>6. ASSUME NEW c \in GroupCommands(t), NEW i \in setup.members \cap setup.known, Reaches(c, i)
      PROVE  Says(c, i, t)
  <2>1. CASE c = Command("group", group)
    BY <2>1, <1>2 DEF Command, Says
  <2>2. CASE \E j \in DOMAIN plan.members : c = Command(j, plan.members[j])
    <3>1. PICK j \in DOMAIN plan.members : c = Command(j, plan.members[j])
      BY <2>2
    <3>2. j = i
      BY <3>1, <1>3, <1>6 DEF Reaches, Command
    <3> QED
      BY <3>1, <3>2, <1>3 DEF Command, Says
  <2> QED
    BY <2>1, <2>2, <1>4
<1> QED
  BY <1>5, <1>6 DEF OwnCommands

-----------------------------------------------------------------------------
(* The invariant, and what follows from it.                                 *)

\* A setup's members and known lights are lights, and none is called "group".
LEMMA SetupLights ==
  ASSUME setup \in Setups
  PROVE  /\ setup.known \subseteq DOMAIN setup.lights
         /\ "group" \notin setup.members
BY ClockworkAssumption

LEMMA InitEstablishes == Init => IInv
BY DEF Init, IInv, OwnCommands

\* A cycle's commands, whether the room has a group or single lights.
LEMMA CycleKeeps ==
  ASSUME IInv, CycleTick
  PROVE  IInv'
<1>1. setup' = setup /\ shown' = shown
  BY DEF CycleTick, house
<1>2. /\ \A s \in PushRoom(target') : s = Push(s.push) \/ s = Command(s.to, s.values)
      /\ OwnCommands(PushRoom(target'), target')
  <2>1. CASE setup.grouped
    BY <2>1, GroupCommandsOwn, SetupLights DEF IInv, PushRoom
  <2>2. CASE ~setup.grouped
    BY <2>2 DEF PushRoom, Push, OwnCommands
  <2> QED
    BY <2>1, <2>2
<1>3. todo' = PushRoom(target')
  BY DEF CycleTick
<1>4. OwnCommands(todo, target)'
  BY <1>1, <1>2, <1>3 DEF OwnCommands, Says, OwnValue, devices
<1> QED
  BY <1>1, <1>2, <1>3, <1>4 DEF IInv

\* Fewer commands, or a push, for the same lights.
LEMMA OthersKeep ==
  ASSUME IInv, setup' = setup, DOMAIN shown' = DOMAIN shown,
         \/ todo' \subseteq todo /\ target' = target
         \/ \E i : todo' = {Push(i)}
  PROVE  IInv'
<1>1. OwnCommands(todo, target)'
  <2>1. CASE todo' \subseteq todo /\ target' = target
    BY <2>1 DEF IInv, OwnCommands, Says, OwnValue, devices
  <2>2. CASE \E i : todo' = {Push(i)}
    BY <2>2 DEF OwnCommands, Push
  <2> QED
    BY <2>1, <2>2
<1>2. \A s \in todo' : s = Push(s.push) \/ s = Command(s.to, s.values)
  BY DEF IInv, Push
<1> QED
  BY <1>1, <1>2 DEF IInv

\* A delivery leaves every known member as it is or at its own value.
LEMMA PublishOwn ==
  ASSUME IInv, Publish
  PROVE  /\ todo' \subseteq todo /\ UNCHANGED <<setup, target, powered>>
         /\ DOMAIN shown' = DOMAIN shown
         /\ \A i \in setup.members \cap setup.known, f \in Fields :
              shown'[i][f] # shown[i][f] => shown'[i][f] = OwnValue(i, f, target)
<1>1. PICK step \in todo :
        IF "push" \in DOMAIN step THEN PublishPush(step.push) ELSE PublishCommand(step)
  BY DEF Publish
<1>2. \A i \in setup.members \cap setup.known :
        i \in DOMAIN shown /\ devices[i] = setup.lights[i]
  BY SetupLights DEF IInv, devices
<1>3. CASE "push" \in DOMAIN step
  <2> DEFINE j == step.push
             values == [f \in Fields |->
                          IF f = "brightness" \/ devices[j][f] THEN OwnValue(j, f, target) ELSE None]
  <2>1. shown' = shown \/ Deliver({j}, values)
    BY <1>1, <1>3 DEF PublishPush
  <2>2. UNCHANGED <<setup, target, powered>> /\ todo' \subseteq todo
    BY <1>1, <1>3 DEF PublishPush, house
  <2>3. CASE shown' = shown
    BY <2>2, <2>3
  <2>4. CASE Deliver({j}, values)
    BY <2>2, <2>4, <1>2 DEF Deliver
  <2> QED
    BY <2>1, <2>3, <2>4
<1>4. CASE "push" \notin DOMAIN step
  <2>1. step = Command(step.to, step.values) /\ "to" \in DOMAIN step
    BY <1>4 DEF IInv, Push, Command
  <2>2. UNCHANGED <<setup, target, powered>> /\ todo' \subseteq todo
    BY <1>1, <1>4 DEF PublishCommand, house
  <2>3. Deliver(IF step.to = "group" THEN setup.members ELSE {step.to}, step.values)
    BY <1>1, <1>4 DEF PublishCommand
  <2>4. \A i \in setup.members \cap setup.known : Reaches(step, i) => Says(step, i, target)
    BY <2>1 DEF IInv, OwnCommands
  <2> QED
    BY <2>2, <2>3, <2>4, <1>2 DEF Deliver, Reaches, Says
<1> QED
  BY <1>3, <1>4

LEMMA StepKeeps == IInv /\ [Next]_vars => IInv'
<1> SUFFICES ASSUME IInv, [Next]_vars PROVE IInv'
  OBVIOUS
<1>1. CASE CycleTick
  BY <1>1, CycleKeeps
<1>2. CASE LightReturns
  <2>1. setup' = setup /\ shown' = shown
    BY <1>2 DEF LightReturns, house
  <2>2. \/ todo' \subseteq todo /\ target' = target
        \/ \E i : todo' = {Push(i)}
    BY <1>2 DEF LightReturns
  <2> QED
    BY <2>1, <2>2, OthersKeep
<1>3. CASE Publish
  BY <1>3, PublishOwn, OthersKeep
<1>4. CASE \E times \in setup.asks : SetSchedule(times)
  BY <1>4, OthersKeep DEF SetSchedule
<1>5. CASE \E i \in Lights : PowerLost(i)
  BY <1>5, OthersKeep DEF PowerLost
<1>6. CASE \E i \in Lights : PowerBack(i)
  <2>1. PICK i \in Lights : PowerBack(i)
    BY <1>6
  <2> QED
    BY <2>1, OthersKeep DEF PowerBack
<1>7. CASE Applies
  BY <1>7, OthersKeep DEF Applies, house
<1>8. CASE TimePasses
  BY <1>8, OthersKeep DEF TimePasses
<1>9. CASE UNCHANGED vars
  BY <1>9, OthersKeep DEF vars
<1> QED
  BY <1>1, <1>2, <1>3, <1>4, <1>5, <1>6, <1>7, <1>8, <1>9 DEF Next

\* Every command still to be sent carries, to each known light it reaches, the
\* light's own value of the target (calibration.rs:116, publish.rs:121).
THEOREM PlansAreOwn == Spec => []IInv
BY InitEstablishes, StepKeeps, PTL DEF Spec

\* No publish sets a known light to a value that is not its own, in any house
\* and under any configuration (calibration.rs:104-110, publish.rs:115-119).
THEOREM LightsNeverSwing == Spec => NoSwing
<1> DEFINE Own1 == \A i \in setup.members \cap setup.known, f \in Fields :
                    shown'[i][f] # shown[i][f] /\ powered' = powered
                      => shown'[i][f] = OwnValue(i, f, target)
<1>1. IInv /\ [Next]_vars => [Own1]_vars
  <2> SUFFICES ASSUME IInv, Next PROVE Own1 \/ UNCHANGED vars
    OBVIOUS
  <2>1. CASE Publish
    BY <2>1, PublishOwn
  <2>2. CASE \E i \in Lights : PowerBack(i)
    <3>1. powered' # powered
      BY <2>2 DEF PowerBack
    <3> QED
      BY <3>1
  <2>3. CASE shown' = shown
    BY <2>3
  <2>4. \/ Publish \/ \E i \in Lights : PowerBack(i)
        \/ shown' = shown
    BY DEF Next, CycleTick, LightReturns, SetSchedule, PowerLost, Applies, TimePasses
  <2> QED
    BY <2>1, <2>2, <2>3, <2>4
<1> QED
  BY PlansAreOwn, <1>1, PTL DEF Spec, NoSwing

-----------------------------------------------------------------------------
(* The calendar.                                                            *)

LEMMA DayAndMinute ==
  ASSUME NEW t \in Int
  PROVE  /\ Today(t) \in Int /\ Minute(t) \in TimesOfDay
         /\ t = Today(t) * Day + Minute(t)
BY AlarmTimesAssumption DEF Today, Minute, TimesOfDay

\* a moment has one day and one minute
LEMMA DayOf ==
  ASSUME NEW d \in Int, NEW m \in TimesOfDay
  PROVE  Today(d * Day + m) = d /\ Minute(d * Day + m) = m
BY AlarmTimesAssumption DEF Today, Minute, TimesOfDay

\* the days that begin before a moment, and those that end after it
LEMMA DayOrder ==
  ASSUME NEW d \in Int, NEW e \in Int, NEW m \in TimesOfDay, NEW n \in TimesOfDay
  PROVE  /\ d < e => d * Day + m < e * Day + n
         /\ d * Day + m < e * Day + n => d <= e
<1>1. Day \in Nat \ {0} /\ m \in 0..(Day - 1) /\ n \in 0..(Day - 1)
  BY AlarmTimesAssumption DEF TimesOfDay
<1>2. \A x, y \in Int : x < y => x * Day + Day <= y * Day
  <2> SUFFICES ASSUME NEW x \in Int, NEW y \in Int, x < y PROVE (y - x) * Day >= Day
    BY <1>1
  <2>1. y - x \in Nat \ {0}
    OBVIOUS
  <2> QED BY <2>1, <1>1
<1>3. d < e => d * Day + m < e * Day + n
  BY <1>1, <1>2
<1>4. e < d => e * Day + n < d * Day + m
  BY <1>1, <1>2
<1> QED BY <1>1, <1>3, <1>4

-----------------------------------------------------------------------------
(* Schedules.                                                               *)

After(w)  == Or(w.after, 0)
Before(w) == Or(w.before, Day)
Span(w)   == IF After(w) <= Before(w) THEN Before(w) - After(w) ELSE Before(w) + Day - After(w)

\* The times of a window, on the clock and as stretches of time.
LEMMA StretchOfWindow ==
  ASSUME NEW w \in Window(TimesOfDay, 0..6), NEW t \in Nat
  PROVE  InTimes(w, Minute(t)) <=>
           \E d \in {Today(t) - 1, Today(t)} :
             t \in (d * Day + After(w))..(d * Day + After(w) + Span(w) - 1)
<1> DEFINE q == Today(t) * Day
           m == Minute(t)
<1>1. /\ Day \in Nat \ {0} /\ Today(t) \in Int /\ q \in Int /\ m \in 0..(Day - 1) /\ t = q + m
  <2>1. Today(t) \in Int /\ m \in TimesOfDay /\ t = q + m
    BY DayAndMinute
  <2>2. Day \in Nat \ {0}
    BY AlarmTimesAssumption
  <2>3. q \in Int
    BY <2>1, <2>2
  <2> QED BY <2>1, <2>2, <2>3 DEF TimesOfDay
<1>2. (Today(t) - 1) * Day = q - Day
  BY <1>1
<1>3. /\ w.after = None \/ w.after \in 0..(Day - 1)
      /\ w.before = None \/ w.before \in 0..(Day - 1)
  BY DEF Window, TimesOfDay
<1>4. After(w) \in 0..(Day - 1) /\ Before(w) \in 0..Day
  BY <1>1, <1>3 DEF After, Before, Or
<1>5. (\E d \in {Today(t) - 1, Today(t)} :
         t \in (d * Day + After(w))..(d * Day + After(w) + Span(w) - 1))
      <=> \/ q - Day + After(w) <= t /\ t <= q - Day + After(w) + Span(w) - 1
          \/ q + After(w) <= t /\ t <= q + After(w) + Span(w) - 1
  <2>1. Span(w) \in Int
    BY <1>1, <1>4 DEF Span
  <2> HIDE DEF q, m
  <2> QED BY <1>1, <1>2, <1>4, <2>1 DEF q
<1> HIDE DEF q, m
<1>6. CASE After(w) <= Before(w)
  <2>1. InTimes(w, m) <=> After(w) <= m /\ m < Before(w)
    BY <1>1, <1>3, <1>6 DEF InTimes, After, Before, Or
  <2> QED BY <1>1, <1>4, <1>5, <1>6, <2>1 DEF Span, m
<1>7. CASE After(w) > Before(w)
  <2>1. InTimes(w, m) <=> After(w) <= m \/ m < Before(w)
    BY <1>1, <1>3, <1>7 DEF InTimes, After, Before, Or
  <2> QED BY <1>1, <1>4, <1>5, <1>7, <2>1 DEF Span, m
<1> QED BY <1>4, <1>1, <1>6, <1>7

LEMMA WindowIsStretches ==
  ASSUME NEW w \in Window(TimesOfDay, 0..6), NEW t \in Nat
  PROVE  WindowMatches(w, t) <=> t \in Stretches(w, t)
<1> DEFINE stretch(d) == (d * Day + After(w))..(d * Day + After(w) + Span(w) - 1)
<1>1. Stretches(w, t) =
        {n \in UNION {stretch(d) : d \in {Today(t) - 1, Today(t)}} :
           w.days = {} \/ Weekday(n) \in w.days}
  BY DEF Stretches, After, Before, Span
<1>2. InTimes(w, Minute(t)) <=> \E d \in {Today(t) - 1, Today(t)} : t \in stretch(d)
  BY StretchOfWindow
<1> HIDE DEF stretch
<1> QED BY <1>1, <1>2 DEF WindowMatches

LEMMA SchedulesMatch ==
  ASSUME setup \in Setups, now \in Nat
  PROVE  ScheduleAsWritten
<1> DEFINE s == setup.schedule
<1>1. s.op \in {"any", "all", "not"} /\ s.windows \subseteq Window(TimesOfDay, 0..6)
  BY SettingsAssumption
<1>2. \A w \in s.windows : WindowMatches(w, now) <=> now \in Stretches(w, now)
  BY <1>1, WindowIsStretches
<1> HIDE DEF s
<1>3. CASE s.op = "any"
  BY <1>2, <1>3 DEF ScheduleAsWritten, Matches, s
<1>4. CASE s.op = "all"
  BY <1>2, <1>4 DEF ScheduleAsWritten, Matches, s
<1>5. CASE s.op = "not"
  BY <1>2, <1>5 DEF ScheduleAsWritten, Matches, s
<1> QED BY <1>1, <1>3, <1>4, <1>5

-----------------------------------------------------------------------------
(* Alarms.                                                                  *)

LEMMA EarliestOf ==
  ASSUME NEW S \in SUBSET Nat, S # {}
  PROVE  Earliest(S) \in S /\ \A m \in S : Earliest(S) <= m
<1>1. \E n \in S : \A k \in S : ~(k < n)
  <2>1. PICK n \in S : \A k \in S : <<k, n>> \notin OpToRel(<, Nat)
    BY NatLessThanWellFounded, WFMin, Zenon
  <2> QED BY <2>1, Zenon DEF OpToRel
<1>2. PICK n \in S : \A k \in S : ~(k < n)
  BY <1>1
<1>3. \A k \in S : n <= k
  BY <1>2
<1> QED BY <1>3 DEF Earliest

\* the alarm rings on a day of each week, or never: eight days see every ring
LEMMA RingsAreDays ==
  ASSUME setup \in Setups, NEW t \in Int
  PROVE  /\ Rings(t) <=> /\ setup.alarm.enabled /\ RingsOn(setup.alarm, Today(t))
                         /\ t = RingTime(setup.alarm, Today(t))
         /\ \A d \in Int : Today(RingTime(setup.alarm, d)) = d
                           /\ Minute(RingTime(setup.alarm, d)) = setup.alarm.time
<1>1. setup.alarm.time \in TimesOfDay
  BY SettingsAssumption DEF Alarm
<1>2. \A d \in Int : Today(RingTime(setup.alarm, d)) = d
                     /\ Minute(RingTime(setup.alarm, d)) = setup.alarm.time
  BY <1>1, DayOf DEF RingTime
<1>3. Today(t) \in Int /\ t = Today(t) * Day + Minute(t)
  BY DayAndMinute
<1>4. Minute(t) = setup.alarm.time <=> t = RingTime(setup.alarm, Today(t))
  BY <1>2, <1>3 DEF RingTime
<1> QED BY <1>2, <1>4 DEF Rings

LEMMA NextRingsAre ==
  ASSUME setup \in Setups, now \in Nat, NEW t \in Int
  PROVE  t \in NextRings(setup.alarm, now) <=>
           Rings(t) /\ now < t /\ Today(t) <= Today(now) + 7
<1> DEFINE a == setup.alarm
<1>1. Today(now) \in Int /\ Today(t) \in Int /\ a.time \in TimesOfDay
  BY DayAndMinute, SettingsAssumption DEF Alarm
<1>2. /\ Rings(t) <=> a.enabled /\ RingsOn(a, Today(t)) /\ t = RingTime(a, Today(t))
      /\ \A d \in Int : Today(RingTime(a, d)) = d
  BY RingsAreDays
<1>3. now < t => Today(now) <= Today(t)
  <2>1. /\ now = Today(now) * Day + Minute(now) /\ Minute(now) \in TimesOfDay
        /\ t = Today(t) * Day + Minute(t) /\ Minute(t) \in TimesOfDay
    BY DayAndMinute
  <2>2. Today(now) * Day + Minute(now) < Today(t) * Day + Minute(t) => Today(now) <= Today(t)
    BY <1>1, <2>1, DayOrder
  <2> QED BY <2>1, <2>2
<1> HIDE DEF a
<1>4. t \in NextRings(a, now) <=>
        \E d \in Today(now)..(Today(now) + 7) :
          t = RingTime(a, d) /\ a.enabled /\ RingsOn(a, d) /\ RingTime(a, d) > now
  BY DEF NextRings
<1>5. ASSUME t \in NextRings(a, now)
      PROVE  Rings(t) /\ now < t /\ Today(t) <= Today(now) + 7
  <2>1. PICK d \in Today(now)..(Today(now) + 7) :
          t = RingTime(a, d) /\ a.enabled /\ RingsOn(a, d) /\ RingTime(a, d) > now
    BY <1>4, <1>5
  <2>2. Today(t) = d
    BY <1>1, <1>2, <2>1
  <2> QED BY <1>1, <1>2, <2>1, <2>2
<1>6. ASSUME Rings(t), now < t, Today(t) <= Today(now) + 7
      PROVE  t \in NextRings(a, now)
  <2>1. Today(t) \in Today(now)..(Today(now) + 7)
    BY <1>1, <1>3, <1>6
  <2> QED BY <1>1, <1>2, <1>4, <1>6, <2>1
<1> QED BY <1>5, <1>6 DEF a

LEMMA NextRingFound ==
  ASSUME setup \in Setups, now \in Nat
  PROVE  NextRingIsNext
<1> DEFINE rings == NextRings(setup.alarm, now)
<1>0. setup.alarm.time \in TimesOfDay /\ Day \in Nat \ {0} /\ setup.alarm.days \subseteq 0..6
  BY AlarmTimesAssumption, SettingsAssumption DEF Alarm
<1>1. Today(now) \in Int /\ Minute(now) \in TimesOfDay /\ now = Today(now) * Day + Minute(now)
  BY DayAndMinute
<1>2. rings \in SUBSET Nat
  <2>1. ASSUME NEW n \in rings PROVE n \in Nat
    <3>1. PICK d \in Today(now)..(Today(now) + 7) :
            n = RingTime(setup.alarm, d) /\ RingTime(setup.alarm, d) > now
      BY <2>1 DEF NextRings
    <3>2. d * Day + setup.alarm.time \in Int
      BY <1>0, <1>1 DEF TimesOfDay
    <3> QED BY <3>1, <3>2 DEF RingTime
  <2> QED BY <2>1
<1>3. \A t \in Int : t \in rings <=> Rings(t) /\ now < t /\ Today(t) <= Today(now) + 7
  BY NextRingsAre
<1>4. ASSUME rings = {}, NEW t \in (now + 1)..(now + 8 * Day) PROVE ~Rings(t)
  <2> SUFFICES ASSUME Rings(t) PROVE FALSE
    OBVIOUS
  <2>1. t \in Int /\ now < t /\ Today(t) \in Int /\ Minute(t) \in TimesOfDay
        /\ t = Today(t) * Day + Minute(t)
    BY <1>0, DayAndMinute
  <2>2. Today(t) > Today(now) + 7
    BY <1>1, <1>3, <1>4, <2>1
  <2>3. Today(t) = Today(now) + 8
    <3>1. now + 8 * Day = (Today(now) + 8) * Day + Minute(now)
      <4>1. \A q \in Int : (q + 8) * Day = q * Day + 8 * Day
        BY <1>0
      <4>2. (Today(now) + 8) * Day = Today(now) * Day + 8 * Day
        BY <4>1, <1>1
      <4>3. Today(now) * Day \in Int /\ 8 * Day \in Int /\ Minute(now) \in Int
        BY <1>0, <1>1 DEF TimesOfDay
      <4> QED BY <4>2, <4>3, <1>1
    <3>2. t <= (Today(now) + 8) * Day + Minute(now)
      BY <3>1
    <3>3. Today(now) + 8 \in Int
      BY <1>1
    <3>4. Today(now) + 8 < Today(t) => (Today(now) + 8) * Day + Minute(now) < Today(t) * Day + Minute(t)
      BY <3>3, <1>1, <2>1, DayOrder
    <3>5. (Today(now) + 8) * Day + Minute(now) \in Int
      BY <3>1, <1>0
    <3> QED BY <1>1, <2>1, <2>2, <3>2, <3>4, <3>5
  <2> DEFINE d == Today(now) + 1
             u == RingTime(setup.alarm, d)
  <2>4. /\ setup.alarm.enabled /\ RingsOn(setup.alarm, Today(t))
        /\ \A e \in Int : Today(RingTime(setup.alarm, e)) = e
    BY <2>1, RingsAreDays
  <2>5. d \in Int /\ Today(t) = d + 7 /\ Today(u) = d
    BY <1>1, <2>3, <2>4
  <2>6. RingsOn(setup.alarm, d)
    <3>1. d % 7 = (d + 7) % 7
      BY <2>5
    <3> QED BY <2>4, <2>5, <3>1 DEF RingsOn
  <2>7. u \in Int /\ now < u
    <3> HIDE DEF d
    <3>1. u = d * Day + setup.alarm.time
      BY DEF RingTime
    <3>2. Today(now) < d
      BY <1>1 DEF d
    <3>3. Today(now) * Day + Minute(now) < d * Day + setup.alarm.time
      BY <3>2, <2>5, <1>0, <1>1, DayOrder
    <3> QED BY <3>1, <3>3, <2>5, <1>0, <1>1 DEF TimesOfDay
  <2> HIDE DEF u, d
  <2>8. Rings(u)
    BY <2>4, <2>5, <2>6, <2>7, RingsAreDays DEF u
  <2>9. Today(u) <= Today(now) + 7
    BY <1>1, <2>5 DEF d
  <2>10. u \in rings
    BY <1>3, <2>7, <2>8, <2>9
  <2> QED BY <1>4, <2>10
<1>5. ASSUME rings # {}
      PROVE  /\ Rings(Earliest(rings))
             /\ \A t \in (now + 1)..(Earliest(rings) - 1) : ~Rings(t)
  <2>1. PICK first \in Nat : first = Earliest(rings) /\ first \in rings /\ \A m \in rings : first <= m
    BY <1>2, <1>5, EarliestOf
  <2>2. Rings(first) /\ now < first /\ Today(first) <= Today(now) + 7
    BY <1>3, <2>1
  <2>3. ASSUME NEW t \in (now + 1)..(first - 1), Rings(t) PROVE FALSE
    <3>1. /\ t \in Int /\ now < t /\ t < first /\ Today(t) \in Int /\ Minute(t) \in TimesOfDay
          /\ t = Today(t) * Day + Minute(t)
      BY DayAndMinute
    <3>2. /\ first \in Int /\ Today(first) \in Int /\ Minute(first) \in TimesOfDay
          /\ first = Today(first) * Day + Minute(first)
      BY DayAndMinute
    <3>3. Today(t) <= Today(first)
      <4>1. Today(t) * Day + Minute(t) < Today(first) * Day + Minute(first)
            => Today(t) <= Today(first)
        BY <3>1, <3>2, DayOrder
      <4> QED BY <3>1, <3>2, <4>1
    <3>4. Today(t) <= Today(now) + 7
      BY <1>1, <2>2, <3>1, <3>2, <3>3
    <3>5. t \in rings
      BY <1>3, <2>3, <3>1, <3>4
    <3> QED BY <2>1, <3>1, <3>5
  <2> QED BY <2>1, <2>2, <2>3
<1> QED BY <1>4, <1>5 DEF NextRingIsNext

\* a fade is not longer than a day, so it begins on the day or on the one before
LEMMA FadeBegins ==
  ASSUME setup \in Setups, now \in Nat
  PROVE  FadesBeforeItRings
<1> SUFFICES ASSUME Rings(now), NEW k \in 1..setup.alarm.fade, now >= k
             PROVE  Due(setup.alarm, now - k)
  BY DEF FadesBeforeItRings
<1> DEFINE a == setup.alarm
           t == now - k
<1>1. a.fade \in 1..Day /\ Day \in Nat \ {0} /\ a.time \in TimesOfDay
  BY AlarmTimesAssumption, SettingsAssumption DEF Alarm
<1>2. a.enabled /\ RingsOn(a, Today(now)) /\ now = RingTime(a, Today(now))
  BY RingsAreDays
<1>3. k \in Int /\ 1 <= k /\ k <= a.fade /\ t \in Int /\ t < now /\ now <= t + a.fade
  BY <1>1
<1>4. /\ Today(now) \in Int /\ Minute(now) \in TimesOfDay /\ now = Today(now) * Day + Minute(now)
      /\ Today(t) \in Int /\ Minute(t) \in TimesOfDay /\ t = Today(t) * Day + Minute(t)
  BY <1>3, DayAndMinute
<1> HIDE DEF t, a
<1>5. Today(t) <= Today(now)
  <2>1. Today(t) * Day + Minute(t) < Today(now) * Day + Minute(now) => Today(t) <= Today(now)
    BY <1>4, DayOrder
  <2> QED BY <1>3, <1>4, <2>1
<1>6. Today(now) <= Today(t) + 1
  <2>1. Today(t) + 1 < Today(now) =>
          (Today(t) + 1) * Day + Minute(t) < Today(now) * Day + Minute(now)
    <3>1. Today(t) + 1 \in Int
      BY <1>4
    <3> QED BY <1>4, <3>1, DayOrder
  <2>2. (Today(t) + 1) * Day + Minute(t) = t + Day
    <3>1. \A q \in Int : (q + 1) * Day = q * Day + Day
      BY <1>1
    <3>2. (Today(t) + 1) * Day = Today(t) * Day + Day
      BY <3>1, <1>4
    <3>3. Today(t) * Day \in Int /\ Day \in Int /\ Minute(t) \in Int
      BY <1>1, <1>4 DEF TimesOfDay
    <3> QED BY <3>2, <3>3, <1>4
  <2> QED BY <1>1, <1>3, <1>4, <2>1, <2>2
<1>7. Today(now) \in {Today(t), Today(t) + 1}
  BY <1>4, <1>5, <1>6
<1>8. FadeStart(a, Today(now)) <= t /\ t < RingTime(a, Today(now))
  BY <1>1, <1>2, <1>3 DEF FadeStart
<1>9. Today(now) \in DueDates(a, t)
  BY <1>2, <1>7, <1>8 DEF DueDates
<1> QED BY <1>9 DEF Due, a, t

LEMMA AlarmsRing ==
  ASSUME setup \in Setups, now \in Nat
  PROVE  AlarmsAsWritten
BY NextRingFound, FadeBegins DEF AlarmsAsWritten

-----------------------------------------------------------------------------
(* The clock starts at zero and goes on.                                    *)

Running == setup \in Setups /\ now \in Nat

LEMMA ClockRuns == Spec => []Running
<1>1. Init => Running
  BY DEF Init, Running
<1>2. Running /\ [Next]_vars => Running'
  <2> SUFFICES ASSUME Running, [Next]_vars PROVE setup' = setup /\ now' \in Nat
    BY DEF Running
  <2> USE DEF Running
  <2>1. CASE CycleTick
    BY <2>1 DEF CycleTick, house
  <2>2. CASE LightReturns
    BY <2>2 DEF LightReturns, house
  <2>3. CASE Publish
    BY <2>3 DEF Publish, PublishPush, PublishCommand, house
  <2>4. ASSUME NEW times \in setup.asks, SetSchedule(times)
        PROVE  setup' = setup /\ now' \in Nat
    BY <2>4 DEF SetSchedule
  <2>5. ASSUME NEW i \in Lights, PowerLost(i) \/ PowerBack(i)
        PROVE  setup' = setup /\ now' \in Nat
    BY <2>5 DEF PowerLost, PowerBack
  <2>6. CASE Applies
    BY <2>6 DEF Applies, house
  <2>7. CASE TimePasses
    BY <2>7 DEF TimePasses
  <2>8. CASE UNCHANGED vars
    BY <2>8 DEF vars
  <2> QED BY <2>1, <2>2, <2>3, <2>4, <2>5, <2>6, <2>7, <2>8 DEF Next
<1> QED BY <1>1, <1>2, PTL DEF Spec

\* A schedule is open exactly in the stretches its windows name, those across
\* midnight in one piece (schedule.rs:176).
THEOREM SchedulesAreAsWritten == Spec => []ScheduleAsWritten
<1>1. Running => ScheduleAsWritten
  BY SchedulesMatch DEF Running
<1> QED BY <1>1, ClockRuns, PTL

\* The next ring of an alarm is the one that is announced, and the lights have
\* faded in for as long as they should when it rings, also if the fade begins the
\* day before (alarm.rs:91, alarm.rs:107).
THEOREM AlarmsAreAsWritten == Spec => []AlarmsAsWritten
<1>1. Running => AlarmsAsWritten
  BY AlarmsRing DEF Running
<1> QED BY <1>1, ClockRuns, PTL

-----------------------------------------------------------------------------
(* The curve: nothing it says leaves the range of its points.               *)

\* the type of a weight or of a factor
LEMMA PartsAre == \A k : k \in Parts <=> k \in Nat /\ k <= Whole
<1>1. Whole \in Nat
  BY SMT DEF Whole
<1> QED BY <1>1 DEF Parts

\* a part of a number
LEMMA PartOf == \A a \in Nat, k \in Parts : a * k \in Nat /\ a * k <= Whole * a
<1> SUFFICES ASSUME NEW a \in Nat, NEW k \in Nat, k <= Whole
             PROVE  a * k \in Nat /\ a * k <= Whole * a
  BY PartsAre
<1>0. Whole \in Nat
  BY SMT DEF Whole
<1>1. a * k >= 0 /\ a * (Whole - k) >= 0
  BY <1>0
<1>2. a * (Whole - k) = Whole * a - a * k
  BY <1>0
<1> QED BY <1>0, <1>1, <1>2

\* of the way from a to b, as much as a part of it says
LEMMA PartOfTheWay ==
  \A a, b \in Nat, k \in Parts :
    /\ (b - a) * k \in Int
    /\ a <= b => 0 <= (b - a) * k /\ Whole * a + (b - a) * k <= Whole * b
    /\ b <= a => (b - a) * k <= 0 /\ Whole * b <= Whole * a + (b - a) * k
<1> SUFFICES ASSUME NEW a \in Nat, NEW b \in Nat, NEW k \in Parts
    PROVE  /\ (b - a) * k \in Int
           /\ a <= b => 0 <= (b - a) * k /\ Whole * a + (b - a) * k <= Whole * b
           /\ b <= a => (b - a) * k <= 0 /\ Whole * b <= Whole * a + (b - a) * k
  OBVIOUS
<1>0. Whole \in Nat /\ k \in Nat
  BY PartsAre, SMT DEF Whole
<1>1. CASE a <= b
  <2>1. (b - a) \in Nat
    BY <1>1
  <2>2. (b - a) * k \in Nat /\ (b - a) * k <= Whole * (b - a)
    BY <2>1, PartOf
  <2>3. Whole * (b - a) = Whole * b - Whole * a
    BY <1>0
  <2> QED BY <1>0, <1>1, <2>2, <2>3
<1>2. CASE b <= a
  <2>1. (a - b) \in Nat
    BY <1>2
  <2>2. (a - b) * k \in Nat /\ (a - b) * k <= Whole * (a - b)
    BY <2>1, PartOf
  <2>3. Whole * (a - b) = Whole * a - Whole * b
    BY <1>0
  <2>4. (b - a) * k = - ((a - b) * k)
    BY <1>0
  <2> QED BY <1>0, <1>2, <2>2, <2>3, <2>4
<1> QED BY <1>1, <1>2

Amid(n, a, b) == n \in Nat /\ ((a <= n /\ n <= b) \/ (b <= n /\ n <= a))

LEMMA Wholes ==
  \A n \in Int, a, b \in Nat : Whole * a <= n /\ n < Whole * b + Whole =>
    n \div Whole \in Nat /\ a <= n \div Whole /\ n \div Whole <= b
BY SMT DEF Whole

\* No value of a ramp, nor of the blend with winter, leaves the range of its
\* ends.
LEMMA InterpolateStays == \A a, b \in Nat, k \in Parts : Amid(Interpolate(a, b, k), a, b)
<1> SUFFICES ASSUME NEW a \in Nat, NEW b \in Nat, NEW k \in Parts
             PROVE  Amid((Whole * a + (b - a) * k) \div Whole, a, b)
  BY Zenon DEF Interpolate
<1> DEFINE n == Whole * a + (b - a) * k
<1>0. Whole \in Nat \ {0}
  BY SMT DEF Whole
<1>1. /\ n \in Int
      /\ a <= b => Whole * a <= n /\ n <= Whole * b
      /\ b <= a => Whole * b <= n /\ n <= Whole * a
  <2> DEFINE p == (b - a) * k
  <2>1. /\ p \in Int
        /\ a <= b => 0 <= p /\ Whole * a + p <= Whole * b
        /\ b <= a => p <= 0 /\ Whole * b <= Whole * a + p
    BY PartOfTheWay
  <2>2. Whole * a \in Int /\ Whole * b \in Int
    BY <1>0
  <2> HIDE DEF p
  <2>3. n = Whole * a + p
    BY DEF p, n
  <2> HIDE DEF n
  <2> QED BY <2>1, <2>2, <2>3
<1> HIDE DEF n
<1>2. /\ a <= b => n < Whole * b + Whole
      /\ b <= a => n < Whole * a + Whole
  BY <1>0, <1>1
<1>3. Amid(n \div Whole, a, b)
  BY <1>1, <1>2, Wholes DEF Amid
<1> QED BY <1>3 DEF n

LEMMA BlendStays == \A a, b \in Nat, k \in Parts : Amid(BlendBrightness(a, b, k), a, b)
<1> SUFFICES ASSUME NEW a \in Nat, NEW b \in Nat, NEW k \in Parts
             PROVE  Amid((Whole * a + (b - a) * k + Whole \div 2) \div Whole, a, b)
  BY Zenon DEF BlendBrightness
<1> DEFINE n == Whole * a + (b - a) * k
           m == n + Whole \div 2
<1>0. Whole \in Nat \ {0} /\ Whole \div 2 \in Nat /\ Whole \div 2 < Whole
  BY SMT DEF Whole
<1>1. /\ n \in Int
      /\ a <= b => Whole * a <= n /\ n <= Whole * b
      /\ b <= a => Whole * b <= n /\ n <= Whole * a
  <2> DEFINE p == (b - a) * k
  <2>1. /\ p \in Int
        /\ a <= b => 0 <= p /\ Whole * a + p <= Whole * b
        /\ b <= a => p <= 0 /\ Whole * b <= Whole * a + p
    BY PartOfTheWay
  <2>2. Whole * a \in Int /\ Whole * b \in Int
    BY <1>0
  <2> HIDE DEF p
  <2>3. n = Whole * a + p
    BY DEF p, n
  <2> HIDE DEF n
  <2> QED BY <2>1, <2>2, <2>3
<1> HIDE DEF n
<1>2. /\ m \in Int
      /\ a <= b => Whole * a <= m /\ m < Whole * b + Whole
      /\ b <= a => Whole * b <= m /\ m < Whole * a + Whole
  BY <1>0, <1>1
<1> HIDE DEF m
<1>3. Amid(m \div Whole, a, b)
  BY <1>2, Wholes DEF Amid
<1> QED BY <1>3 DEF m, n

\* a quotient of n
LEMMA Quotient ==
  ASSUME NEW n \in Nat, NEW a \in Nat \ {0}
  PROVE  /\ n \div a \in Nat
         /\ \A q \in Nat : q * a <= n => q <= n \div a
         /\ (n \div a) * a <= n /\ n < (n \div a) * a + a
<1> DEFINE q == n \div a
<1>1. q \in Int /\ q * a <= n /\ n < q * a + a
  OBVIOUS
<1> HIDE DEF q
<1>2. \A m \in Int : m < 0 => m * a + a <= 0
  <2> SUFFICES ASSUME NEW m \in Int, m < 0 PROVE (m + 1) * a <= 0
    OBVIOUS
  <2>1. (- (m + 1)) * a >= 0
    OBVIOUS
  <2> QED BY <2>1
<1>3. q \in Nat
  BY <1>1, <1>2
<1>4. ASSUME NEW m \in Nat, m * a <= n PROVE m <= q
  <2> SUFFICES ASSUME q + 1 <= m PROVE FALSE
    BY <1>3
  <2>1. (m - (q + 1)) * a >= 0
    BY <1>3
  <2>2. (m - (q + 1)) * a = m * a - q * a - a
    BY <1>3
  <2> QED BY <1>1, <1>4, <2>1, <2>2
<1> QED BY <1>1, <1>3, <1>4 DEF q

LEMMA QuotientAntitone ==
  \A n \in Nat, a, b \in Nat \ {0} : a <= b => n \div b <= n \div a
<1> SUFFICES ASSUME NEW n \in Nat, NEW a \in Nat \ {0}, NEW b \in Nat \ {0}, a <= b
             PROVE  n \div b <= n \div a
  OBVIOUS
<1> DEFINE q == n \div b
<1>1. q \in Nat /\ q * b <= n
  BY Quotient
<1> HIDE DEF q
<1>2. q * (b - a) >= 0 /\ q * (b - a) = q * b - q * a
  BY <1>1
<1>3. q * a <= n
  BY <1>1, <1>2
<1> QED BY <1>1, <1>3, Quotient DEF q
LEMMA QuotientBound ==
  \A n, m \in Nat, a \in Nat \ {0} : n <= m * a => n \div a \in Nat /\ n \div a <= m
<1> SUFFICES ASSUME NEW n \in Nat, NEW a \in Nat \ {0}, NEW m \in Nat, n <= m * a
             PROVE  n \div a \in Nat /\ n \div a <= m
  OBVIOUS
<1> DEFINE q == n \div a
<1>1. q \in Nat /\ q * a <= n
  BY Quotient
<1> HIDE DEF q
<1>2. ASSUME m < q PROVE FALSE
  <2>1. (q - m - 1) * a >= 0 /\ (q - m - 1) * a = q * a - m * a - a
    BY <1>1, <1>2
  <2>2. q * a \in Int /\ m * a \in Int
    BY <1>1
  <2> QED BY <1>1, <2>1, <2>2
<1> QED BY <1>1, <1>2 DEF q

CurveParams ==
  [wake : TimesOfDay, sleep : TimesOfDay, ramp : Nat, curve : {"linear", "cosine"},
   start : [brightness : Nat, kelvin : Nat], peak : [brightness : Nat, kelvin : Nat],
   end : [brightness : Nat, kelvin : Nat]]

\* A ramp is nowhere before its beginning, and nowhere over its end.
LEMMA FactorStays ==
  \A p \in CurveParams, direction \in {"morning", "evening"}, elapsed \in Nat :
    elapsed < p.ramp => Factor(p, direction, elapsed) \in Parts
<1> SUFFICES ASSUME NEW p \in CurveParams, NEW direction \in {"morning", "evening"},
                    NEW elapsed \in Nat, elapsed < p.ramp
             PROVE  Factor(p, direction, elapsed) \in Parts
  OBVIOUS
<1> DEFINE ramp == p.ramp
<1>1. ramp \in Nat \ {0} /\ elapsed <= ramp /\ EaseSteps \in Nat /\ Whole \in Nat
  BY EaseAssumption, SMT DEF CurveParams, Whole
<1>2. ASSUME NEW w \in Nat
      PROVE  /\ w * elapsed \in Nat /\ (w * elapsed) \div ramp \in Nat
             /\ (w * elapsed) \div ramp <= w
  <2> HIDE DEF ramp
  <2>1. w * (ramp - elapsed) >= 0 /\ w * (ramp - elapsed) = w * ramp - w * elapsed
    BY <1>1
  <2>2. w * elapsed \in Nat /\ w * ramp \in Nat
    BY <1>1
  <2>3. w * elapsed <= w * ramp
    BY <2>1, <2>2
  <2> QED BY <1>1, <2>2, <2>3, QuotientBound
<1>3. CASE p.curve = "linear"
  <2>1. Factor(p, direction, elapsed) = (Whole * elapsed) \div ramp
    BY <1>3 DEF Factor
  <2> QED BY <1>1, <1>2, <2>1, PartsAre
<1>4. CASE p.curve # "linear"
  <2>1. PICK q \in 0..EaseSteps : q = (elapsed * EaseSteps) \div ramp
    <3>1. elapsed * EaseSteps = EaseSteps * elapsed
      BY <1>1
    <3>2. (EaseSteps * elapsed) \div ramp \in 0..EaseSteps
      BY <1>1, <1>2
    <3> QED BY <3>1, <3>2
  <2>2. Ease \in [{"morning", "evening"} -> [0..EaseSteps -> Parts]]
    BY EaseAssumption
  <2>3. Factor(p, direction, elapsed) = Ease[direction][q]
    BY <1>4, <2>1 DEF Factor
  <2> QED BY <2>2, <2>3
<1> QED BY <1>3, <1>4

\* a point of the curve is between two of its given points
BetweenPoints(point, p) ==
  \E from, to \in Points :
    /\ Amid(point.brightness, p[from].brightness, p[to].brightness)
    /\ Amid(point.kelvin, p[from].kelvin, p[to].kelvin)

LEMMA CurveStays ==
  ASSUME NEW p \in CurveParams, NEW minute \in TimesOfDay
  PROVE  BetweenPoints(CurveAt(p, minute), p)
<1> DEFINE dusk    == AtLeastZero(p.sleep - p.ramp)
           night   == minute < p.wake \/ minute >= p.sleep
           morning == ~night /\ minute < p.wake + p.ramp
           plateau == ~night /\ ~morning /\ minute < dusk
           M == Factor(p, "morning", minute - p.wake)
           E == Factor(p, "evening", minute - dusk)
<1>0. /\ minute \in Nat /\ p.wake \in Nat /\ p.sleep \in Nat /\ p.ramp \in Nat
      /\ p.curve \in {"linear", "cosine"}
      /\ \A k \in Points : p[k].brightness \in Nat /\ p[k].kelvin \in Nat
  BY AlarmTimesAssumption DEF CurveParams, TimesOfDay, Points
<1>1. ASSUME NEW k \in Points PROVE BetweenPoints(p[k], p)
  BY <1>0 DEF BetweenPoints, Amid
<1>2. ASSUME NEW a \in Points, NEW b \in Points, NEW f \in Parts
      PROVE  BetweenPoints(Between(p[a], p[b], f), p)
  <2>1. /\ Amid(Interpolate(p[a].brightness, p[b].brightness, f), p[a].brightness, p[b].brightness)
        /\ Amid(Interpolate(p[a].kelvin, p[b].kelvin, f), p[a].kelvin, p[b].kelvin)
    BY <1>0, InterpolateStays
  <2> QED BY <2>1, Zenon DEF BetweenPoints, Between
<1>7. \A e \in Nat : e < p.ramp => /\ Factor(p, "morning", e) \in Parts
                                  /\ Factor(p, "evening", e) \in Parts
  BY FactorStays
<1>3. CASE night
  <2>1. CurveAt(p, minute) = p["end"]
    BY <1>3 DEF CurveAt
  <2> QED BY <1>1, <2>1 DEF Points
<1>4. CASE morning
  <2>1. CurveAt(p, minute) = Between(p["start"], p["peak"], M)
    BY <1>4 DEF CurveAt
  <2>2. minute - p.wake \in Nat /\ minute - p.wake < p.ramp
    BY <1>0, <1>4
  <2>3. M \in Parts
    BY <1>7, <2>2
  <2> HIDE DEF M
  <2> QED BY <1>2, <2>1, <2>3 DEF Points
<1>5. CASE plateau
  <2>1. CurveAt(p, minute) = p["peak"]
    BY <1>5 DEF CurveAt
  <2> QED BY <1>1, <2>1 DEF Points
<1>6. CASE ~night /\ ~morning /\ ~plateau
  <2>1. CurveAt(p, minute) = Between(p["peak"], p["end"], E)
    BY <1>6 DEF CurveAt
  <2>2. dusk \in Nat /\ minute - dusk \in Nat /\ minute - dusk < p.ramp
    BY <1>0, <1>6 DEF AtLeastZero
  <2>3. E \in Parts
    BY <1>7, <2>2
  <2> HIDE DEF E
  <2> QED BY <1>2, <2>1, <2>3 DEF Points
<1> QED BY <1>3, <1>4, <1>5, <1>6

Temperature(k) == k \in Nat /\ 1000 <= k /\ k <= 10000

LEMMA KelvinStays ==
  ASSUME NEW k, Temperature(k)
  PROVE  /\ KelvinToMired(k) = Mired(k)
         /\ Mired(k) \in Nat /\ 1 <= Mired(k) /\ Mired(k) <= MaxU16
<1> DEFINE q == Mired(k)
<1> DEFINE million == 1000000
<1>1. k \in Nat \ {0} /\ million \in Nat /\ million <= 1000 * k /\ 1 * k <= million
  BY SMT DEF Temperature
<1>2. q = million \div k
  BY SMT DEF Mired
<1> HIDE DEF million, q
<1>3. million \div k \in Nat /\ million \div k <= 1000 /\ 1 <= million \div k
  <2>1. million \div k \in Nat /\ million \div k <= 1000
    BY <1>1, QuotientBound, SMT
  <2>2. \A m \in Nat : m * k <= million => m <= million \div k
    BY <1>1, Quotient, SMT
  <2> QED BY <1>1, <2>1, <2>2, SMT
<1>4. q \in Nat /\ q <= 1000 /\ 1 <= q
  BY <1>2, <1>3
<1>5. q % 65536 = q /\ q <= MaxU16
  BY <1>4, SMT DEF MaxU16
<1>6. KelvinToMired(k) = q % 65536
  BY SMT DEF KelvinToMired, q
<1> QED BY <1>4, <1>5, <1>6, SMT DEF q

\* the points of the curve of a day and a room
DayParams(times) == ParamsForRoom(setup.circadian, times, setup.weight)

LEMMA ParamsSound ==
  ASSUME setup \in Setups, NEW times \in Times
  PROVE  /\ DayParams(times) \in CurveParams
         /\ \A k \in Points :
              /\ DayParams(times)[k].kelvin = setup.circadian[k].kelvin
              /\ setup.circadian[k].brightness \in 0..MaxU8
              /\ WinterTargets(setup.circadian)[k] \in 0..MaxU8
              /\ Amid(DayParams(times)[k].brightness, setup.circadian[k].brightness,
                      WinterTargets(setup.circadian)[k])
<1> DEFINE c == setup.circadian
           w == WinterTargets(c)
           d == DayParams(times)
<1>1. c \in CircadianConfig(TimesOfDay) /\ setup.weight \in Parts /\ None \notin Int
  BY SettingsAssumption, ClockworkAssumption
<1>2. \A k \in Points : c[k].brightness \in 0..MaxU8 /\ c[k].kelvin \in Nat
                        /\ c[k] \in [brightness : 0..MaxU8, kelvin : Nat]
  BY <1>1 DEF CircadianConfig, Points
<1>3. \A k \in Points : w[k] \in 0..MaxU8
  <2>1. \A k \in Points : c.winter[k] \in (0..MaxU8) \union {None}
    BY <1>1 DEF CircadianConfig
  <2>2. MaxU8 \in Nat /\ 230 <= MaxU8 /\ 254 <= MaxU8
    BY SMT DEF MaxU8
  <2>3. w["start"] \in 0..MaxU8
    BY <1>2, <2>1, <2>2 DEF WinterTargets, Or, Points
  <2>4. w["peak"] \in 0..MaxU8
    BY <1>2, <2>1, <2>2 DEF WinterTargets, Or, Points
  <2>5. w["end"] \in 0..MaxU8
    BY <1>2, <2>1, <2>2 DEF WinterTargets, Or, Points
  <2> QED BY <2>3, <2>4, <2>5 DEF Points
<1>4. \A k \in Points : Amid(BlendBrightness(c[k].brightness, w[k], setup.weight),
                             c[k].brightness, w[k])
  BY <1>1, <1>2, <1>3, BlendStays
<1>5. ASSUME NEW which \in {"wake", "sleep"}
      PROVE  EffectiveTime(c.own[which], times[which], c[which]) \in TimesOfDay
  <2>1. /\ c.own[which] \in TimesOfDay \union {None} /\ times[which] \in TimesOfDay \union {None}
        /\ c[which] \in TimesOfDay
    BY <1>1 DEF CircadianConfig, Times
  <2> QED BY <2>1 DEF EffectiveTime, Or
<1> HIDE DEF w, c
<1>6. d = [wake  |-> EffectiveTime(c.own["wake"], times["wake"], c["wake"]),
           sleep |-> EffectiveTime(c.own["sleep"], times["sleep"], c["sleep"]),
           ramp  |-> c.ramp, curve |-> c.curve,
           start |-> [c["start"] EXCEPT !.brightness = BlendBrightness(@, w["start"], setup.weight)],
           peak  |-> [c["peak"] EXCEPT !.brightness = BlendBrightness(@, w["peak"], setup.weight)],
           end   |-> [c["end"] EXCEPT !.brightness = BlendBrightness(@, w["end"], setup.weight)]]
  BY Zenon DEF DayParams, ParamsForRoom, w, c
<1>7. c.ramp \in Nat /\ c.curve \in {"linear", "cosine"}
  BY <1>1 DEF CircadianConfig
<1>8. \A k \in Points :
        /\ d[k] = [c[k] EXCEPT !.brightness = BlendBrightness(c[k].brightness, w[k], setup.weight)]
        /\ d[k].brightness = BlendBrightness(c[k].brightness, w[k], setup.weight)
        /\ d[k].kelvin = c[k].kelvin
        /\ d[k] \in [brightness : Nat, kelvin : Nat]
  <2>1. \A k \in Points : BlendBrightness(c[k].brightness, w[k], setup.weight) \in Nat
    BY <1>4 DEF Amid
  <2>2. \A k \in Points :
        d[k] = [c[k] EXCEPT !.brightness = BlendBrightness(c[k].brightness, w[k], setup.weight)]
    BY <1>6 DEF Points
  <2> HIDE DEF d
  <2> QED BY <1>2, <2>1, <2>2
<1>9. d \in CurveParams
  <2>1. /\ d.start \in [brightness : Nat, kelvin : Nat] /\ d.peak \in [brightness : Nat, kelvin : Nat]
        /\ d.end \in [brightness : Nat, kelvin : Nat]
    BY <1>8 DEF Points
  <2>2. d.wake \in TimesOfDay /\ d.sleep \in TimesOfDay /\ d.ramp \in Nat
        /\ d.curve \in {"linear", "cosine"}
    BY <1>5, <1>6, <1>7
  <2>3. d = [wake |-> d.wake, sleep |-> d.sleep, ramp |-> d.ramp, curve |-> d.curve,
             start |-> d.start, peak |-> d.peak, end |-> d.end]
    BY <1>6
  <2> HIDE DEF d
  <2> QED BY <2>1, <2>2, <2>3 DEF CurveParams
<1> QED BY <1>2, <1>3, <1>4, <1>8, <1>9 DEF c, w

LEMMA MiredAntitone ==
  \A a, b : Temperature(a) /\ Temperature(b) /\ a <= b => Mired(b) <= Mired(a)
<1> SUFFICES ASSUME NEW a \in Nat \ {0}, NEW b \in Nat \ {0}, a <= b
             PROVE  Mired(b) <= Mired(a)
  BY DEF Temperature
<1> DEFINE million == 1000000
<1>1. million \in Nat /\ Mired(a) = million \div a /\ Mired(b) = million \div b
  BY SMT DEF Mired
<1> HIDE DEF million
<1>2. million \div b <= million \div a
  BY <1>1, QuotientAntitone
<1> QED BY <1>1, <1>2

\* what a command may set a field to
Cap(f) == IF f = "brightness" THEN MaxU8 ELSE MaxU16
FieldOK(f, v) == v \in Nat /\ v <= Cap(f)

Within(t) ==
  LET c       == setup.circadian
      kelvins == {c[p].kelvin : p \in Points}
      lights  == {c[p].brightness : p \in Points}
                   \union {WinterTargets(c)[p] : p \in Points}
  IN  /\ \E k \in kelvins : Mired(k) <= t.colorTemp
      /\ \E k \in kelvins : t.colorTemp <= Mired(k)
      /\ \E b \in lights : b <= t.brightness
      /\ \E b \in lights : t.brightness <= b

SoundTarget(t) ==
  /\ t = [brightness |-> t.brightness, colorTemp |-> t.colorTemp]
  /\ \A f \in Fields : FieldOK(f, t[f])
  /\ 1 <= t.colorTemp
  /\ Within(t)

Valid == setup \in Setups /\ ValidConfig(setup.circadian, setup.calibration)

\* The target of any moment is within the points of the curve.
LEMMA TargetIsSound ==
  ASSUME Valid, NEW times \in Times, NEW n \in Nat
  PROVE  SoundTarget(Target(times, n))
<1> DEFINE c == setup.circadian
           w == WinterTargets(c)
           p == DayParams(times)
           point == CurveAt(p, Minute(n))
           t == Target(times, n)
<1>1. /\ p \in CurveParams
      /\ \A k \in Points : /\ p[k].kelvin = c[k].kelvin
                           /\ c[k].brightness \in 0..MaxU8 /\ w[k] \in 0..MaxU8
                           /\ Amid(p[k].brightness, c[k].brightness, w[k])
  BY ParamsSound DEF Valid
<1>2. \A k \in Points : Temperature(c[k].kelvin)
  <2>1. c \in CircadianConfig(TimesOfDay)
    BY SettingsAssumption DEF Valid
  <2>2. \A k \in Points : c[k].kelvin \in Nat
    BY <2>1 DEF CircadianConfig, Points
  <2>3. \A k \in Points : 1000 <= c[k].kelvin /\ c[k].kelvin <= 10000
    <3>1. ValidConfig(c, setup.calibration)
      BY DEF Valid
    <3> HIDE DEF c
    <3> QED BY <3>1 DEF ValidConfig
  <2> HIDE DEF c
  <2> QED BY <2>2, <2>3 DEF Temperature
<1>3. Minute(n) \in TimesOfDay
  BY DayAndMinute
<1> HIDE DEF w, c, p
<1>4. t = [brightness |-> point.brightness, colorTemp |-> KelvinToMired(point.kelvin)]
  BY DEF Target, ComputeTarget, DayParams, p
<1>5. BetweenPoints(point, p)
  BY <1>1, <1>3, CurveStays
<1>6. PICK from, to \in Points :
        /\ Amid(point.brightness, p[from].brightness, p[to].brightness)
        /\ Amid(point.kelvin, p[from].kelvin, p[to].kelvin)
  BY <1>5, Zenon DEF BetweenPoints
<1> DEFINE b == point.brightness
           k == point.kelvin
<1> HIDE DEF point
<1>7. Amid(k, c[from].kelvin, c[to].kelvin)
  BY <1>1, <1>6
<1>8. Temperature(k)
  BY <1>2, <1>7 DEF Amid, Temperature
<1>9. /\ t.brightness = b /\ t.colorTemp = Mired(k)
      /\ t = [brightness |-> t.brightness, colorTemp |-> t.colorTemp]
      /\ Mired(k) \in Nat /\ 1 <= Mired(k) /\ Mired(k) <= MaxU16
  BY <1>4, <1>8, KelvinStays
<1> HIDE DEF t, b, k
<1>10. \E q \in Points : Mired(c[q].kelvin) <= t.colorTemp
  <2>1. PICK q \in Points : k <= c[q].kelvin
    BY <1>7 DEF Amid
  <2> QED BY <1>2, <1>8, <1>9, <2>1, MiredAntitone
<1>11. \E q \in Points : t.colorTemp <= Mired(c[q].kelvin)
  <2>1. PICK q \in Points : c[q].kelvin <= k
    BY <1>7 DEF Amid
  <2> QED BY <1>2, <1>8, <1>9, <2>1, MiredAntitone
<1>12. MaxU8 \in Nat /\ MaxU16 \in Nat
  BY SMT DEF MaxU8, MaxU16
<1>13. \E q \in Points : c[q].brightness <= b \/ w[q] <= b
  <2>1. b \in Nat /\ p[from].brightness \in Nat /\ p[to].brightness \in Nat
    BY <1>1, <1>6 DEF Amid, b
  <2>2. PICK q \in Points : p[q].brightness <= b /\ p[q].brightness \in Nat
    BY <1>6, <2>1 DEF Amid, b
  <2>3. c[q].brightness \in Nat /\ w[q] \in Nat
    BY <1>1, <1>12
  <2>4. c[q].brightness <= p[q].brightness \/ w[q] <= p[q].brightness
    BY <1>1 DEF Amid
  <2> QED BY <2>1, <2>2, <2>3, <2>4
<1>14. \E q \in Points : b <= c[q].brightness \/ b <= w[q]
  <2>1. b \in Nat /\ p[from].brightness \in Nat /\ p[to].brightness \in Nat
    BY <1>1, <1>6 DEF Amid, b
  <2>2. PICK q \in Points : b <= p[q].brightness /\ p[q].brightness \in Nat
    BY <1>6, <2>1 DEF Amid, b
  <2>3. c[q].brightness \in Nat /\ w[q] \in Nat
    BY <1>1, <1>12
  <2>4. p[q].brightness <= c[q].brightness \/ p[q].brightness <= w[q]
    BY <1>1 DEF Amid
  <2> QED BY <2>1, <2>2, <2>3, <2>4
<1>15. b \in Nat /\ b <= MaxU8
  <2>1. b \in Nat
    BY <1>6 DEF Amid, b
  <2>2. PICK q \in Points : b <= c[q].brightness \/ b <= w[q]
    BY <1>14
  <2>3. /\ c[q].brightness \in Nat /\ w[q] \in Nat
        /\ c[q].brightness <= MaxU8 /\ w[q] <= MaxU8
    BY <1>1, <1>12
  <2> QED BY <1>12, <2>1, <2>2, <2>3
<1>16. Within(t)
  BY <1>9, <1>10, <1>11, <1>13, <1>14 DEF Within, c, w
<1>17. \A f \in Fields : FieldOK(f, t[f])
  BY <1>9, <1>12, <1>15 DEF FieldOK, Cap, Fields
<1> QED BY <1>9, <1>16, <1>17 DEF SoundTarget, t

-----------------------------------------------------------------------------
(* What the lights are sent.                                                *)

LEMMA OwnIsSound ==
  ASSUME Valid, NEW i \in setup.known, NEW f \in Fields, NEW t, SoundTarget(t)
  PROVE  FieldOK(f, OwnValue(i, f, t))
<1> DEFINE s == setup.calibration
           d == devices[i]
           offsets == Resolve(i, s, d)
<1>1. d.min \in (0..MaxU16) \union {None} /\ d.max \in (0..MaxU16) \union {None}
  <2>1. i \in DOMAIN setup.lights /\ d = setup.lights[i]
    BY ClockworkAssumption DEF Valid, devices
  <2>2. d \in Device((0..MaxU16) \union {None})
    BY <2>1, RangeAssumption DEF Valid
  <2> HIDE DEF d
  <2> QED BY <2>2 DEF Device
<1>2. /\ MaxU8 \in Nat /\ 254 <= MaxU8 /\ MaxU16 \in Nat /\ 1 <= MaxU16 /\ None \notin Int
  BY ClockworkAssumption, SMT DEF MaxU8, MaxU16
<1>3. t.brightness \in Nat /\ t.colorTemp \in Nat
  BY DEF SoundTarget, FieldOK, Fields
<1>4. offsets.brightness \in Int /\ offsets.colorTemp \in Int
  <2>1. /\ \A g \in Fields : s.rgbw[g] \in Offsets
        /\ \A g \in Fields, j \in DOMAIN s.overrides : s.overrides[j][g] \in {None} \union Offsets
    BY DEF Valid, ValidConfig, ValidOffsets
  <2>2. \A n \in Offsets : n \in Int
    BY DEF Offsets
  <2> HIDE DEF s, d
  <2> DEFINE auto == IF s.auto /\ Rgbw(d) THEN s.rgbw ELSE Neutral
  <2>3. auto["brightness"] \in Int /\ auto["colorTemp"] \in Int
    BY <2>1, <2>2 DEF Neutral, Fields
  <2> HIDE DEF auto
  <2>4. CASE i \in DOMAIN s.overrides
    <3>1. offsets = [g \in Fields |-> Or(s.overrides[i][g], auto[g])]
      BY <2>4 DEF Resolve, auto
    <3>2. \A g \in Fields : Or(s.overrides[i][g], auto[g]) \in Int
      BY <2>1, <2>2, <2>3, <2>4 DEF Or, Fields
    <3> QED BY <3>1, <3>2 DEF Fields
  <2>5. CASE i \notin DOMAIN s.overrides
    <3>1. offsets = auto
      BY <2>5 DEF Resolve, auto
    <3> QED BY <2>3, <3>1
  <2> QED BY <2>4, <2>5
<1> HIDE DEF d, s, offsets
<1>5. CASE f = "brightness"
  <2>1. OwnValue(i, f, t) = Clamp(t.brightness + offsets.brightness, 1, 254)
    BY <1>5 DEF OwnValue, Own, ApplyBrightness, offsets, s, d
  <2>2. \A n \in Int : Clamp(n, 1, 254) \in Nat /\ Clamp(n, 1, 254) <= 254
    BY DEF Clamp
  <2>3. t.brightness + offsets.brightness \in Int
    BY <1>3, <1>4
  <2> QED BY <1>2, <1>5, <2>1, <2>2, <2>3 DEF FieldOK, Cap
<1>6. CASE f = "colorTemp"
  <2> DEFINE lo == Or(d.min, 1)
             hi == Or(d.max, MaxU16)
             mired == InRange(t.colorTemp, d)
  <2>1. OwnValue(i, f, t) = Clamp(mired + offsets.colorTemp, lo, hi)
    BY <1>6 DEF OwnValue, Own, ApplyColorTemp, offsets, s, d
  <2>2. lo \in Nat /\ lo <= MaxU16 /\ hi \in Nat /\ hi <= MaxU16
    BY <1>1, <1>2 DEF Or
  <2>3. mired \in Int
    BY <1>1, <1>2, <1>3 DEF InRange, Or, Clamp
  <2> HIDE DEF lo, hi, mired
  <2>4. mired + offsets.colorTemp \in Int
    BY <1>4, <2>3
  <2>5. \A n \in Int : Clamp(n, lo, hi) \in Nat /\ Clamp(n, lo, hi) <= MaxU16
    BY <1>2, <2>2 DEF Clamp
  <2> QED BY <1>6, <2>1, <2>4, <2>5 DEF FieldOK, Cap
<1> QED BY <1>5, <1>6 DEF Fields

\* A step is a push to a light, or a command whose values fit their fields.
SoundStep(step) ==
  \/ step \in Pushes
  \/ /\ step \in Commands
     /\ \A f \in Fields : step.values[f] = None \/ FieldOK(f, step.values[f])

\* What a cycle publishes is made of such steps.
LEMMA PushRoomIsSound ==
  ASSUME Valid, NEW t, SoundTarget(t)
  PROVE  \A step \in PushRoom(t) : SoundStep(step)
<1> DEFINE m == setup.members
           s == setup.calibration
           plan  == PlanGroupPublish(m, s, devices, t)
           group == GroupCommand(m, s, devices, t)
           Fits(f, v) == v = None \/ FieldOK(f, v)
<1>1. m \subseteq Lights /\ DOMAIN devices = setup.known
  BY ClockworkAssumption DEF Valid, devices
<1>2. ASSUME NEW f \in Fields
      PROVE  Fits(f, group[f])
  <2> DEFINE values == Values(m, s, devices, t, f)
  <2>1. group[f] = Carried(m, s, devices, t, f)
    BY DEF GroupCommand
  <2>2. \A v \in values : FieldOK(f, v)
    BY <1>1, OwnIsSound DEF Values, Supporting, OwnValue
  <2>3. group[f] \in {t[f], None} \union values
    <3>1. CASE values = {}
      BY <2>1, <3>1, Zenon DEF Carried
    <3>2. CASE values # {} /\ \A v, w \in values : v = w
      <4>1. group[f] = CHOOSE v \in values : TRUE
        BY <2>1, <3>2, Zenon DEF Carried
      <4> QED BY <3>2, <4>1
    <3>3. CASE values # {} /\ ~ \A v, w \in values : v = w
      BY <2>1, <3>3, Zenon DEF Carried
    <3> QED BY <3>1, <3>2, <3>3
  <2>4. FieldOK(f, t[f])
    BY DEF SoundTarget
  <2> QED BY <2>2, <2>3, <2>4
<1>3. ASSUME NEW i \in DOMAIN plan.members
      PROVE  /\ i \in m
             /\ \A f \in Fields : Fits(f, plan.members[i][f])
             /\ plan.members[i] = [f \in Fields |-> plan.members[i][f]]
  <2> DEFINE left(j) == [f \in Fields |->
                IF group[f] = None /\ j \in Supporting(m, devices, f)
                THEN Own(j, f, t, s, devices[j]) ELSE None]
  <2>1. plan.members = [j \in {k \in m : \E f \in Fields : left(k)[f] # None} |-> left(j)]
    BY Zenon DEF PlanGroupPublish, MemberCommands
  <2>2. i \in m /\ plan.members[i] = left(i)
    BY <2>1
  <2>3. ASSUME NEW f \in Fields
        PROVE  Fits(f, left(i)[f])
    <3>1. CASE group[f] = None /\ i \in Supporting(m, devices, f)
      <4>1. i \in setup.known
        BY <1>1, <3>1 DEF Supporting
      <4> QED BY <3>1, <4>1, OwnIsSound DEF OwnValue
    <3>2. CASE ~(group[f] = None /\ i \in Supporting(m, devices, f))
      BY <3>2
    <3> QED BY <3>1, <3>2
  <2> QED BY <2>2, <2>3
<1>4. ASSUME NEW to \in Lights \union {"group"}, NEW values, values = [f \in Fields |-> values[f]],
             \A f \in Fields : Fits(f, values[f])
      PROVE  SoundStep(Command(to, values))
  <2>1. values \in [Fields -> Nat \union {None}]
    BY <1>4 DEF FieldOK
  <2> QED BY <1>4, <2>1 DEF SoundStep, Command, Commands
<1>5. CASE setup.grouped
  <2>1. plan.group = group /\ group = [f \in Fields |-> group[f]]
    BY Zenon DEF PlanGroupPublish, GroupCommand
  <2>2. \A step \in PushRoom(t) :
          \/ step = Command("group", group)
          \/ \E i \in DOMAIN plan.members : step = Command(i, plan.members[i])
    BY <1>5, <2>1 DEF PushRoom, GroupCommands
  <2> HIDE DEF plan, group
  <2>3. SoundStep(Command("group", group))
    BY <1>2, <1>4, <2>1
  <2>4. \A i \in DOMAIN plan.members : SoundStep(Command(i, plan.members[i]))
    BY <1>1, <1>3, <1>4
  <2> QED BY <2>2, <2>3, <2>4
<1>6. CASE ~setup.grouped
  BY <1>1, <1>6 DEF PushRoom, SoundStep, Push, Pushes
<1> QED BY <1>5, <1>6

Reports == [light : setup.known, online : BOOLEAN] \union [schedule : Times]

HouseOK ==
  /\ now \in 0..setup.horizon
  /\ powered \subseteq DOMAIN setup.lights
  /\ DOMAIN setup.lights \ powered \subseteq setup.known
  /\ schedule \in Times
  /\ available \subseteq setup.known
  /\ fresh \in BOOLEAN
  /\ spent \in [{"schedule", "power"} -> Nat]
QueuesOK ==
  /\ rx \in Seq(Reports) /\ Len(rx) <= RxCap
  /\ inbox \in Seq(setup.known)
StepsOK ==
  /\ \A step \in todo : SoundStep(step)
  /\ target = NoTarget \/ SoundTarget(target)
  /\ todo # {} => SoundTarget(target)
ShownOK ==
  /\ DOMAIN shown = DOMAIN setup.lights
  /\ \A i \in DOMAIN setup.lights, f \in Fields : FieldOK(f, shown[i][f])

\* Every command fits, and lies within the points of the curve: what the engine
\* has still to publish is of a target that is sound, and what waits in the
\* queues names lights that are known.
SoundInv == Valid /\ HouseOK /\ QueuesOK /\ StepsOK /\ ShownOK

LEMMA FieldsFit == \A f \in Fields : FieldOK(f, 0)
<1>1. MaxU8 \in Nat /\ MaxU16 \in Nat
  BY SMT DEF MaxU8, MaxU16
<1> QED BY <1>1 DEF FieldOK, Cap

\* A setup's lights are lights, and so are those the house knows.
LEMMA KnownLights ==
  ASSUME Valid
  PROVE  /\ setup.known \subseteq DOMAIN setup.lights /\ setup.members \subseteq DOMAIN setup.lights
         /\ DOMAIN setup.lights \subseteq Lights
         /\ setup.horizon \in Nat /\ RxCap \in Nat \ {0}
BY ClockworkAssumption DEF Valid

LEMMA InitIsSound == Init => SoundInv
<1> SUFFICES ASSUME Init PROVE SoundInv
  OBVIOUS
<1>1. Valid
  BY DEF Init, Valid
<1>2. HouseOK
  <2>1. NoTimes \in Times
    BY DEF NoTimes, Times
  <2>2. 0 \in 0..setup.horizon
    BY <1>1, KnownLights
  <2>3. spent \in [{"schedule", "power"} -> Nat] /\ fresh \in BOOLEAN
    BY DEF Init
  <2>4. /\ now = 0 /\ schedule = NoTimes /\ available = setup.known
        /\ powered = DOMAIN setup.lights
    BY DEF Init
  <2> QED BY <2>1, <2>2, <2>3, <2>4 DEF HouseOK
<1>3. QueuesOK
  BY <1>1, KnownLights DEF Init, QueuesOK
<1>4. StepsOK
  BY DEF Init, StepsOK
<1>5. ShownOK
  BY FieldsFit DEF Init, ShownOK, PowerUp
<1> QED BY <1>1, <1>2, <1>3, <1>4, <1>5 DEF SoundInv

\* What the setup decides it goes on deciding.
LEMMA SetupStays ==
  ASSUME setup' = setup
  PROVE  /\ Valid => Valid'
         /\ SoundTarget(target') => SoundTarget(target)'
         /\ Reports' = Reports
BY DEF Valid, SoundTarget, Within, Reports

\* The engine begins a target: a cycle, or the push to a light that came back.
LEMMA BeginsSound ==
  ASSUME SoundInv, setup' = setup, target' = Target(schedule, now),
         \A step \in todo' : SoundStep(step)
  PROVE  StepsOK'
<1>1. SoundTarget(target')
  BY TargetIsSound, KnownLights DEF SoundInv, HouseOK
<1> QED BY <1>1, SetupStays DEF StepsOK

LEMMA CycleIsSound == SoundInv /\ CycleTick => SoundInv'
<1> SUFFICES ASSUME SoundInv, CycleTick PROVE SoundInv'
  OBVIOUS
<1>1. /\ UNCHANGED <<setup, now, powered, spent, schedule, available, rx, inbox, shown>>
      /\ target' = Target(schedule, now) /\ todo' = PushRoom(target') /\ fresh' \in BOOLEAN
  BY DEF CycleTick, house
<1>2. SoundTarget(target')
  BY <1>1, TargetIsSound, KnownLights DEF SoundInv, HouseOK
<1>3. \A step \in todo' : SoundStep(step)
  BY <1>1, <1>2, PushRoomIsSound DEF SoundInv
<1>4. StepsOK'
  BY <1>1, <1>3, BeginsSound
<1>5. Valid'
  BY <1>1 DEF SoundInv, Valid
<1>6. HouseOK'
  BY <1>1 DEF SoundInv, HouseOK
<1>7. QueuesOK'
  BY <1>1 DEF SoundInv, QueuesOK, Reports
<1>8. ShownOK'
  BY <1>1 DEF SoundInv, ShownOK
<1> QED BY <1>4, <1>5, <1>6, <1>7, <1>8 DEF SoundInv

\* A step that leaves the target alone, and publishes what was to be published.
LEMMA KeepsSteps ==
  ASSUME SoundInv, UNCHANGED <<setup, target>>, todo' \subseteq todo
  PROVE  Valid' /\ StepsOK'
<1>1. todo' # {} => todo # {}
  OBVIOUS
<1>2. \A step \in todo' : SoundStep(step)
  BY DEF SoundInv, StepsOK
<1>3. SoundTarget(target) => SoundTarget(target)'
  BY DEF SoundTarget, Within
<1> QED BY <1>1, <1>2, <1>3 DEF SoundInv, StepsOK, Valid, NoTarget

LEMMA ReturnIsSound == SoundInv /\ LightReturns => SoundInv'
<1> SUFFICES ASSUME SoundInv, LightReturns PROVE SoundInv'
  OBVIOUS
<1> DEFINE i == Head(inbox)
<1>1. /\ UNCHANGED <<setup, now, powered, spent, schedule, available, rx, shown, fresh>>
      /\ inbox # <<>> /\ inbox' = Tail(inbox) /\ todo = {}
      /\ \/ target' = Target(schedule, now) /\ todo' = {Push(i)}
         \/ UNCHANGED <<target, todo>>
  BY DEF LightReturns, house
<1>2. i \in setup.known /\ inbox' \in Seq(setup.known)
  BY <1>1 DEF SoundInv, QueuesOK
<1>3. StepsOK'
  <2>1. CASE target' = Target(schedule, now) /\ todo' = {Push(i)}
    <3>1. SoundStep(Push(i))
      BY <1>2, KnownLights DEF SoundInv, SoundStep, Push, Pushes
    <3> QED BY <1>1, <2>1, <3>1, BeginsSound
  <2>2. CASE UNCHANGED <<target, todo>>
    BY <1>1, <2>2, KeepsSteps
  <2> QED BY <1>1, <2>1, <2>2
<1>4. Valid'
  BY <1>1 DEF SoundInv, Valid
<1>5. HouseOK'
  BY <1>1 DEF SoundInv, HouseOK
<1>6. QueuesOK'
  BY <1>1, <1>2 DEF SoundInv, QueuesOK, Reports
<1>7. ShownOK'
  BY <1>1 DEF SoundInv, ShownOK
<1> QED BY <1>3, <1>4, <1>5, <1>6, <1>7 DEF SoundInv

\* A command that fits leaves every light at a value that fits.
LEMMA DeliveryIsSound ==
  ASSUME SoundInv, setup' = setup, NEW lights, NEW values,
         \A f \in Fields : values[f] = None \/ FieldOK(f, values[f]),
         Deliver(lights, values) \/ shown' = shown
  PROVE  ShownOK'
<1>1. CASE Deliver(lights, values)
  <2>1. shown' = [i \in DOMAIN shown |->
             IF i \in lights \cap powered
             THEN [f \in Fields |->
                    IF values[f] # None /\ setup.lights[i][f] THEN values[f] ELSE shown[i][f]]
             ELSE shown[i]]
    BY <1>1 DEF Deliver
  <2>2. \A i \in DOMAIN shown, f \in Fields :
          shown'[i][f] = shown[i][f] \/ (values[f] # None /\ shown'[i][f] = values[f])
    BY <2>1
  <2> QED BY <2>1, <2>2 DEF SoundInv, ShownOK
<1>2. CASE shown' = shown
  BY <1>2 DEF SoundInv, ShownOK
<1> QED BY <1>1, <1>2

LEMMA PublishIsSound == SoundInv /\ Publish => SoundInv'
<1> SUFFICES ASSUME SoundInv, NEW step \in todo,
                    IF "push" \in DOMAIN step THEN PublishPush(step.push) ELSE PublishCommand(step)
             PROVE  SoundInv'
  BY DEF Publish
<1>1. UNCHANGED <<setup, now, powered, spent, schedule, available, rx, inbox, target, fresh>>
      /\ todo' \subseteq todo
  BY DEF PublishPush, PublishCommand, house
<1>2. SoundStep(step) /\ SoundTarget(target)
  BY DEF SoundInv, StepsOK
<1>3. ShownOK'
  <2>1. CASE "push" \in DOMAIN step
    <3> DEFINE i == step.push
               values == [f \in Fields |->
                            IF f = "brightness" \/ devices[i][f] THEN OwnValue(i, f, target) ELSE None]
    <3>1. IF i \in available THEN Deliver({i}, values) ELSE UNCHANGED shown
      BY <2>1 DEF PublishPush
    <3>2. CASE i \in available
      <4>1. i \in setup.known
        BY <3>2 DEF SoundInv, HouseOK
      <4>2. \A f \in Fields : values[f] = None \/ FieldOK(f, values[f])
        BY <1>2, <4>1, OwnIsSound DEF SoundInv
      <4> HIDE DEF values, i
      <4> QED BY <1>1, <3>1, <3>2, <4>2, DeliveryIsSound
    <3>3. CASE i \notin available
      BY <1>1, <3>1, <3>3 DEF SoundInv, ShownOK
    <3> QED BY <3>2, <3>3
  <2>2. CASE "push" \notin DOMAIN step
    <3>1. \A f \in Fields : step.values[f] = None \/ FieldOK(f, step.values[f])
      BY <1>2, <2>2 DEF SoundStep, Pushes
    <3>2. Deliver(IF step.to = "group" THEN setup.members ELSE {step.to}, step.values)
      BY <2>2 DEF PublishCommand
    <3> QED BY <1>1, <3>1, <3>2, DeliveryIsSound
  <2> QED BY <2>1, <2>2
<1>4. Valid' /\ StepsOK'
  BY <1>1, KeepsSteps
<1>5. HouseOK'
  BY <1>1 DEF SoundInv, HouseOK
<1>6. QueuesOK'
  BY <1>1 DEF SoundInv, QueuesOK, Reports
<1> QED BY <1>3, <1>4, <1>5, <1>6 DEF SoundInv

\* One more report on its way, in a queue that has room for it.
LEMMA SendsSound ==
  ASSUME SoundInv, UNCHANGED <<setup, inbox>>, NEW u \in Reports, Sends(u)
  PROVE  QueuesOK'
<1>1. rx \in Seq(Reports) /\ Len(rx) < RxCap /\ rx' = Append(rx, u)
  BY DEF SoundInv, QueuesOK, Sends
<1>2. rx' \in Seq(Reports) /\ Len(rx') = Len(rx) + 1 /\ Len(rx) \in Nat
  BY <1>1
<1>3. RxCap \in Nat
  BY KnownLights DEF SoundInv
<1> QED BY <1>1, <1>2, <1>3, SetupStays DEF SoundInv, QueuesOK

LEMMA SpendsSound ==
  ASSUME SoundInv, NEW what \in {"schedule", "power"}, Spend(what)
  PROVE  spent' \in [{"schedule", "power"} -> Nat]
BY DEF Spend, SoundInv, HouseOK

LEMMA AskIsSound ==
  ASSUME SoundInv, NEW times \in setup.asks, SetSchedule(times)
  PROVE  SoundInv'
<1>1. UNCHANGED <<setup, now, schedule, available, inbox, todo, target, powered, shown>>
      /\ fresh' = FALSE /\ Spend("schedule") /\ Sends([schedule |-> times])
  BY DEF SetSchedule
<1>2. times \in Times
  BY SettingsAssumption DEF SoundInv, Valid
<1>3. QueuesOK'
  BY <1>1, <1>2, SendsSound DEF Reports
<1>4. HouseOK'
  BY <1>1, SpendsSound DEF SoundInv, HouseOK
<1>5. Valid' /\ StepsOK'
  BY <1>1, KeepsSteps
<1>6. ShownOK'
  BY <1>1 DEF SoundInv, ShownOK
<1> QED BY <1>3, <1>4, <1>5, <1>6 DEF SoundInv

LEMMA LossIsSound ==
  ASSUME SoundInv, NEW i \in Lights, PowerLost(i)
  PROVE  SoundInv'
<1>1. UNCHANGED <<setup, now, schedule, available, inbox, todo, target, shown, fresh>>
      /\ Spend("power") /\ Sends([light |-> i, online |-> FALSE])
      /\ powered' = powered \ {i} /\ i \in setup.known
  BY DEF PowerLost
<1>2. QueuesOK'
  BY <1>1, SendsSound DEF Reports
<1>3. HouseOK'
  BY <1>1, SpendsSound DEF SoundInv, HouseOK
<1>4. Valid' /\ StepsOK'
  BY <1>1, KeepsSteps
<1>5. ShownOK'
  BY <1>1 DEF SoundInv, ShownOK
<1> QED BY <1>2, <1>3, <1>4, <1>5 DEF SoundInv

LEMMA BackIsSound ==
  ASSUME SoundInv, NEW i \in Lights, PowerBack(i)
  PROVE  SoundInv'
<1>1. UNCHANGED <<setup, now, schedule, available, inbox, todo, target, fresh, spent>>
      /\ Sends([light |-> i, online |-> TRUE])
      /\ powered' = powered \union {i} /\ i \in DOMAIN setup.lights \ powered
      /\ shown' = [shown EXCEPT ![i] = PowerUp]
  BY DEF PowerBack
<1>2. i \in setup.known
  BY <1>1 DEF SoundInv, HouseOK
<1>3. QueuesOK'
  BY <1>1, <1>2, SendsSound DEF Reports
<1>4. HouseOK'
  BY <1>1 DEF SoundInv, HouseOK
<1>5. Valid' /\ StepsOK'
  BY <1>1, KeepsSteps
<1>6. ShownOK'
  BY <1>1, FieldsFit DEF SoundInv, ShownOK, PowerUp
<1> QED BY <1>3, <1>4, <1>5, <1>6 DEF SoundInv

LEMMA ApplyIsSound == SoundInv /\ Applies => SoundInv'
<1> SUFFICES ASSUME SoundInv, Applies PROVE SoundInv'
  OBVIOUS
<1> DEFINE u == Head(rx)
<1>1. /\ UNCHANGED <<setup, now, powered, spent, todo, target, shown, fresh>>
      /\ rx # <<>> /\ rx' = Tail(rx)
      /\ IF "schedule" \in DOMAIN u
         THEN schedule' = u.schedule /\ UNCHANGED <<available, inbox>>
         ELSE /\ available' = IF u.online THEN available \union {u.light} ELSE available \ {u.light}
              /\ inbox' = IF u.online THEN Append(inbox, u.light) ELSE inbox
              /\ UNCHANGED schedule
  BY DEF Applies, house
<1>2. rx \in Seq(Reports) /\ Len(rx) <= RxCap /\ inbox \in Seq(setup.known)
      /\ schedule \in Times /\ available \subseteq setup.known
  BY DEF SoundInv, QueuesOK, HouseOK
<1>3. u \in Reports /\ rx' \in Seq(Reports) /\ Len(rx') <= RxCap
  <2>1. u \in Reports /\ rx' \in Seq(Reports) /\ Len(rx') = Len(rx) - 1 /\ Len(rx) \in Nat
    BY <1>1, <1>2
  <2>2. RxCap \in Nat
    BY KnownLights DEF SoundInv
  <2> QED BY <1>2, <2>1, <2>2
<1> HIDE DEF u
<1>4. schedule' \in Times /\ available' \subseteq setup.known /\ inbox' \in Seq(setup.known)
  <2>1. CASE u \in [schedule : Times]
    BY <1>1, <1>2, <2>1
  <2>2. CASE u \in [light : setup.known, online : BOOLEAN]
    <3>1. "schedule" \notin DOMAIN u /\ u.light \in setup.known
      BY <2>2
    <3>2. Append(inbox, u.light) \in Seq(setup.known)
      <4>1. \A S : \A s \in Seq(S), e \in S : Append(s, e) \in Seq(S)
        OBVIOUS
      <4> QED BY <1>2, <3>1, <4>1, Zenon
    <3>3. schedule' = schedule /\ inbox' \in {Append(inbox, u.light), inbox}
      BY <1>1, <3>1, Zenon
    <3>4. available' \in {available \union {u.light}, available \ {u.light}}
      BY <1>1, <3>1, Zenon
    <3>5. available' \subseteq setup.known
      BY <1>2, <3>1, <3>4
    <3> QED BY <1>2, <3>2, <3>3, <3>5
  <2> QED BY <1>3, <2>1, <2>2 DEF Reports
<1>5. QueuesOK'
  BY <1>1, <1>3, <1>4, SetupStays DEF QueuesOK
<1>6. HouseOK'
  BY <1>1, <1>4 DEF SoundInv, HouseOK
<1>7. Valid' /\ StepsOK'
  BY <1>1, KeepsSteps
<1>8. ShownOK'
  BY <1>1 DEF SoundInv, ShownOK
<1> QED BY <1>5, <1>6, <1>7, <1>8 DEF SoundInv

LEMMA RestIsSound == SoundInv /\ (TimePasses \/ UNCHANGED vars) => SoundInv'
<1> SUFFICES ASSUME SoundInv, TimePasses \/ UNCHANGED vars PROVE SoundInv'
  OBVIOUS
<1>1. UNCHANGED <<setup, schedule, available, rx, inbox, todo, target, powered, shown, spent>>
      /\ fresh' \in BOOLEAN /\ now' \in 0..setup.horizon
  <2>1. now \in 0..setup.horizon /\ setup.horizon \in Nat /\ fresh \in BOOLEAN
    BY KnownLights DEF SoundInv, HouseOK
  <2>2. CASE TimePasses
    <3>1. now' = now + 1 /\ now < setup.horizon /\ fresh' = FALSE
      BY <2>2 DEF TimePasses
    <3>2. now' \in 0..setup.horizon
      BY <2>1, <3>1
    <3> QED BY <2>2, <3>1, <3>2, Zenon DEF TimePasses
  <2>3. CASE UNCHANGED vars
    BY <2>1, <2>3, Zenon DEF vars
  <2> QED BY <2>2, <2>3
<1>2. QueuesOK'
  BY <1>1 DEF SoundInv, QueuesOK, Reports
<1>3. HouseOK'
  BY <1>1 DEF SoundInv, HouseOK
<1>4. Valid' /\ StepsOK'
  BY <1>1, KeepsSteps
<1>5. ShownOK'
  BY <1>1 DEF SoundInv, ShownOK
<1> QED BY <1>2, <1>3, <1>4, <1>5 DEF SoundInv

\* What is on its way fits: the house of TypeOK, out of the invariant.
LEMMA SoundIsTyped == SoundInv => TypeOK
<1> SUFFICES ASSUME SoundInv PROVE TypeOK
  OBVIOUS
<1> USE KnownLights DEF SoundInv
<1>1. setup \in Setups /\ setup.known \subseteq Lights
  BY DEF Valid
<1>2. now \in 0..setup.horizon /\ schedule \in Times /\ available \subseteq setup.known
      /\ powered \subseteq Lights /\ fresh \in BOOLEAN /\ spent \in [{"schedule", "power"} -> Nat]
  BY DEF HouseOK
<1>3. rx \in Seq(Updates) /\ Len(rx) <= RxCap /\ inbox \in Seq(setup.known)
  <2>1. Reports \subseteq Updates
    BY <1>1 DEF Reports, Updates
  <2> QED BY <2>1 DEF QueuesOK
<1>4. todo \subseteq Commands \union Pushes
  BY DEF StepsOK, SoundStep
<1>5. MaxU8 \in Nat /\ MaxU16 \in Nat
  BY SMT DEF MaxU8, MaxU16
<1>6. target = NoTarget \/ (target.brightness \in 0..MaxU8 /\ target.colorTemp \in 1..MaxU16)
  BY <1>5 DEF StepsOK, SoundTarget, FieldOK, Cap, Fields
<1>7. \A i \in DOMAIN setup.lights :
        shown[i].brightness \in 0..MaxU8 /\ shown[i].colorTemp \in 0..MaxU16
  <2>1. \A i \in DOMAIN setup.lights :
          FieldOK("brightness", shown[i]["brightness"]) /\ FieldOK("colorTemp", shown[i]["colorTemp"])
    BY DEF ShownOK, Fields
  <2> QED BY <1>5, <2>1 DEF FieldOK, Cap
<1> QED BY <1>1, <1>2, <1>3, <1>4, <1>6, <1>7 DEF TypeOK

LEMMA SoundStays == SoundInv /\ [Next]_vars => SoundInv'
<1> SUFFICES ASSUME SoundInv, [Next]_vars PROVE SoundInv'
  OBVIOUS
<1>1. CASE CycleTick
  BY <1>1, CycleIsSound
<1>2. CASE LightReturns
  BY <1>2, ReturnIsSound
<1>3. CASE Publish
  BY <1>3, PublishIsSound
<1>4. CASE \E times \in setup.asks : SetSchedule(times)
  BY <1>4, AskIsSound
<1>5. CASE \E i \in Lights : PowerLost(i) \/ PowerBack(i)
  BY <1>5, LossIsSound, BackIsSound
<1>6. CASE Applies
  BY <1>6, ApplyIsSound
<1>7. CASE TimePasses \/ UNCHANGED vars
  BY <1>7, RestIsSound
<1> QED BY <1>1, <1>2, <1>3, <1>4, <1>5, <1>6, <1>7 DEF Next

\* What is on its way is well formed, within what the lights can take and within
\* the points of the curve, for any configuration that passes validation: no
\* overflow of a mired value, no overshoot (curve.rs:60, season.rs:43,
\* calibration.rs:39).
THEOREM CommandsAreSound == Spec => []CommandsSound
<1>1. SoundInv => CommandsSound
  <2>1. SoundInv => WithinThePoints
    BY Zenon DEF SoundInv, StepsOK, SoundTarget, Within, WithinThePoints
  <2> QED BY <2>1, SoundIsTyped DEF CommandsSound
<1> QED BY <1>1, InitIsSound, SoundStays, PTL DEF Spec

-----------------------------------------------------------------------------
(* Every light gets there.                                                  *)

ForTimes(u)    == "schedule" \in DOMAIN u
ForLight(u, i) == "light" \in DOMAIN u /\ u.light = i

\* the times that were last asked for are the last on their way, or in force
AskedOK ==
  /\ \A k \in 1..Len(rx) :
       ForTimes(rx[k]) /\ (\A l \in (k + 1)..Len(rx) : ~ForTimes(rx[l]))
         => rx[k].schedule = asked
  /\ (\A k \in 1..Len(rx) : ~ForTimes(rx[k])) => schedule = asked

\* the last report of a light on its way, or the record, says if it has power
PowerOK ==
  \A i \in setup.known :
    /\ \A k \in 1..Len(rx) :
         ForLight(rx[k], i) /\ (\A l \in (k + 1)..Len(rx) : ~ForLight(rx[l], i))
           => (rx[k].online <=> i \in powered)
    /\ (\A k \in 1..Len(rx) : ~ForLight(rx[k], i)) => (i \in available <=> i \in powered)

\* since the cycle of this minute nothing has moved the target
FreshOK ==
  fresh => /\ target = Target(asked, now)
           /\ \A k \in 1..Len(rx) : ~ForTimes(rx[k])

\* what will yet set a field of a light
Carries(c, i, f) == "to" \in DOMAIN c /\ Reaches(c, i) /\ c.values[f] # None
Pending(i, f) ==
  \/ \E c \in todo : Carries(c, i, f)
  \/ Push(i) \in todo
  \/ \E k \in 1..Len(inbox) : inbox[k] = i
  \/ \E k \in 1..Len(rx) : ForLight(rx[k], i) /\ rx[k].online

Arrives(i, f) == shown[i][f] = OwnValue(i, f, target) \/ Pending(i, f)
LightsOK ==
  fresh =>
    \A i \in setup.members \cap setup.known \cap powered, f \in Fields :
      setup.lights[i][f] => Arrives(i, f)

\* Every light with power is at its own value or has it coming: what the engine
\* publishes, and what the queues hold, make up for what is still missing.
OwnInv == IInv /\ SoundInv /\ AskedOK /\ PowerOK /\ FreshOK /\ LightsOK

\* a light with a colour temperature can be dimmed
Dimmable ==
  \A s \in Setups : \A i \in s.known : s.lights[i].colorTemp => s.lights[i].brightness

LEMMA InitIsOwn == Init => OwnInv
<1> SUFFICES ASSUME Init PROVE OwnInv
  OBVIOUS
<1>1. IInv /\ SoundInv
  BY InitEstablishes, InitIsSound
<1>2. rx = <<>> /\ schedule = asked /\ available = setup.known /\ powered = DOMAIN setup.lights
      /\ fresh = FALSE
  BY DEF Init
<1>3. setup.known \subseteq DOMAIN setup.lights
  BY <1>1, KnownLights DEF SoundInv
<1> QED BY <1>1, <1>2, <1>3 DEF OwnInv, AskedOK, PowerOK, FreshOK, LightsOK

\* The report a queue is made of is of one kind.
LEMMA ReportsAre ==
  \A u \in Reports : \/ ForTimes(u) /\ \A i : ~ForLight(u, i)
                     \/ ~ForTimes(u) /\ ForLight(u, u.light) /\ u.light \in setup.known
                        /\ u.online \in BOOLEAN
BY DEF Reports, ForTimes, ForLight

LEMMA Popped ==
  ASSUME rx \in Seq(Reports), rx # <<>>, rx' = Tail(rx)
  PROVE  /\ Len(rx) \in Nat \ {0} /\ Len(rx') = Len(rx) - 1 /\ Head(rx) = rx[1]
         /\ \A k \in 1..Len(rx') : rx'[k] = rx[k + 1] /\ k + 1 \in 1..Len(rx)
         /\ \A k \in 1..Len(rx) : k # 1 => k - 1 \in 1..Len(rx') /\ rx'[k - 1] = rx[k]
         /\ 1 \in 1..Len(rx) /\ rx[1] \in Reports
OBVIOUS

LEMMA Pushed ==
  ASSUME rx \in Seq(Reports), NEW u \in Reports, rx' = Append(rx, u)
  PROVE  /\ Len(rx) \in Nat /\ Len(rx') = Len(rx) + 1 /\ rx'[Len(rx')] = u
         /\ \A k \in 1..Len(rx) : k \in 1..Len(rx') /\ rx'[k] = rx[k]
         /\ \A k \in 1..Len(rx') : k \in 1..Len(rx) \/ k = Len(rx')
         /\ Len(rx') \in 1..Len(rx')
OBVIOUS

\* A command to the actor is taken from its queue: what it says goes into force.
LEMMA AppliesAsked ==
  ASSUME OwnInv, rx # <<>>, rx' = Tail(rx), asked' = asked,
         schedule' = IF ForTimes(Head(rx)) THEN Head(rx).schedule ELSE schedule
  PROVE  AskedOK'
<1>1. rx \in Seq(Reports)
  BY DEF OwnInv, SoundInv, QueuesOK
<1>2. AskedOK
  BY DEF OwnInv
<1>3. ASSUME NEW k \in 1..Len(rx'), ForTimes(rx'[k]),
             \A l \in (k + 1)..Len(rx') : ~ForTimes(rx'[l])
      PROVE  rx'[k].schedule = asked
  <2>1. k + 1 \in 1..Len(rx) /\ rx'[k] = rx[k + 1]
    BY <1>1, <1>3, Popped
  <2>2. ASSUME NEW l \in (k + 2)..Len(rx)
        PROVE  ~ForTimes(rx[l])
    <3>1. l - 1 \in (k + 1)..Len(rx') /\ rx'[l - 1] = rx[l]
      BY <1>1, <1>3, <2>2, Popped
    <3> QED BY <1>3, <3>1
  <2>3. \A l \in ((k + 1) + 1)..Len(rx) : ~ForTimes(rx[l])
    BY <1>3, <2>2
  <2> QED BY <1>2, <1>3, <2>1, <2>3 DEF AskedOK
<1>4. ASSUME \A k \in 1..Len(rx') : ~ForTimes(rx'[k])
      PROVE  schedule' = asked
  <2>1. ASSUME NEW l \in 2..Len(rx)
        PROVE  ~ForTimes(rx[l])
    <3>1. l \in 1..Len(rx) /\ l # 1
      OBVIOUS
    <3>2. l - 1 \in 1..Len(rx') /\ rx'[l - 1] = rx[l]
      BY <1>1, <3>1, Popped
    <3> QED BY <1>4, <3>2
  <2>2. 1 \in 1..Len(rx) /\ Head(rx) = rx[1] /\ Len(rx) \in Nat
    BY <1>1, Popped
  <2>3. CASE ForTimes(rx[1])
    <3>1. \A l \in (1 + 1)..Len(rx) : ~ForTimes(rx[l])
      BY <2>1
    <3>2. rx[1].schedule = asked
      BY <1>2, <2>2, <2>3, <3>1, Zenon DEF AskedOK
    <3>3. schedule' = rx[1].schedule
      BY <2>2, <2>3
    <3> QED BY <3>2, <3>3
  <2>4. CASE ~ForTimes(rx[1])
    <3>1. \A k \in 1..Len(rx) : ~ForTimes(rx[k])
      BY <2>1, <2>2, <2>4
    <3> QED BY <1>2, <2>2, <2>4, <3>1 DEF AskedOK
  <2> QED BY <2>3, <2>4
<1> QED BY <1>3, <1>4 DEF AskedOK

LEMMA AppliesPower ==
  ASSUME OwnInv, rx # <<>>, rx' = Tail(rx), UNCHANGED <<setup, powered>>,
         \A i \in setup.known :
           i \in available' <=> IF ForLight(Head(rx), i) THEN Head(rx).online ELSE i \in available
  PROVE  PowerOK'
<1>1. rx \in Seq(Reports)
  BY DEF OwnInv, SoundInv, QueuesOK
<1>2. PowerOK
  BY DEF OwnInv
<1> SUFFICES ASSUME NEW i \in setup.known
             PROVE  /\ \A k \in 1..Len(rx') :
                         ForLight(rx'[k], i) /\ (\A l \in (k + 1)..Len(rx') : ~ForLight(rx'[l], i))
                           => (rx'[k].online <=> i \in powered)
                    /\ (\A k \in 1..Len(rx') : ~ForLight(rx'[k], i))
                         => (i \in available' <=> i \in powered)
  BY DEF PowerOK
<1>3. ASSUME NEW k \in 1..Len(rx'), ForLight(rx'[k], i),
             \A l \in (k + 1)..Len(rx') : ~ForLight(rx'[l], i)
      PROVE  rx'[k].online <=> i \in powered
  <2>1. k + 1 \in 1..Len(rx) /\ rx'[k] = rx[k + 1]
    BY <1>1, <1>3, Popped
  <2>2. ASSUME NEW l \in (k + 2)..Len(rx)
        PROVE  ~ForLight(rx[l], i)
    <3>1. l - 1 \in (k + 1)..Len(rx') /\ rx'[l - 1] = rx[l]
      BY <1>1, <1>3, <2>2, Popped
    <3> QED BY <1>3, <3>1
  <2>3. \A l \in ((k + 1) + 1)..Len(rx) : ~ForLight(rx[l], i)
    BY <1>3, <2>2
  <2> QED BY <1>2, <1>3, <2>1, <2>3 DEF PowerOK
<1>4. ASSUME \A k \in 1..Len(rx') : ~ForLight(rx'[k], i)
      PROVE  i \in available' <=> i \in powered
  <2>1. ASSUME NEW l \in 2..Len(rx)
        PROVE  ~ForLight(rx[l], i)
    <3>1. l \in 1..Len(rx) /\ l # 1
      OBVIOUS
    <3>2. l - 1 \in 1..Len(rx') /\ rx'[l - 1] = rx[l]
      BY <1>1, <3>1, Popped
    <3> QED BY <1>4, <3>2
  <2>2. 1 \in 1..Len(rx) /\ Head(rx) = rx[1] /\ Len(rx) \in Nat
    BY <1>1, Popped
  <2>3. CASE ForLight(rx[1], i)
    <3>1. \A l \in (1 + 1)..Len(rx) : ~ForLight(rx[l], i)
      BY <2>1
    <3>2. (rx[1].online <=> i \in powered)
      BY <1>2, <2>2, <2>3, <3>1, Zenon DEF PowerOK
    <3>3. (i \in available' <=> rx[1].online)
      BY <2>2, <2>3
    <3> QED BY <3>2, <3>3
  <2>4. CASE ~ForLight(rx[1], i)
    <3>1. \A k \in 1..Len(rx) : ~ForLight(rx[k], i)
      BY <2>1, <2>2, <2>4
    <3> QED BY <1>2, <2>2, <2>4, <3>1 DEF PowerOK
  <2> QED BY <2>3, <2>4
<1> QED BY <1>3, <1>4

\* A command joins the queue: what it says is the last word.
LEMMA SendsAsked ==
  ASSUME OwnInv, NEW u \in Reports, rx' = Append(rx, u), schedule' = schedule,
         asked' = IF ForTimes(u) THEN u.schedule ELSE asked
  PROVE  AskedOK'
<1>1. rx \in Seq(Reports) /\ AskedOK
  BY DEF OwnInv, SoundInv, QueuesOK
<1>2. ASSUME NEW k \in 1..Len(rx'), ForTimes(rx'[k]),
             \A l \in (k + 1)..Len(rx') : ~ForTimes(rx'[l])
      PROVE  rx'[k].schedule = asked'
  <2>1. CASE k = Len(rx')
    BY <1>1, <1>2, <2>1, Pushed
  <2>2. CASE k # Len(rx')
    <3>1. k \in 1..Len(rx) /\ rx'[k] = rx[k] /\ Len(rx') \in (k + 1)..Len(rx')
      BY <1>1, <2>2, Pushed
    <3>2. ~ForTimes(u)
      BY <1>1, <1>2, <3>1, Pushed
    <3>3. \A l \in (k + 1)..Len(rx) : ~ForTimes(rx[l])
      BY <1>1, <1>2, <3>1, Pushed
    <3> QED BY <1>1, <1>2, <3>1, <3>2, <3>3 DEF AskedOK
  <2> QED BY <2>1, <2>2
<1>3. ASSUME \A k \in 1..Len(rx') : ~ForTimes(rx'[k])
      PROVE  schedule' = asked'
  <2>1. ~ForTimes(u) /\ \A k \in 1..Len(rx) : ~ForTimes(rx[k])
    BY <1>1, <1>3, Pushed
  <2> QED BY <1>1, <2>1 DEF AskedOK
<1> QED BY <1>2, <1>3 DEF AskedOK

LEMMA SendsPower ==
  ASSUME OwnInv, NEW u \in Reports, rx' = Append(rx, u), UNCHANGED <<setup, available>>,
         \A i \in setup.known :
           i \in powered' <=> IF ForLight(u, i) THEN u.online ELSE i \in powered
  PROVE  PowerOK'
<1>1. rx \in Seq(Reports) /\ PowerOK
  BY DEF OwnInv, SoundInv, QueuesOK
<1> SUFFICES ASSUME NEW i \in setup.known
             PROVE  /\ \A k \in 1..Len(rx') :
                         ForLight(rx'[k], i) /\ (\A l \in (k + 1)..Len(rx') : ~ForLight(rx'[l], i))
                           => (rx'[k].online <=> i \in powered')
                    /\ (\A k \in 1..Len(rx') : ~ForLight(rx'[k], i))
                         => (i \in available <=> i \in powered')
  BY DEF PowerOK
<1>2. ASSUME NEW k \in 1..Len(rx'), ForLight(rx'[k], i),
             \A l \in (k + 1)..Len(rx') : ~ForLight(rx'[l], i)
      PROVE  rx'[k].online <=> i \in powered'
  <2>1. CASE k = Len(rx')
    BY <1>1, <1>2, <2>1, Pushed
  <2>2. CASE k # Len(rx')
    <3>1. k \in 1..Len(rx) /\ rx'[k] = rx[k] /\ Len(rx') \in (k + 1)..Len(rx')
      BY <1>1, <2>2, Pushed
    <3>2. ~ForLight(u, i)
      BY <1>1, <1>2, <3>1, Pushed
    <3>3. \A l \in (k + 1)..Len(rx) : ~ForLight(rx[l], i)
      BY <1>1, <1>2, <3>1, Pushed
    <3> QED BY <1>1, <1>2, <3>1, <3>2, <3>3 DEF PowerOK
  <2> QED BY <2>1, <2>2
<1>3. ASSUME \A k \in 1..Len(rx') : ~ForLight(rx'[k], i)
      PROVE  i \in available <=> i \in powered'
  <2>1. ~ForLight(u, i) /\ \A k \in 1..Len(rx) : ~ForLight(rx[k], i)
    BY <1>1, <1>3, Pushed
  <2> QED BY <1>1, <2>1 DEF PowerOK
<1> QED BY <1>2, <1>3

\* A cycle has something to say to every light with power, about every field
\* the light understands.
LEMMA CycleReaches ==
  ASSUME SoundInv, NEW t, SoundTarget(t), NEW f \in Fields,
         NEW i \in setup.members \cap setup.known, i \in available, setup.lights[i][f]
  PROVE  \/ \E c \in PushRoom(t) : Carries(c, i, f)
         \/ Push(i) \in PushRoom(t)
<1> DEFINE m == setup.members
           s == setup.calibration
           plan  == PlanGroupPublish(m, s, devices, t)
           group == GroupCommand(m, s, devices, t)
           left(j) == [g \in Fields |->
                IF group[g] = None /\ j \in Supporting(m, devices, g)
                THEN Own(j, g, t, s, devices[j]) ELSE None]
<1>1. i \in DOMAIN devices /\ devices[i] = setup.lights[i]
  BY DEF devices
<1>2. CASE ~setup.grouped
  BY <1>2 DEF PushRoom
<1>3. CASE setup.grouped /\ group[f] # None
  <2>1. plan.group = group
    BY Zenon DEF PlanGroupPublish
  <2>2. f \in {g \in Fields : plan.group[g] # None}
    BY <1>3, <2>1
  <2>3. Command("group", plan.group) \in PushRoom(t)
    BY <1>3, <2>2, Zenon DEF PushRoom, GroupCommands
  <2> HIDE DEF plan, group
  <2>4. Carries(Command("group", plan.group), i, f)
    BY <1>3, <2>1 DEF Carries, Command, Reaches
  <2> QED BY <2>3, <2>4
<1>4. CASE setup.grouped /\ group[f] = None
  <2>1. i \in Supporting(m, devices, f)
    BY <1>1 DEF Supporting
  <2>2. left(i)[f] = OwnValue(i, f, t)
    BY <1>4, <2>1 DEF OwnValue
  <2>3. left(i)[f] # None
    <3>1. OwnValue(i, f, t) \in Nat /\ None \notin Int
      BY OwnIsSound, ClockworkAssumption DEF SoundInv, FieldOK
    <3> QED BY <2>2, <3>1
  <2>4. plan.members = [j \in {k \in m : \E g \in Fields : left(k)[g] # None} |-> left(j)]
    BY Zenon DEF PlanGroupPublish, MemberCommands
  <2>5. i \in DOMAIN plan.members /\ plan.members[i] = left(i)
    BY <2>3, <2>4
  <2>6. Command(i, plan.members[i]) \in PushRoom(t)
    BY <1>4, <2>5, Zenon DEF PushRoom, GroupCommands
  <2> HIDE DEF plan, left
  <2>7. Carries(Command(i, plan.members[i]), i, f)
    BY <2>3, <2>5 DEF Carries, Command, Reaches
  <2> QED BY <2>6, <2>7
<1> QED BY <1>2, <1>3, <1>4

LEMMA CycleKeepsOwn == OwnInv /\ CycleTick => AskedOK' /\ PowerOK' /\ FreshOK' /\ LightsOK'
<1> SUFFICES ASSUME OwnInv, CycleTick PROVE AskedOK' /\ PowerOK' /\ FreshOK' /\ LightsOK'
  OBVIOUS
<1>1. /\ UNCHANGED <<setup, now, powered, asked, schedule, available, rx, inbox, shown>>
      /\ target' = Target(schedule, now) /\ todo' = PushRoom(target') /\ fresh' = (rx = <<>>)
  BY DEF CycleTick, house
<1>2. AskedOK' /\ PowerOK'
  BY <1>1 DEF OwnInv, AskedOK, PowerOK
<1>3. CASE rx # <<>>
  BY <1>1, <1>2, <1>3 DEF FreshOK, LightsOK
<1>4. CASE rx = <<>>
  <2>1. schedule = asked /\ \A i \in setup.known : i \in available <=> i \in powered
    BY <1>4 DEF OwnInv, AskedOK, PowerOK
  <2>2. FreshOK'
    BY <1>1, <1>4, <2>1 DEF FreshOK, Target
  <2>3. SoundTarget(target') /\ SoundInv
    BY <1>1, TargetIsSound, KnownLights DEF OwnInv, SoundInv, HouseOK
  <2>4. ASSUME NEW i \in setup.members \cap setup.known \cap powered, NEW f \in Fields,
               setup.lights[i][f]
        PROVE  Pending(i, f)'
    <3>1. i \in available
      BY <2>1
    <3>2. \/ \E c \in todo' : Carries(c, i, f)
          \/ Push(i) \in todo'
      BY <1>1, <2>3, <2>4, <3>1, CycleReaches
    <3> QED BY <3>2 DEF Pending, Carries, Reaches, Push
  <2>5. LightsOK'
    BY <1>1, <2>4 DEF LightsOK, Arrives
  <2> QED BY <1>2, <2>2, <2>5
<1> QED BY <1>3, <1>4

LEMMA ReturnKeepsOwn ==
  ASSUME Dimmable
  PROVE  OwnInv /\ LightReturns => AskedOK' /\ PowerOK' /\ FreshOK' /\ LightsOK'
<1> SUFFICES ASSUME OwnInv, LightReturns PROVE AskedOK' /\ PowerOK' /\ FreshOK' /\ LightsOK'
  OBVIOUS
<1> DEFINE h == Head(inbox)
<1>1. /\ UNCHANGED <<setup, now, powered, asked, schedule, available, rx, shown, fresh>>
      /\ todo = {} /\ inbox # <<>> /\ inbox' = Tail(inbox)
      /\ IF devices[h].brightness
         THEN target' = Target(schedule, now) /\ todo' = {Push(h)}
         ELSE UNCHANGED <<target, todo>>
  BY DEF LightReturns, house
<1>2. AskedOK' /\ PowerOK'
  BY <1>1 DEF OwnInv, AskedOK, PowerOK
<1>3. CASE ~fresh
  BY <1>1, <1>2, <1>3 DEF FreshOK, LightsOK
<1>4. CASE fresh
  <2>1. target' = target
    BY <1>1, <1>4 DEF OwnInv, AskedOK, FreshOK
  <2>2. FreshOK'
    BY <1>1, <2>1 DEF OwnInv, FreshOK, Target
  <2>3. inbox \in Seq(setup.known) /\ setup \in Setups
    BY DEF OwnInv, SoundInv, QueuesOK, Valid
  <2>4. /\ h = inbox[1] /\ h \in setup.known
        /\ \A k \in 1..Len(inbox) : k = 1 \/ (k - 1 \in 1..Len(inbox') /\ inbox'[k - 1] = inbox[k])
    BY <1>1, <2>3
  <2> HIDE DEF h
  <2>5. ASSUME NEW i \in setup.members \cap setup.known \cap powered, NEW f \in Fields,
               setup.lights[i][f]
        PROVE  Arrives(i, f)'
    <3>1. Arrives(i, f)
      BY <1>4, <2>5 DEF OwnInv, LightsOK
    <3>2. CASE shown[i][f] = OwnValue(i, f, target)
      BY <1>1, <2>1, <3>2 DEF Arrives, OwnValue, devices
    <3>3. CASE \E k \in 1..Len(rx) : ForLight(rx[k], i) /\ rx[k].online
      BY <1>1, <3>3 DEF Arrives, Pending
    <3>4. ASSUME NEW k \in 1..Len(inbox), inbox[k] = i
          PROVE  Arrives(i, f)'
      <4>1. CASE k = 1
        <5>1. devices[h].brightness
          BY <2>3, <2>4, <2>5, <3>4, <4>1 DEF devices, Dimmable, Fields
        <5> QED BY <1>1, <2>4, <3>4, <4>1, <5>1 DEF Arrives, Pending, Push
      <4>2. CASE k # 1
        BY <2>4, <3>4, <4>2 DEF Arrives, Pending
      <4> QED BY <4>1, <4>2
    <3> QED BY <1>1, <3>1, <3>2, <3>3, <3>4 DEF Arrives, Pending
  <2>6. LightsOK'
    BY <1>1, <2>5 DEF LightsOK
  <2> QED BY <1>2, <2>2, <2>6
<1> QED BY <1>3, <1>4

\* A light with power that the record takes for offline is about to be back.
LEMMA BackSoon ==
  ASSUME OwnInv, NEW i \in setup.known \cap powered, i \notin available
  PROVE  \E k \in 1..Len(rx) : ForLight(rx[k], i) /\ rx[k].online
<1>1. rx \in Seq(Reports) /\ PowerOK
  BY DEF OwnInv, SoundInv, QueuesOK
<1> DEFINE n == Len(rx)
           S == {d \in Nat : \E k \in 1..n : ForLight(rx[k], i) /\ d = n - k}
<1>2. n \in Nat
  BY <1>1
<1> HIDE DEF n
<1>3. S # {}
  <2>1. PICK k \in 1..n : ForLight(rx[k], i)
    BY <1>1 DEF PowerOK, n
  <2>2. n - k \in Nat
    BY <1>2
  <2> QED BY <2>1, <2>2
<1>4. PICK d \in S : \A e \in S : d <= e
  BY <1>3, EarliestOf
<1>5. \A e \in S : ~(e < d)
  BY <1>4
<1>6. PICK k \in 1..n : ForLight(rx[k], i) /\ d = n - k
  OBVIOUS
<1>7. ASSUME NEW l \in (k + 1)..n
      PROVE  ~ForLight(rx[l], i)
  <2>1. n - l \in Nat /\ l \in 1..n /\ n - l < d
    BY <1>2, <1>6
  <2> QED BY <1>5, <2>1
<1>8. rx[k].online
  BY <1>1, <1>6, <1>7 DEF PowerOK, n
<1> QED BY <1>6, <1>8 DEF n

LEMMA PublishKeepsOwn == OwnInv /\ Publish => AskedOK' /\ PowerOK' /\ FreshOK' /\ LightsOK'
<1> SUFFICES ASSUME OwnInv, NEW step \in todo,
                    IF "push" \in DOMAIN step THEN PublishPush(step.push) ELSE PublishCommand(step)
             PROVE  AskedOK' /\ PowerOK' /\ FreshOK' /\ LightsOK'
  BY DEF Publish
<1>1. UNCHANGED <<setup, now, powered, asked, schedule, available, rx, inbox, target, fresh>>
  BY DEF PublishPush, PublishCommand, house
<1>2. todo' = todo \ {step} /\ (step = Push(step.push) \/ step = Command(step.to, step.values))
  <2>1. step = Push(step.push) \/ step = Command(step.to, step.values)
    BY DEF OwnInv, IInv
  <2>2. "push" \in DOMAIN step => step = Push(step.push)
    BY <2>1 DEF Command
  <2>3. CASE "push" \in DOMAIN step
    BY <2>2, <2>3 DEF PublishPush
  <2>4. CASE "push" \notin DOMAIN step
    BY <2>1, <2>4 DEF PublishCommand
  <2> QED BY <2>1, <2>3, <2>4
<1>3. \A i \in setup.members \cap setup.known, f \in Fields :
        shown'[i][f] # shown[i][f] => shown'[i][f] = OwnValue(i, f, target)
  <2>1. Publish
    BY DEF Publish
  <2> QED BY <2>1, PublishOwn DEF OwnInv
<1>4. AskedOK' /\ PowerOK' /\ FreshOK'
  BY <1>1 DEF OwnInv, AskedOK, PowerOK, FreshOK, Target
<1>5. ASSUME fresh, NEW i \in setup.members \cap setup.known \cap powered, NEW f \in Fields,
             setup.lights[i][f]
      PROVE  Arrives(i, f)'
  <2>1. Arrives(i, f)
    BY <1>5 DEF OwnInv, LightsOK
  <2>2. i \in DOMAIN shown /\ devices[i] = setup.lights[i]
    BY KnownLights DEF OwnInv, SoundInv, ShownOK, devices
  <2>3. shown'[i][f] = OwnValue(i, f, target) => Arrives(i, f)'
    BY <1>1 DEF Arrives, OwnValue, devices
  <2>4. CASE shown[i][f] = OwnValue(i, f, target)
    BY <1>3, <2>3, <2>4
  <2>5. CASE \/ \E k \in 1..Len(inbox) : inbox[k] = i
             \/ \E k \in 1..Len(rx) : ForLight(rx[k], i) /\ rx[k].online
    BY <1>1, <2>5 DEF Arrives, Pending
  <2>6. CASE Push(i) \in todo
    <3>1. CASE step # Push(i)
      BY <1>2, <2>6, <3>1 DEF Arrives, Pending, Push
    <3>2. CASE step = Push(i) /\ i \notin available
      BY <1>1, <3>2, BackSoon DEF Arrives, Pending
    <3>3. CASE step = Push(i) /\ i \in available
      <4> DEFINE values == [g \in Fields |->
                    IF g = "brightness" \/ devices[i][g] THEN OwnValue(i, g, target) ELSE None]
      <4>1. step.push = i /\ "push" \in DOMAIN step
        BY <3>3 DEF Push
      <4>2. Deliver({i}, values)
        BY <3>3, <4>1 DEF PublishPush
      <4>3. values[f] = OwnValue(i, f, target)
        BY <1>5, <2>2
      <4>4. values[f] # None
        <5>1. OwnValue(i, f, target) \in Nat /\ None \notin Int
          BY OwnIsSound, ClockworkAssumption DEF OwnInv, SoundInv, StepsOK, FieldOK
        <5> QED BY <4>3, <5>1
      <4> HIDE DEF values
      <4>5. shown'[i][f] = values[f]
        BY <1>5, <2>2, <4>2, <4>4 DEF Deliver
      <4> QED BY <2>3, <4>3, <4>5
    <3> QED BY <3>1, <3>2, <3>3
  <2>7. ASSUME NEW c \in todo, Carries(c, i, f)
        PROVE  Arrives(i, f)'
    <3>1. CASE c # step
      BY <1>2, <2>7, <3>1 DEF Arrives, Pending, Carries, Reaches
    <3>2. CASE c = step
      <4>1. step = Command(step.to, step.values) /\ "push" \notin DOMAIN step
        BY <1>2, <2>7, <3>2 DEF Carries, Push, Command
      <4>2. Deliver(IF step.to = "group" THEN setup.members ELSE {step.to}, step.values)
        BY <4>1 DEF PublishCommand
      <4>3. step.values[f] = OwnValue(i, f, target)
        BY <1>5, <2>2, <2>7, <3>2 DEF OwnInv, IInv, OwnCommands, Says, Carries
      <4>4. shown'[i][f] = step.values[f]
        BY <1>5, <2>2, <2>7, <3>2, <4>2 DEF Deliver, Carries, Reaches
      <4> QED BY <2>3, <4>3, <4>4
    <3> QED BY <3>1, <3>2
  <2> QED BY <2>1, <2>4, <2>5, <2>6, <2>7 DEF Arrives, Pending
<1>6. LightsOK'
  BY <1>1, <1>5 DEF LightsOK
<1> QED BY <1>4, <1>6

\* What comes to the house, and what the actor takes, leaves no light behind.
LEMMA WorldKeepsOwn ==
  ASSUME OwnInv, UNCHANGED <<setup, todo, inbox, target>>, fresh' => fresh,
         NEW u \in Reports, rx' = Append(rx, u),
         \A i \in setup.known \cap powered' :
           \/ shown'[i] = shown[i] /\ i \in powered
           \/ ForLight(u, i) /\ u.online
  PROVE  LightsOK'
<1>1. rx \in Seq(Reports)
  BY DEF OwnInv, SoundInv, QueuesOK
<1>2. ASSUME fresh, NEW i \in setup.members \cap setup.known \cap powered', NEW f \in Fields,
             setup.lights[i][f]
      PROVE  Arrives(i, f)'
  <2>1. CASE ForLight(u, i) /\ u.online
    <3>1. Len(rx') \in 1..Len(rx') /\ rx'[Len(rx')] = u
      BY <1>1, Pushed
    <3>2. \E k \in 1..Len(rx') : ForLight(rx'[k], i) /\ rx'[k].online
      BY <2>1, <3>1
    <3> QED BY <3>2 DEF Arrives, Pending
  <2>2. CASE shown'[i] = shown[i] /\ i \in powered
    <3>1. Arrives(i, f)
      BY <1>2, <2>2 DEF OwnInv, LightsOK
    <3>2. \A k \in 1..Len(rx) : k \in 1..Len(rx') /\ rx'[k] = rx[k]
      BY <1>1, Pushed
    <3>3. (\E k \in 1..Len(rx) : ForLight(rx[k], i) /\ rx[k].online)
            => \E k \in 1..Len(rx') : ForLight(rx'[k], i) /\ rx'[k].online
      BY <3>2
    <3>4. CASE shown[i][f] = OwnValue(i, f, target)
      BY <2>2, <3>4 DEF Arrives, OwnValue, devices
    <3>5. CASE Pending(i, f)
      BY <3>3, <3>5 DEF Arrives, Pending, Carries, Reaches, Push
    <3> QED BY <3>1, <3>4, <3>5 DEF Arrives
  <2> QED BY <1>2, <2>1, <2>2
<1> QED BY <1>2 DEF LightsOK

LEMMA AskKeepsOwn ==
  ASSUME OwnInv, NEW times \in setup.asks, SetSchedule(times)
  PROVE  AskedOK' /\ PowerOK' /\ FreshOK' /\ LightsOK'
<1> DEFINE u == [schedule |-> times]
<1>1. /\ UNCHANGED <<setup, now, schedule, available, inbox, todo, target, powered, shown>>
      /\ fresh' = FALSE /\ asked' = times /\ rx' = Append(rx, u)
  BY DEF SetSchedule, Sends
<1>2. times \in Times
  BY SettingsAssumption DEF OwnInv, SoundInv, Valid
<1>3. /\ u \in Reports /\ ForTimes(u) /\ u.schedule = times
      /\ \A i : ~ForLight(u, i)
  BY <1>2 DEF Reports, ForTimes, ForLight
<1> HIDE DEF u
<1>4. AskedOK'
  BY <1>1, <1>3, SendsAsked
<1>5. PowerOK'
  BY <1>1, <1>3, SendsPower
<1> QED BY <1>1, <1>4, <1>5 DEF FreshOK, LightsOK

\* nothing to do with the times: a report of a light joins the queue
LEMMA ReportKeepsFresh ==
  ASSUME OwnInv, UNCHANGED <<setup, now, target, asked, fresh>>, NEW u \in Reports, ~ForTimes(u),
         rx' = Append(rx, u)
  PROVE  FreshOK'
<1>1. rx \in Seq(Reports)
  BY DEF OwnInv, SoundInv, QueuesOK
<1>2. fresh => \A k \in 1..Len(rx') : ~ForTimes(rx'[k])
  BY <1>1, Pushed DEF OwnInv, FreshOK
<1> QED BY <1>2 DEF OwnInv, FreshOK, Target

LEMMA LossKeepsOwn ==
  ASSUME OwnInv, NEW i \in Lights, PowerLost(i)
  PROVE  AskedOK' /\ PowerOK' /\ FreshOK' /\ LightsOK'
<1> DEFINE u == [light |-> i, online |-> FALSE]
<1>1. /\ UNCHANGED <<setup, now, schedule, available, inbox, todo, target, shown, asked, fresh>>
      /\ powered' = powered \ {i} /\ rx' = Append(rx, u) /\ i \in setup.known
  BY DEF PowerLost, Sends
<1>2. /\ u \in Reports /\ ~ForTimes(u) /\ u.light = i /\ u.online = FALSE
      /\ \A j : ForLight(u, j) <=> j = i
  BY <1>1 DEF Reports, ForTimes, ForLight
<1> HIDE DEF u
<1>3. AskedOK'
  BY <1>1, <1>2, SendsAsked
<1>4. PowerOK'
  BY <1>1, <1>2, SendsPower
<1>5. FreshOK'
  BY <1>1, <1>2, ReportKeepsFresh
<1>6. LightsOK'
  BY <1>1, <1>2, WorldKeepsOwn
<1> QED BY <1>3, <1>4, <1>5, <1>6

LEMMA BackKeepsOwn ==
  ASSUME OwnInv, NEW i \in Lights, PowerBack(i)
  PROVE  AskedOK' /\ PowerOK' /\ FreshOK' /\ LightsOK'
<1> DEFINE u == [light |-> i, online |-> TRUE]
<1>1. /\ UNCHANGED <<setup, now, schedule, available, inbox, todo, target, asked, fresh>>
      /\ powered' = powered \union {i} /\ rx' = Append(rx, u)
      /\ shown' = [shown EXCEPT ![i] = PowerUp] /\ i \in DOMAIN setup.lights \ powered
  BY DEF PowerBack, Sends
<1>2. i \in setup.known
  BY <1>1 DEF OwnInv, SoundInv, HouseOK
<1>3. /\ u \in Reports /\ ~ForTimes(u) /\ u.light = i /\ u.online
      /\ \A j : ForLight(u, j) <=> j = i
  BY <1>2 DEF Reports, ForTimes, ForLight
<1> HIDE DEF u
<1>4. AskedOK'
  BY <1>1, <1>3, SendsAsked
<1>5. PowerOK'
  BY <1>1, <1>3, SendsPower
<1>6. FreshOK'
  BY <1>1, <1>3, ReportKeepsFresh
<1>7. \A j \in setup.known : j # i => shown'[j] = shown[j]
  BY <1>1
<1>8. LightsOK'
  BY <1>1, <1>3, <1>7, WorldKeepsOwn
<1> QED BY <1>4, <1>5, <1>6, <1>8

LEMMA ApplyKeepsOwn == OwnInv /\ Applies => AskedOK' /\ PowerOK' /\ FreshOK' /\ LightsOK'
<1> SUFFICES ASSUME OwnInv, Applies PROVE AskedOK' /\ PowerOK' /\ FreshOK' /\ LightsOK'
  OBVIOUS
<1> DEFINE u == Head(rx)
<1>1. /\ UNCHANGED <<setup, now, powered, asked, spent, todo, target, shown, fresh>>
      /\ rx # <<>> /\ rx' = Tail(rx)
      /\ IF "schedule" \in DOMAIN u
         THEN schedule' = u.schedule /\ UNCHANGED <<available, inbox>>
         ELSE /\ available' = IF u.online THEN available \union {u.light} ELSE available \ {u.light}
              /\ inbox' = IF u.online THEN Append(inbox, u.light) ELSE inbox
              /\ UNCHANGED schedule
  BY DEF Applies, house
<1>2. rx \in Seq(Reports) /\ inbox \in Seq(setup.known)
  BY DEF OwnInv, SoundInv, QueuesOK
<1>3. u \in Reports /\ u = rx[1]
  BY <1>1, <1>2, Popped
<1> HIDE DEF u
<1>4. \/ ForTimes(u) /\ \A i : ~ForLight(u, i)
      \/ ~ForTimes(u) /\ (\A i : ForLight(u, i) <=> i = u.light) /\ u.light \in setup.known
                      /\ u.online \in BOOLEAN
  BY <1>3 DEF Reports, ForTimes, ForLight
<1>5. schedule' = IF ForTimes(u) THEN u.schedule ELSE schedule
  BY <1>1 DEF ForTimes
<1>6. AskedOK'
  BY <1>1, <1>5, AppliesAsked DEF u
<1>7. \A i \in setup.known :
        i \in available' <=> IF ForLight(u, i) THEN u.online ELSE i \in available
  BY <1>1, <1>4 DEF ForTimes
<1>8. PowerOK'
  BY <1>1, <1>7, AppliesPower DEF u
<1>9. FreshOK'
  <2>1. fresh => \A k \in 1..Len(rx') : ~ForTimes(rx'[k])
    BY <1>1, <1>2, Popped DEF OwnInv, FreshOK
  <2> QED BY <1>1, <2>1 DEF OwnInv, FreshOK, Target
<1>10. /\ \A k \in 1..Len(inbox) : k \in 1..Len(inbox') /\ inbox'[k] = inbox[k]
       /\ ~ForTimes(u) /\ u.online => \E k \in 1..Len(inbox') : inbox'[k] = u.light
  <2>1. CASE inbox' = Append(inbox, u.light) /\ u.light \in setup.known
    <3>1. \A S : \A s \in Seq(S), e \in S :
            /\ \A k \in 1..Len(s) : k \in 1..Len(Append(s, e)) /\ Append(s, e)[k] = s[k]
            /\ Len(Append(s, e)) \in 1..Len(Append(s, e)) /\ Append(s, e)[Len(Append(s, e))] = e
      OBVIOUS
    <3>2. /\ \A k \in 1..Len(inbox) : k \in 1..Len(inbox') /\ inbox'[k] = inbox[k]
          /\ Len(inbox') \in 1..Len(inbox') /\ inbox'[Len(inbox')] = u.light
      BY <1>2, <2>1, <3>1
    <3> QED BY <3>2
  <2>2. CASE inbox' = inbox /\ (ForTimes(u) \/ ~u.online)
    BY <2>2
  <2> QED BY <1>1, <1>4, <2>1, <2>2 DEF ForTimes
<1>11. ASSUME fresh, NEW i \in setup.members \cap setup.known \cap powered, NEW f \in Fields,
              setup.lights[i][f]
       PROVE  Arrives(i, f)'
  <2>1. Arrives(i, f)
    BY <1>11 DEF OwnInv, LightsOK
  <2>2. CASE shown[i][f] = OwnValue(i, f, target)
    BY <1>1, <2>2 DEF Arrives, OwnValue, devices
  <2>3. CASE (\E c \in todo : Carries(c, i, f)) \/ Push(i) \in todo
    BY <1>1, <2>3 DEF Arrives, Pending, Carries, Reaches, Push
  <2>4. CASE \E k \in 1..Len(inbox) : inbox[k] = i
    BY <1>10, <2>4 DEF Arrives, Pending
  <2>5. ASSUME NEW k \in 1..Len(rx), ForLight(rx[k], i), rx[k].online
        PROVE  Arrives(i, f)'
    <3>1. CASE k = 1
      BY <1>3, <1>4, <1>10, <2>5, <3>1 DEF Arrives, Pending
    <3>2. CASE k # 1
      <4>1. k - 1 \in 1..Len(rx') /\ rx'[k - 1] = rx[k]
        BY <1>1, <1>2, <3>2, Popped
      <4> QED BY <2>5, <4>1 DEF Arrives, Pending
    <3> QED BY <3>1, <3>2
  <2> QED BY <2>1, <2>2, <2>3, <2>4, <2>5 DEF Arrives, Pending
<1>12. LightsOK'
  BY <1>1, <1>11 DEF LightsOK
<1> QED BY <1>6, <1>8, <1>9, <1>12

LEMMA RestKeepsOwn ==
  OwnInv /\ (TimePasses \/ UNCHANGED vars) => AskedOK' /\ PowerOK' /\ FreshOK' /\ LightsOK'
<1>1. ASSUME OwnInv, TimePasses
      PROVE  AskedOK' /\ PowerOK' /\ FreshOK' /\ LightsOK'
  <2>1. UNCHANGED <<setup, schedule, available, rx, powered, asked>> /\ fresh' = FALSE
    BY <1>1 DEF TimePasses
  <2> QED BY <1>1, <2>1 DEF OwnInv, AskedOK, PowerOK, FreshOK, LightsOK
<1>2. ASSUME OwnInv, UNCHANGED vars
      PROVE  AskedOK' /\ PowerOK' /\ FreshOK' /\ LightsOK'
  <2>1. UNCHANGED <<setup, now, schedule, available, rx, inbox, todo, target, powered, shown,
                    asked, fresh>>
    BY <1>2 DEF vars
  <2>2. AskedOK' /\ PowerOK' /\ FreshOK'
    BY <1>2, <2>1 DEF OwnInv, AskedOK, PowerOK, FreshOK, Target
  <2>3. LightsOK'
    BY <1>2, <2>1 DEF OwnInv, LightsOK, Arrives, Pending, Carries, Reaches, Push, OwnValue, devices
  <2> QED BY <2>2, <2>3
<1> QED BY <1>1, <1>2

\* Once the engine has gone through a cycle of this minute, every light that has
\* power and is known is at its own value of the target that the times last asked
\* for give, through outages, lights that come back and times that change
\* (calibration.rs:116, publish.rs:273, circadian/mod.rs:459, handlers.rs:1464).
THEOREM LightsGetTheirOwn ==
  ASSUME Dimmable
  PROVE  Spec => []LightsAtTheirOwn
<1>1. OwnInv /\ [Next]_vars => OwnInv'
  <2> SUFFICES ASSUME OwnInv, [Next]_vars PROVE OwnInv'
    OBVIOUS
  <2>1. IInv' /\ SoundInv'
    BY StepKeeps, SoundStays DEF OwnInv
  <2>2. CASE CycleTick
    BY <2>1, <2>2, CycleKeepsOwn DEF OwnInv
  <2>3. CASE LightReturns
    BY <2>1, <2>3, ReturnKeepsOwn DEF OwnInv
  <2>4. CASE Publish
    BY <2>1, <2>4, PublishKeepsOwn DEF OwnInv
  <2>5. CASE \E times \in setup.asks : SetSchedule(times)
    BY <2>1, <2>5, AskKeepsOwn DEF OwnInv
  <2>6. CASE \E i \in Lights : PowerLost(i) \/ PowerBack(i)
    BY <2>1, <2>6, LossKeepsOwn, BackKeepsOwn DEF OwnInv
  <2>7. CASE Applies
    BY <2>1, <2>7, ApplyKeepsOwn DEF OwnInv
  <2>8. CASE TimePasses \/ UNCHANGED vars
    BY <2>1, <2>8, RestKeepsOwn DEF OwnInv
  <2> QED BY <2>2, <2>3, <2>4, <2>5, <2>6, <2>7, <2>8 DEF Next
<1>2. OwnInv => LightsAtTheirOwn
  <2> SUFFICES ASSUME OwnInv, fresh, todo = {}, rx = <<>>, inbox = <<>>,
                      NEW i \in setup.members \cap setup.known \cap powered, NEW f \in Fields,
                      setup.lights[i][f]
               PROVE  shown[i][f] = OwnValue(i, f, Target(asked, now))
    BY DEF LightsAtTheirOwn
  <2>1. ~Pending(i, f)
    BY DEF Pending
  <2> QED BY <2>1 DEF OwnInv, FreshOK, LightsOK, Arrives
<1> QED BY <1>1, <1>2, InitIsOwn, PTL DEF Spec

=============================================================================
