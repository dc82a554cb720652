---------------------------- MODULE MCClockwork -----------------------------
(* Small instances of Clockwork for TLC: a day of twelve ticks of two
   hours each. *)
EXTENDS Clockwork, TLC

CONSTANTS white, colour, bulb, stranger

AllLights == {white, colour, bulb, stranger}

\* (1 - cos(pi t)) / 2 and sin(pi t / 2) at every third
EaseTable ==
  [morning |-> [k \in 0..3 |-> << 0, 250, 750, 1000 >>[k + 1]],
   evening |-> [k \in 0..3 |-> << 0, 500, 866, 1000 >>[k + 1]]]

\* a lamp of white light, one with colours, one that is dimmed only
Lamps ==
  [i \in AllLights |->
    CASE i = white    -> [brightness |-> TRUE, colorTemp |-> TRUE, color |-> FALSE, min |-> 250, max |-> 454]
      [] i = colour   -> [brightness |-> TRUE, colorTemp |-> TRUE, color |-> TRUE, min |-> 153, max |-> 400]
      [] i = bulb     -> [brightness |-> TRUE, colorTemp |-> FALSE, color |-> FALSE, min |-> None, max |-> None]
      [] i = stranger -> [brightness |-> TRUE, colorTemp |-> TRUE, color |-> FALSE, min |-> None, max |-> None]]

Point(b, k) == [brightness |-> b, kelvin |-> k]

\* the defaults of jeha, roughly; a linear one with its own bedtime; a
\* misspelt one, which validation rejects
Usual ==
  [wake |-> 3, sleep |-> 11, own |-> NoTimes, ramp |-> 3, curve |-> "cosine",
   start |-> Point(150, 2700), peak |-> Point(254, 4000), end |-> Point(77, 2200),
   winter |-> [start |-> None, peak |-> None, end |-> None]]
OwnBedtime == [Usual EXCEPT !.own.sleep = 10, !.curve = "linear", !.end = Point(1, 1000)]
Misspelt ==
  [Usual EXCEPT !.start.kelvin = 15, !.peak.kelvin = 15, !.end.kelvin = 15]

Defaults == [auto |-> TRUE, rgbw |-> [brightness |-> 0, colorTemp |-> 15], overrides |-> <<>>]
\* an override of one field beside the default of the other, and one to the limit
Overridden ==
  [auto |-> TRUE, rgbw |-> [brightness |-> -20, colorTemp |-> 15],
   overrides |-> (colour :> [brightness |-> None, colorTemp |-> -100])
                   @@ (bulb :> [brightness |-> 100, colorTemp |-> None])]

Always  == [op |-> "any", windows |-> {[after |-> None, before |-> None, days |-> {}]}]
NoAlarm == [time |-> 0, fade |-> 1, days |-> {}, enabled |-> FALSE]

House(who, circadian, weight, calibration, grouped, asks, outages) ==
  [circadian |-> circadian, weight |-> weight, calibration |-> calibration,
   lights |-> [i \in who |-> Lamps[i]], known |-> who \ {stranger}, members |-> who,
   grouped |-> grouped, lit |-> TRUE, asks |-> asks,
   limits |-> [schedule |-> IF asks = {} THEN 0 ELSE 2, power |-> outages],
   schedule |-> Always, alarm |-> NoAlarm, horizon |-> IF asks = {} THEN 12 ELSE 6]

\* hours that matter only to the clock: the house is dark
Hours(opens, alarm) ==
  [circadian |-> Usual, weight |-> 0, calibration |-> Defaults,
   lights |-> <<>>, known |-> {}, members |-> {}, grouped |-> TRUE, lit |-> FALSE, asks |-> {},
   limits |-> [schedule |-> 0, power |-> 0],
   schedule |-> opens, alarm |-> alarm, horizon |-> 9 * 12]

Open(a, b, days) == [after |-> a, before |-> b, days |-> days]
Sched(op, windows) == [op |-> op, windows |-> windows]
Wake(time, fade, days) == [time |-> time, fade |-> fade, days |-> days, enabled |-> TRUE]

Asks == {[wake |-> 4, sleep |-> None], NoTimes}

SomeSetups ==
  { House({colour, white}, Usual, 0, Defaults, TRUE, Asks, 1),
    House({white}, Misspelt, 0, Defaults, TRUE, {}, 0),
    House(AllLights, Usual, 400, Overridden, TRUE, {}, 1),
    House(AllLights, OwnBedtime, 0, Overridden, FALSE, {}, 1),
    Hours(Sched("any", {Open(11, 3, {1, 2}), Open(10, 4, {6})}), Wake(1, 3, {})),
    Hours(Sched("all", {Open(11, 3, {}), Open(None, 2, {3})}), Wake(0, 1, {4})),
    Hours(Sched("not", {Open(4, 8, {0, 1})}), Wake(11, 11, {0, 6})),
    Hours(Sched("any", {Open(4, 4, {}), Open(10, None, {})}), NoAlarm),
    Hours(Sched("all", {}), NoAlarm) }
=============================================================================
