--------------------------- MODULE Configuration ----------------------------
(***************************************************************************)
(* What of config.toml decides what a room's lights show, how the parts of *)
(* it overlay each other (config/defaults.rs, state/mod.rs), and which     *)
(* files the daemon starts with (config/validate.rs).  Times are in ticks. *)
(***************************************************************************)
EXTENDS Calibration, CircadianCurve

Points == {"start", "peak", "end"}

\* CircadianConfig, by its types: a brightness is a u8
CircadianConfig(times) ==
  [start : [brightness : 0..MaxU8, kelvin : Nat], peak : [brightness : 0..MaxU8, kelvin : Nat],
   end : [brightness : 0..MaxU8, kelvin : Nat], curve : {"linear", "cosine"}, ramp : Nat,
   wake : times, sleep : times, own : [{"wake", "sleep"} -> times \union {None}],
   winter : [Points -> (0..MaxU8) \union {None}]]

\* winter_targets: the winter lifts the morning and the day, never bedtime
WinterTargets(c) ==
  LET atLeast(n, regular) == IF n < regular THEN regular ELSE n
  IN  [start |-> Or(c.winter.start, atLeast(230, c.start.brightness)),
       peak  |-> Or(c.winter.peak, atLeast(254, c.peak.brightness)),
       end   |-> Or(c.winter.end, c.end.brightness)]

\* circadian_defaults, then effective_circadian: the room's own times come
\* first, then those set at run time, then the house's
EffectiveTime(own, override, default) == Or(own, Or(override, default))

\* params_for_room: the day's winter weight blends the brightness of each point
ParamsForRoom(c, override, weight) ==
  LET winter   == WinterTargets(c)
      point(p) == [c[p] EXCEPT !.brightness = BlendBrightness(@, winter[p], weight)]
  IN  [wake  |-> EffectiveTime(c.own.wake, override.wake, c.wake),
       sleep |-> EffectiveTime(c.own.sleep, override.sleep, c.sleep),
       ramp  |-> c.ramp, curve |-> c.curve,
       start |-> point("start"), peak |-> point("peak"), end |-> point("end")]

Offsets == -100..100

ValidOffsets(settings) == \A f \in Fields :
  /\ settings.rgbw[f] \in Offsets
  /\ \A i \in DOMAIN settings.overrides :
       settings.overrides[i][f] \in {None} \union Offsets

\* mutant of ValidConfig: a temperature may be anything that fits
ValidConfigAnyTemperature(c, settings) == ValidOffsets(settings)

\* validate_config: the temperatures of the curve, and the offsets
ValidConfig(c, settings) ==
  (\A p \in Points : 1000 <= c[p].kelvin /\ c[p].kelvin <= 10000) /\ ValidOffsets(settings)

=============================================================================
