--------------------------- MODULE CircadianCurve ---------------------------
(***************************************************************************)
(* The circadian target of a moment (circadian/curve.rs, season.rs).  Pure *)
(* operators: the times of day are counted in ticks, the floating point    *)
(* ease curves are a table in thousandths, and a ramp's truncation is kept.*)
(***************************************************************************)
EXTENDS Integers

CONSTANTS
  EaseSteps,  \* the ease curves are tabled at every EaseSteps-th of a ramp
  Ease        \* cosine_ease and cosine_ease_out, in thousandths

Whole == 1000
Parts == 0..Whole

ASSUME EaseAssumption ==
  /\ EaseSteps \in Nat \ {0}
  /\ Ease \in [{"morning", "evening"} -> [0..EaseSteps -> Parts]]
  /\ \A d \in {"morning", "evening"} :
       /\ Ease[d][0] = 0 /\ Ease[d][EaseSteps] = Whole
       /\ \A k \in 1..EaseSteps : Ease[d][k - 1] <= Ease[d][k]

\* u16 mired of a temperature in kelvin
Mired(k) == 1000000 \div k
KelvinToMired(k) == Mired(k) % 65536

\* blend_brightness, the winter's weight in thousandths, rounded
BlendBrightness(regular, winter, weight) ==
  (Whole * regular + (winter - regular) * weight + Whole \div 2) \div Whole

Factor(p, direction, elapsed) ==
  IF p.curve = "linear" THEN (Whole * elapsed) \div p.ramp
  ELSE Ease[direction][(elapsed * EaseSteps) \div p.ramp]

Interpolate(from, to, factor) == (Whole * from + (to - from) * factor) \div Whole

\* a point of the curve: a brightness and a temperature in kelvin
Between(from, to, factor) ==
  [brightness |-> Interpolate(from.brightness, to.brightness, factor),
   kelvin     |-> Interpolate(from.kelvin, to.kelvin, factor)]

AtLeastZero(n) == IF n < 0 THEN 0 ELSE n

\* mutant of CurveAt: the evening begins at bedtime
CurveAtLate(p, minute) ==
  LET night   == minute < p.wake \/ minute >= p.sleep
      morning == ~night /\ minute < p.wake + p.ramp
  IN  CASE night   -> p.end
        [] morning -> Between(p.start, p.peak, Factor(p, "morning", minute - p.wake))
        [] OTHER   -> p.peak

\* compute_target: the four parts of the day, the earlier ones first where the
\* ramps of a short day overlap
CurveAt(p, minute) ==
  LET dusk    == AtLeastZero(p.sleep - p.ramp)
      night   == minute < p.wake \/ minute >= p.sleep
      morning == ~night /\ minute < p.wake + p.ramp
      plateau == ~night /\ ~morning /\ minute < dusk
  IN  CASE night   -> p.end
        [] morning -> Between(p.start, p.peak, Factor(p, "morning", minute - p.wake))
        [] plateau -> p.peak
        [] OTHER   -> Between(p.peak, p.end, Factor(p, "evening", minute - dusk))

ComputeTarget(p, minute) ==
  LET point == CurveAt(p, minute)
  IN  [brightness |-> point.brightness, colorTemp |-> KelvinToMired(point.kelvin)]

=============================================================================
