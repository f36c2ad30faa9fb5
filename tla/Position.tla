------------------------------ MODULE Position ------------------------------
(***************************************************************************)
(* The values of a motion: class Position                                  *)
(* (src/components/servoxxd/stepper/servoxxd_position.{h,cpp}), the        *)
(* conversions into the motor's units of Speed and Acceleration, and the   *)
(* axis of a move command.                                                 *)
(*                                                                         *)
(* A position is whole revolutions and ticks of the encoder.  A number of  *)
(* revolutions, a speed or an acceleration is a fraction n/d: the code     *)
(* computes with floating point numbers, the model exactly.  Only what     *)
(* rounds to an integer of the motor is rounded here.                      *)
(***************************************************************************)
EXTENDS Integers

CONSTANTS
  TicksPerRev,   \* TICKS_PER_REV
  AxisValues     \* the number of values of int32_t

\* 16384 and 2^32 in the code.
PositionAssumption ==
  /\ TicksPerRev \in Nat /\ TicksPerRev >= 2
  /\ AxisValues \in Nat /\ AxisValues >= 2 /\ AxisValues % 2 = 0
ASSUME PositionAssumption

Position == [revs : Int, angle_ticks : Nat]
At(revs, ticks) == [revs |-> revs, angle_ticks |-> ticks]
Zero == At(0, 0)

\* "angle_ticks in [0, 16383]": what normalize() would ensure if it were called.
Normal == [revs : Int, angle_ticks : 0 .. TicksPerRev - 1]
\* What the conversions return: a fraction close to one rounds to a full turn.
NearlyNormal == [revs : Int, angle_ticks : 0 .. TicksPerRev]

\* Conversion to an integer and operator % of C++, which truncate; d > 0.
Truncate(n, d) == IF n >= 0 THEN n \div d ELSE -((-n) \div d)
Rest(n, d) == n - d * Truncate(n, d)
\* std::round(): half away from zero; d > 0.
Rounded(n, d) ==
  IF n >= 0 THEN (2 * n + d) \div (2 * d) ELSE -((d - 2 * n) \div (2 * d))

FromTicks(t) ==
  LET revs == Truncate(t, TicksPerRev)
      rest == Rest(t, TicksPerRev)
  IN IF rest < 0 THEN At(revs - 1, rest + TicksPerRev) ELSE At(revs, rest)

\* Mutant: the negative fraction is not corrected.
FromRevolutions_NoBorrow(n, d) ==
  At(Truncate(n, d), Rounded(Rest(n, d) * TicksPerRev, d))

\* Mutant: the ticks are truncated, not rounded.
FromRevolutions_Truncates(n, d) ==
  LET revs == n \div d IN At(revs, ((n - d * revs) * TicksPerRev) \div d)

FromRevolutions(n, d) ==
  LET revs == Truncate(n, d)
      rest == Rest(n, d)
  IN IF rest < 0
     THEN At(revs - 1, Rounded((rest + d) * TicksPerRev, d))
     ELSE At(revs, Rounded(rest * TicksPerRev, d))

FromSteps(steps, resolution) == FromRevolutions(steps, resolution)

Ticks(p) == p.revs * TicksPerRev + p.angle_ticks
\* Mutant: 799 steps instead of 800.
Steps_Truncates(p, resolution) == Truncate(Ticks(p) * resolution, TicksPerRev)
Steps(p, resolution) == Rounded(Ticks(p) * resolution, TicksPerRev)

\* operator-
Minus(p, q) ==
  IF p.angle_ticks >= q.angle_ticks
  THEN At(p.revs - q.revs, p.angle_ticks - q.angle_ticks)
  ELSE At(p.revs - q.revs - 1, p.angle_ticks + TicksPerRev - q.angle_ticks)

\* operator<=
AtMost(p, q) == p.revs < q.revs \/ (p.revs = q.revs /\ p.angle_ticks <= q.angle_ticks)

\* Mutant: the carry is negated without a borrow.
Abs_NoBorrow(p) ==
  IF p.revs >= 0 THEN p
  ELSE At(-p.revs, IF p.angle_ticks = 0 THEN 0 ELSE TicksPerRev - p.angle_ticks)

Abs(p) ==
  IF p.revs >= 0 THEN p
  ELSE IF p.angle_ticks = 0 THEN At(-p.revs, 0)
  ELSE At(-p.revs - 1, TicksPerRev - p.angle_ticks)

\* StepperEngine::is_target_reached(), with a tolerance of one tick
IsTargetReached(current, target) == AtMost(Abs(Minus(current, target)), FromTicks(1))

\* The axis of move_position_mode_4(): the ticks, cut to an int32_t.
Axis(p) == ((Ticks(p) + AxisValues \div 2) % AxisValues) - AxisValues \div 2
Fits(ticks) == -(AxisValues \div 2) <= ticks /\ ticks < AxisValues \div 2

-----------------------------------------------------------------------------
(* Speeds in rpm and accelerations in the motor's units, from steps.       *)

MaxRpm == 3000
MaxRpmPerSec == 20000

\* Mutant: the rpm are truncated.
SpeedFromSteps_Truncates(value, resolution) ==
  IF value * 60 > MaxRpm * resolution THEN MaxRpm
  ELSE IF value * 60 < -MaxRpm * resolution THEN -MaxRpm
  ELSE Truncate(value * 60, resolution)

\* Speed(value, STEPS_PER_SEC)
SpeedFromSteps(value, resolution) ==
  IF value * 60 > MaxRpm * resolution THEN MaxRpm
  ELSE IF value * 60 < -MaxRpm * resolution THEN -MaxRpm
  ELSE Rounded(value * 60, resolution)

\* Mutant: slow ramps are cut to a uint8_t, not limited.
AccelerationFromSteps_Cut(value, resolution) ==
  IF value <= 0 \/ value * 60 >= MaxRpmPerSec * resolution THEN 0
  ELSE Rounded((256 * 60 * value) - (MaxRpmPerSec * resolution), 60 * value) % 256

\* Acceleration(value, STEPS_PER_SEC_SQ); 0 is an instant ramp, 1 the slowest one.
AccelerationFromSteps(value, resolution) ==
  IF value <= 0 \/ value * 60 >= MaxRpmPerSec * resolution THEN 0
  ELSE LET n == (256 * 60 * value) - (MaxRpmPerSec * resolution)   \* 256 - 20000 / rpm_per_sec
           d == 60 * value
       IN IF n < d THEN 1 ELSE IF n > 255 * d THEN 255 ELSE Rounded(n, d)
=============================================================================
