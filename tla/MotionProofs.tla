---------------------------- MODULE MotionProofs ----------------------------
(***************************************************************************)
(* Theorems about Motion, for every number of ticks to a revolution and    *)
(* steps to a revolution, every width of the axis, all automations and any *)
(* number of moves in the queue.                                           *)
(***************************************************************************)
EXTENDS Motion, SequenceTheorems, TLAPS

-----------------------------------------------------------------------------
(* Integer division and rounding.                                          *)

\* The quotient is the largest integer below the fraction.
LEMMA Quotient ==
  ASSUME NEW n \in Int, NEW d \in Nat, d >= 1
  PROVE  /\ n \div d \in Int
         /\ d * (n \div d) <= n
         /\ n < d * (n \div d) + d
  OBVIOUS

LEMMA QuotientAtMost ==
  ASSUME NEW n \in Int, NEW d \in Nat, d >= 1, NEW k \in Int, n < d * (k + 1)
  PROVE  n \div d <= k
<1> DEFINE q == n \div d
<1>1. d * q <= n /\ q \in Int BY Quotient
<1>2. SUFFICES ASSUME q >= k + 1 PROVE FALSE BY <1>1
<1>3. d * q >= d * (k + 1) BY <1>1, <1>2
<1> QED BY <1>1, <1>3

\* A fraction splits into an integer and a rest of its sign.
LEMMA Split ==
  ASSUME NEW n \in Int, NEW d \in Nat, d >= 1
  PROVE  /\ Truncate(n, d) \in Int /\ Rest(n, d) \in Int
         /\ -d < Rest(n, d) /\ Rest(n, d) < d
         /\ n = d * Truncate(n, d) + Rest(n, d)
<1>1. CASE n >= 0 BY <1>1, Quotient DEF Truncate, Rest
<1>2. CASE n < 0
  <2> DEFINE q == (-n) \div d
  <2>1. q \in Int /\ d * q <= -n /\ -n < d * q + d BY Quotient, -n \in Int
  <2>2. Truncate(n, d) = -q BY <1>2 DEF Truncate
  <2>3. d * (-q) = -(d * q) BY <2>1
  <2> HIDE DEF q
  <2> QED BY <2>1, <2>2, <2>3 DEF Rest
<1> QED BY <1>1, <1>2

LEMMA RoundedType ==
  ASSUME NEW n \in Int, NEW d \in Nat, d >= 1
  PROVE  Rounded(n, d) \in Int
  BY Quotient, 2 * n + d \in Int, d - 2 * n \in Int, 2 * d \in Nat, 2 * d >= 1 DEF Rounded

\* Rounding does not leave bounds that are integers.
LEMMA RoundedBounds ==
  ASSUME NEW n \in Int, NEW d \in Nat, d >= 1, NEW k \in Nat
  PROVE  /\ 0 <= n /\ n <= d * k => Rounded(n, d) \in 0 .. k
         /\ -(d * k) <= n /\ n <= d * k => Rounded(n, d) \in -k .. k
<1> DEFINE e == 2 * d
<1>1. e \in Nat /\ e >= 1 OBVIOUS
<1>2. e * (k + 1) = 2 * (d * k) + 2 * d OBVIOUS
<1>3. ASSUME NEW m \in Int, 0 <= m, m <= d * k
      PROVE  (2 * m + d) \div e \in 0 .. k
  <2> DEFINE a == 2 * m + d
             q == a \div e
  <2>1. a \in Int /\ a >= 0 BY <1>3
  <2>2. a < e * (k + 1) BY <1>2, <1>3
  <2>3. q \in Int /\ a < e * q + e BY <1>1, <2>1, Quotient
  <2>4. q <= k BY <1>1, <2>1, <2>2, QuotientAtMost
  <2>5. q >= 0
    <3>1. SUFFICES ASSUME q <= -1 PROVE FALSE BY <2>3
    <3>2. e * q <= -e BY <1>1, <2>3, <3>1
    <3> QED BY <1>1, <2>1, <2>3, <3>2
  <2> QED BY <2>3, <2>4, <2>5
<1>4. n >= 0 /\ n <= d * k => Rounded(n, d) \in 0 .. k
  BY <1>3 DEF Rounded
<1>5. ASSUME n < 0, -(d * k) <= n PROVE Rounded(n, d) \in -k .. k
  <2>1. (2 * (-n) + d) \div e \in 0 .. k BY <1>3, <1>5
  <2>2. 2 * (-n) + d = d - 2 * n OBVIOUS
  <2>3. Rounded(n, d) = -((d - 2 * n) \div e) BY <1>5 DEF Rounded
  <2> QED BY <2>1, <2>2, <2>3
<1> QED BY <1>4, <1>5

-----------------------------------------------------------------------------
(* Positions.                                                              *)

LEMMA FromTicksExact ==
  ASSUME NEW t \in Int
  PROVE  FromTicks(t) \in Normal /\ Ticks(FromTicks(t)) = t
<1> DEFINE revs == Truncate(t, TicksPerRev)
           rest == Rest(t, TicksPerRev)
<1>1. TicksPerRev \in Nat /\ TicksPerRev >= 1 BY PositionAssumption DEF PositionAssumption
<1>2. /\ revs \in Int /\ rest \in Int
      /\ -TicksPerRev < rest /\ rest < TicksPerRev
      /\ t = TicksPerRev * revs + rest
  BY <1>1, Split
<1>3. FromTicks(t) = IF rest < 0 THEN At(revs - 1, rest + TicksPerRev) ELSE At(revs, rest)
  BY DEF FromTicks
<1> HIDE DEF revs, rest
<1>4. CASE rest < 0
  <2>1. (revs - 1) * TicksPerRev + (rest + TicksPerRev) = TicksPerRev * revs + rest
    BY <1>1, <1>2
  <2>2. FromTicks(t) = [revs |-> revs - 1, angle_ticks |-> rest + TicksPerRev]
    BY <1>3, <1>4 DEF At
  <2>3. Ticks(FromTicks(t)) = (revs - 1) * TicksPerRev + (rest + TicksPerRev)
    BY <2>2 DEF Ticks
  <2>4. FromTicks(t) \in Normal BY <1>1, <1>2, <1>4, <2>2 DEF Normal
  <2> QED BY <1>2, <2>1, <2>3, <2>4
<1>5. CASE rest >= 0
  BY <1>1, <1>2, <1>3, <1>5 DEF At, Normal, Ticks
<1> QED BY <1>2, <1>4, <1>5

LEMMA FromRevolutionsNearlyNormal ==
  ASSUME NEW n \in Int, NEW d \in Nat \ {0}
  PROVE  FromRevolutions(n, d) \in NearlyNormal
<1> DEFINE revs == Truncate(n, d)
           rest == Rest(n, d)
<1>1. TicksPerRev \in Nat BY PositionAssumption DEF PositionAssumption
<1>2. revs \in Int /\ rest \in Int /\ -d < rest /\ rest < d BY Split
<1>3. FromRevolutions(n, d) =
        IF rest < 0 THEN At(revs - 1, Rounded((rest + d) * TicksPerRev, d))
                    ELSE At(revs, Rounded(rest * TicksPerRev, d))
  BY DEF FromRevolutions
<1> HIDE DEF revs, rest
<1>4. ASSUME NEW r \in Int, 0 <= r, r <= d
      PROVE  Rounded(r * TicksPerRev, d) \in 0 .. TicksPerRev
  <2>1. 0 <= r * TicksPerRev /\ r * TicksPerRev <= d * TicksPerRev BY <1>1, <1>4
  <2>2. r * TicksPerRev \in Int BY <1>1
  <2> QED BY <1>1, <2>1, <2>2, RoundedBounds
<1>5. CASE rest < 0
  BY <1>2, <1>3, <1>4, <1>5, rest + d \in Int DEF At, NearlyNormal
<1>6. CASE rest >= 0
  BY <1>2, <1>3, <1>4, <1>6 DEF At, NearlyNormal
<1> QED BY <1>2, <1>5, <1>6

\* Subtraction keeps the number of ticks between two positions and their shape.
LEMMA MinusExact ==
  ASSUME NEW p \in NearlyNormal, NEW q \in NearlyNormal
  PROVE  Minus(p, q) \in NearlyNormal /\ Ticks(Minus(p, q)) = Ticks(p) - Ticks(q)
<1>1. TicksPerRev \in Nat BY PositionAssumption DEF PositionAssumption
<1>2. /\ p.revs \in Int /\ q.revs \in Int
      /\ p.angle_ticks \in 0 .. TicksPerRev /\ q.angle_ticks \in 0 .. TicksPerRev
  BY DEF NearlyNormal
<1>3. /\ (p.revs - q.revs) * TicksPerRev = p.revs * TicksPerRev - q.revs * TicksPerRev
      /\ (p.revs - q.revs - 1) * TicksPerRev
           = p.revs * TicksPerRev - q.revs * TicksPerRev - TicksPerRev
      /\ p.revs * TicksPerRev \in Int /\ q.revs * TicksPerRev \in Int
  BY <1>1, <1>2
<1>4. CASE p.angle_ticks >= q.angle_ticks
  BY <1>1, <1>2, <1>3, <1>4 DEF Minus, At, NearlyNormal, Ticks
<1>5. CASE p.angle_ticks < q.angle_ticks
  BY <1>1, <1>2, <1>3, <1>5 DEF Minus, At, NearlyNormal, Ticks
<1> QED BY <1>1, <1>2, <1>4, <1>5

\* A position is within the tolerance iff it is at most one tick from zero.
LEMMA AbsWithinTick ==
  ASSUME NEW p \in NearlyNormal
  PROVE  AtMost(Abs(p), At(0, 1)) <=> -1 <= Ticks(p) /\ Ticks(p) <= 1
<1>1. TicksPerRev \in Nat /\ TicksPerRev >= 2 BY PositionAssumption DEF PositionAssumption
<1> DEFINE r == p.revs
           a == p.angle_ticks
<1>2. r \in Int /\ a \in 0 .. TicksPerRev BY DEF NearlyNormal
<1>3. r >= 1 => r * TicksPerRev >= TicksPerRev BY <1>1, <1>2
<1>4. r <= -2 => r * TicksPerRev <= -2 * TicksPerRev BY <1>1, <1>2
<1>5. r * TicksPerRev \in Int /\ (r = 0 => r * TicksPerRev = 0)
      /\ (r = -1 => r * TicksPerRev = -TicksPerRev)
  BY <1>1, <1>2
<1>6. Ticks(p) = r * TicksPerRev + a BY DEF Ticks
<1>7. CASE r >= 0
  <2>1. AtMost(Abs(p), At(0, 1)) <=> r < 0 \/ (r = 0 /\ a <= 1)
    BY <1>2, <1>7 DEF Abs, AtMost, At
  <2> HIDE DEF r, a
  <2> QED BY <1>1, <1>2, <1>3, <1>5, <1>6, <1>7, <2>1
<1>8. CASE r < 0 /\ a = 0
  <2>1. ~AtMost(Abs(p), At(0, 1)) BY <1>2, <1>8 DEF Abs, AtMost, At
  <2> HIDE DEF r, a
  <2> QED BY <1>1, <1>2, <1>4, <1>5, <1>6, <1>8, <2>1
<1>9. CASE r < 0 /\ a # 0
  <2>1. AtMost(Abs(p), At(0, 1)) <=> -r - 1 < 0 \/ (-r - 1 = 0 /\ TicksPerRev - a <= 1)
    BY <1>1, <1>2, <1>9 DEF Abs, AtMost, At
  <2> HIDE DEF r, a
  <2> QED BY <1>1, <1>2, <1>4, <1>5, <1>6, <1>9, <2>1
<1> QED BY <1>2, <1>7, <1>8, <1>9

\* is_target_reached() measures the distance in ticks, whatever the revolutions
\* and also for a position whose fraction was rounded up to a full turn.
THEOREM ReachedIsWithinTick ==
  ASSUME NEW p \in NearlyNormal, NEW q \in NearlyNormal
  PROVE  IsTargetReached(p, q) <=> Distance(Ticks(p), Ticks(q)) <= 1
<1>1. TicksPerRev \in Nat /\ TicksPerRev >= 2 BY PositionAssumption DEF PositionAssumption
<1>2. FromTicks(1) = At(0, 1)
  <2>1. 1 \div TicksPerRev = 0
    <3>1. 1 \div TicksPerRev <= 0 BY <1>1, QuotientAtMost, 1 < TicksPerRev * (0 + 1)
    <3>2. 1 \div TicksPerRev \in Int /\ 1 < TicksPerRev * (1 \div TicksPerRev) + TicksPerRev
      BY <1>1, Quotient
    <3>3. 1 \div TicksPerRev >= 0
      <4>1. SUFFICES ASSUME 1 \div TicksPerRev <= -1 PROVE FALSE BY <3>2
      <4>2. TicksPerRev * (1 \div TicksPerRev) <= -TicksPerRev BY <1>1, <3>2, <4>1
      <4> QED BY <1>1, <3>2, <4>2
    <3> QED BY <3>1, <3>2, <3>3
  <2>2. Truncate(1, TicksPerRev) = 0 BY <2>1 DEF Truncate
  <2>3. Rest(1, TicksPerRev) = 1 BY <1>1, <2>2 DEF Rest
  <2> QED BY <2>2, <2>3 DEF FromTicks
<1>3. Minus(p, q) \in NearlyNormal /\ Ticks(Minus(p, q)) = Ticks(p) - Ticks(q)
  BY MinusExact
<1>4. Ticks(p) \in Int /\ Ticks(q) \in Int BY <1>1 DEF Ticks, NearlyNormal
<1>5. IsTargetReached(p, q) <=>
        -1 <= Ticks(p) - Ticks(q) /\ Ticks(p) - Ticks(q) <= 1
  BY <1>2, <1>3, AbsWithinTick DEF IsTargetReached
<1> QED BY <1>4, <1>5 DEF Distance
-----------------------------------------------------------------------------
(* Types.                                                                  *)

LEMMA StepsType ==
  ASSUME NEW p \in NearlyNormal, NEW resolution \in Nat
  PROVE  Ticks(p) \in Int /\ Steps(p, resolution) \in Int
<1>1. TicksPerRev \in Nat /\ TicksPerRev >= 1 BY PositionAssumption DEF PositionAssumption
<1>2. Ticks(p) \in Int BY <1>1 DEF Ticks, NearlyNormal
<1>3. Ticks(p) * resolution \in Int BY <1>2
<1> QED BY <1>1, <1>2, <1>3, RoundedType DEF Steps

LEMMA AxisExact ==
  ASSUME NEW p \in NearlyNormal
  PROVE  Axis(p) \in Int /\ (Fits(Ticks(p)) => Axis(p) = Ticks(p))
<1>1. AxisValues \in Nat /\ AxisValues >= 2 /\ AxisValues % 2 = 0
  BY PositionAssumption DEF PositionAssumption
<1>2. Ticks(p) \in Int BY StepsType, 1 \in Nat
<1> DEFINE half == AxisValues \div 2
<1>3. half \in Int /\ AxisValues = 2 * half BY <1>1
<1>4. \A t \in Int : /\ t % AxisValues \in Int
                     /\ 0 <= t /\ t < AxisValues => t % AxisValues = t
  BY <1>1
<1> QED BY <1>1, <1>2, <1>3, <1>4 DEF Axis, Fits

LEMMA SpeedType ==
  ASSUME NEW value \in Int, NEW resolution \in Nat \ {0}
  PROVE  SpeedFromSteps(value, resolution) \in -MaxRpm .. MaxRpm
<1>1. CASE value * 60 > MaxRpm * resolution \/ value * 60 < -MaxRpm * resolution
  BY <1>1 DEF SpeedFromSteps, MaxRpm
<1>2. CASE value * 60 <= MaxRpm * resolution /\ value * 60 >= -MaxRpm * resolution
  <2>1. Rounded(value * 60, resolution) \in -3000 .. 3000
    <3> DEFINE m == value * 60
               k == 3000
    <3>0. k \in Nat OBVIOUS
    <3>1. m \in Int /\ resolution \in Nat /\ resolution >= 1 OBVIOUS
    <3>2. -(resolution * k) <= m /\ m <= resolution * k BY <1>2 DEF MaxRpm
    <3> HIDE DEF m, k
    <3>3. Rounded(m, resolution) \in -k .. k BY <3>0, <3>1, <3>2, RoundedBounds
    <3> QED BY <3>3 DEF m, k
  <2> QED BY <1>2, <2>1 DEF SpeedFromSteps, MaxRpm
<1> QED BY <1>1, <1>2 DEF MaxRpm

LEMMA AccelerationType ==
  ASSUME NEW value \in Int, NEW resolution \in Nat \ {0}
  PROVE  AccelerationFromSteps(value, resolution) \in 0 .. 255
<1> DEFINE n == (256 * 60 * value) - (MaxRpmPerSec * resolution)
           d == 60 * value
<1>1. CASE value <= 0 \/ value * 60 >= MaxRpmPerSec * resolution
  BY <1>1 DEF AccelerationFromSteps
<1>2. CASE ~(value <= 0 \/ value * 60 >= MaxRpmPerSec * resolution)
  <2>1. n \in Int /\ d \in Nat /\ d >= 1 BY <1>2 DEF MaxRpmPerSec
  <2>2. AccelerationFromSteps(value, resolution) =
          IF n < d THEN 1 ELSE IF n > 255 * d THEN 255 ELSE Rounded(n, d)
    BY <1>2 DEF AccelerationFromSteps
  <2> HIDE DEF n, d
  <2>3. ASSUME d <= n, n <= 255 * d PROVE Rounded(n, d) \in 0 .. 255
    <3>1. 0 <= n /\ n <= d * 255 BY <2>1, <2>3
    <3> QED BY <2>1, <3>1, RoundedBounds, 255 \in Nat
  <2> QED BY <2>1, <2>2, <2>3
<1> QED BY <1>1, <1>2

\* The automations ask for values of the right kinds.
LEMMA AskedTypes ==
  ASSUME automation \in Automations
  PROVE  /\ automation.resolutions \subseteq Nat \ {0}
         /\ automation.steps \subseteq Int
         /\ automation.revolutions \subseteq Fraction /\ automation.reports \subseteq Fraction
         /\ automation.speeds \subseteq Int /\ automation.accelerations \subseteq Int
  BY MotionAssumption DEF MotionAssumption, Automation

\* Every variable keeps its type.
THEOREM MotionTypeCorrectness == MotionSpec => []MotionTypeOK
<1>0. TicksPerRev \in Nat /\ Zero \in NearlyNormal /\ Normal \subseteq NearlyNormal
  BY PositionAssumption DEF PositionAssumption, NearlyNormal, Normal, Zero, At
<1>1. Init => MotionTypeOK
  <2> SUFFICES ASSUME Init PROVE MotionTypeOK
    OBVIOUS
  <2>1. steps_per_revolution \in Nat \ {0} BY AskedTypes DEF Init
  <2>2. commands \in Seq(Move) /\ state = "Other" BY DEF Init
  <2>3. default_speed \in -MaxRpm .. MaxRpm /\ default_acceleration \in 0 .. 255
    BY DEF Init, MaxRpm
  <2>4. /\ automation \in Automations /\ current_pos = Zero /\ target_pos = Zero
        /\ current_position \in Int /\ target_position \in Int /\ axis \in Int /\ encoder \in Int
    BY DEF Init
  <2>5. /\ asked_target = None /\ asked_speed = None /\ asked_acceleration = None
        /\ wanted = None /\ hasty \in BOOLEAN /\ current_units \in BOOLEAN
    BY DEF Init
  <2> QED BY <1>0, <2>1, <2>2, <2>3, <2>4, <2>5 DEF MotionTypeOK
<1>2. MotionTypeOK /\ [Next]_vars => MotionTypeOK'
  <2> SUFFICES ASSUME MotionTypeOK, [Next]_vars PROVE MotionTypeOK'
    OBVIOUS
  <2> USE DEF MotionTypeOK
  <2>0. steps_per_revolution \in Nat /\ steps_per_revolution \in Nat \ {0} OBVIOUS
  <2>1. ASSUME NEW p \in NearlyNormal, SetCurrentPos(p)
        PROVE  current_pos' \in NearlyNormal /\ current_position' \in Int /\ current_units' \in BOOLEAN
    BY <2>0, <2>1, StepsType DEF SetCurrentPos
  <2>2. ASSUME NEW p \in NearlyNormal, SetTargetPos(p)
        PROVE  target_pos' \in NearlyNormal /\ target_position' \in Int
    BY <2>0, <2>2, StepsType DEF SetTargetPos
  <2>3. ASSUME NEW p \in NearlyNormal, SendMove(p)
        PROVE  commands' \in Seq(Move) /\ wanted' \in Int /\ hasty' \in BOOLEAN
    <3>1. MoveCommand(p) \in Move
      BY AxisExact DEF MoveCommand, Move, MaxRpm
    <3>2. Ticks(p) \in Int BY StepsType, 1 \in Nat
    <3>3. commands' = commands \/ commands' = Append(commands, MoveCommand(p))
      BY <2>3 DEF SendMove
    <3>4. hasty' \in BOOLEAN BY <2>3 DEF SendMove, Settled
    <3> QED BY <2>3, <3>1, <3>2, <3>3, <3>4 DEF SendMove
  <2>4. ASSUME NEW s \in automation.steps, SetTarget(s) PROVE MotionTypeOK'
    <3>1. s \in Int BY AskedTypes
    <3>2. FromSteps(s, steps_per_revolution) \in NearlyNormal
      BY <3>1, FromRevolutionsNearlyNormal DEF FromSteps
    <3>3. target_pos' \in NearlyNormal /\ target_position' \in Int
      BY <2>2, <2>4, <3>2 DEF SetTarget
    <3>4. commands' \in Seq(Move) /\ wanted' \in Int \cup {None} /\ hasty' \in BOOLEAN
      BY <2>3, <2>4, <3>2 DEF SetTarget, moveVars
    <3> QED BY <2>4, <3>1, <3>3, <3>4 DEF SetTarget, defaultVars, motorVars
  <2>5. ASSUME NEW r \in automation.revolutions, MoveTo(r) PROVE MotionTypeOK'
    <3>1. FromRevolutions(r.n, r.d) \in NearlyNormal
      BY AskedTypes, FromRevolutionsNearlyNormal DEF Fraction
    <3>2. target_pos' \in NearlyNormal /\ target_position' \in Int
      BY <2>2, <2>5, <3>1 DEF MoveTo
    <3>3. commands' \in Seq(Move) /\ wanted' \in Int /\ hasty' \in BOOLEAN
      BY <2>3, <2>5, <3>1 DEF MoveTo
    <3> QED BY <2>5, <3>2, <3>3 DEF MoveTo, defaultVars, motorVars
  <2>6. ASSUME NEW r \in automation.reports, ReportPosition(r) PROVE MotionTypeOK'
    <3>1. FromRevolutions(r.n, r.d) \in NearlyNormal
      BY AskedTypes, FromRevolutionsNearlyNormal DEF Fraction
    <3> QED BY <2>1, <2>6, <3>1 DEF ReportPosition, defaultVars, motorVars, moveVars
  <2>7. ASSUME NEW v \in automation.speeds, SetMaxSpeed(v) PROVE MotionTypeOK'
    BY <2>0, <2>7, AskedTypes, SpeedType DEF SetMaxSpeed, positionVars, motorVars, moveVars
  <2>8. ASSUME NEW v \in automation.accelerations, SetAcceleration(v) PROVE MotionTypeOK'
    BY <2>0, <2>8, AskedTypes, AccelerationType
      DEF SetAcceleration, positionVars, motorVars, moveVars
  <2>9. ASSUME NEW s \in automation.resolutions, SetMicrosteps(s) PROVE MotionTypeOK'
    BY <2>9, AskedTypes DEF SetMicrosteps, positionVars, defaultVars, motorVars, moveVars
  <2>10. CASE EncoderRead
    BY <1>0, <2>1, <2>10, FromTicksExact DEF EncoderRead, defaultVars, motorVars, moveVars
  <2>11. CASE MoveSucceeds
    <3>1. Head(commands) \in Move /\ Tail(commands) \in Seq(Move) BY <2>11 DEF MoveSucceeds
    <3>2. axis' \in Int BY <2>11, <3>1 DEF MoveSucceeds, Move
    <3> QED BY <2>11, <3>1, <3>2 DEF MoveSucceeds, positionVars, defaultVars, askedVars
  <2>12. CASE MoveFails
    BY <2>12 DEF MoveFails, positionVars, defaultVars, motorVars, askedVars
  <2>13. CASE Stops
    BY <2>13 DEF Stops, positionVars, defaultVars, motorVars, askedVars, moveVars
  <2>14. CASE ReadyAgain
    BY <2>14 DEF ReadyAgain, BecomesIdle, defaultVars, motorVars, askedVars, moveVars
  <2>15. CASE TakenOver
    <3>1. \/ commands' = commands /\ wanted' = wanted
          \/ commands' = <<>> /\ wanted' = None
      BY <2>15 DEF TakenOver
    <3>2. commands' \in Seq(Move) /\ wanted' \in Int \cup {None} BY <3>1, EmptySeq
    <3> QED BY <2>15, <3>2 DEF TakenOver, positionVars, defaultVars, motorVars, askedVars
  <2>16. CASE Homed
    BY <1>0, <2>1, <2>16 DEF Homed, BecomesIdle, defaultVars
  <2>17. CASE SetZeroSucceeds
    BY <1>0, <2>1, <2>17 DEF SetZeroSucceeds, defaultVars
  <2>18. CASE MotorTurns
    BY <2>18 DEF MotorTurns, positionVars, defaultVars, askedVars, moveVars
  <2>19. CASE MotorHalts
    BY <2>19 DEF MotorHalts, positionVars, defaultVars, askedVars
  <2>20. CASE UNCHANGED vars
    BY <2>20 DEF vars, positionVars, defaultVars, motorVars, askedVars, moveVars
  <2> QED BY <2>4, <2>5, <2>6, <2>7, <2>8, <2>9, <2>10, <2>11, <2>12, <2>13, <2>14, <2>15,
             <2>16, <2>17, <2>18, <2>19, <2>20 DEF Next, Calls, Answers, Motor
<1> QED BY <1>1, <1>2, PTL DEF MotionSpec

\* The engine's comparison of its two positions is the distance in ticks, in
\* every state.
THEOREM ReachedIsExact == MotionSpec => []ReachedExactly
<1>1. MotionTypeOK => ReachedExactly
  BY ReachedIsWithinTick DEF MotionTypeOK, ReachedExactly
<1> QED BY <1>1, MotionTypeCorrectness, PTL

-----------------------------------------------------------------------------
(* What was asked for last.                                                *)

\* As long as no move was skipped in haste, the last command in the queue is the
\* target, or, when there is none, the motor is sent to within a tick of it.
Bound ==
  ~hasty /\ wanted # None /\ Fits(wanted) =>
    IF commands = <<>> THEN Distance(axis, wanted) <= 1
                       ELSE commands[Len(commands)].axis = wanted

LEMMA LastOfTail ==
  ASSUME NEW S, NEW s \in Seq(S), s # <<>>, Len(s) # 1
  PROVE  Tail(s) # <<>> /\ Tail(s)[Len(Tail(s))] = s[Len(s)]
<1>0. Len(s) \in Nat \ {0} BY EmptySeq
<1>1. Len(s) \in Nat /\ Len(s) >= 2
  <2> DEFINE n == Len(s)
  <2>1. n \in Nat \ {0} /\ n # 1 BY <1>0
  <2> HIDE DEF n
  <2>2. n \in Nat /\ n >= 2 BY <2>1
  <2> QED BY <2>2 DEF n
<1>2. Len(Tail(s)) = Len(s) - 1 BY <1>1
<1>3. Tail(s)[Len(s) - 1] = s[Len(s)] BY <1>1, <1>2
<1>4. Tail(s) # <<>> BY <1>1, <1>2
<1> QED BY <1>2, <1>3, <1>4

\* A target can only be lost by skipping a move on a position that had not settled.
THEOREM TargetsAreNotLost == MotionSpec => []LostOnlyInHaste
<1>1. Init => Bound BY DEF Init, Bound
<1>2. MotionTypeOK /\ Bound /\ [Next]_vars => Bound'
  <2> SUFFICES ASSUME MotionTypeOK, Bound, [Next]_vars PROVE Bound'
    OBVIOUS
  <2>1. ASSUME NEW p \in NearlyNormal, SetTargetPos(p), SendMove(p), UNCHANGED <<current_pos, axis>>
        PROVE  Bound'
    <3>1. Ticks(p) \in Int /\ Ticks(current_pos) \in Int
      BY StepsType, 1 \in Nat DEF MotionTypeOK
    <3>2. target_pos' = p /\ wanted' = Ticks(p) BY <2>1 DEF SetTargetPos, SendMove
    <3>3. CASE IsTargetReached(current_pos, p)
      <4>1. Distance(Ticks(current_pos), Ticks(p)) <= 1
        BY <3>3, ReachedIsWithinTick DEF MotionTypeOK
      <4>2. commands' = commands /\ hasty' = (hasty \/ ~Settled)
        BY <2>1, <3>2, <3>3 DEF SendMove
      <4> QED BY <2>1, <3>2, <4>1, <4>2 DEF Bound, Settled
    <3>4. CASE ~IsTargetReached(current_pos, p)
      <4>1. commands' = Append(commands, MoveCommand(p)) BY <2>1, <3>2, <3>4 DEF SendMove
      <4>2. commands' # <<>> /\ commands'[Len(commands')] = MoveCommand(p)
        BY <4>1 DEF MotionTypeOK
      <4>3. Fits(wanted') => commands'[Len(commands')].axis = wanted'
        BY <3>2, <4>2, AxisExact DEF MoveCommand
      <4> QED BY <4>2, <4>3 DEF Bound
    <3> QED BY <3>3, <3>4
  <2>2. ASSUME NEW s \in automation.steps, SetTarget(s) PROVE Bound'
    <3>1. s \in Int /\ steps_per_revolution \in Nat \ {0} BY AskedTypes DEF MotionTypeOK
    <3>2. FromSteps(s, steps_per_revolution) \in NearlyNormal
      BY <3>1, FromRevolutionsNearlyNormal DEF FromSteps
    <3>3. CASE TakesMoves BY <2>1, <2>2, <3>2, <3>3 DEF SetTarget, motorVars
    <3>4. CASE ~TakesMoves BY <2>2, <3>4 DEF SetTarget, motorVars, moveVars, Bound
    <3> QED BY <3>3, <3>4
  <2>3. ASSUME NEW r \in automation.revolutions, MoveTo(r) PROVE Bound'
    <3>1. FromRevolutions(r.n, r.d) \in NearlyNormal
      BY AskedTypes, FromRevolutionsNearlyNormal DEF Fraction, MotionTypeOK
    <3> QED BY <2>1, <2>3, <3>1 DEF MoveTo, motorVars
  <2>4. ASSUME NEW r \in automation.reports, ReportPosition(r) PROVE Bound'
    BY <2>4 DEF ReportPosition, motorVars, moveVars, Bound
  <2>5. ASSUME NEW v \in automation.speeds, SetMaxSpeed(v) PROVE Bound'
    BY <2>5 DEF SetMaxSpeed, motorVars, moveVars, Bound
  <2>6. ASSUME NEW v \in automation.accelerations, SetAcceleration(v) PROVE Bound'
    BY <2>6 DEF SetAcceleration, motorVars, moveVars, Bound
  <2>7. ASSUME NEW s \in automation.resolutions, SetMicrosteps(s) PROVE Bound'
    BY <2>7 DEF SetMicrosteps, motorVars, moveVars, Bound
  <2>8. CASE MoveSucceeds
    <3>1. /\ commands # <<>> /\ commands' = Tail(commands) /\ axis' = Head(commands).axis
          /\ wanted' = wanted /\ hasty' = hasty
      BY <2>8 DEF MoveSucceeds
    <3>2. CASE Len(commands) = 1
      <4>1. commands' = <<>> /\ axis' = commands[Len(commands)].axis
        BY <3>1, <3>2 DEF MotionTypeOK
      <4> QED BY <3>1, <4>1 DEF Bound, Distance, MotionTypeOK
    <3>3. CASE Len(commands) # 1
      <4>1. commands' # <<>> /\ commands'[Len(commands')] = commands[Len(commands)]
        BY <3>1, <3>3, LastOfTail DEF MotionTypeOK
      <4> QED BY <3>1, <4>1 DEF Bound
    <3> QED BY <3>2, <3>3
  <2>9. CASE MoveFails
    <3>1. CASE Len(commands) = 1 BY <2>9, <3>1 DEF MoveFails, Bound
    <3>2. CASE Len(commands) # 1
      <4>1. commands' # <<>> /\ commands'[Len(commands')] = commands[Len(commands)]
        BY <2>9, <3>2, LastOfTail DEF MoveFails, MotionTypeOK
      <4> QED BY <2>9, <3>2, <4>1 DEF MoveFails, motorVars, Bound
    <3> QED BY <3>1, <3>2
  <2>10. CASE EncoderRead \/ Stops \/ ReadyAgain
    BY <2>10 DEF EncoderRead, Stops, ReadyAgain, motorVars, moveVars, Bound
  <2>11. CASE TakenOver BY <2>11 DEF TakenOver, motorVars, Bound
  <2>12. CASE Homed \/ SetZeroSucceeds \/ MotorHalts
    BY <2>12 DEF Homed, SetZeroSucceeds, MotorHalts, Bound
  <2>13. CASE MotorTurns BY <2>13 DEF MotorTurns, moveVars, Bound
  <2>14. CASE UNCHANGED vars BY <2>14 DEF vars, motorVars, moveVars, Bound
  <2> QED BY <2>2, <2>3, <2>4, <2>5, <2>6, <2>7, <2>8, <2>9, <2>10, <2>11, <2>12, <2>13,
             <2>14 DEF Next, Calls, Answers, Motor
<1>3. Bound => LostOnlyInHaste BY DEF Bound, LostOnlyInHaste, LatestTargetWins
<1> QED BY <1>1, <1>2, <1>3, MotionTypeCorrectness, PTL DEF MotionSpec

-----------------------------------------------------------------------------
(* What a conversion loses.  Errors are compared times the denominator, so *)
(* that they are integers.                                                 *)

\* A rounded fraction is off by at most a half.
LEMMA RoundedError ==
  ASSUME NEW n \in Int, NEW d \in Nat, d >= 1
  PROVE  -d <= 2 * (d * Rounded(n, d)) - 2 * n /\ 2 * (d * Rounded(n, d)) - 2 * n <= d
<1>1. 2 * d \in Nat /\ 2 * d >= 1 OBVIOUS
<1>2. ASSUME NEW m \in Int, NEW q \in Int, q = m \div (2 * d)
      PROVE  2 * (d * q) <= m /\ m < 2 * (d * q) + 2 * d
  <2>1. (2 * d) * q = 2 * (d * q) OBVIOUS
  <2> QED BY <1>1, <1>2, <2>1, Quotient
<1>3. CASE n >= 0
  <2> DEFINE q == (2 * n + d) \div (2 * d)
  <2>1. q \in Int BY <1>1, Quotient, 2 * n + d \in Int
  <2>2. 2 * (d * q) <= 2 * n + d /\ 2 * n + d < 2 * (d * q) + 2 * d
    BY <1>2, <2>1, 2 * n + d \in Int
  <2>3. Rounded(n, d) = q BY <1>3 DEF Rounded
  <2>4. d * q \in Int BY <2>1
  <2> HIDE DEF q
  <2> QED BY <2>2, <2>3, <2>4
<1>4. CASE n < 0
  <2> DEFINE q == (d - 2 * n) \div (2 * d)
  <2>1. q \in Int BY <1>1, Quotient, d - 2 * n \in Int
  <2>2. 2 * (d * q) <= d - 2 * n /\ d - 2 * n < 2 * (d * q) + 2 * d
    BY <1>2, <2>1, d - 2 * n \in Int
  <2>3. Rounded(n, d) = -q BY <1>4 DEF Rounded
  <2> HIDE DEF q
  <2>4. d * q \in Int /\ d * (-q) = -(d * q) BY <2>1
  <2> QED BY <2>2, <2>3, <2>4
<1> QED BY <1>3, <1>4

\* An integer that is closer to a fraction than a half is what it is rounded to.
LEMMA RoundedIs ==
  ASSUME NEW n \in Int, NEW d \in Nat, d >= 1, NEW k \in Int,
         -d < 2 * (d * k) - 2 * n, 2 * (d * k) - 2 * n < d
  PROVE  Rounded(n, d) = k
<1> DEFINE r == Rounded(n, d)
<1>1. r \in Int BY RoundedType
<1>2. -d <= 2 * (d * r) - 2 * n /\ 2 * (d * r) - 2 * n <= d BY RoundedError
<1> HIDE DEF r
<1>3. d * r \in Int /\ d * k \in Int BY <1>1
<1>4. r >= k + 1 => d * r >= d * k + d BY <1>1
<1>5. r <= k - 1 => d * r <= d * k - d BY <1>1
<1>6. r = k BY <1>1, <1>2, <1>3, <1>4, <1>5
<1> QED BY <1>6 DEF r

\* No integer is closer to a fraction than the one it is rounded to.
LEMMA RoundedNearest ==
  ASSUME NEW n \in Int, NEW d \in Nat, d >= 1, NEW k \in Int
  PROVE  Distance(Rounded(n, d) * d, n) <= Distance(k * d, n)
<1> DEFINE r == Rounded(n, d)
<1>1. r \in Int BY RoundedType
<1>2. -d <= 2 * (d * r) - 2 * n /\ 2 * (d * r) - 2 * n <= d BY RoundedError
<1> HIDE DEF r
<1>3. d * r \in Int /\ d * k \in Int /\ r * d = d * r /\ k * d = d * k BY <1>1
<1>4. r >= k + 1 => d * r >= d * k + d BY <1>1
<1>5. r <= k - 1 => d * r <= d * k - d BY <1>1
<1>6. Distance(r * d, n) <= Distance(k * d, n)
  BY <1>1, <1>2, <1>3, <1>4, <1>5 DEF Distance
<1> QED BY <1>6 DEF r

\* A target is rounded to the nearest tick.
LEMMA FromStepsError ==
  ASSUME NEW s \in Int, NEW resolution \in Nat \ {0}
  PROVE  LET off == 2 * (resolution * Ticks(FromSteps(s, resolution))) - 2 * (s * TicksPerRev)
         IN  -resolution <= off /\ off <= resolution
<1> DEFINE revs == Truncate(s, resolution)
           rest == Rest(s, resolution)
           p == FromSteps(s, resolution)
<1>1. TicksPerRev \in Nat BY PositionAssumption DEF PositionAssumption
<1>2. revs \in Int /\ rest \in Int /\ s = resolution * revs + rest BY Split
<1>3. p = IF rest < 0
          THEN At(revs - 1, Rounded((rest + resolution) * TicksPerRev, resolution))
          ELSE At(revs, Rounded(rest * TicksPerRev, resolution))
  BY DEF FromSteps, FromRevolutions
<1> HIDE DEF revs, rest, p
<1>4. ASSUME NEW v \in Int, NEW r \in Int, s = resolution * v + r,
             p = At(v, Rounded(r * TicksPerRev, resolution))
      PROVE  LET off == 2 * (resolution * Ticks(p)) - 2 * (s * TicksPerRev)
             IN  -resolution <= off /\ off <= resolution
  <2> DEFINE a == Rounded(r * TicksPerRev, resolution)
  <2>1. r * TicksPerRev \in Int BY <1>1
  <2>2. a \in Int BY <2>1, RoundedType
  <2>3. /\ -resolution <= 2 * (resolution * a) - 2 * (r * TicksPerRev)
        /\ 2 * (resolution * a) - 2 * (r * TicksPerRev) <= resolution
    BY <2>1, RoundedError
  <2>4. Ticks(p) = v * TicksPerRev + a BY <1>4 DEF Ticks, At
  <2> HIDE DEF a
  <2>5. resolution * (v * TicksPerRev + a) = resolution * v * TicksPerRev + resolution * a
    BY <1>1, <2>2
  <2>6. s * TicksPerRev = resolution * v * TicksPerRev + r * TicksPerRev
    BY <1>1, <1>4
  <2>7. /\ resolution * v * TicksPerRev \in Int /\ resolution * a \in Int
    BY <1>1, <2>2
  <2> QED BY <2>1, <2>3, <2>4, <2>5, <2>6, <2>7
<1>5. CASE rest < 0
  <2>1. s = resolution * (revs - 1) + (rest + resolution) BY <1>2
  <2> QED BY <1>2, <1>3, <1>4, <1>5, <2>1, revs - 1 \in Int, rest + resolution \in Int DEF p
<1>6. CASE rest >= 0 BY <1>2, <1>3, <1>4, <1>6 DEF p
<1> QED BY <1>2, <1>5, <1>6

\* A position whose ticks are off the steps by less than half a step has these steps.
LEMMA StepsAre ==
  ASSUME NEW p \in NearlyNormal, NEW resolution \in Nat \ {0}, NEW s \in Int,
         LET off == 2 * (resolution * Ticks(p)) - 2 * (s * TicksPerRev)
         IN  -TicksPerRev < off /\ off < TicksPerRev
  PROVE  Steps(p, resolution) = s
<1>1. TicksPerRev \in Nat /\ TicksPerRev >= 1 BY PositionAssumption DEF PositionAssumption
<1> DEFINE n == Ticks(p) * resolution
<1>2. Ticks(p) \in Int /\ n \in Int BY StepsType
<1>3. n = resolution * Ticks(p) /\ TicksPerRev * s = s * TicksPerRev BY <1>1, <1>2
<1>4. s * TicksPerRev \in Int BY <1>1
<1>5. -TicksPerRev < 2 * n - 2 * (s * TicksPerRev) /\ 2 * n - 2 * (s * TicksPerRev) < TicksPerRev
  BY <1>3
<1>6. Steps(p, resolution) = Rounded(n, TicksPerRev) BY DEF Steps
<1> HIDE DEF n
<1>7. -TicksPerRev < 2 * (TicksPerRev * s) - 2 * n /\ 2 * (TicksPerRev * s) - 2 * n < TicksPerRev
  BY <1>1, <1>2, <1>3, <1>4, <1>5
<1> QED BY <1>1, <1>2, <1>6, <1>7, RoundedIs

\* Steps survive the way into ticks and back as long as there are enough ticks.
LEMMA StepsRoundTrip ==
  ASSUME NEW s \in Int, NEW resolution \in Nat \ {0}, resolution <= TicksPerRev
  PROVE  Steps(FromSteps(s, resolution), resolution) = s
<1> DEFINE p == FromSteps(s, resolution)
           t == Ticks(p)
<1>1. TicksPerRev \in Nat /\ TicksPerRev >= 1 BY PositionAssumption DEF PositionAssumption
<1>2. p \in NearlyNormal BY FromRevolutionsNearlyNormal DEF FromSteps
<1>3. t \in Int BY <1>2, StepsType
<1>4. /\ -resolution <= 2 * (resolution * t) - 2 * (s * TicksPerRev)
      /\ 2 * (resolution * t) - 2 * (s * TicksPerRev) <= resolution
  BY FromStepsError
<1>5. resolution * t \in Int /\ s * TicksPerRev \in Int BY <1>1, <1>3
<1>6. SUFFICES /\ -TicksPerRev < 2 * (resolution * t) - 2 * (s * TicksPerRev)
               /\ 2 * (resolution * t) - 2 * (s * TicksPerRev) < TicksPerRev
  BY <1>2, StepsAre
<1> HIDE DEF t
<1>7. CASE resolution < TicksPerRev BY <1>1, <1>4, <1>5, <1>7
<1>8. CASE resolution = TicksPerRev
  <2>1. resolution * t - s * TicksPerRev = TicksPerRev * (t - s) BY <1>1, <1>3, <1>8
  <2>2. t - s >= 1 => TicksPerRev * (t - s) >= TicksPerRev BY <1>1, <1>3
  <2>3. t - s <= -1 => TicksPerRev * (t - s) <= -TicksPerRev BY <1>1, <1>3
  <2>4. t = s BY <1>1, <1>3, <1>4, <1>5, <1>8, <2>1, <2>2, <2>3
  <2> QED BY <1>1, <1>8, <2>4
<1> QED BY <1>1, <1>7, <1>8

\* Within a tick of a target the base class counts the target's steps, as long
\* as there are more than three ticks to a step.
LEMMA StepsWithinTick ==
  ASSUME NEW s \in Int, NEW resolution \in Nat \ {0}, 3 * resolution < TicksPerRev,
         NEW p \in NearlyNormal, IsTargetReached(p, FromSteps(s, resolution))
  PROVE  Steps(p, resolution) = s
<1> DEFINE target == FromSteps(s, resolution)
           t == Ticks(target)
           c == Ticks(p)
<1>1. TicksPerRev \in Nat BY PositionAssumption DEF PositionAssumption
<1>2. target \in NearlyNormal BY FromRevolutionsNearlyNormal DEF FromSteps
<1>3. t \in Int /\ c \in Int BY <1>2, StepsType
<1>4. Distance(c, t) <= 1 BY <1>2, ReachedIsWithinTick
<1>5. /\ -resolution <= 2 * (resolution * t) - 2 * (s * TicksPerRev)
      /\ 2 * (resolution * t) - 2 * (s * TicksPerRev) <= resolution
  BY FromStepsError
<1>6. SUFFICES /\ -TicksPerRev < 2 * (resolution * c) - 2 * (s * TicksPerRev)
               /\ 2 * (resolution * c) - 2 * (s * TicksPerRev) < TicksPerRev
  BY StepsAre
<1> HIDE DEF t, c
<1>7. c = t - 1 \/ c = t \/ c = t + 1 BY <1>3, <1>4 DEF Distance
<1>8. /\ resolution * (t - 1) = resolution * t - resolution
      /\ resolution * (t + 1) = resolution * t + resolution
      /\ resolution * t \in Int /\ s * TicksPerRev \in Int
  BY <1>1, <1>3
<1> QED BY <1>1, <1>5, <1>7, <1>8

-----------------------------------------------------------------------------
(* Speeds and ramps.                                                       *)

\* set_max_speed() takes the nearest speed that the motor has.
LEMMA SpeedIsNearest ==
  ASSUME NEW value \in Int, NEW resolution \in Nat \ {0}, NEW rpm \in -MaxRpm .. MaxRpm
  PROVE  Distance(SpeedFromSteps(value, resolution) * resolution, value * 60)
           <= Distance(rpm * resolution, value * 60)
<1> DEFINE n == value * 60
           top == MaxRpm * resolution
<1>1. n \in Int /\ top \in Int /\ rpm \in Int /\ rpm * resolution \in Int BY DEF MaxRpm
<1>2. -top <= rpm * resolution /\ rpm * resolution <= top BY DEF MaxRpm
<1>3. (-MaxRpm) * resolution = -top BY DEF MaxRpm
<1>4. CASE n > top
  <2>1. SpeedFromSteps(value, resolution) = MaxRpm BY <1>4 DEF SpeedFromSteps
  <2> HIDE DEF n
  <2>2. Distance(top, n) <= Distance(rpm * resolution, n)
    <3> HIDE DEF top
    <3> QED BY <1>1, <1>2, <1>4 DEF Distance
  <2> QED BY <2>1, <2>2 DEF n
<1>5. CASE ~(n > top) /\ n < -top
  <2>1. SpeedFromSteps(value, resolution) = -MaxRpm BY <1>3, <1>5 DEF SpeedFromSteps, MaxRpm
  <2> HIDE DEF n
  <2>2. Distance(-top, n) <= Distance(rpm * resolution, n)
    <3> HIDE DEF top
    <3> QED BY <1>1, <1>2, <1>5 DEF Distance
  <2> QED BY <1>3, <2>1, <2>2 DEF n
<1>6. CASE ~(n > top) /\ ~(n < -top)
  <2>1. SpeedFromSteps(value, resolution) = Rounded(n, resolution)
    BY <1>3, <1>6 DEF SpeedFromSteps, MaxRpm
  <2> QED BY <1>1, <2>1, RoundedNearest
<1> QED BY <1>4, <1>5, <1>6

\* set_acceleration() takes the nearest ramp that the motor has and an instant
\* one only at the fastest or beyond.
LEMMA RampIsNearest ==
  ASSUME NEW value \in Int, NEW resolution \in Nat \ {0}
  PROVE  LET rpm_per_sec == value * 60
             off(acc) == Distance((256 - acc) * rpm_per_sec, MaxRpmPerSec * resolution)
             ramp == AccelerationFromSteps(value, resolution)
         IN IF value <= 0 \/ rpm_per_sec >= MaxRpmPerSec * resolution
            THEN ramp = 0
            ELSE ramp # 0 /\ \A acc \in 1 .. 255 : off(ramp) <= off(acc)
<1> DEFINE d == value * 60
           fastest == MaxRpmPerSec * resolution
           n == 256 * d - fastest
           ramp == AccelerationFromSteps(value, resolution)
<1>1. CASE value <= 0 \/ d >= fastest
  BY <1>1 DEF AccelerationFromSteps
<1>2. CASE ~(value <= 0 \/ d >= fastest)
  <2>1. d \in Nat /\ d >= 1 /\ fastest \in Int /\ n \in Int BY <1>2 DEF MaxRpmPerSec
  <2>2. d < fastest BY <1>2, <2>1
  <2>3. ramp = IF n < d THEN 1 ELSE IF n > 255 * d THEN 255 ELSE Rounded(n, d)
    <3>1. 256 * 60 * value = 256 * d /\ 60 * value = d OBVIOUS
    <3> QED BY <1>2, <3>1 DEF AccelerationFromSteps
  <2>4. n < 255 * d
    <3> HIDE DEF d, fastest
    <3> QED BY <2>1, <2>2 DEF n
  \* The distance of a ramp from what was asked, from the other side.
  <2>5. ASSUME NEW acc \in Int
        PROVE  Distance((256 - acc) * d, fastest) = Distance(acc * d, n)
    <3>1. (256 - acc) * d = 256 * d - acc * d /\ acc * d \in Int BY <2>1
    <3> HIDE DEF d, fastest
    <3> QED BY <2>1, <3>1 DEF Distance, n
  <2> HIDE DEF d, fastest, n, ramp
  <2>6. CASE n < d
    <3>1. ramp = 1 BY <2>3, <2>6
    <3>2. ASSUME NEW acc \in 1 .. 255 PROVE Distance(1 * d, n) <= Distance(acc * d, n)
      <4>1. acc * d \in Int /\ acc * d >= d /\ 1 * d = d BY <2>1
      <4> QED BY <2>1, <2>6, <4>1 DEF Distance
    <3>3. ramp # 0 /\ ramp \in Int BY <3>1
    <3>4. \A acc \in 1 .. 255 : Distance((256 - ramp) * d, fastest) <= Distance((256 - acc) * d, fastest)
      BY <2>5, <3>1, <3>2
    <3> QED BY <1>2, <3>3, <3>4 DEF d, fastest, ramp
  <2>7. CASE n >= d
    <3>1. ramp = Rounded(n, d) BY <2>1, <2>3, <2>4, <2>7
    <3>2. ramp \in Int BY <2>1, <3>1, RoundedType
    <3>3. \A acc \in Int : Distance(ramp * d, n) <= Distance(acc * d, n)
      BY <2>1, <3>1, RoundedNearest
    <3>4. ramp # 0
      <4>1. 2 * (d * ramp) - 2 * n >= -d BY <2>1, <3>1, RoundedError
      <4>2. ramp = 0 => d * ramp = 0 BY <2>1
      <4> QED BY <2>1, <2>7, <3>2, <4>1, <4>2
    <3>5. \A acc \in 1 .. 255 : Distance((256 - ramp) * d, fastest) <= Distance((256 - acc) * d, fastest)
      BY <2>5, <3>2, <3>3
    <3> QED BY <1>2, <3>4, <3>5 DEF d, fastest, ramp
  <2> QED BY <2>1, <2>6, <2>7
<1> QED BY <1>1, <1>2

-----------------------------------------------------------------------------
(* What was asked for is what is kept.                                     *)

\* The steps that the base class has are those of the positions, and the
\* defaults are those of the last calls, unless the microsteps changed since.
KeptAsAsked ==
  /\ asked_target # None =>
       target_position = Steps(FromSteps(asked_target, steps_per_revolution), steps_per_revolution)
  /\ current_units => current_position = Steps(current_pos, steps_per_revolution)
  /\ asked_speed # None => default_speed = SpeedFromSteps(asked_speed, steps_per_revolution)
  /\ asked_acceleration # None =>
       default_acceleration = AccelerationFromSteps(asked_acceleration, steps_per_revolution)

LEMMA StepsOfZero ==
  ASSUME NEW resolution \in Nat
  PROVE  Steps(Zero, resolution) = 0
<1>1. TicksPerRev \in Nat /\ TicksPerRev >= 1 BY PositionAssumption DEF PositionAssumption
<1>2. Ticks(Zero) = 0 BY <1>1 DEF Ticks, Zero, At
<1>3. Steps(Zero, resolution) = Rounded(0, TicksPerRev) BY <1>2 DEF Steps
<1> QED BY <1>1, <1>3, RoundedIs, TicksPerRev * 0 = 0

THEOREM AskedIsKept == MotionSpec => []KeptAsAsked
<1>1. Init => KeptAsAsked
  <2> SUFFICES ASSUME Init PROVE KeptAsAsked
    OBVIOUS
  <2>1. steps_per_revolution \in Nat BY AskedTypes DEF Init
  <2> QED BY <2>1, StepsOfZero DEF Init, KeptAsAsked
<1>2. MotionTypeOK /\ KeptAsAsked /\ [Next]_vars => KeptAsAsked'
  <2> SUFFICES ASSUME MotionTypeOK, KeptAsAsked, [Next]_vars PROVE KeptAsAsked'
    OBVIOUS
  <2> USE DEF KeptAsAsked
  <2>1. ASSUME NEW s \in automation.steps, SetTarget(s) PROVE KeptAsAsked'
    BY <2>1 DEF SetTarget, SetTargetPos, defaultVars
  <2>2. ASSUME NEW r \in automation.revolutions, MoveTo(r) PROVE KeptAsAsked'
    BY <2>2 DEF MoveTo, defaultVars
  <2>3. ASSUME NEW r \in automation.reports, ReportPosition(r) PROVE KeptAsAsked'
    BY <2>3 DEF ReportPosition, SetCurrentPos, defaultVars
  <2>4. ASSUME NEW v \in automation.speeds, SetMaxSpeed(v) PROVE KeptAsAsked'
    BY <2>4 DEF SetMaxSpeed, positionVars
  <2>5. ASSUME NEW v \in automation.accelerations, SetAcceleration(v) PROVE KeptAsAsked'
    BY <2>5 DEF SetAcceleration, positionVars
  <2>6. ASSUME NEW s \in automation.resolutions, SetMicrosteps(s) PROVE KeptAsAsked'
    BY <2>6 DEF SetMicrosteps
  <2>7. CASE EncoderRead BY <2>7 DEF EncoderRead, SetCurrentPos, defaultVars
  <2>8. CASE MoveSucceeds BY <2>8 DEF MoveSucceeds, positionVars, defaultVars, askedVars
  <2>9. CASE MoveFails BY <2>9 DEF MoveFails, positionVars, defaultVars, askedVars
  <2>10. CASE Stops BY <2>10 DEF Stops, positionVars, defaultVars, askedVars
  <2>11. CASE ReadyAgain BY <2>11 DEF ReadyAgain, defaultVars, askedVars
  <2>12. CASE TakenOver BY <2>12 DEF TakenOver, positionVars, defaultVars, askedVars
  <2>13. CASE Homed BY <2>13 DEF Homed, SetCurrentPos, defaultVars
  <2>14. CASE SetZeroSucceeds BY <2>14 DEF SetZeroSucceeds, SetCurrentPos, defaultVars
  <2>15. CASE MotorTurns BY <2>15 DEF MotorTurns, positionVars, defaultVars, askedVars
  <2>16. CASE MotorHalts BY <2>16 DEF MotorHalts, positionVars, defaultVars, askedVars
  <2>17. CASE UNCHANGED vars BY <2>17 DEF vars, positionVars, defaultVars, askedVars
  <2> QED BY <2>1, <2>2, <2>3, <2>4, <2>5, <2>6, <2>7, <2>8, <2>9, <2>10, <2>11, <2>12, <2>13,
             <2>14, <2>15, <2>16, <2>17 DEF Next, Calls, Answers, Motor
<1> QED BY <1>1, <1>2, MotionTypeCorrectness, PTL DEF MotionSpec

\* The base class has the target that set_target() was called with, although it
\* went through ticks and back, as long as the encoder resolves a step.
THEOREM TargetsAreAsAsked == MotionSpec => []TargetAsAsked
<1>1. MotionTypeOK /\ KeptAsAsked => TargetAsAsked
  BY StepsRoundTrip DEF MotionTypeOK, KeptAsAsked, TargetAsAsked
<1> QED BY <1>1, MotionTypeCorrectness, AskedIsKept, PTL

\* A position within the tolerance of the asked target is at the target for the
\* base class too, as long as there are more than three ticks to a step.
THEOREM SkippedIsAlwaysReached == MotionSpec => []SkippedIsReached
<1>1. MotionTypeOK /\ KeptAsAsked => SkippedIsReached
  <2> SUFFICES ASSUME MotionTypeOK, KeptAsAsked, asked_target # None, current_units,
                      3 * steps_per_revolution < TicksPerRev,
                      IsTargetReached(current_pos, FromSteps(asked_target, steps_per_revolution))
               PROVE  current_position = target_position
    BY DEF SkippedIsReached
  <2>1. asked_target \in Int /\ steps_per_revolution \in Nat \ {0} /\ current_pos \in NearlyNormal
    BY DEF MotionTypeOK
  <2>2. TicksPerRev \in Nat BY PositionAssumption DEF PositionAssumption
  <2>3. Steps(current_pos, steps_per_revolution) = asked_target BY <2>1, StepsWithinTick
  <2>4. target_position = asked_target BY <2>1, <2>2, StepsRoundTrip DEF KeptAsAsked
  <2> QED BY <2>3, <2>4 DEF KeptAsAsked
<1> QED BY <1>1, MotionTypeCorrectness, AskedIsKept, PTL

\* The default speed is the nearest one of the motor to the one that was set.
THEOREM SpeedsAreNearest == MotionSpec => []SpeedNearest
<1>1. MotionTypeOK /\ KeptAsAsked => SpeedNearest
  BY SpeedIsNearest DEF MotionTypeOK, KeptAsAsked, SpeedNearest
<1> QED BY <1>1, MotionTypeCorrectness, AskedIsKept, PTL

\* The default ramp is the nearest one of the motor to the acceleration that was
\* set, and instant only at or beyond the fastest one.
THEOREM RampsAreNearest == MotionSpec => []RampNearest
<1>1. MotionTypeOK /\ KeptAsAsked => RampNearest
  <2> SUFFICES ASSUME MotionTypeOK, KeptAsAsked, asked_acceleration # None PROVE RampNearest
    BY DEF RampNearest
  <2>1. asked_acceleration \in Int /\ steps_per_revolution \in Nat \ {0} BY DEF MotionTypeOK
  <2>2. default_acceleration = AccelerationFromSteps(asked_acceleration, steps_per_revolution)
    BY DEF KeptAsAsked
  <2> QED BY ONLY <2>1, <2>2, RampIsNearest DEF RampNearest
<1> QED BY <1>1, MotionTypeCorrectness, AskedIsKept, PTL

=============================================================================
