------------------------------- MODULE Motion -------------------------------
(***************************************************************************)
(* Where the motor is, where it was asked to go, and what it was told:     *)
(* the positions and defaults of ServoXxd                                  *)
(* (src/components/servoxxd/stepper/servoxxd.{h,cpp}) and what             *)
(* StepperEngine::move_to(), the polls of the encoder and the ends of      *)
(* motions do to them.                                                     *)
(*                                                                         *)
(* The engine's state is reduced to whether it takes moves (Idle, Moving,  *)
(* Stopping) or not (everything else, "Other"); StepperEngine says how it  *)
(* gets there.  commands are the moves that the queue has not completed,   *)
(* in their order.  The motor is external: its axis is the last target it  *)
(* took, its encoder follows.                                              *)
(***************************************************************************)
EXTENDS Position, Sequences

CONSTANTS
  Automations,   \* what the automations of a device ask for, see Automation
  MaxMoves,      \* bound on the moves in the queue
  None           \* nothing asked yet, or no longer in force

Fraction == [n : Int, d : Nat \ {0}]

\* The values of calls: steps per revolution of set_microsteps(), targets in
\* steps and in revolutions, reported positions, speeds and accelerations.
Automation ==
  [resolutions : SUBSET (Nat \ {0}), steps : SUBSET Int, revolutions : SUBSET Fraction,
   reports : SUBSET Fraction, speeds : SUBSET Int, accelerations : SUBSET Int]

MotionAssumption ==
  /\ Automations \subseteq Automation
  /\ \A a \in Automations : a.resolutions # {}
  /\ MaxMoves \in Nat
  /\ None \notin Int
ASSUME MotionAssumption

VARIABLES
  automation,             \* what is asked of this device
  steps_per_revolution,   \* get_steps_per_revolution(): 200 * config_.subdivision
  state,                  \* state_ of the engine
  current_pos,            \* current_pos_
  target_pos,             \* target_pos_
  current_position,       \* current_position of the base class, in steps
  target_position,        \* target_position of the base class, in steps
  default_speed,          \* default_speed_, in rpm
  default_acceleration,   \* default_acceleration_, in the motor's unit
  commands,               \* the moves that wait or are with the motor
  axis,                   \* external: the target the motor goes to, in ticks
  encoder,                \* external: where the motor is, in ticks
  \* History, which only properties read:
  asked_target,           \* the steps of the last set_target() since the last change of units
  asked_speed,            \* the argument of set_max_speed(), likewise
  asked_acceleration,     \* the argument of set_acceleration(), likewise
  current_units,          \* was current_position computed in the present units?
  wanted,                 \* the ticks of the last move that was asked for and is not obsolete
  hasty                   \* was a move skipped although the position was not settled?

positionVars == <<current_pos, target_pos, current_position, target_position>>
defaultVars == <<default_speed, default_acceleration>>
motorVars == <<axis, encoder>>
askedVars == <<asked_target, asked_speed, asked_acceleration, current_units>>
moveVars == <<commands, wanted, hasty>>
vars == <<automation, steps_per_revolution, state, positionVars, defaultVars, motorVars,
          askedVars, moveVars>>

Move == [axis : Int, rpm : 0 .. MaxRpm, acc : 0 .. 255]

MotionTypeOK ==
  /\ automation \in Automations
  /\ steps_per_revolution \in Nat \ {0}
  /\ state \in {"Idle", "Moving", "Stopping", "Other"}
  /\ current_pos \in NearlyNormal /\ target_pos \in NearlyNormal
  /\ current_position \in Int /\ target_position \in Int
  /\ default_speed \in -MaxRpm .. MaxRpm
  /\ default_acceleration \in 0 .. 255
  /\ commands \in Seq(Move)
  /\ axis \in Int /\ encoder \in Int
  /\ asked_target \in Int \cup {None}
  /\ asked_speed \in Int \cup {None} /\ asked_acceleration \in Int \cup {None}
  /\ current_units \in BOOLEAN
  /\ wanted \in Int \cup {None} /\ hasty \in BOOLEAN

-----------------------------------------------------------------------------
(* The setters of positions, which keep the base class up to date.         *)

SetCurrentPos(p) ==
  /\ current_pos' = p
  /\ current_position' = Steps(p, steps_per_revolution)
  /\ current_units' = TRUE

SetTargetPos(p) ==
  /\ target_pos' = p
  /\ target_position' = Steps(p, steps_per_revolution)

\* The command that move_position_mode_4() makes of a target and the defaults.
MoveCommand(target) ==
  [axis |-> Axis(target),
   rpm |-> IF default_speed < 0 THEN -default_speed ELSE default_speed,
   acc |-> default_acceleration]

\* Has the motor arrived where the queue sent it, and was it read since?
Settled == commands = <<>> /\ encoder = axis /\ Ticks(current_pos) = encoder

\* Mutant: the check comes before set_target_pos().
SendMove_OldTarget(target) ==
  /\ IF IsTargetReached(current_pos, target_pos)
     THEN UNCHANGED commands /\ hasty' = (hasty \/ ~Settled)
     ELSE /\ Len(commands) < MaxMoves
          /\ commands' = Append(commands, MoveCommand(target))
          /\ UNCHANGED hasty
  /\ wanted' = Ticks(target)

\* StepperEngine::move_to() after set_target_pos(): nothing is sent if the last
\* position that was read is within a tick of the target.
SendMove(target) ==
  /\ IF IsTargetReached(current_pos, target_pos')
     THEN UNCHANGED commands /\ hasty' = (hasty \/ ~Settled)
     ELSE /\ Len(commands) < MaxMoves
          /\ commands' = Append(commands, MoveCommand(target))
          /\ UNCHANGED hasty
  /\ wanted' = Ticks(target)

TakesMoves == state \in {"Idle", "Moving", "Stopping"}

-----------------------------------------------------------------------------
(* Calls of automations.                                                   *)

\* set_target() of the base class.  The target changes even if the move is rejected.
SetTarget(steps) ==
  /\ LET target == FromSteps(steps, steps_per_revolution) IN
       /\ SetTargetPos(target)
       /\ IF TakesMoves THEN SendMove(target) ELSE UNCHANGED moveVars
  /\ asked_target' = steps
  /\ UNCHANGED <<automation, steps_per_revolution, state, current_pos, current_position,
                 defaultVars, motorVars, asked_speed, asked_acceleration, current_units>>

\* move_to(), which the action stepper.set_target calls; here with revolutions.
MoveTo(r) ==
  /\ TakesMoves
  /\ LET target == FromRevolutions(r.n, r.d) IN SetTargetPos(target) /\ SendMove(target)
  /\ asked_target' = None
  /\ UNCHANGED <<automation, steps_per_revolution, state, current_pos, current_position,
                 defaultVars, motorVars, asked_speed, asked_acceleration, current_units>>

\* Only sets the current position: the offset it should set is not implemented.
ReportPosition(r) ==
  /\ SetCurrentPos(FromRevolutions(r.n, r.d))
  /\ UNCHANGED <<automation, steps_per_revolution, state, target_pos, target_position,
                 defaultVars, motorVars, asked_target, asked_speed, asked_acceleration,
                 moveVars>>

SetMaxSpeed(value) ==
  /\ default_speed' = SpeedFromSteps(value, steps_per_revolution)
  /\ asked_speed' = value
  /\ UNCHANGED <<automation, steps_per_revolution, state, positionVars, default_acceleration,
                 motorVars, asked_target, asked_acceleration, current_units, moveVars>>

\* set_acceleration() and set_deceleration() set the same default.
SetAcceleration(value) ==
  /\ default_acceleration' = AccelerationFromSteps(value, steps_per_revolution)
  /\ asked_acceleration' = value
  /\ UNCHANGED <<automation, steps_per_revolution, state, positionVars, default_speed,
                 motorVars, asked_target, asked_speed, current_units, moveVars>>

\* A set-up follows.  Positions keep their ticks, the steps of the base class
\* are not computed anew.
SetMicrosteps(resolution) ==
  /\ steps_per_revolution # resolution
  /\ steps_per_revolution' = resolution
  /\ state' = "Other"
  /\ asked_target' = None /\ asked_speed' = None /\ asked_acceleration' = None
  /\ current_units' = FALSE
  /\ UNCHANGED <<automation, positionVars, defaultVars, motorVars, moveVars>>

-----------------------------------------------------------------------------
(* Answers of the motor.                                                   *)

\* poll_encoder_position(): carry and ticks of the encoder.
EncoderRead ==
  /\ SetCurrentPos(FromTicks(encoder))
  /\ UNCHANGED <<automation, steps_per_revolution, state, target_pos, target_position,
                 defaultVars, motorVars, asked_target, asked_speed, asked_acceleration,
                 moveVars>>

MoveSucceeds ==
  /\ commands # <<>>
  /\ axis' = Head(commands).axis
  /\ commands' = Tail(commands)
  /\ state' = "Moving"
  /\ UNCHANGED <<automation, steps_per_revolution, positionVars, defaultVars, encoder,
                 askedVars, wanted, hasty>>

\* A move that fails is forgotten; the target stays.
MoveFails ==
  /\ commands # <<>>
  /\ commands' = Tail(commands)
  /\ wanted' = IF Len(commands) = 1 THEN None ELSE wanted
  /\ UNCHANGED <<automation, steps_per_revolution, state, positionVars, defaultVars,
                 motorVars, askedVars, hasty>>

\* transition_to(Idle) forgets the target, but not in the base class.
BecomesIdle(current) == state' = "Idle" /\ target_pos' = current

\* The status STOP while in motion, or stop(), also while Homing or Calibrating
\* (of the states that Other stands for).
Stops ==
  /\ state \in {"Moving", "Other"}
  /\ state' = "Stopping"
  /\ UNCHANGED <<automation, steps_per_revolution, positionVars, defaultVars, motorVars,
                 askedVars, moveVars>>

\* The status STOP while Stopping; set-up, calibration and recovery end like this, too.
ReadyAgain ==
  /\ state \in {"Stopping", "Other"}
  /\ BecomesIdle(current_pos)
  /\ UNCHANGED <<automation, steps_per_revolution, current_pos, current_position,
                 target_position, defaultVars, motorVars, askedVars, moveVars>>

\* The engine enters a state that takes no moves, with the queue cleared if it is Error.
TakenOver ==
  /\ state' = "Other"
  /\ \/ UNCHANGED <<commands, wanted>>
     \/ commands' = <<>> /\ wanted' = None
  /\ UNCHANGED <<automation, steps_per_revolution, positionVars, defaultVars, motorVars,
                 askedVars, hasty>>

\* The status STOP while Homing: the motor counts from here.
Homed ==
  /\ state = "Other"
  /\ SetCurrentPos(Zero)
  /\ target_position' = 0
  /\ BecomesIdle(Zero)
  /\ axis' = 0 /\ encoder' = 0
  /\ asked_target' = None
  /\ wanted' = None
  /\ UNCHANGED <<automation, steps_per_revolution, defaultVars, asked_speed,
                 asked_acceleration, commands, hasty>>

\* The motor accepted SET_ZERO.
SetZeroSucceeds ==
  /\ SetCurrentPos(Zero)
  /\ axis' = 0 /\ encoder' = 0
  /\ wanted' = None
  /\ UNCHANGED <<automation, steps_per_revolution, state, target_pos, target_position,
                 defaultVars, asked_target, asked_speed, asked_acceleration, commands, hasty>>

-----------------------------------------------------------------------------
(* The motor.                                                              *)

MotorTurns ==
  /\ encoder # axis
  /\ encoder' = IF encoder < axis THEN encoder + 1 ELSE encoder - 1
  /\ UNCHANGED <<automation, steps_per_revolution, state, positionVars, defaultVars, axis,
                 askedVars, moveVars>>

\* STOP, a protection or an emergency stop ends the motion where the motor is.
MotorHalts ==
  /\ encoder # axis
  /\ axis' = encoder
  /\ wanted' = None
  /\ UNCHANGED <<automation, steps_per_revolution, state, positionVars, defaultVars, encoder,
                 askedVars, commands, hasty>>

-----------------------------------------------------------------------------

Init ==
  /\ automation \in Automations
  /\ steps_per_revolution \in automation.resolutions
  /\ state = "Other"
  /\ current_pos = Zero /\ target_pos = Zero
  /\ current_position = 0 /\ target_position = 0
  /\ default_speed = 100
  /\ default_acceleration = 236   \* 1000 rpm per second
  /\ commands = <<>>
  /\ axis = 0 /\ encoder = 0
  /\ asked_target = None /\ asked_speed = None /\ asked_acceleration = None
  /\ current_units = TRUE
  /\ wanted = None /\ hasty = FALSE

Calls ==
  \/ \E s \in automation.steps : SetTarget(s)
  \/ \E r \in automation.revolutions : MoveTo(r)
  \/ \E r \in automation.reports : ReportPosition(r)
  \/ \E v \in automation.speeds : SetMaxSpeed(v)
  \/ \E v \in automation.accelerations : SetAcceleration(v)
  \/ \E s \in automation.resolutions : SetMicrosteps(s)

Answers ==
  \/ EncoderRead \/ MoveSucceeds \/ MoveFails
  \/ Stops \/ ReadyAgain \/ TakenOver \/ Homed \/ SetZeroSucceeds

Motor == MotorTurns \/ MotorHalts

Next == Calls \/ Answers \/ Motor

MotionSpec == Init /\ [][Next]_vars
-----------------------------------------------------------------------------
(* Properties.                                                             *)

Distance(a, b) == IF a >= b THEN a - b ELSE b - a

\* is_target_reached(), which subtracts and compares pairs with borrows and
\* takes fractions that were rounded up to a full turn, says exactly whether
\* the two positions are at most one tick apart.
ReachedExactly ==
  IsTargetReached(current_pos, target_pos) <=> Distance(Ticks(current_pos), Ticks(target_pos)) <= 1

\* While the encoder resolves a step, the base class has the target that
\* set_target() was called with, although it went through ticks and back.
TargetAsAsked ==
  asked_target # None /\ steps_per_revolution <= TicksPerRev => target_position = asked_target

\* With at least three ticks to a step, a motor within the tolerance of the
\* asked target has reached it for the base class as well (has_reached_target()
\* compares steps), so a move that is skipped leaves nothing to wait for.
SkippedIsReached ==
  /\ asked_target # None /\ current_units /\ 3 * steps_per_revolution < TicksPerRev
  /\ IsTargetReached(current_pos, FromSteps(asked_target, steps_per_revolution))
  => current_position = target_position

\* The motor's axis is or becomes the target that was asked for last.
LatestTargetWins ==
  wanted # None /\ commands = <<>> /\ Fits(wanted) => Distance(axis, wanted) <= 1

\* That a target is lost is only possible after move_to() skipped a move by a
\* position that had not settled.
LostOnlyInHaste == ~hasty => LatestTargetWins

\* The speed is the nearest one that the motor has.
SpeedNearest ==
  asked_speed # None =>
    LET off(rpm) == Distance(rpm * steps_per_revolution, asked_speed * 60)
    IN \A rpm \in -MaxRpm .. MaxRpm : off(default_speed) <= off(rpm)

\* The ramp is instant only if that was asked for or is the motor's
\* fastest one or beyond; otherwise its step of time is the nearest one the motor has.
RampNearest ==
  asked_acceleration # None =>
    LET rpm_per_sec == asked_acceleration * 60   \* times steps per revolution
        off(acc) == Distance((256 - acc) * rpm_per_sec, MaxRpmPerSec * steps_per_revolution)
    IN IF asked_acceleration <= 0 \/ rpm_per_sec >= MaxRpmPerSec * steps_per_revolution
       THEN default_acceleration = 0
       ELSE /\ default_acceleration # 0
            /\ \A acc \in 1 .. 255 : off(default_acceleration) <= off(acc)
=============================================================================
