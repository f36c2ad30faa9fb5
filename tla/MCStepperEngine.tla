--------------------------- MODULE MCStepperEngine ---------------------------
(***************************************************************************)
(* Instances of StepperEngine for TLC, and a statement of a comment that   *)
(* the code does not keep.                                                 *)
(***************************************************************************)
EXTENDS StepperEngine, TLC

MCTimeLimit == [s \in TimedStates |-> IF s = "SettingUp" THEN 2 ELSE 1]

Configured(mode, homing, startup, calls) ==
  [operating_mode |-> mode, homing_mode |-> homing, at_startup |-> startup, calls |-> calls]

Endstop ==
  Configured("POSITION", "ENDSTOP", TRUE,
    {"move_to", "stop", "home", "emergency_stop", "release_protection", "calibrate",
     "disable", "restart"})
Virtual ==
  Configured("POSITION", "VIRTUAL", FALSE,
    {"move_to", "stop", "set_zero", "key_lock", "disable", "enable", "emergency_stop",
     "release_protection"})
Speed ==
  Configured("SPEED", "NO_HOMING", FALSE,
    {"run_continuous", "stop", "calibrate", "disable", "enable", "restart", "set_microsteps",
     "release_protection"})

AllModes == {Endstop, Virtual, Speed}
EndstopOnly ==
  {Configured("POSITION", "ENDSTOP", TRUE, {"move_to", "stop", "home", "emergency_stop"})}
EmergencyOnly ==
  {Configured("POSITION", "ENDSTOP", TRUE, {"move_to", "emergency_stop"})}
StatusOnly == {"poll_motor_status"}

\* "Requires release_protection() or restart() to recover"
\* (servoxxd_stepper_engine.h:151): while the main loop runs, only these two
\* lead out of an emergency stop.  EmergencyOnly calls nothing in Error but
\* another stop, so a request that leads out of it was with the motor when the
\* stop was called.  A recovery that succeeds clears the flag before it ends
\* (.cpp:1295), so the property says nothing of it.
EmergencyHolds ==
  [][emergency_flag /\ ~failed /\ state = "Error" /\ state' # "Error" =>
       ReleaseProtection \/ Restart]_vars
=============================================================================
