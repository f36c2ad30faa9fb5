------------------------------- MODULE MCSetup -------------------------------
(***************************************************************************)
(* Instances of Setup for TLC: motors as they are delivered and as another *)
(* configuration left them, the latter with registers that are read as     *)
(* others, and YAML files that differ from them in a few settings each, so *)
(* that set-up has two or three settings to write.                         *)
(***************************************************************************)
EXTENDS Setup, TLC

Yaml ==
  [ servo_type |-> "SERVO42D",
    operating_mode |-> "POSITION",
    control_mode |-> "SR_VFOC",
    microsteps |-> 1,
    working_current |-> Absent,
    holding_current_percent |-> 50,
    en_pin_active |-> "EN_LOW",
    auto_screen_off |-> "AUTO_OFF",
    lock_keys_at_startup |-> "UNLOCKED",
    homing_mode |-> "NO_HOMING",
    at_startup |-> FALSE,
    homing_direction |-> "CW",
    homing_speed |-> 60,
    homing_current |-> Absent,
    endstop_trigger |-> "LOW",
    calls |-> {} ]

\* The motor has what the driver wants by default, but for some settings.
Factory ==
  [ Synchronized(Device(Yaml)) EXCEPT
      !.homing = [trigger |-> "LOW", direction |-> "CW", speed |-> 60],
      !.nolimit = [reverse_angle |-> 2000, limit |-> "NO_LIMIT", current_ma |-> 800],
      !.en_trigger = "ON" ]

MCRegisters ==
  { Factory,
    [Factory EXCEPT !.subdivision = 256, !.working_current_ma = 800,
       !.nolimit = [reverse_angle |-> 65536, limit |-> "WITH_LIMIT", current_ma |-> 1000]] }

\* Microsteps in a mode in which they count, and the stop at the end.
Endstop ==
  [Yaml EXCEPT !.control_mode = "SR_OPEN", !.microsteps = 16, !.homing_mode = "ENDSTOP",
     !.at_startup = TRUE, !.homing_direction = "CCW",
     !.calls = {"emergency_stop", "release_protection", "home"}]
Runtime ==
  [Yaml EXCEPT !.calls = {"set_microsteps", "set_working_current", "other"}]
Modes ==
  [Yaml EXCEPT !.holding_current_percent = 90,
     !.calls = {"set_control_mode", "set_holding_current_percent", "key_lock"}]
Sensorless ==
  [Yaml EXCEPT !.homing_mode = "SENSORLESS", !.endstop_trigger = "HIGH",
     !.calls = {"restart", "set_working_current"}]
\* Not accepted: microsteps in a vFOC mode.
Rejected == [Yaml EXCEPT !.microsteps = 16]

MCYamlFiles == {Endstop, Runtime, Modes, Sensorless, Rejected}
MCMicrosteps == {1, 256}
MCControlModes == {"SR_VFOC", "SR_CLOSE"}
MCCurrents == {1600, 1000}
MCPercents == {50, 94}
=============================================================================
