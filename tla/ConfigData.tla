----------------------------- MODULE ConfigData -----------------------------
(***************************************************************************)
(* The configuration of the motor as the driver keeps it                   *)
(* (struct ConfigData of src/components/servoxxd/stepper/servoxxd.h), the  *)
(* comparison that decides what set-up writes, what the writes carry       *)
(* (servoxxd_stepper_engine.cpp, servoxxd_command_factory.h), how the      *)
(* motor's registers are read back (servoxxd_command_decoder.h), and how   *)
(* one line of the YAML file becomes a device (__init__.py).               *)
(*                                                                         *)
(* A configuration is a function on settings.  A setting is the group of   *)
(* fields that one command writes, so that a command is named by its       *)
(* setting: "homing" stands for SET_HOMING_PARAMETERS and for the fields   *)
(* homing_trigger, homing_direction and homing_speed.                      *)
(*                                                                         *)
(* Registers of the motor are an external, described by the manual: a      *)
(* write stores what it carries, and a read of all of them returns one     *)
(* byte for the subdivision, in which 256 is zero.                         *)
(***************************************************************************)
EXTENDS Integers, Sequences

Setting ==
  { "subdivision", "en_pin_active", "direction", "screen_mode", "keypad_lock",
    "protection", "interpolation", "en_trigger", "mode", "working_current_ma",
    "holding_current_percent", "homing", "endstop_limit", "nolimit", "zero",
    "limit_port_mapping" }

\* The initial values of a ConfigData object.  The trigger of the EN pin is
\* no field of it: whoever wants it configured wants it off.
DefaultConfig ==
  [ subdivision |-> 16,
    en_pin_active |-> "EN_LOW",
    direction |-> "CW",
    screen_mode |-> "AUTO_OFF",
    keypad_lock |-> "UNLOCKED",
    protection |-> "PROTECTION_OFF",
    interpolation |-> "INTERP_256X",
    en_trigger |-> "OFF",
    mode |-> "SR_VFOC",
    working_current_ma |-> 2000,
    holding_current_percent |-> 4,
    homing |-> [trigger |-> "LOW", direction |-> "CW", speed |-> 0],
    endstop_limit |-> "LIMIT_OFF",
    nolimit |-> [reverse_angle |-> 0, limit |-> "WITH_LIMIT", current_ma |-> 1000],
    zero |-> [mode |-> "DISABLED", task |-> "CLEAN", speed |-> "MEDIUM", direction |-> "CW"],
    limit_port_mapping |-> "DEFAULT" ]

-----------------------------------------------------------------------------
(* Reading the registers.                                                  *)

\* CommandDecoder::read_all_config(): the byte of the subdivision with 0 taken
\* for 1, the holding current clamped, the low word of the reverse angle, the
\* limit flag from a byte that is always zero, no task of the zero mode.  What
\* the trigger of the EN pin does cannot be read.
Decoded(registers) ==
  [ registers EXCEPT
      !["subdivision"] = IF @ = 256 THEN 1 ELSE @,
      !["holding_current_percent"] = IF @ > 8 THEN 8 ELSE @,
      !["nolimit"] = [reverse_angle |-> @.reverse_angle % 65536, limit |-> "WITH_LIMIT",
                      current_ma |-> @.current_ma],
      !["zero"] = [@ EXCEPT !.task = "CLEAN"],
      !["en_trigger"] = "unknown" ]

-----------------------------------------------------------------------------
(* What set-up writes.                                                     *)

\* Mutant: the trigger of the EN pin is configured only if something else is.
Changed_OnlyDiffering(current, desired) ==
  {s \in Setting \ {"en_trigger"} : current[s] # desired[s]}

\* The settings that differ, and always the trigger of the EN pin.
Changed(current, desired) ==
  {s \in Setting : current[s] # desired[s]} \cup {"en_trigger"}

\* The settings for which setup_motor() has a case that sends something.
Written(homing_mode) ==
  (Setting \ {"interpolation", "endstop_limit", "zero", "limit_port_mapping",
              "homing", "nolimit"})
    \cup (IF homing_mode = "ENDSTOP" THEN {"homing"} ELSE {})
    \cup (IF homing_mode = "SENSORLESS" THEN {"nolimit"} ELSE {})

\* What the write of s carries for the configuration config of device d.  The
\* parameters of homing come from homing_, the others from config_.
Payload(d, config, s) ==
  CASE s = "homing" -> d.homing
    [] s = "nolimit" ->
         [ reverse_angle |-> IF config[s].reverse_angle = 0 THEN 2000
                             ELSE config[s].reverse_angle,
           limit |-> "NO_LIMIT",
           current_ma |-> IF d.homing_current # 0 THEN d.homing_current
                          ELSE config[s].current_ma ]
    [] OTHER -> config[s]

\* A write knows its setting and the value it carries.
Write(s, v) == [request |-> "write", setting |-> s, value |-> v]

\* get_update_command_types() and the switch in setup_motor(): the writes that
\* bring the configuration current of the motor of device d to what is desired,
\* in the order of priority_order.
UpdateWrites(d, current, desired) ==
  LET If(s) == IF s \in Changed(current, desired) \cap Written(d.homing_mode)
                 THEN <<Write(s, Payload(d, desired, s))>> ELSE << >>
  IN If("subdivision") \o If("en_pin_active") \o If("direction") \o If("screen_mode")
       \o If("keypad_lock") \o If("protection") \o If("en_trigger") \o If("mode")
       \o If("working_current_ma") \o If("holding_current_percent")
       \o If("homing") \o If("nolimit")

\* The motor takes the value v for s.  The homing parameters come with the end
\* stop limit, which set-up switches off.
Stored(registers, s, v) ==
  IF s = "homing" THEN [registers EXCEPT ![s] = v, !["endstop_limit"] = "LIMIT_OFF"]
                  ELSE [registers EXCEPT ![s] = v]

-----------------------------------------------------------------------------
(* From the YAML file to the device.  A current that is left out is Absent; *)
(* a speed of homing that is one of the levels of VIRTUAL is Level.         *)

Absent == -1
Level == -1

Clamped(x, low, high) == IF x < low THEN low ELSE IF x > high THEN high ELSE x

\* to_code() and SetHoldingCurrentPercentAction: to the nearest ten per cent,
\* within 10 and 90, as the number of the register.
HoldingLevel(percent) == (Clamped(((percent + 5) \div 10) * 10, 10, 90) - 10) \div 10

WorkingCurrentDefault == [SERVO28D |-> 600, SERVO35D |-> 800, SERVO42D |-> 1600, SERVO57D |-> 3200]
WorkingCurrentMaximum == [SERVO28D |-> 3000, SERVO35D |-> 3000, SERVO42D |-> 3000, SERVO57D |-> 5200]
HomingCurrentDefault == [SERVO28D |-> 200, SERVO35D |-> 200, SERVO42D |-> 800, SERVO57D |-> 400]

WorkingCurrent(y) ==
  IF y.working_current = Absent THEN WorkingCurrentDefault[y.servo_type]
                                  ELSE y.working_current
HomingCurrent(y) ==
  IF y.homing_mode = "SENSORLESS" /\ y.homing_current = Absent
    THEN HomingCurrentDefault[y.servo_type] ELSE y.homing_current

\* validate_homing_config(); the speed is a level exactly for VIRTUAL, and the
\* trigger HIGH if it is left out.
HomingAccepted(y) ==
  /\ y.homing_direction = "NEAREST" => y.homing_mode = "VIRTUAL"
  /\ y.homing_speed = Level <=> y.homing_mode = "VIRTUAL"
  /\ y.homing_mode # "ENDSTOP" => y.endstop_trigger = "HIGH"
  /\ y.homing_mode # "SENSORLESS" => HomingCurrent(y) = Absent

\* The schema with validate_config_cross_fields().  Bound: speeds and
\* accelerations are Motion's.
Accepted(y) ==
  /\ y.microsteps \in 1 .. 256
  /\ y.control_mode \in {"CR_VFOC", "SR_VFOC"} => y.microsteps = 1
  /\ WorkingCurrent(y) <= WorkingCurrentMaximum[y.servo_type]
  /\ y.homing_mode # "NO_HOMING" => HomingAccepted(y) /\ y.operating_mode = "POSITION"

\* to_code() and the setters of the component: what differs from DefaultConfig
\* and, beside it, homing_ and the automations.
Device(y) ==
  [ config |->
      [ DefaultConfig EXCEPT
          !.subdivision = y.microsteps,
          !.mode = y.control_mode,
          !.working_current_ma = WorkingCurrent(y),
          !.holding_current_percent = HoldingLevel(y.holding_current_percent),
          !.en_pin_active = y.en_pin_active,
          !.screen_mode = y.auto_screen_off,
          !.keypad_lock = y.lock_keys_at_startup ],
    calls |-> y.calls,
    homing_mode |-> y.homing_mode,
    at_startup |-> y.at_startup,
    homing |-> [trigger |-> y.endstop_trigger, direction |-> y.homing_direction,
                speed |-> y.homing_speed],
    homing_current |-> IF y.homing_mode = "SENSORLESS" THEN HomingCurrent(y) ELSE 0 ]

\* Mutant: homing_ is not copied.
Synchronized_NotCopied(d) == d.config

\* ServoXxd::setup() copies homing_ into config_ for the comparison.
Synchronized(d) ==
  IF d.homing_mode = "ENDSTOP" THEN [d.config EXCEPT !.homing = d.homing] ELSE d.config
=============================================================================
