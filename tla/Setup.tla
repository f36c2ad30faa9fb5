------------------------------- MODULE Setup --------------------------------
(***************************************************************************)
(* The configuration of the motor: what set-up reads and writes, how       *)
(* automations change the configuration while set-ups come and go, and     *)
(* what the motor has in the end (StepperEngine::setup_motor(), the        *)
(* setters of ServoXxd, servoxxd_actions.h).                               *)
(*                                                                         *)
(* StepperEngine models the states of the driver and leaves open which     *)
(* settings a set-up writes; this module follows the settings, and the     *)
(* requests that matter to them:                                           *)
(*   - of the states it tells SettingUp, Homing and Error apart; Idle      *)
(*     stands for all others;                                              *)
(*   - time-outs may come at any time in which they can;                   *)
(*   - the two requests of a recovery from Error are one, and of the       *)
(*     requests of priority NORMAL only the locking of the keys changes a  *)
(*     setting: "other" stands for the rest, the polls among them.         *)
(* The motor keeps its settings when it restarts.  ESPHome may restart at  *)
(* any time, and then begins again with the configuration of the YAML      *)
(* file.                                                                   *)
(***************************************************************************)
EXTENDS ConfigData, Functions

CONSTANTS
  YamlFiles,     \* contents of the YAML file, accepted or not, with the names
                 \*   of the calls its automations make
  Registers,     \* what the motor may have when ESPHome starts first
  Microsteps,    \* arguments of set_microsteps(),
  ControlModes,  \*   of set_control_mode(),
  Currents,      \*   of set_working_current(),
  Percents,      \*   and of stepper.set_holding_current_percent
  MaxSetups,     \* bound: no call adds to as many requests of priority SETUP
  MaxOthers      \* bound on the waiting requests of priority NORMAL

Devices == {Device(y) : y \in {f \in YamlFiles : Accepted(f)}}

\* The values that a register may have, as far as reading it depends on them:
\* the byte of the holding current, and any reverse angle of SENSORLESS.
InRange(s, v) ==
  /\ s = "holding_current_percent" => v \in 0 .. 255
  /\ s = "nolimit" => v.reverse_angle \in Nat

IsConfiguration(c) == DOMAIN c = Setting /\ c = [s \in Setting |-> c[s]]

SetupAssumption ==
  /\ \A y \in YamlFiles : y.holding_current_percent \in Int
  /\ \A registers \in Registers :
       IsConfiguration(registers) /\ \A s \in Setting : InRange(s, registers[s])
  /\ Percents \subseteq Int
ASSUME SetupAssumption

VARIABLES
  device,       \* what the YAML file says, see Device
  config,       \* config_ of the core
  motor,        \* the registers of the motor
  state,        \* state_
  setup_state,  \* setup_state_ of the core
  failed,       \* mark_failed() was called
  setups,       \* the waiting requests of priority SETUP
  others,       \* the waiting requests of priority NORMAL
  wire,         \* <<>>, or the request with the motor, until its delay is over
  open          \* history: settings for which nothing is promised, see below

stateVars == <<state, setup_state, failed>>
queueVars == <<setups, others, wire>>
vars == <<device, config, motor, stateVars, queueVars, open>>

Request == {"restart", "read", "write", "setup_go_home", "go_home", "done",
            "recovery", "emergency_stop", "release_protection", "key_lock", "other"}
Item(r) == [request |-> r, setting |-> "none", value |-> "none"]
KeyLockItem(v) == [request |-> "key_lock", setting |-> "keypad_lock", value |-> v]

IsItem(x) ==
  /\ x.request \in Request
  /\ x.request \in {"write", "key_lock"} => x.setting \in Setting /\ InRange(x.setting, x.value)

IsRequests(q) == q \in Seq(Range(q)) /\ \A x \in Range(q) : IsItem(x)

\* The registers keep their range, the queue holds requests, those of set-up
\* with priority SETUP, and requests wait only while one is with the motor
\* (servoxxd_command_queue.cpp:160).
SetupTypeOK ==
  /\ device \in Devices
  /\ IsConfiguration(config) /\ config["holding_current_percent"] \in 0 .. 8
  /\ IsConfiguration(motor) /\ \A s \in Setting : InRange(s, motor[s])
  /\ state \in {"SettingUp", "Idle", "Homing", "Error"}
  /\ setup_state \in {"IN_PROGRESS", "COMPLETED", "FAILED"}
  /\ failed \in BOOLEAN
  /\ IsRequests(setups) /\ IsRequests(others) /\ IsRequests(wire)
  /\ \A x \in Range(others) : x.request \notin {"read", "write"}
  /\ Len(wire) <= 1
  /\ wire = << >> => setups = << >> /\ others = << >>
  /\ open \subseteq Setting

-----------------------------------------------------------------------------
(* The queue: SETUP before NORMAL, one request with the motor.             *)

Reads(q) == \E x \in Range(q) : x.request = "read"
Writes(q, s) == \E x \in Range(q) : x.request = "write" /\ x.setting = s

\* A read or a write of s waits or is with the motor.
ReadOutstanding == Reads(wire) \/ Reads(setups)
WriteOutstanding(s) == Writes(wire, s) \/ Writes(setups, s)

\* The requests p of priority SETUP and q of priority NORMAL wait; the first
\* one goes out.
SendNext(p, q) ==
  \/ p # << >> /\ wire' = <<Head(p)>> /\ setups' = Tail(p) /\ others' = q
  \/ p = << >> /\ q # << >> /\ wire' = <<Head(q)>> /\ setups' = p /\ others' = Tail(q)
  \/ p = << >> /\ q = << >> /\ wire' = << >> /\ setups' = p /\ others' = q

\* Mutant: a free queue waits for the next call.
Enqueue_OnlyWaits(p, q) == setups' = p /\ others' = q /\ UNCHANGED wire

\* enqueue(): a free queue sends at once.
Enqueue(p, q) ==
  \/ wire = << >> /\ SendNext(p, q)
  \/ wire # << >> /\ setups' = p /\ others' = q /\ UNCHANGED wire

\* The request with the motor is r, and it ends.
Ends(r) == wire # << >> /\ wire[1].request = r

-----------------------------------------------------------------------------
(* The history.  A setting is open if the motor may well differ from the   *)
(* configuration, and nobody is going to find out: the setting was changed *)
(* when nothing was to read it any more, or its write was cancelled, or    *)
(* failed and was not heeded.                                              *)

\* config_ got a new value for s, or somebody else set s in the motor: a read
\* that is still to come will find out, unless a write of s may follow it.
OpenAfterChange(s) ==
  IF ReadOutstanding /\ ~WriteOutstanding(s) THEN open ELSE open \cup {s}

\* What waits is cancelled.
OpenAfterClear ==
  IF Reads(setups) THEN Setting ELSE open \cup {s \in Setting : Writes(setups, s)}

-----------------------------------------------------------------------------
(* The requests end.                                                       *)

\* transition_to(Error) clears the queue, and of the callbacks that fail then
\* only that of a read does something: it marks the component as failed.
EnterError ==
  /\ state' = "Error"
  /\ failed' = (failed \/ Reads(setups))
  /\ open' = OpenAfterClear

\* transition_to(s) in the callback of the request that ends.
GoTo(s) ==
  \/ /\ s = "Error" /\ state # "Error"
     /\ EnterError
     /\ SendNext(<< >>, << >>)
  \/ /\ s # "Error" \/ state = "Error"
     /\ state' = s
     /\ SendNext(setups, others)
     /\ UNCHANGED <<failed, open>>

\* A request of set-up failed: Error, and the component is marked as failed.
Abort(lost) ==
  /\ state' = "Error"
  /\ failed' = TRUE
  /\ SendNext(<< >>, << >>)
  /\ open' = OpenAfterClear \cup lost

\* Restarts, GoHome after the homing parameters if it fails, a recovery that
\* fails: their callbacks are null or only log.
EndsUnheeded ==
  /\ \E r \in {"restart", "emergency_stop", "release_protection", "setup_go_home",
              "recovery"} : Ends(r)
  /\ SendNext(setups, others)
  /\ UNCHANGED <<device, config, motor, stateVars, open>>

\* A poll may find that the motor moves or stands; some requests fail into
\* Error.
OtherEnds ==
  /\ Ends("other")
  /\ \/ state' \in {state} \cup (IF state = "SettingUp" THEN {} ELSE {"Homing", "Idle"})
        /\ SendNext(setups, others)
        /\ UNCHANGED <<failed, open>>
     \/ GoTo("Error")
  /\ UNCHANGED <<device, config, motor, setup_state>>

\* Mutant: the values to write are taken from the YAML file.
ReadSucceeds_YamlValues ==
  /\ Ends("read")
  /\ SendNext(setups \o UpdateWrites(device, Decoded(motor), Synchronized(device))
                 \o <<Item("done")>>, others)
  /\ open' = {s \in open : Writes(setups, s)}
  /\ UNCHANGED <<device, config, motor, stateVars>>

\* read_all_config succeeds, in whatever state: what differs is written, and
\* the completion marker comes last.
ReadSucceeds ==
  /\ Ends("read")
  /\ SendNext(setups \o UpdateWrites(device, Decoded(motor), config)
                 \o <<Item("done")>>, others)
  /\ open' = {s \in open : Writes(setups, s)}
  /\ UNCHANGED <<device, config, motor, stateVars>>

ReadFails ==
  /\ Ends("read")
  /\ Abort(Setting)
  /\ UNCHANGED <<device, config, motor, setup_state>>

\* The motor wants a GoHome after new homing parameters.
WriteSucceeds ==
  /\ Ends("write")
  /\ motor' = Stored(motor, wire[1].setting, wire[1].value)
  /\ SendNext(IF wire[1].setting = "homing" /\ state # "Error"
                THEN Append(setups, Item("setup_go_home")) ELSE setups, others)
  /\ UNCHANGED <<device, config, stateVars, open>>

\* A write fails; the motor may have taken it all the same, if only the answer
\* was lost.  In Error nobody heeds it ("Setup already aborted").
WriteFails ==
  /\ Ends("write")
  /\ motor' \in {motor, Stored(motor, wire[1].setting, wire[1].value)}
  /\ \/ /\ state # "Error"
        /\ Abort({wire[1].setting})
     \/ /\ state = "Error"
        /\ SendNext(setups, others)
        /\ open' = open \cup {wire[1].setting}
        /\ UNCHANGED <<state, failed>>
  /\ UNCHANGED <<device, config, setup_state>>

\* GoHome after the homing parameters, or of home().
GoHomeSucceeds ==
  /\ Ends("setup_go_home") \/ Ends("go_home")
  /\ GoTo("Homing")
  /\ UNCHANGED <<device, config, motor, setup_state>>

GoHomeFails ==
  /\ Ends("go_home")
  /\ GoTo("Error")
  /\ UNCHANGED <<device, config, motor, setup_state>>

\* home() sends something only for ENDSTOP.
HomeRequests == IF device.homing_mode = "ENDSTOP" THEN <<Item("go_home")>> ELSE << >>
HomesAtStartup == device.at_startup /\ device.homing_mode # "NO_HOMING"

\* The recovery from Error leads to Idle and, if the motor was never homed, to
\* homing.
RecoverySucceeds ==
  /\ Ends("recovery")
  /\ state' = "Idle"
  /\ \E more \in {<< >>} \cup (IF HomesAtStartup THEN {HomeRequests} ELSE {}) :
       SendNext(setups \o more, others)
  /\ UNCHANGED <<device, config, motor, setup_state, failed, open>>

\* The completion marker: a homing run that set-up has started goes on; else
\* the run at start-up begins, or the motor is Idle.
DoneSucceeds ==
  /\ Ends("done")
  /\ \/ /\ state = "Error"
        /\ SendNext(setups, others)
        /\ UNCHANGED stateVars
     \/ /\ state # "Error"
        /\ setup_state' = "COMPLETED"
        /\ SendNext(IF state # "Homing" /\ HomesAtStartup THEN setups \o HomeRequests
                                                          ELSE setups, others)
        /\ state' = IF state = "SettingUp" /\ ~HomesAtStartup THEN "Idle" ELSE state
        /\ UNCHANGED failed
  /\ UNCHANGED <<device, config, motor, open>>

DoneFails ==
  /\ Ends("done")
  /\ \/ /\ state = "Error"
        /\ SendNext(setups, others)
        /\ UNCHANGED <<stateVars, open>>
     \/ /\ state # "Error"
        /\ Abort({})
        /\ setup_state' = "FAILED"
  /\ UNCHANGED <<device, config, motor>>

\* key_lock() and key_unlock() reach the motor, or do not; config_ keeps what
\* the YAML file says of the keys.
KeyLockEnds ==
  /\ Ends("key_lock")
  /\ SendNext(setups, others)
  /\ \/ UNCHANGED <<motor, open>>
     \/ /\ motor' = Stored(motor, "keypad_lock", wire[1].value)
        /\ open' = OpenAfterChange("keypad_lock")
  /\ UNCHANGED <<device, config, stateVars>>

RequestEnds ==
  \/ EndsUnheeded \/ OtherEnds \/ RecoverySucceeds \/ ReadSucceeds \/ ReadFails \/ WriteSucceeds \/ WriteFails
  \/ GoHomeSucceeds \/ GoHomeFails \/ DoneSucceeds \/ DoneFails \/ KeyLockEnds

-----------------------------------------------------------------------------
(* Calls of automations.                                                   *)

Called(c) == c \in device.calls

\* A setter stores its argument.
Store(s, v) ==
  /\ config' = [config EXCEPT ![s] = v]
  /\ open' = OpenAfterChange(s)
  /\ UNCHANGED <<device, motor, setup_state, failed>>

\* setup_motor(), called again: the set-up is queued behind what waits.
SetupMotor ==
  /\ state' = "SettingUp"
  /\ Enqueue(setups \o <<Item("restart"), Item("read")>>, others)

NoSetup == UNCHANGED <<state, queueVars>>

\* set_microsteps(): the motor is set up again, but not before the first
\* set-up is completed.
SetMicrosteps ==
  /\ Called("set_microsteps")
  /\ Len(setups) < MaxSetups
  /\ \E n \in Microsteps \ {config["subdivision"]} : Store("subdivision", n)
  /\ IF setup_state = "COMPLETED" THEN SetupMotor ELSE NoSetup

\* set_control_mode(): also if the mode is the same.
SetControlMode ==
  /\ Called("set_control_mode")
  /\ Len(setups) < MaxSetups
  /\ \E mode \in ControlModes : Store("mode", mode)
  /\ IF setup_state = "COMPLETED" THEN SetupMotor ELSE NoSetup

\* These two only store their argument.
SetWorkingCurrent ==
  /\ Called("set_working_current")
  /\ \E c \in Currents : Store("working_current_ma", c)
  /\ NoSetup

SetHoldingCurrent ==
  /\ Called("set_holding_current_percent")
  /\ \E p \in Percents : Store("holding_current_percent", HoldingLevel(p))
  /\ NoSetup

KeyLock ==
  /\ Called("key_lock")
  /\ Len(others) < MaxOthers
  /\ \E v \in {"LOCKED", "UNLOCKED"} : Enqueue(setups, Append(others, KeyLockItem(v)))
  /\ UNCHANGED <<device, config, motor, stateVars, open>>

Home ==
  /\ Called("home")
  /\ Len(setups) < MaxSetups
  /\ device.homing_mode = "ENDSTOP"
  /\ Enqueue(setups \o HomeRequests, others)
  /\ UNCHANGED <<device, config, motor, stateVars, open>>

\* A call or a poll that enqueues something of no matter to the settings.
Another ==
  /\ Called("other")
  /\ Len(others) < MaxOthers
  /\ Enqueue(setups, Append(others, Item("other")))
  /\ UNCHANGED <<device, config, motor, stateVars, open>>

\* The callbacks that do something when clear() calls them with a failure: they
\* enter Error, in which the others of them do nothing, but for that of a read.
Heeded == {"read", "write", "done", "go_home"}
FirstHeeded(rs) ==
  /\ state # "Error"
  /\ \E i \in DOMAIN setups :
       /\ setups[i].request \in rs
       /\ \A j \in 1 .. i - 1 : setups[j].request \notin Heeded

\* clear() in emergency_stop() and restart(), before the state changes.
ClearCallbacks ==
  /\ failed' = (failed \/ Reads(setups) \/ FirstHeeded({"write", "done"}))
  /\ setup_state' = IF FirstHeeded({"done"}) THEN "FAILED" ELSE setup_state
  /\ open' = OpenAfterClear

\* clear, enqueue the stop, and enter Error, which clears again: a stop that
\* could not go out at once is kept only if the state was Error already.
EmergencyStop ==
  /\ Called("emergency_stop")
  /\ ClearCallbacks
  /\ state' = "Error"
  /\ IF wire # << >> /\ state # "Error" /\ ~FirstHeeded(Heeded)
       THEN setups' = << >> /\ others' = << >> /\ UNCHANGED wire
       ELSE Enqueue(<<Item("emergency_stop")>>, << >>)
  /\ UNCHANGED <<device, config, motor>>

\* Restarting the motor keeps the queue busy for its delay.
Restart ==
  /\ Called("restart")
  /\ ClearCallbacks
  /\ state' = "Idle"
  /\ Enqueue(<< >>, <<Item("restart")>>)
  /\ UNCHANGED <<device, config, motor>>

ReleaseProtection ==
  /\ Called("release_protection")
  /\ state \in {"Error", "Idle"}
  /\ state' = "Idle"
  /\ Len(others) < MaxOthers
  /\ Enqueue(setups, Append(others, Item("release_protection")))
  /\ UNCHANGED <<device, config, motor, setup_state, failed, open>>

Call ==
  \/ SetMicrosteps \/ SetControlMode \/ SetWorkingCurrent \/ SetHoldingCurrent
  \/ KeyLock \/ Home \/ Another \/ EmergencyStop \/ Restart
  \/ ReleaseProtection

-----------------------------------------------------------------------------
(* The main loop, and restarts of ESPHome.                                 *)

\* check_state_timeouts(): 30 s of setting up, 600 s of homing.  The first set-up
\* is given up sooner, see SetupOverdue.
StateExpires ==
  /\ ~failed
  /\ state = "Homing" \/ (state = "SettingUp" /\ setup_state # "IN_PROGRESS")
  /\ EnterError
  /\ setups' = << >> /\ others' = << >> /\ UNCHANGED wire
  /\ UNCHANGED <<device, config, motor, setup_state>>

\* attempt_error_recovery()
Recover ==
  /\ ~failed
  /\ state = "Error"
  /\ Len(setups) < MaxSetups
  /\ Enqueue(Append(setups, Item("recovery")), others)
  /\ UNCHANGED <<device, config, motor, stateVars, open>>

\* ServoXxd::loop() gives the first set-up up after 10 s.
SetupOverdue ==
  /\ ~failed
  /\ setup_state = "IN_PROGRESS"
  /\ setup_state' = "FAILED"
  /\ failed' = TRUE
  /\ UNCHANGED <<device, config, motor, state, queueVars, open>>

\* ServoXxd::setup(), with the motor as it is.
Started ==
  /\ state' = "SettingUp" /\ setup_state' = "IN_PROGRESS" /\ failed' = FALSE
  /\ config' = Synchronized(device)
  /\ wire' = <<Item("restart")>> /\ setups' = <<Item("read")>> /\ others' = << >>
  /\ open' = {}

\* ESPHome restarts.  A write that is with the motor may still take effect.
Reboot ==
  /\ Started
  /\ motor' \in {motor} \cup
        (IF Ends("write") \/ Ends("key_lock")
           THEN {Stored(motor, wire[1].setting, wire[1].value)} ELSE {})
  /\ UNCHANGED device

-----------------------------------------------------------------------------

Init ==
  /\ device \in Devices
  /\ config = Synchronized(device)
  /\ motor \in Registers
  /\ state = "SettingUp" /\ setup_state = "IN_PROGRESS" /\ failed = FALSE
  /\ wire = <<Item("restart")>> /\ setups = <<Item("read")>> /\ others = << >>
  /\ open = {}

Next ==
  \/ RequestEnds \/ Call \/ StateExpires \/ Recover \/ SetupOverdue \/ Reboot

Spec == Init /\ [][Next]_vars

-----------------------------------------------------------------------------
(* Properties.                                                             *)

\* The motor has what a write of s for the configuration would give it.
InForce(s) == motor[s] = Payload(device, config, s)

\* The motor has something else than the configuration, and set-up does not see
\* it: 256 microsteps are read as 1 (decoder.h:483), a holding current beyond
\* the highest as the highest, and of the parameters of SENSORLESS set-up
\* compares the low word of the angle and the current with the defaults 0 and
\* 1000 mA, which it would not write (decoder.h:519, .cpp:440).
ReadAlike(s) ==
  \/ s = "subdivision" /\ config[s] = 1 /\ motor[s] = 256
  \/ s = "holding_current_percent" /\ config[s] = 8 /\ motor[s] > 8
  \/ /\ s = "nolimit"
     /\ motor[s].reverse_angle % 65536 = config[s].reverse_angle
     /\ motor[s].current_ma = config[s].current_ma

\* What set-up is for (servoxxd_stepper_engine.cpp:122): when no request of
\* set-up is outstanding, the motor has every setting that set-up writes, with
\* the values the configuration has now - however set-ups overlapped, settings
\* changed and requests failed meanwhile.  The only exceptions are values that
\* are read as another (ReadAlike) and the open settings: values changed when
\* they were not going to be compared any more, writes that were cancelled or
\* failed, and keys locked by an automation.
SettledAgrees ==
  ~ReadOutstanding =>
    \A s \in Written(device.homing_mode) \ open :
      InForce(s) \/ WriteOutstanding(s) \/ ReadAlike(s)

\* Settings that set-up writes every time: the EN trigger, parameters of
\* SENSORLESS and 256 microsteps, which are read back as something else.
Rewritten(s) ==
  s \in {"en_trigger", "nolimit"} \/ (s = "subdivision" /\ config[s] = 256)

\* "returns only the command types needed" (servoxxd.h:350): a setting that the
\* motor has is not written again by a set-up, so that a motor which is
\* configured already does not start a homing run because of it.
QuietSetup ==
  [][ReadSucceeds =>
       \A s \in Setting :
         InForce(s) /\ ~Rewritten(s) /\ ~Writes(setups, s) => ~WriteOutstanding(s)']_vars
=============================================================================
