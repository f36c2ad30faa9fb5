---------------------------- MODULE StepperEngine ----------------------------
(***************************************************************************)
(* Layer 2 of the ServoXXD component with the life cycle of layer 1: the   *)
(* state machine of the driver                                             *)
(* (src/components/servoxxd/stepper/servoxxd_stepper_engine.{h,cpp}),      *)
(* ServoXxd::loop() and the calls that automations make.                   *)
(*                                                                         *)
(* Every action is a whole handler with the completion callbacks it        *)
(* causes: a call of the API, a pass of the main loop, or the end of a     *)
(* request.  The queue below is reduced to what RequestFlow says of it:    *)
(* one request with the motor, CRITICAL before SETUP before the others,    *)
(* FIFO within a priority, NORMAL and BACKGROUND in any order (ageing), a  *)
(* recovery delay after some commands.  A request is named by its command  *)
(* and its call site, hence also by its callback; a poll of the status     *)
(* that finds such a read waiting adds its callback to that one.  The      *)
(* motor is the environment: a request may end well or badly at any time,  *)
(* and a read of the status may return anything.                           *)
(*                                                                         *)
(* Times are ages, counted in ticks of more than a poll interval (200 ms)  *)
(* and kept only in the states that have a time limit.                     *)
(***************************************************************************)
EXTENDS Integers, Sequences, SequencesExt, Priorities

CONSTANTS
  Configurations,     \* configurations in YAML, see Configuration
  TimeLimit,          \* the limits of check_state_timeouts(), a function on TimedStates
  RecoveryDelay,      \* ERROR_RECOVERY_DELAY_MS
  RecoveryInterval,   \* ERROR_RECOVERY_INTERVAL_MS
  SetupTimeout,       \* SETUP_TIMEOUT_MS of loop()
  AgeBound,           \* ages stop here, above every limit
  PollReads,          \* bound: the reads of poll_hardware() that are modelled
  MaxWrites,          \* bound on the configuration writes of one set-up
  MaxPending          \* bound: no call or pass of the loop with more requests waiting

State == {"Disabled", "SettingUp", "Idle", "Moving", "Running", "Homing",
          "Calibrating", "Stopping", "Error"}
TimedStates == {"SettingUp", "Homing", "Calibrating", "Stopping"}
SetupState == {"IN_PROGRESS", "COMPLETED", "FAILED"}
Never == -1   \* last_recovery_attempt_time_ = 0

SetupRequests == {"setup_restart", "read_all_config", "write", "write_homing",
                  "setup_go_home", "setup_done"}
RecoveryRequests == {"recovery_status", "recovery_release"}
PollRequests == {"poll_encoder_position", "poll_motor_speed", "poll_motor_status"}
UserRequests == {"move", "stop", "emergency_stop", "go_home", "run", "enable",
                 "disable", "release", "restart", "calibrate", "key_lock", "set_zero"}
Request == SetupRequests \cup RecoveryRequests \cup PollRequests \cup UserRequests

\* The requests whose command is READ_MOTOR_STATUS.
StatusReads == {"setup_done", "recovery_status", "poll_motor_status"}

\* A request with the number of its callbacks that came from polls of the
\* status.  Bound: a third one changes nothing that two did not change.
PollCap == 2
Item(r) == [request |-> r, polls |-> IF r = "poll_motor_status" THEN 1 ELSE 0]

\* Requests with a recovery delay.
Delayed == {"setup_restart", "restart", "go_home"}

PriorityOf(r) ==
  CASE r = "emergency_stop" -> CRITICAL
    [] r \in SetupRequests \cup RecoveryRequests \cup {"go_home"} -> SETUP
    [] r \in PollRequests -> BACKGROUND
    [] OTHER -> NORMAL

\* What the YAML file says: operating_mode_, homing_.mode, homing_.at_startup
\* and which calls of the API its automations make.
Configuration ==
  [operating_mode : {"POSITION", "SPEED"},
   homing_mode : {"NO_HOMING", "ENDSTOP", "SENSORLESS", "VIRTUAL"},
   at_startup : BOOLEAN,
   calls : SUBSET {"move_to", "stop", "home", "run_continuous", "enable", "disable",
                   "release_protection", "calibrate", "set_zero", "key_lock",
                   "set_microsteps", "emergency_stop", "restart"}]

EngineAssumption ==
  /\ Configurations \subseteq Configuration
  /\ \A c \in Configurations :
       c.operating_mode = "SPEED" => c.homing_mode = "NO_HOMING"   \* __init__.py:863
  /\ TimeLimit \in [TimedStates -> Nat]
  /\ RecoveryDelay \in Nat /\ RecoveryInterval \in Nat /\ SetupTimeout \in Nat
  /\ AgeBound \in Nat
  /\ PollReads \subseteq PollRequests /\ "poll_motor_status" \in PollReads
  /\ MaxWrites \in Nat \ {0} /\ MaxPending \in Nat
ASSUME EngineAssumption

VARIABLES
  config,            \* the configuration of this device
  state,             \* state_
  state_age,         \* millis() - state_enter_time_
  recovery_age,      \* millis() - last_recovery_attempt_time_, or Never
  emergency_flag,    \* emergency_flag_
  disable_pending,   \* disable_pending_
  homed,             \* homed_
  poll_due,          \* have 200 ms passed since last_poll_time_?
  setup_state,       \* setup_state_ of the core
  setup_age,         \* millis() - setup_start_time_
  failed,            \* mark_failed() was called: ESPHome calls loop() no more
  pending,           \* the requests waiting in the queue
  wire,              \* <<>>, or the request with the motor
  pending_callback,  \* the request whose success waits for its delay, or "none"
  delaying           \* is a recovery delay running?

stateVars == <<state, state_age, recovery_age>>
flagVars == <<emergency_flag, disable_pending, homed>>
coreVars == <<setup_state, setup_age, failed>>
queueVars == <<pending, wire, pending_callback, delaying>>
vars == <<config, stateVars, flagVars, poll_due, coreVars, queueVars>>

QueueItem == [request : Request, polls : 0 .. PollCap]
WireItem == [request : Request, polls : 0 .. PollCap, while_homing : BOOLEAN]

\* The request with the motor and whether the state was Homing when it was sent.
Sent(x, s) == [request |-> x.request, polls |-> x.polls, while_homing |-> s = "Homing"]

EngineTypeOK ==
  /\ config \in Configurations
  /\ state \in State
  /\ state_age \in Nat /\ recovery_age \in Nat \cup {Never} /\ setup_age \in Nat
  /\ emergency_flag \in BOOLEAN /\ disable_pending \in BOOLEAN /\ homed \in BOOLEAN
  /\ poll_due \in BOOLEAN /\ failed \in BOOLEAN /\ delaying \in BOOLEAN
  /\ setup_state \in SetupState
  /\ pending \in Seq(QueueItem)
  /\ wire \in Seq(WireItem)
  /\ Len(wire) <= 1
  /\ pending_callback \in Delayed \cup {"none"}

-----------------------------------------------------------------------------
(* The queue.                                                              *)

Waiting(r) == \E i \in DOMAIN pending : pending[i].request = r
OnWire(r) == wire # <<>> /\ wire[1].request = r
Outstanding(r) == Waiting(r) \/ OnWire(r) \/ pending_callback = r

\* The places in p from which execute_next() may take the next request.
NextUp(p) == Turn([i \in DOMAIN p |-> PriorityOf(p[i].request)])

\* Nothing keeps the next request from going out at once.  That others do not
\* wait for nothing is NeverIdle of CommandQueue.
QueueFree(p) == wire = <<>> /\ ~delaying /\ p = <<>>

\* The handler leaves p waiting and enqueues new, one after the other, in
\* state s: the first one goes out at once if nothing holds the queue.
Enqueue(p, new, s) ==
  /\ IF QueueFree(p) /\ new # <<>>
       THEN wire' = <<Sent(Head(new), s)>> /\ pending' = Tail(new)
       ELSE pending' = p \o new /\ UNCHANGED wire
  /\ UNCHANGED <<pending_callback, delaying>>

\* The request r ended and its callback, in which nothing is sent, left p
\* waiting and the state s: the next request goes out.
Continue(p, s) ==
  IF delaying' \/ p = <<>>
    THEN pending' = p /\ wire' = <<>>
    ELSE \E i \in NextUp(p) : pending' = RemoveAt(p, i) /\ wire' = <<Sent(p[i], s)>>

\* The state after the notification that waits for a delay, if any.
Notified == IF pending_callback = "go_home" THEN "Homing" ELSE state

\* The same for a call that finds the delay over before a pass of the loop
\* does: enqueue() itself calls back what waited, and sends the next request.
EnqueueReleases(p, r) ==
  /\ delaying
  /\ pending_callback' = "none"
  /\ delaying' = FALSE
  /\ Continue(Append(p, Item(r)), Notified)

\* The callback of r is called with success: at once, or after its delay.
Succeeds(r) ==
  /\ \/ OnWire(r) /\ r \notin Delayed
     \/ pending_callback = r
  /\ pending_callback' = "none"
  /\ delaying' = FALSE

\* The callback of r is called without success: an error starts the delay of
\* the request, a time-out does not.
Fails(r) ==
  /\ OnWire(r)
  /\ \E d \in BOOLEAN : (d => r \in Delayed) /\ delaying' = d
  /\ UNCHANGED pending_callback

\* Mutant: every success waits.
SuccessDeferred_EveryRequest ==
  \E r \in Request :
    /\ OnWire(r)
    /\ wire' = <<>>
    /\ pending_callback' = r
    /\ delaying' = TRUE
    /\ UNCHANGED <<pending, stateVars, flagVars, poll_due, coreVars>>

\* on_response() to a request with a delay: the notification waits.
SuccessDeferred ==
  \E r \in Delayed :
    /\ OnWire(r)
    /\ wire' = <<>>
    /\ pending_callback' = r
    /\ delaying' = TRUE
    /\ UNCHANGED <<pending, stateVars, flagVars, poll_due, coreVars>>

\* A delay without a notification is over.
DelayOver ==
  /\ delaying
  /\ pending_callback = "none"
  /\ delaying' = FALSE
  /\ Continue(pending, state)
  /\ UNCHANGED <<pending_callback, stateVars, flagVars, poll_due, coreVars>>

-----------------------------------------------------------------------------
(* transition_to().                                                        *)

\* Mutant: the time in a state starts again when the state is entered again.
EnterState_AlwaysResets(s) ==
  /\ state' = s
  /\ state_age' = 0
  /\ recovery_age' = IF s # state /\ (s \in {"Idle", "Error"} \/ state = "Error")
                       THEN Never ELSE recovery_age

EnterState(s) ==
  /\ state' = s
  /\ state_age' = IF s = state THEN state_age ELSE 0
  /\ recovery_age' = IF s # state /\ (s \in {"Idle", "Error"} \/ state = "Error")
                       THEN Never ELSE recovery_age

\* The transition that the notification makes, and then one to s.
EnterAfterNotified(s) ==
  /\ state' = s
  /\ state_age' = IF s = state /\ Notified = state THEN state_age ELSE 0
  /\ recovery_age' = IF \/ Notified # state /\ state = "Error"
                        \/ s # Notified /\ (s \in {"Idle", "Error"} \/ Notified = "Error")
                       THEN Never ELSE recovery_age

\* Mutant: entering Error leaves the queue alone.
Kept_All(s) == pending

\* What waits after transition_to(s): entering Error clears the queue.
Kept(s) == IF s = "Error" /\ state # "Error" THEN <<>> ELSE pending

\* Clearing calls back read_all_config, which marks the component as failed;
\* the other callbacks do nothing in Error.
MarkFailed(cause, kept) ==
  failed' = (failed \/ cause \/ (kept = <<>> /\ Waiting("read_all_config")))

GoTo(s) ==
  /\ EnterState(s)
  /\ MarkFailed(FALSE, Kept(s))
  /\ Continue(Kept(s), s)

-----------------------------------------------------------------------------
(* Completion callbacks.                                                   *)

\* Callbacks that are null, only log, or only store values.
NoEffect(r, ok) ==
  \/ r \in {"setup_restart", "stop", "emergency_stop", "run", "enable", "disable",
            "release", "restart", "key_lock", "set_zero",
            "poll_encoder_position", "poll_motor_speed"}
  \/ ok /\ r \in {"write", "calibrate"}
  \/ ~ok /\ r \in {"move", "setup_go_home", "poll_motor_status"} \cup RecoveryRequests
  \/ state = "Error" /\ r \in {"write_homing", "write"}  \* "Setup already aborted"
  \/ state = "Error" /\ ~ok /\ r = "setup_done"

EndsUnheeded ==
  \E r \in Request, ok \in BOOLEAN :
    /\ NoEffect(r, ok)
    /\ IF ok THEN Succeeds(r) ELSE Fails(r)
    /\ Continue(pending, state)
    /\ UNCHANGED <<stateVars, flagVars, poll_due, coreVars>>

\* get_update_command_types() for the configuration that was read: at least the
\* EN trigger is written, the homing parameters last and only for ENDSTOP.
Writes == {[i \in 1 .. n |-> Item("write")] : n \in 1 .. MaxWrites}
HomingWrites ==
  {<<>>} \cup (IF config.homing_mode = "ENDSTOP" THEN {<<Item("write_homing")>>} ELSE {})
UpdateCommands == {writes \o homing : writes \in Writes, homing \in HomingWrites}

\* Mutants: the completion marker is forgotten, or enqueued first.
ReadAllConfigSucceeds_NoMarker ==
  /\ Succeeds("read_all_config")
  /\ \E commands \in UpdateCommands : Continue(pending \o commands, state)
  /\ UNCHANGED <<stateVars, flagVars, poll_due, coreVars>>
ReadAllConfigSucceeds_MarkerFirst ==
  /\ Succeeds("read_all_config")
  /\ \E commands \in UpdateCommands :
       Continue(Append(pending, Item("setup_done")) \o commands, state)
  /\ UNCHANGED <<stateVars, flagVars, poll_due, coreVars>>

\* The writes that bring the motor's configuration up to date are followed by
\* the completion marker.
ReadAllConfigSucceeds ==
  /\ Succeeds("read_all_config")
  /\ \E commands \in UpdateCommands :
       Continue(Append(pending \o commands, Item("setup_done")), state)
  /\ UNCHANGED <<stateVars, flagVars, poll_due, coreVars>>

ReadAllConfigFails ==
  /\ Fails("read_all_config")
  /\ EnterState("Error")
  /\ failed' = TRUE
  /\ Continue(<<>>, "Error")
  /\ UNCHANGED <<flagVars, poll_due, setup_state, setup_age>>

\* The motor wants a GoHome after new homing parameters.
WriteHomingSucceeds ==
  /\ Succeeds("write_homing")
  /\ state # "Error"
  /\ Continue(Append(pending, Item("setup_go_home")), state)
  /\ UNCHANGED <<stateVars, flagVars, poll_due, coreVars>>

WriteFails ==
  /\ \E r \in {"write", "write_homing"} : Fails(r)
  /\ state # "Error"
  /\ EnterState("Error")
  /\ failed' = TRUE
  /\ Continue(<<>>, "Error")
  /\ UNCHANGED <<flagVars, poll_due, setup_state, setup_age>>

SetupDoneFails ==
  /\ Fails("setup_done")
  /\ state # "Error"
  /\ EnterState("Error")
  /\ setup_state' = "FAILED"
  /\ failed' = TRUE
  /\ Continue(<<>>, "Error")
  /\ UNCHANGED <<flagVars, poll_due, setup_age>>

\* home() sends something only for ENDSTOP; the other modes are not implemented.
HomeRequests == IF config.homing_mode = "ENDSTOP" THEN <<Item("go_home")>> ELSE <<>>
HomesAtStartup == config.at_startup /\ config.homing_mode # "NO_HOMING"

\* CommandDecoder::MotorStatus, the three kinds of motion in one.
MotorStatus == {"FAIL", "STOP", "MOTION", "HOMING", "CALIBRATING"}

\* Mutant: a move is not ended by the motor's status.
StateAfter_MovingLasts(s, status) ==
  CASE status = "STOP" /\ s = "Running" -> "Stopping"
    [] status = "STOP" /\ s \in {"Stopping", "Homing", "Calibrating"} -> "Idle"
    [] status = "HOMING" /\ s # "SettingUp" -> "Homing"
    [] status = "CALIBRATING" /\ s # "SettingUp" -> "Calibrating"
    [] OTHER -> s

\* The state after process_motor_status_update(status) in state s.
StateAfter(s, status) ==
  CASE status = "STOP" /\ s \in {"Moving", "Running"} -> "Stopping"
    [] status = "STOP" /\ s \in {"Stopping", "Homing", "Calibrating"} -> "Idle"
    [] status = "HOMING" /\ s # "SettingUp" -> "Homing"
    [] status = "CALIBRATING" /\ s # "SettingUp" -> "Calibrating"
    [] OTHER -> s

\* The callbacks that polls added to the request with the motor process its
\* answer one after the other, from state s.
ProcessStatus(s, status) ==
  LET polls == wire[1].polls
      once == IF polls > 0 THEN StateAfter(s, status) ELSE s
  IN /\ EnterState(IF polls > 1 THEN StateAfter(once, status) ELSE once)
     /\ homed' = (homed \/ (polls > 0 /\ status = "STOP" /\ s = "Homing"))

\* The completion marker of set-up.
SetupDoneSucceeds ==
  /\ Succeeds("setup_done")
  /\ setup_state' = IF state = "Error" THEN setup_state ELSE "COMPLETED"
  /\ LET homes == state \notin {"Error", "Homing"} /\ HomesAtStartup
         s == IF state = "SettingUp" /\ ~HomesAtStartup THEN "Idle" ELSE state
     IN \E status \in MotorStatus :
          /\ ProcessStatus(s, status)
          /\ Continue(IF homes THEN pending \o HomeRequests ELSE pending, state')
  /\ UNCHANGED <<emergency_flag, disable_pending, poll_due, setup_age, failed>>

\* GoHome was accepted, from home() or after the homing parameters.
GoHomeSucceeds ==
  /\ \E r \in {"go_home", "setup_go_home"} : Succeeds(r)
  /\ GoTo("Homing")
  /\ UNCHANGED <<flagVars, poll_due, setup_state, setup_age>>

GoHomeFails ==
  /\ Fails("go_home")
  /\ GoTo("Error")
  /\ UNCHANGED <<flagVars, poll_due, setup_state, setup_age>>

CalibrateFails ==
  /\ Fails("calibrate")
  /\ GoTo("Error")
  /\ UNCHANGED <<flagVars, poll_due, setup_state, setup_age>>

MoveSucceeds ==
  /\ Succeeds("move")
  /\ GoTo("Moving")
  /\ UNCHANGED <<flagVars, poll_due, setup_state, setup_age>>

StatusPolled ==
  /\ Succeeds("poll_motor_status")
  /\ \E status \in MotorStatus : ProcessStatus(state, status)
  /\ Continue(pending, state')
  /\ UNCHANGED <<emergency_flag, disable_pending, poll_due, coreVars>>

\* Recovery, first half: the motor can be read; it is released if it stands.
RecoveryStatusSucceeds ==
  /\ Succeeds("recovery_status")
  /\ \E status \in MotorStatus :
       LET stands == status \in {"STOP", "FAIL"}
       IN /\ emergency_flag' = (emergency_flag /\ ~stands)
          /\ ProcessStatus(state, status)
          /\ Continue(IF stands THEN Append(pending, Item("recovery_release")) ELSE pending,
                      state')
  /\ UNCHANGED <<disable_pending, poll_due, coreVars>>

\* Recovery, second half: Idle, and homing again if that was never done.
RecoveryReleaseSucceeds ==
  /\ Succeeds("recovery_release")
  /\ EnterState("Idle")
  /\ Continue(IF ~homed /\ HomesAtStartup THEN pending \o HomeRequests ELSE pending, "Idle")
  /\ UNCHANGED <<flagVars, poll_due, coreVars>>

RequestEnds ==
  \/ SuccessDeferred \/ DelayOver \/ EndsUnheeded
  \/ ReadAllConfigSucceeds \/ ReadAllConfigFails \/ WriteHomingSucceeds \/ WriteFails
  \/ SetupDoneSucceeds \/ SetupDoneFails \/ GoHomeSucceeds \/ GoHomeFails
  \/ CalibrateFails \/ MoveSucceeds \/ StatusPolled
  \/ RecoveryStatusSucceeds \/ RecoveryReleaseSucceeds

-----------------------------------------------------------------------------
(* The API.  A call that validation rejects changes nothing.               *)

Room == Len(pending) < MaxPending
Called(c) == c \in config.calls /\ Room

\* A call that enqueues r and then enters s, or t after a notification.
IssueTo(r, s, t) ==
  /\ \/ Enqueue(pending, <<Item(r)>>, state) /\ EnterState(s)
     \/ EnqueueReleases(pending, r) /\ EnterAfterNotified(t)
  /\ UNCHANGED <<homed, poll_due, coreVars>>

\* A call that enqueues r and enters s, and one that enters no state.
Issue(r, s) == IssueTo(r, s, s)
Ask(r) == IssueTo(r, state, Notified)

MoveTo ==
  /\ Called("move_to")
  /\ config.operating_mode = "POSITION"
  /\ state \in {"Idle", "Moving", "Stopping"}
  /\ Ask("move")
  /\ UNCHANGED <<emergency_flag, disable_pending>>

Stop ==
  /\ Called("stop")
  /\ state \in {"Moving", "Running", "Homing", "Calibrating", "Stopping"}
  /\ Issue("stop", "Stopping")
  /\ UNCHANGED <<emergency_flag, disable_pending>>

\* Mutant: the state changes before GoHome is accepted.
Home_EntersAtOnce ==
  /\ Called("home")
  /\ config.operating_mode = "POSITION" /\ config.homing_mode = "ENDSTOP"
  /\ Issue("go_home", "Homing")
  /\ UNCHANGED <<emergency_flag, disable_pending>>

\* No state is asked for.
Home ==
  /\ Called("home")
  /\ config.operating_mode = "POSITION" /\ config.homing_mode = "ENDSTOP"
  /\ Ask("go_home")
  /\ UNCHANGED <<emergency_flag, disable_pending>>

RunContinuous ==
  /\ Called("run_continuous")
  /\ config.operating_mode = "SPEED"
  /\ state \in {"Idle", "Running"}
  /\ Issue("run", "Running")
  /\ UNCHANGED <<emergency_flag, disable_pending>>

Enable ==
  /\ Called("enable")
  /\ state = "Disabled"
  /\ Issue("enable", "Idle")
  /\ UNCHANGED <<emergency_flag, disable_pending>>

\* Mutant: in motion the stop is taken for the disabling.
Disable_AtOnce ==
  /\ Called("disable")
  /\ state \in {"Moving", "Running", "Stopping", "Idle", "Error"}
  /\ Issue(IF state \in {"Idle", "Error"} THEN "disable" ELSE "stop", "Disabled")
  /\ UNCHANGED <<emergency_flag, disable_pending>>

\* In motion the motor is stopped first and the call is buffered.
Disable ==
  /\ Called("disable")
  /\ \/ /\ state \in {"Moving", "Running", "Stopping"}
        /\ disable_pending' = TRUE
        /\ Issue("stop", "Stopping")
     \/ /\ state \in {"Idle", "Error"}
        /\ UNCHANGED disable_pending
        /\ Issue("disable", "Disabled")
  /\ UNCHANGED emergency_flag

\* Error is left after the request was enqueued.
Released(s) == IF s = "Error" THEN "Idle" ELSE s

ReleaseProtection ==
  /\ Called("release_protection")
  /\ state \in {"Error", "Idle", "Disabled"}
  /\ emergency_flag' = FALSE
  /\ IssueTo("release", Released(state), Released(Notified))
  /\ UNCHANGED disable_pending

Calibrate ==
  /\ Called("calibrate")
  /\ state \in {"Idle", "Disabled"}
  /\ Issue("calibrate", "Calibrating")
  /\ UNCHANGED <<emergency_flag, disable_pending>>

SetZero ==
  /\ Called("set_zero")
  /\ config.homing_mode = "VIRTUAL"
  /\ state = "Idle"
  /\ Ask("set_zero")
  /\ UNCHANGED <<emergency_flag, disable_pending>>

\* key_lock() and key_unlock().
KeyLock ==
  /\ Called("key_lock")
  /\ Ask("key_lock")
  /\ UNCHANGED <<emergency_flag, disable_pending>>

\* set_control_mode() and set_microsteps() of the core set the motor up again;
\* if they find a delay over, what waited for it is called back after the state
\* was entered, as it is when the delay ends in the next step.
Reconfigure ==
  /\ Called("set_microsteps")
  /\ setup_state = "COMPLETED"
  /\ EnterState("SettingUp")
  /\ Enqueue(pending, <<Item("setup_restart"), Item("read_all_config")>>, state)
  /\ UNCHANGED <<flagVars, poll_due, coreVars>>

\* clear() called by emergency_stop() and restart(), in any state: the
\* callbacks of the cancelled requests fail in order.  The first one of these
\* enters Error, where the others do nothing more.
AbortsSetup == {"read_all_config", "write", "write_homing", "setup_done"}
Aborts == AbortsSetup \cup {"go_home", "calibrate"}
FirstAbort(rs) ==
  /\ state # "Error"
  /\ \E i \in DOMAIN pending :
       /\ pending[i].request \in rs
       /\ \A j \in 1 .. i - 1 : pending[j].request \notin Aborts

ClearCallbacks ==
  /\ failed' = (failed \/ Waiting("read_all_config") \/ FirstAbort(AbortsSetup))
  /\ setup_state' = IF FirstAbort({"setup_done"}) THEN "FAILED" ELSE setup_state
  /\ UNCHANGED setup_age

\* clear, enqueue the stop, and enter Error, which clears again: a stop that
\* could not go out at once is kept only if the state was Error already.  If a
\* delay is found over, one of the two releases what waited for it.
EmergencyStop ==
  /\ Called("emergency_stop")
  /\ emergency_flag' = TRUE
  /\ ClearCallbacks
  /\ \/ /\ EnterState("Error")
        /\ IF (wire # <<>> \/ delaying) /\ state # "Error" /\ ~FirstAbort(Aborts)
             THEN pending' = <<>> /\ UNCHANGED <<wire, pending_callback, delaying>>
             ELSE Enqueue(<<>>, <<Item("emergency_stop")>>, state)
     \/ EnqueueReleases(<<>>, "emergency_stop") /\ EnterAfterNotified("Error")
  /\ UNCHANGED <<disable_pending, homed, poll_due>>

Restart ==
  /\ Called("restart")
  /\ emergency_flag' = FALSE
  /\ ClearCallbacks
  /\ \/ EnterState("Idle") /\ Enqueue(<<>>, <<Item("restart")>>, state)
     \/ EnterAfterNotified("Idle") /\ EnqueueReleases(<<>>, "restart")
  /\ UNCHANGED <<disable_pending, homed, poll_due>>

Call ==
  \/ MoveTo \/ Stop \/ EmergencyStop \/ Home \/ RunContinuous \/ Enable \/ Disable
  \/ ReleaseProtection \/ Restart \/ Calibrate \/ SetZero \/ KeyLock \/ Reconfigure

-----------------------------------------------------------------------------
(* The main loop: StepperEngine::update() without the queue, whose part are *)
(* the ends of requests, and the set-up time-out of ServoXxd::loop().      *)

Expired == state \in TimedStates /\ state_age > TimeLimit[state]

\* Mutant: recovery is attempted once.
RecoveryDue_Once == state = "Error" /\ state_age > RecoveryDelay /\ recovery_age = Never

RecoveryDue ==
  /\ state = "Error"
  /\ state_age > RecoveryDelay
  /\ recovery_age = Never \/ recovery_age > RecoveryInterval

\* The state after check_state_timeouts().
StateInTime ==
  IF ~Expired THEN state ELSE IF state = "Stopping" THEN "Idle" ELSE "Error"

DisablesNow == disable_pending /\ StateInTime = "Idle"

\* What p becomes by poll_hardware(): a read that waits already is not repeated,
\* but the callback for the status is added to the first read of the status.
NewPoll(r, p) ==
  LET same == IF r = "poll_motor_status" THEN StatusReads ELSE {r}
  IN IF r \in PollReads /\ \A i \in DOMAIN p : p[i].request \notin same
       THEN <<Item(r)>> ELSE <<>>

FirstStatusRead(p, i) ==
  p[i].request \in StatusReads /\ \A j \in 1 .. i - 1 : p[j].request \notin StatusReads

AddPolls(p) ==
  [i \in DOMAIN p |-> IF FirstStatusRead(p, i) /\ p[i].polls < PollCap
                        THEN [p[i] EXCEPT !.polls = @ + 1] ELSE p[i]]
    \o NewPoll("poll_encoder_position", p)
    \o NewPoll("poll_motor_speed", p)
    \o NewPoll("poll_motor_status", p)

Polled_DuringSetup(p) == IF poll_due THEN AddPolls(p) ELSE p   \* Mutant.
Polled(p) == IF poll_due /\ setup_state = "COMPLETED" THEN AddPolls(p) ELSE p

\* Mutant: only a set-up that is still going on is given up.
SetupOverdue_WhileSettingUp ==
  state = "SettingUp" /\ setup_state = "IN_PROGRESS" /\ setup_age > SetupTimeout
SetupOverdue == setup_state = "IN_PROGRESS" /\ setup_age > SetupTimeout

Update ==
  /\ ~failed
  /\ Room
  /\ LET kept == Kept(StateInTime)
         s == IF DisablesNow THEN "Disabled" ELSE StateInTime
         own == (IF RecoveryDue THEN <<Item("recovery_status")>> ELSE <<>>)
                  \o (IF DisablesNow THEN <<Item("disable")>> ELSE <<>>)
     IN /\ IF QueueFree(kept)
             THEN Enqueue(kept, own \o Polled(<<>>), s)
             ELSE pending' = Polled(kept \o own) /\ UNCHANGED <<wire, pending_callback, delaying>>
        /\ state' = s
        /\ state_age' = IF s = state THEN state_age ELSE 0
        /\ recovery_age' = IF RecoveryDue THEN 0 ELSE recovery_age
        /\ MarkFailed(SetupOverdue, kept)
  /\ disable_pending' = (disable_pending /\ ~DisablesNow)
  /\ poll_due' = FALSE
  /\ setup_state' = IF SetupOverdue THEN "FAILED" ELSE setup_state
  /\ UNCHANGED <<emergency_flag, homed, setup_age>>

Older(age) == IF age < AgeBound THEN age + 1 ELSE age

Tick ==
  /\ poll_due' = TRUE
  /\ state_age' = IF state \in TimedStates \cup {"Error"} THEN Older(state_age) ELSE state_age
  /\ recovery_age' = IF recovery_age = Never THEN Never ELSE Older(recovery_age)
  /\ setup_age' = IF setup_state = "IN_PROGRESS" THEN Older(setup_age) ELSE setup_age
  /\ UNCHANGED <<state, flagVars, setup_state, failed, queueVars>>

-----------------------------------------------------------------------------

\* After ServoXxd::setup(), which started the set-up of the motor.
Init ==
  /\ config \in Configurations
  /\ state = "SettingUp" /\ state_age = 0 /\ recovery_age = Never
  /\ emergency_flag = FALSE /\ disable_pending = FALSE /\ homed = FALSE
  /\ poll_due = FALSE
  /\ setup_state = "IN_PROGRESS" /\ setup_age = 0 /\ failed = FALSE
  /\ pending = <<Item("read_all_config")>>
  /\ wire = <<Sent(Item("setup_restart"), "SettingUp")>>
  /\ pending_callback = "none" /\ delaying = FALSE

Next == (Call \/ Update \/ Tick \/ RequestEnds) /\ UNCHANGED config

Spec == Init /\ [][Next]_vars

\* The main loop runs until the component is marked as failed: time passes,
\* update() comes again and again although calls come in between, and every
\* request ends, in the queue's time-out if the motor does not answer.
Fairness ==
  /\ WF_vars(Tick /\ UNCHANGED config)
  /\ SF_vars(Update /\ UNCHANGED config)
  /\ WF_vars(~failed /\ RequestEnds /\ UNCHANGED config)

FairSpec == Spec /\ Fairness

-----------------------------------------------------------------------------
(* Properties.                                                             *)

\* Requests that move the motor or decide on its motion.
MotionRequests == {"move", "run", "stop", "calibrate", "set_zero"}

\* "Stop all motion immediately" (.cpp:1027): in Error no request that was
\* waiting before the error is left to start a motion later, whichever of the
\* many paths led into Error.
ErrorStopsMotion == state = "Error" => \A r \in MotionRequests : ~Waiting(r)

\* "Hardware polling starts only after motor initialization completes"
\* (servoxxd.cpp:326): no poll waits before set-up was completed once, so that
\* the first set-up is never slowed down by reads nobody needs; a poll that
\* waits when a later set-up starts was enqueued legitimately, as setup_state_
\* is not reset by setup_motor().
PollsAfterSetup == (\E r \in PollRequests : Waiting(r)) => setup_state = "COMPLETED"

\* Homing is over when the motor reports STOP (.cpp:1179): a status that is
\* read while the state is Homing was asked for after GoHome was accepted, so
\* that the STOP of a motor that has not started yet is not taken for the end.
HomingStatusFresh ==
  state = "Homing" /\ wire # <<>> /\ wire[1].polls > 0 => wire[1].while_homing

\* While the state is SettingUp some request of set-up, or the homing run that
\* it ends with, is still to come or to end: set-up is not stuck in a state
\* in which every call is rejected.
SetupAlive ==
  state = "SettingUp" => \E r \in SetupRequests \cup {"go_home"} : Outstanding(r)

\* "Queue guarantees FIFO order, so this runs after all config commands"
\* (.cpp:482): when the marker of the first set-up succeeds and set-up was not
\* aborted, nothing of the configuration is still to be read or written.
ConfigRequests == {"read_all_config", "write", "write_homing"}
MarkerIsLast ==
  [][setup_state = "IN_PROGRESS" /\ setup_state' = "COMPLETED" =>
       \A r \in ConfigRequests : ~Outstanding(r)]_vars

\* disable() and the disabling that stop() postpones (.cpp:845, 550): whoever
\* finds the state Disabled can rely on it that the motor is told to switch off
\* after every move, run and calibration that is still waiting to be started.
\* Not so of a GoHome: home() asks for no state, and what it enqueues in
\* Disabled is not followed by another disabling.
DisabledIsLast ==
  state = "Disabled" =>
    \A i \in DOMAIN pending : pending[i].request \in {"move", "run", "calibrate"} =>
      \E j \in DOMAIN pending : j > i /\ pending[j].request = "disable"

\* A homing run that waited for its delay is called back, which enters Homing:
\* a call that finds the delay over may leave its state so and enter it again.
HomingReported == pending_callback = "go_home" /\ pending_callback' = "none"

\* The states with a time limit end (.cpp:1069), although automations call
\* stop() and everything else again and again and the motor does not answer:
\* none lasts, unless one homing run after the other gets through meanwhile.
TimedStatesEnd ==
  \A s \in TimedStates : <>[](state = s /\ ~failed) => []<><<HomingReported>>_vars

\* Set-up ends, well or badly, although the motor does not answer.
SetupEnds == setup_state = "IN_PROGRESS" ~> setup_state # "IN_PROGRESS" \/ failed

\* Recovery is attempted again and again (.cpp:1108): in an error that lasts
\* the motor is asked for its status infinitely often, or homes.
RecoveryGoesOn ==
  <>[](state = "Error" /\ ~failed) =>
    []<>Outstanding("recovery_status") \/ []<><<HomingReported>>_vars

\* Polls of the status that wait go out, although NORMAL requests keep coming:
\* ageing, see CommandQueue's BoundedWait.
PollsGoOut ==
  []<>Waiting("poll_motor_status") => []<>OnWire("poll_motor_status")

\* The motor is asked while the state is Moving, and stands.
StopReported ==
  /\ StatusPolled /\ UNCHANGED config
  /\ state = "Moving" /\ \E s \in {"Stopping", "Idle"} : state' = s

\* Moving has no time limit and is left by the polls alone (.cpp:1168): if the
\* polls that wait do go out, and a motor that is asked again and again stands
\* at last, Moving ends - no call, no other request and no merging of polls
\* keeps the driver from asking.
MovingEnds ==
  PollsGoOut /\ SF_vars(StopReported) => (state = "Moving" ~> state # "Moving" \/ failed)
=============================================================================
