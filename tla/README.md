# Verification of the ServoXXD component

TLA+ modules, TLC configurations and TLAPS proofs for the ESPHome component that
drives MKS SERVO42D/57D closed-loop steppers over Modbus-RTU
(`components/servoxxd/stepper/`). File names below are relative to that directory
unless they start with `docs/` or `tests/`.

## 1. Inventory

The component is C++ on one thread. ESPHome calls `setup()` once, `loop()` for
ever, and the Modbus hub's callbacks `on_response()` / `on_error()` between two
loops. Automations (YAML actions) call the component's API, also between two
loops or from inside a completion callback. Nothing is persisted. What is
concurrent is the motor and the bus; what is re-entrant is the queue, whose
completion callbacks call back into it.

| Component | Files | State | Operations | Talks to |
|---|---|---|---|---|
| Core (L1) | `servoxxd.{h,cpp}` | `setup_state_`, `setup_start_time_`, `current_pos_`, `target_pos_`, `position_offset_`, `config_`, `homing_`, defaults | `setup`, `loop`, setters, API forwarders, `on_response`, `on_error` | ESPHome, engine, transport |
| Engine (L2) | `servoxxd_stepper_engine.{h,cpp}` | `state_` (9 states), `state_enter_time_`, `disable_pending_`, `emergency_flag_`, `protection_triggered_`, `homed_`, `last_poll_time_`, `last_recovery_attempt_time_` | `setup_motor`, `update`, `move_to`, `stop`, `emergency_stop`, `home`, `run_continuous`, `enable`, `disable`, `release_protection`, `restart`, `calibrate`, `set_zero`, status processing, error recovery | core state, queue |
| Queue (L3) | `servoxxd_command_queue.{h,cpp}` | `queue_`, `delay_started_ms_`, `delay_duration_ms_`, `dispatching_callbacks_`, `pending_callback_` | `enqueue`, `clear`, `update`, `on_response`, `on_error`, `execute_next`, `check_timeout` | engine callbacks, transport |
| Transport (L4) | `servoxxd_modbus.{h,cpp}`, `servoxxd_transport.h` | `state_`, `pending_command_`, `timeout_start_ms_` | `execute_command`, `update`, `handle_modbus_response`, `handle_modbus_error` | queue callbacks, Modbus hub |
| Position, Speed, Acceleration | `servoxxd_position.*`, `servoxxd_speed.*`, `servoxxd_acceleration.*` | values only | conversions, arithmetic, comparison | everybody |
| Factory, decoder, command table | `servoxxd_command_factory.h`, `servoxxd_command_decoder.*`, `servoxxd_commands.h` | none | encode, decode, command metadata | engine, transport |
| Configuration | `servoxxd.h` (`ConfigData`), `servoxxd.cpp`, `servoxxd_command_decoder.h` | `config_`, `homing_`, the motor's registers | setters, `read_all_config`, `get_update_command_types`, the writes of set-up | core, engine, factory |
| YAML actions | `servoxxd_actions.h` | none | forward to L1; round and clamp currents | core |
| Schema and code generation | `__init__.py` | none at run time | validate YAML, generate C++ | build host |

### Hard behaviours

* **Re-entrancy.** A completion callback enqueues and clears while the queue is
  walking a list of callbacks, to any depth; `execute_next()` calls a deferred
  callback between its checks and its send.
* **Ordering.** Priorities with ageing over a deque that is rebuilt in place; the
  Error state's entry action clears the queue after `emergency_stop()` enqueued
  its command.
* **Time.** Everything is measured with a 32-bit `millis()` that wraps: time-outs of
  the queue (4 s), the transport (1 s) and set-up (10 s), recovery delays (4 s
  after RESTART), polls (200 ms), retries of error recovery.
* **Failure.** The motor may not answer, answer late, refuse or answer something
  malformed; the hub or the transport may refuse a request.
* **Liveness.** Polls must get through although moves keep coming; every callback must
  be called although the motor is gone; set-up must end.

### What makes each component correct

* Queue: one command on the wire; every callback called exactly once and only
  with the outcome of its own command; nothing sent while outcomes are being
  delivered or during a recovery delay; documented order; bounded size under
  polling; nobody waits for ever.
* Transport: one outcome per accepted command, never one that belongs to
  another; idle again before it reports, so the queue can send from the callback.
* Engine: the state follows the commands that were confirmed; nothing that was
  requested before an error starts a motion after it; Error is left only by release
  or restart or a recovery that succeeded; a stop is never lost; a motion is not
  ended by a status that is older than it; Disabled means that the motor will be off,
  after every move, run and calibration that still waits.
* Core: set-up ends; it is complete when it says so.
* Configuration: when set-ups have come to rest the motor has what the configuration says
  now, however they overlapped; what the motor has already is not written again.
* Values: conversions that stay in the range their consumers assume; round trips.

Section 3 says which of these the code does not keep.

The hazards, each at its line, are listed in `PROJECT.json`.

## 2. The modules

| Module | Contents |
|---|---|
| `CommandQueue` | the queue, one action per piece of a function between two calls to user code; its properties |
| `Priorities` | the priorities, and whose turn it is as far as it does not depend on ages |
| `RequestLedger` | what the queue promises to its requesters |
| `RequestFlow` | what the queue promises to the engine: the requests that wait, the one with the motor, the delay |
| `MCCommandQueue` | commands and requests of the engine's call sites, for TLC |
| `CommandQueueProofs` | theorems about `CommandQueue` |
| `CommandQueueCallbacks` | theorem: no callback of a request is lost or called twice |
| `CommandQueueBounds` | theorems: polls do not pile up, a silent motor is given up in time, no command waits for more than its turn, or for nothing; the queue implements `RequestFlow` |
| `CommandQueueLedger` | theorems: the queue implements `RequestLedger`; the order of sends |
| `ModbusTransport` | the transport's part of every handler |
| `CommandPath` | queue, transport and an external hub, joined where they call each other |
| `MCCommandPath` | moves, writes, a read and a stop for TLC; two statements of documents and tests that the path does not keep |
| `CommandPathProofs` | theorems about `CommandPath` |
| `StepperEngine` | the state machine of the driver, the life cycle of the core and every call of the API, over a queue reduced to what `RequestFlow` says of it |
| `MCStepperEngine` | three configured devices for TLC; a statement of a comment that the engine does not keep |
| `StepperEngineProofs` | theorems about `StepperEngine` |
| `Position` | the values: positions, the conversions into the motor's units, the axis of a move |
| `Motion` | positions, targets and defaults of the core, and what calls, polls and ends of motions do to them |
| `MCMotion` | four devices for TLC |
| `MotionProofs` | theorems about `Position` and `Motion` |
| `ConfigData` | a configuration, its comparison with the motor's, the writes of set-up, the way from the YAML file to a device |
| `Setup` | set-ups, setters and failures over the registers of the motor |
| `MCSetup` | four devices, a YAML file that is rejected, and two motors for TLC |
| `SetupProofs` | theorems about `Setup` |

### CommandQueue and the code

The variables are the members of the class (`queue` for `queue_`, and so on),
`millis`, and the C++ call stack. A stack frame holds the operation and the locals
that live across a call to user code: the rest of the list of callbacks and the
saved flag of `notify_callbacks()` (`was_dispatching`), and the detached commands
and saved flag of `clear()`. The innermost call is the last element. A function
whose tail is a call (`update()` after the transport, `on_response()` after the
notification) leaves that tail on the stack as a call of its own, so `update()`
pushes `transport_update`, `check_timeout` and `execute_next`, and a completion
pushes `notify` above `execute_next`. `execute_next()` is split where it calls the
deferred notification: what follows is `send`.

| Code | Actions |
|---|---|
| `enqueue()` | `EnqueueDuplicate`, `EnqueueNew` (then `execute_next`) |
| `clear()` | `Clear`, `ClearCancels` per cancelled command, `ClearDone` |
| `update()` | `Update`, then `TransportUpdateQuiet` or `TransportUpdateError`, `CheckTimeoutExpires` or `CheckTimeoutPasses` |
| `on_response()`, `on_error()` | `OnResponse`, `OnError` (early returns are no step) |
| `notify_callbacks()` | `CallCallback` per callback, `CallbackReturn`, `NotifyDone` |
| `execute_next()` | `ExecuteNextBlocked`, `ExecuteNextProceeds`, `SendNothing`, `Send` |

User code is any sequence of `enqueue()` and `clear()` calls, from the main loop or
from a callback. A requester is the identity of a callback: it submits a callback
again only after it was called. `outstanding` and `recovery_left` are history
variables that no action reads (except that the caller's choice of a callback
depends on `outstanding`).

Abstractions: a command stands for a type and a payload; error codes, logging and
the response payload are left out. Of the five `CommandState`s two are stored,
because a command that ends leaves the deque in the same step. In this module the
transport is an open environment: it answers the command on the wire, fails it, or stays silent
for ever, which also covers a refused `execute_command()` (its result is ignored,
`servoxxd_command_queue.cpp:192`).

Left out of this module: a transport that calls back synchronously from
`execute_command()` (`ModbusTransport` never does), and a callback that calls
`update()` or lets the hub deliver an answer (no callback of the repository does).

Bounds of the model: `MaxQueue` bounds the deque, `MaxCalls` the calls made by one
outermost callback including the nested ones, `ClockWrap` is the number of values of
the clock, and `Tick` waits for `WithinClockCycle`: the code only promises correct
ages "for waits under one full clock cycle" (`servoxxd_command_queue.h:250`).
`looped` keeps the clock coarser than the main loop: at least one `update()` starts
between two ticks.

### ModbusTransport, CommandPath and the code

`ModbusTransport` has the members of the class (`pending_command` is a sequence of at
most one command, never emptied, as the `optional` is never reset). Every handler of
the transport sets `state_` to IDLE and then, as its last act, calls the queue, which
may send at once. `CommandPath` therefore makes one step of the transport's part and
the beginning of the queue's part; what the queue does next is on its call stack.

| Code | Actions of `CommandPath` |
|---|---|
| `execute_command()` from `execute_next()` | `PathSend`, `PathSendRefused` (busy, not one register for 0x06, or rejected by the hub; the result is ignored) |
| `ModbusTransport::update()` | `PathUpdateQuiet`, `PathUpdateTimeout` |
| `ServoXxd::on_response()`, `handle_modbus_response()`, `handle_response()` | `PathResponse`, `PathError`, `PathIgnored` |
| `ServoXxd::on_error()`, `handle_modbus_error()`, `handle_error_response()` | `PathError`, `PathIgnored` |
| everything else of the queue | `QueueAlone` |

An answer is the request it belongs to (the hub passes the request's PDU along) and
whether it is valid: the motor's own answer, or anything else (wrong length,
exception, the 0xFFFF of a rejected write). The queue makes no use of the error code,
so all errors are one. A valid answer is compared with the pending command as the
code does (`MatchesPending`, `Consistent`): register and function code, both given by
the type; the value of a single write; the number of registers of a multiple write.

The hub (`modbus::ModbusClientDevice`) is external: it keeps up to `MaxHub` accepted
requests in order and answers the oldest one whenever it likes, or never
(`HubLoses`). It does not call back from within a request. `reset_state()` and
`is_waiting_write()` have no callers and are left out. `ResponseTimeoutMs <
TimeoutMs` is assumed: 1 s (`servoxxd_modbus.h`, `timeout_ms_`) and 4 s
(`servoxxd_stepper_engine.h:74`), neither of which anything changes.

### StepperEngine and the code

The variables are the members of the engine (`state`, `emergency_flag`,
`disable_pending`, `homed`), of the core (`setup_state`; `failed` is what
`mark_failed()` means to ESPHome: `loop()` is called no more), and the queue below:
`pending`, `wire` (the request with the motor), `pending_callback` and `delaying`. A
member that holds a time is modelled by its age (`state_age`, `recovery_age`,
`setup_age`), or by whether it is old enough (`poll_due`).

An action is a whole handler together with everything that is called before it
returns, the completion callbacks and `execute_next()` included. That holds for a call
that finds a recovery delay over before the loop does, too: its `enqueue()` or `clear()` calls
back the GoHome that waited, the engine enters Homing, and then the call
enters its own state (`EnqueueReleases`, `EnterAfterNotified`). A pass of the loop takes
no time after the queue's part, so its own requests do not meet a delay that has just ended.

| Code | Actions |
|---|---|
| `ServoXxd::setup()` | `Init` |
| `ServoXxd::loop()`, `StepperEngine::update()`, `check_state_timeouts()`, `poll_hardware()` | `Update` |
| `millis()` | `Tick` |
| `move_to`, `stop`, `home`, `run_continuous`, `enable`, `disable`, `release_protection`, `calibrate`, `set_zero`, `key_lock`/`key_unlock`, `emergency_stop`, `restart` | the action of that name |
| `set_microsteps()`, `set_control_mode()` after set-up | `Reconfigure` |
| callbacks of `setup_motor()` | `ReadAllConfigSucceeds`, `ReadAllConfigFails`, `WriteHomingSucceeds`, `WriteFails`, `SetupDoneSucceeds`, `SetupDoneFails`, and `EndsUnheeded` for the successful writes |
| callbacks of the API | `MoveSucceeds`, `GoHomeSucceeds`, `GoHomeFails`, `CalibrateFails`; `EndsUnheeded` where they are null, log, or store a value |
| `poll_motor_status()`, `process_motor_status_update()` | `StatusPolled`, `ProcessStatus`, `StateAfter` |
| `attempt_error_recovery()` | `RecoveryStatusSucceeds`, `RecoveryReleaseSucceeds` |
| `transition_to()` | `EnterState`, `EnterAfterNotified`, `Kept`, `GoTo` |

The queue is the one of `CommandQueue` without its call stack and clock: one
request with the motor, CRITICAL before SETUP before the others, first come first
served within a priority, NORMAL and BACKGROUND in either order (ageing can turn
them round), a delay after three commands, and polls that are not repeated but add
their callback to a waiting read of the status. That a completion callback is called
once, with the outcome of its own request, is what `CommandQueue` is checked for, so
here a request is a name for its call site and its callback. The rest is `RequestFlow`, which
`CommandQueue` is proved to implement: its requests wait in one sequence and leave by `Turn`, which
both modules use, or all at once; the one with the motor ends with success, which waits for
its delay (`Answered`), without (`Refused`), or by the queue's time-out, which starts no delay
(`GivenUp`). A handler of the engine makes several of these steps at a time (`Continue`: an
end and, if no delay was started, `SendNext`; `Enqueue`: `Ask` and, if the queue is free,
`SendNext`; that nothing waits while the wire is free without a delay is `NeverIdle`). That
each handler is such a sequence is read off its definition and not proved (section 5).

Abstractions:

* The motor is the environment: every request may succeed or fail whenever it is with
  the motor, and a read of the status returns any status. The three kinds of motion
  (accelerating, decelerating, full speed) are one.
* A tick is more than a poll interval of 200 ms, so a poll is due after every tick,
  at most once between two ticks. The limits are counted in ticks.
* The three conditions under which `attempt_error_recovery()` is called are one
  action guard; `last_recovery_attempt_time_ == 0` stands for "never", and that
  `millis()` may be 0 by coincidence is left out.
* Positions and speeds are in `Motion`, and with them that `move_to()` to the present
  target sends nothing. The protection poll is commented out in the code.
* `UpdateCommands` are the writes that can follow `read_all_config`: at least one,
  because the EN trigger is always written, and the homing parameters last, because
  those that `get_update_command_types()` puts behind them send nothing in ENDSTOP mode.
* A device is a `Configuration`, chosen initially: modes, homing at start-up, and which
  calls its automations make.

Bounds of the model: `MaxPending` keeps calls and passes of the loop from starting
while that many requests wait (callbacks are never kept from enqueueing),
`MaxWrites` bounds the configuration writes of a set-up, `PollReads` is the reads of
`poll_hardware()` that are modelled, `AgeBound` stops ages above every limit, and
`PollCap` is the number of merged callbacks that are counted (a third one finds the
state as the second left it).

### Position, Motion and the code

`Position` is pure: one operator per conversion, comparison or subtraction of class
`Position`, for ticks, steps and revolutions, and the constructors of `Speed` and
`Acceleration` from steps. A floating-point argument is a fraction and is computed with
exactly; every rounding to an integer is the code's. `TicksPerRev` (16384) and
`AxisValues` (2^32) are parameters.

`Motion` has the members of the core that hold such values. The engine is reduced to whether
it takes moves, the queue to its moves in order; how they get there is `StepperEngine`
and `CommandQueue`. The motor is external: `axis` is the target it accepted last,
`encoder` follows tick by tick, and it may halt anywhere.

| Code | Actions of `Motion` |
|---|---|
| `ServoXxd::set_target()`, `move_to()` of core and engine | `SetTarget`, `MoveTo` (with `SendMove`: skipped or enqueued) |
| `report_position()`, `set_max_speed()`, `set_acceleration()`/`set_deceleration()`, `set_microsteps()` | `ReportPosition`, `SetMaxSpeed`, `SetAcceleration`, `SetMicrosteps` |
| callback of `poll_encoder_position()`, `process_encoder_update()` | `EncoderRead` |
| callback of a move | `MoveSucceeds`, `MoveFails` |
| `transition_to()`, `process_motor_status_update()` as far as values go | `Stops`, `ReadyAgain`, `TakenOver`, `Homed` |
| callback of `set_zero()` | `SetZeroSucceeds` |

`asked_*`, `current_units`, `wanted` and `hasty` are history. Left out: the other units,
which differ by a factor; `operator+`, `*` and `/`, which the component does not use;
`position_offset_`, which is written and never read; and the error of `float` itself.

### ConfigData, Setup and the code

`ConfigData` is pure. A configuration is a function on 16 settings; a setting is the group of
fields that one command writes, so a command is named by its setting. `Setup` is
`StepperEngine` seen from the settings: it follows `config_`, the registers of the motor
and every request that reads or writes one.

| Code | Definitions |
|---|---|
| schema, `to_code()`, setters before `setup()` | `Accepted`, `Device` |
| `ServoXxd::setup()` | `Synchronized`, `Init`, `Reboot` |
| `read_all_config` with its decoder | `Decoded`, `ReadSucceeds`, `ReadFails` |
| `get_update_command_types()` and the switch in `setup_motor()` | `Changed`, `Written`, `Payload`, `UpdateWrites` |
| callbacks of `setup_motor()` | `WriteSucceeds`, `WriteFails`, `GoHomeSucceeds`, `DoneSucceeds`, `DoneFails`, `EndsUnheeded` |
| `set_microsteps()`, `set_control_mode()`, the actions for currents, `key_lock()`/`key_unlock()` | `SetMicrosteps`, `SetControlMode`, `SetWorkingCurrent`, `SetHoldingCurrent`, `KeyLock`, `KeyLockEnds` |
| `home`, `emergency_stop`, `restart`, `release_protection` as far as they touch set-ups | the action of that name, with `ClearCallbacks` for the callbacks that `clear()` calls |
| `loop()`, `check_state_timeouts()`, `attempt_error_recovery()` | `SetupOverdue`, `StateExpires`, `Recover` |
| everything else that enqueues | `Another`, `OtherEnds` |

Abstractions: of the states SettingUp, Homing and Error are told apart, Idle stands for the
others; time-outs may come whenever they can; the two requests of a recovery are one; a
request that fails may have reached the motor all the same. The registers are external: a
write stores what it carries, a read of all of them returns one byte for the
subdivision, in which 256 is zero. The motor keeps its registers when it restarts, and
ESPHome may restart at any time (`Reboot`), which begins with the YAML file again.

`open` is history: the settings for which nothing is promised, because they were changed when
no read was to come that would find out, or because their write was cancelled, or failed and
was not heeded. What puts a setting there is part of what `SettledAgrees` says of the code.

Bounds: `MaxSetups`, no call adds to that many waiting requests of priority SETUP; `MaxOthers`,
the same for NORMAL. Callbacks enqueue beyond them.

## 3. What is checked

| Run | Instance | Shows |
|---|---|---|
| `queue_reentrancy` | 2 requesters, 2 queue slots, a move, a poll and a RESTART with recovery delay 2; callbacks make up to 2 calls; time-out 1, clock of 5 | `SingleFlight`, `DeferredSafe`, `NeverIdle`, `CallbackConservation`, `PollingBounded`, `TimelyTimeout`, `NoSendWhileNotifying`, `RecoveryRespected`, refinement of `RequestLedger` |
| `queue_order` | 2 requesters, 3 slots, requests of priorities CRITICAL, SETUP (a homing run with a recovery delay, and a status read) and BACKGROUND (the same read, which merges with it); time-out 0, clock of 3 | `SendOrder`, refinement of `RequestFlow` |
| `queue_liveness` | 1 requester among anonymous moves that keep coming, 3 slots, an IDLE read; a callback makes 1 call (it enqueues or clears); fair | `BoundedWait`, `EveryCallbackCalled` |
| `path_agreement` | 1 requester among anonymous requests, 2 queue slots, enable, disable (one register) and a status read, 2 requests in the hub, which rejects, delays, loses and corrupts; time-outs 0 and 1, clock of 4; a callback makes 1 call | `Agreement`, `TransportFree`, `TransportTimely`, `ConfirmedByOwnRegister` |
| `path_late_answer` | violation | the late answer to a move completes a newer one |
| `path_estop` | violation | EMERGENCY_STOP never reaches the hub |
| `engine_safety` | three devices: POSITION with an end stop and homing at start-up, POSITION with virtual homing, SPEED with reconfiguration; 13 calls between them, 2 requests waiting when a call starts, 1 configuration write, polls of the status; limits of 1 and 2 ticks | `ErrorStopsMotion`, `PollsAfterSetup`, `HomingStatusFresh`, `DisabledIsLast`, `SetupAlive`, `MarkerIsLast` |
| `engine_liveness` | the end-stop device with 4 calls, fair | `TimedStatesEnd`, `SetupEnds`, `RecoveryGoesOn`, `MovingEnds` |
| `engine_estop_holds` | violation | a GoHome that was with the motor at the stop, and is accepted after it, leads out of Error |
| `motion` | 10 ticks to a revolution, an axis of 4 bits, 2 moves in the queue; 3, 7 or 50 steps to a revolution; speeds and accelerations around the motor's limits | `ReachedExactly`, `TargetAsAsked`, `SkippedIsReached`, `LostOnlyInHaste`, `SpeedNearest`, `RampNearest` |
| `motion_override` | violation | a move back is skipped while a move away is under way |
| `setup` | four YAML files (end stop with homing at start-up, changes of microsteps, mode and currents at run time, SENSORLESS) and one that is rejected; a motor that differs in a few settings and one with 256 microsteps and a reverse angle whose low word is 0; 4 requests of set-up and 1 other waiting when a call starts | `SettledAgrees`, `QuietSetup` |

Why the bounds are enough: two requesters tell whose callback is whose and can share
one command by deduplication; two slots with one command executing leave a pending
one to cancel, overtake or merge into, three give the deque a middle to disturb; two
calls per callback let a callback clear and enqueue, or be re-entered from the
cancellation it caused; the recovery delay of two ticks is longer than the
time-out, and the clock wraps within it.

In `queue_order` three slots show every two of the requests waiting together behind the one on
the wire, and one of SETUP leaving from the middle; NORMAL requests, which only the penalties
tell from BACKGROUND, wait in the runs before and after it. Its callbacks make no calls, to leave room for
the requests: that calls from callbacks of any depth keep to `RequestFlow` is proved
(`QueueImplementsFlow`).

In `path_agreement` two writes with different values and one register are the least
that tells a value's confirmation from a register's, the read adds an answer for
another register, and two places in the hub hold one answer that is late and one that
is due. The time-outs are the smallest that nest; a time-out of 0 expires after one tick.

For the engine, two waiting requests besides the one with the motor are what the
hazards need: a request that overtakes and one that is overtaken, or a move that waits
when `disable()` is called. Callbacks enqueue beyond the bound, so a set-up is never
cut short. With `MaxPending = 3` each of the three devices was checked too (between
1.1 and 3.2 million states, no error); the runs that are kept are the smaller ones. A
limit of one tick is the smallest that can be reached before and after an event.

In `queue_liveness` callbacks that call the queue again keep it busy, next to moves that keep
coming; one call each is enough to enqueue behind, or cancel, what waits.

For `motion`, ten ticks are few enough to visit every position around two revolutions'
boundaries, and the resolutions stand for the four cases that the code's rounding
knows: more than three ticks to a step (up to 16 microsteps of the motor), between one and
three (32 and 64), less than one (128 and 256), and a change between them. The axis of 4 bits
overflows for a target that is asked for; fractions of 0.99 round to a full turn.

For `setup`, four waiting requests let a second set-up be asked for while the first one is at
any of its requests, and its read be answered before or after the writes of the first one
end. The YAML files differ from the motor in two or three settings each: the ones that are
special in the code (written always, read back as something else, followed by a GoHome, with
values from `homing_`) and plain ones beside them. Settings of the same kind behave alike.

The properties are stated and explained in the modules. `IInv` of `CommandQueue` is the inductive
invariant used by the proofs; its conjuncts are each checked but `SendReady`, which is
only proved.

Fairness (`Fairness`): a call that has been started goes on and returns
(`WF(Internal)`; callbacks are finite), the main loop calls `update()` again and
again although other events come in between (`SF(Update)`), and time passes
(`WF(Tick)`). Nothing is assumed of the transport, the motor or the requesters.

For the engine: time passes (`WF(Tick)`), the main loop calls `update()` again and again
(`SF(Update)`, since a call in between may fill the model's queue), and as long as the
component is not marked as failed, a request with the motor ends (`WF`): in the queue's
time-out at the latest, which `EveryCallbackCalled` shows of the queue. Which way it
ends is not fair: the motor may refuse everything for ever. `TimedStatesEnd` and
`RecoveryGoesOn` except one behaviour by name: a call that finds the delay of a homing run over
leaves its state for Homing and may enter it again in the same step, which starts the limit
anew, so a state may last while homing runs get through one after the other
(`HomingReported`). `MovingEnds` needs more, and says so in its statement: that the polls of Moving go out (`PollsGoOut`: the queue's ageing,
`BoundedWait`, proved as `NobodyWaitsForACycle`), and that the motor, asked again and again, says that it stands in
the end (`StopReported`). Without either the driver stays in Moving for ever, since that
state has no limit; TLC finds the property violated if one is left out.

### Divergences from the documents

With a run each:

* `tests/unit/test_command_queue.cpp:645` says that a late response should be ignored.
  It is only when nothing is pending for its register: the late answer to a move that
  timed out completes the next move (`LateAnswerIgnored`).
* `docs/specification/02d-layer4-transport.md:276` gives EMERGENCY_STOP the frame
  `06 00F7 0001`. The factory builds it without payload and the transport refuses a
  single write without a register, so it is never sent, and the queue waits 4 s for
  it (`StopReachesBus`). SET_ZERO is built the same way.
* `servoxxd_stepper_engine.h:151` says that only `release_protection()` or `restart()`
  lead out of an emergency stop. The callback of a GoHome or a move that was with the
  motor at the stop does as well (`EmergencyHolds`, which is about the time while `loop()` runs,
  not after a set-up that failed). So does a recovery that succeeds: it clears
  `emergency_flag_` (`servoxxd_stepper_engine.cpp:1295`), and the property leaves it out.
* `servoxxd_stepper_engine.cpp:595` says that a move is skipped "if no movement needed",
  and line 611 that a move during a motion updates the target. `is_target_reached()`
  compares with the last position that was polled: a move back to it is skipped although
  a move away is waiting or under way, and the motor goes away (`LatestTargetWins`).
  `LostOnlyInHaste`, which is proved, says that targets are lost in no other way.

Seen while modelling, without a run:

* `docs/specification/02b-layer2-stepper-engine.md:154` says that an emergency stop
  bypasses the queue and halts the motor. `emergency_stop()` enqueues the stop and
  then enters Error, which clears the queue: while another command is with the motor the
  stop is cancelled.
* `servoxxd_stepper_engine.cpp:500` says that all set-up commands completed successfully. After
  an emergency stop during set-up the read of the registers may still succeed; its writes and the
  marker are enqueued, a write that fails in Error is ignored, and a `release_protection()`
  before the marker ends makes it report COMPLETED.
* `set_microsteps()` during the first set-up (`servoxxd.cpp:105`) stores the value and starts no
  set-up; once the read was answered nothing sends it, and calling it again with the same
  value does nothing (line 113).
* `docs/specification/01-yaml-api.md:1330` describes currents set at run time. The actions
  store the value, which the motor gets with the next set-up, if there is one.
* A motor with 256 microsteps is read as 1 (`servoxxd_command_decoder.h:483`): with a
  configuration of 1 it is never corrected (`ReadAlike`), with 256 it is written every time.
  A holding current beyond the highest is read as the highest (`ReadAlike`).
* SET_SUBDIVISION is sent before SET_WORK_MODE (`servoxxd_stepper_engine.cpp:231`), although
  the schema calls microsteps meaningless in the vFOC mode that the motor may still be in.
* The keys that an automation locked are unlocked by the next set-up, or the other way round:
  `config_` keeps what the YAML file says.
* In SENSORLESS homing the direction and the speed are never written. A motor whose reverse
  angle has the low word 0, with 1000 mA, passes for configured (`ReadAlike`; the second motor
  of the run `setup` is one). Zero mode, end-stop
  limit, interpolation and port mapping are compared and never written.
* VIRTUAL homing without an explicit level of speed is rejected by the schema;
  `validate_auto_sleep` has no caller.
* `move_speed_mode()` sends direction, speed, acceleration (`servoxxd_command_factory.h:171`),
  `stop_speed_mode()` direction, acceleration, speed (line 188).
* `set_homing_parameters()` puts the end-stop limit into the high byte of its third register
  (`servoxxd_command_factory.h:351`); `read_all_config` reads the low one
  (`servoxxd_command_decoder.h:513`).
* `read_zero_return_status` reads the second byte after checking that there is one
  byte; `write_all_config`, which nothing calls, cuts `respond_active << 8` to 8 bits.
* `servoxxd.cpp:331` says that virtual homing at start-up needs no action. The
  completion marker calls `home()`, which does nothing in this mode, and the state stays
  SettingUp with nothing under way until the 30 s limit enters Error. The devices of
  `engine_safety` therefore do not combine the two; with them `SetupAlive` fails.
* `servoxxd_position.h:38` gives the ticks of a position the range 0 to 16383.
  `from_revolutions()` rounds a fraction close to one to 16384 (359.99 degrees, or -1
  step with 256 microsteps), and `normalize()` has no callers. Distances, steps and the
  axis are right nevertheless (`ReachedIsWithinTick`); `==` and `<` on such a position
  are not, but the component uses them only on differences.
* With 128 or 256 microsteps (25600 or 51200 steps for 16384 ticks) `target_position` is
  not always the argument of `set_target()`; with 32 or more, a move of one tick or less is
  skipped although `current_position` and `target_position` then differ by a step.
* `set_target()` changes the target although the engine rejects the move; entering
  Idle resets `target_pos_` and leaves `target_position`; `set_zero()` leaves the target
  where it was.
* `set_max_speed()` below half a revolution per minute gives moves a speed of 0.
* `docs/specification/02-cpp-interface.md:384` describes `rpm_for_hardware()`, which
  compensates for microstepping; nothing calls it.
* `02c-layer3-command-queue.md:97`: successive moves replace earlier pending ones.
  `enqueue()` deduplicates BACKGROUND and IDLE requests only and compares payloads.
* `02c:92`: a duplicate read is ignored if it is executing. `find_duplicate()` skips the
  executing command.
* `02c:37`: the queue never blocks. A command that `execute_command()` refuses stays
  until the queue's 4 s time-out.
* `02b:112` gives Moving a time limit; the code has none, nor for Running.
* `servoxxd_stepper_engine.h:163` and the unit tests expect `home()` to be rejected in
  some states; it asks for none, so a GoHome can be sent during set-up or in Error.
* The answer to a move that was accepted before a reconfiguration leads from
  SettingUp to Moving.
* With new homing parameters and homing at start-up, set-up sends GoHome twice: the one
  that follows the parameters is enqueued behind the completion marker, which calls
  `home()` before it is sent.
* `calibrate()` enters Calibrating before the motor accepted it, so a STOP that was asked
  for earlier ends Calibrating, and the calibration goes on unnoticed.
* Two polls merged into one request process one STOP twice: Moving, Stopping, Idle at once.
* `setup_state_` is not reset by a reconfiguration, and an answer after the set-up
  time-out can turn FAILED into COMPLETED although the component stays failed. If two
  reconfigurations overlap, the marker of the first reports before the writes of the second.

## 4. What is proved

`CommandQueueProofs` proves, for every set of commands, requests and requesters,
every time-out and penalty, every clock width, queue length and depth of nested
calls:

* `Invariance`: `Spec => []IInv`, and from it `TypeCorrectness`, `OneOnTheWire`
  (`SingleFlight`), `NoOverwrite` (`DeferredSafe`) and `FlagCorrect` (`DispatchFlag`, which no
  run lists: the runs check what it is for, `NoSendWhileNotifying`);
* `QuietDispatch`: `Spec => NoSendWhileNotifying`;
* `DelayKept`: `Spec => RecoveryRespected`.

`CommandQueueCallbacks`, `CommandQueueLedger` and `CommandQueueBounds` add, under the same assumptions:

* `NoCallbackLost`: `Spec => []CallbackConservation`;
* `QueueImplementsLedger`: `Spec => ImplementsLedger`, the refinement of `RequestLedger`; with
  `PathImplementsQueue` it holds of queue, transport and hub together;
* `SendsInOrder`: `Spec => SendOrder`;
* `PollsDoNotPileUp` (`PollingBounded`) and `GivenUpInTime` (`TimelyTimeout`);
* `AgeingBoundsWaits`: no command waits longer than `LongestWait`, the penalty and a turn of the
  line (time-out, recovery delay and three ticks) for every place in the queue, and from it
  `NobodyWaitsForACycle` (`BoundedWait`). Both for requests no more urgent than NORMAL with
  delays of at most `d`, since CRITICAL and SETUP requests that keep coming starve all others,
  ageing or not: it is the bound between set-ups and emergency stops. And both for a clock
  longer than `LongestWait(d)`: in the code 2^32 ms against a few seconds a turn;
* `NoWakeUpLost` (`NeverIdle`): commands never wait while the wire is free and no delay runs,
  once the call in progress has returned;
* `QueueImplementsFlow`: `Spec => ImplementsFlow`, the refinement of `RequestFlow`, the queue
  that the engine's model is built on.

`CommandPathProofs` proves of the whole path, for every hub size as well:

* `PathImplementsQueue`: `PathSpec => Spec`, so all of the above holds of the path;
* `PathTypeCorrectness`, `QueueAndTransportAgree` (`Agreement`),
  `SendsFindTransportFree` (`TransportFree`), `TimeoutsNest` (`TimeoutOrder`, without
  which `Agreement`, which the runs check, would not hold),
  `PathNotBusyForLong` (`TransportTimely`);
* `SuccessIsOwn`: `PathSpec => ConfirmedByOwnRegister`.

`StepperEngineProofs` proves, for every set of configurations, every limit and every
bound:

* `EngineInvariance`, and from it `EngineTypeCorrectness`, `NoMotionInError`
  (`ErrorStopsMotion`), `PollsWait` (`PollsAfterSetup`) and `HomingNotEndedEarly`
  (`HomingStatusFresh`);
* `DisabledStaysLast` (`DisabledIsLast`) and `MarkerComesLast` (`MarkerIsLast`);
* `SetupNeverStuck`: `Spec => [](HomingImplemented => SetupAlive)`. The hypothesis excludes
  the devices for which set-up does get stuck (section 3, `servoxxd.cpp:331`).

`MotionProofs` proves, for every number of ticks and steps to a revolution (two ticks at least), every width
of the axis, all arguments and any number of moves in the queue:

* `MotionTypeCorrectness`: positions keep at most a full turn of ticks, speeds and
  ramps stay within the motor's range;
* `ReachedIsWithinTick`, a theorem about the operators, and `ReachedIsExact`
  (`ReachedExactly`);
* `TargetsAreNotLost` (`LostOnlyInHaste`);
* `TargetsAreAsAsked` (`TargetAsAsked`), `SkippedIsAlwaysReached` (`SkippedIsReached`),
  `SpeedsAreNearest` (`SpeedNearest`) and `RampsAreNearest` (`RampNearest`).

`SetupProofs` proves, for every set of YAML files, every content of the registers, all arguments of the calls and any number of overlapping set-ups:

* `SetupInvariant`, and from it `SetupTypeCorrect` (`SetupTypeOK`) and `SettledMotorAgrees`
  (`SettledAgrees`, whose exceptions are part of its statement: the settings that are `open`, and
  three values that are read as another, `ReadAlike`);
* `SetupIsQuiet` (`QuietSetup`).

The assumptions are `ConstantsAssumption` and `EngineAssumption`, the types of the
constants (and that SPEED has no homing, which the schema checks, `__init__.py:863`), and for the
path `PathAssumption`, which adds `ResponseTimeoutMs < TimeoutMs`; for values
`PositionAssumption` (at least two ticks, an even number of axis values) and `MotionAssumption`; for
set-up `SetupAssumption` (a register of the motor holds a byte or, for the angle, a number). TLC evaluates them
in the runs.

The argument. `SingleFlight` alone is not inductive: a send is safe only if
nothing is on the wire when `send` runs, and between the check and the send a
callback may have run. The strengthening says what the stack looks like:

1. the flag is up exactly when some call in progress is a walk, and each walk saved
   the flag it found (`FlagMatches`; lemmas `FlagPush`, `FlagPop`);
2. a `send` frame is never above a walk and only the deferred notification is
   directly above it (`SendShape`; `ShapePush`, `ShapePop`, `OneSend`), so there is
   one at most, and everything that runs above it runs under the raised flag;
3. while there is a `send` frame, nothing is on the wire and nothing is deferred
   (`SendReady`), because calls under the raised flag return from `execute_next()`
   at once;
4. a deferred notification keeps the wire free (`DeferredSafe`), because its delay
   keeps `execute_next()` from sending.

`DelayInv` adds that the ticks left of a recovery delay are covered by what
`execute_next()` still sees of it (`ElapsedTick` is the arithmetic of the wrapping
clock), and that no send is in progress then.

For callbacks, `CallbackConservation` counts places and is not inductive: nothing says
that the list a walk copied is no longer with the command it came from. `CallbackInv`
gives every list a named slot (a queued command, the deferred notification, a walk that
notifies, a list of a walk that cancels) and says that each outstanding callback is at one
position of one slot (`Once`), and which calls carry lists (`StackShape`). A step then
does one of three things: it moves whole lists from slot to slot (`Moved`), adds one
callback (`Put`) or calls the first of a list (`Called`). `PlacesAreSlots` leads back from
slots to the places that are counted.

For the refinement, `OneWay` concludes from `CallbackInv` that an outstanding callback waits in
one of four ways: in the command on the wire, in a pending one, on the way to a success, on the way
to a failure. So the status that `RequestLedger` is instantiated with, a `CASE` over places that
could overlap, is exactly that way (`StatusKnown`). Each action then moves the callbacks of one way, of one
command or of none: `Send` those of the command it sends (`SendMoves`, and by `SendReady` and
`SendOutsideWalks` nobody else waits for an outcome), the four ends of a command those on the wire
(`Concludes`), `Clear` the pending ones, `CallCallback` the one it calls, `Enqueue` the one it is
given; every other action moves none.

For the order of sends, `AgesOrdered` says that pending commands stand in the queue in the order of
their ages. Deduplication keeps it, because a duplicate leaves `enqueued_time` alone; the clock
keeps it although it wraps, because of `WithinClockCycle`, the limit on ages that the code states
(`.h:250`). So the first of one priority is the eldest, ageing cannot prefer a later one
(`NextIsEldest`), and a step that sends nothing leaves pending commands in their order (`QueueChanges`).

For the bounds, `PollingBounded` follows from `OneOfEach`: the deduplicated requests for a
command wait as one. `TimelyTimeout` is inductive as `CheckInv`: the age of the command on
the wire is at most the time-out, plus one if no pass of the loop was finished since the
last tick, plus one while `check_timeout()` is still to come in this pass.

`BoundedWait` is far from inductive. Time only passes between two passes of the loop, so three
facts about an idle stack come first: every way to an empty stack ends in `execute_next()`
(`EndsInNext`), so if commands wait then, one is on the wire or a delay runs (`NeverIdle`), and a
delay that runs is not much older than its duration (`SeenInTime`, `NoDelayThen`). Together with
`CheckInv` they bound the ticks to the next send (`Remaining`). `TurnsCount` then says of a
waiting command that its age, the ticks to the next send and a turn for each command up to any
that could still overtake it do not exceed the bound. A newcomer cannot overtake a command that
is older than the penalty, and for a younger one there is time for all turns (`YoungHasTime`); a
tick moves one unit from the ticks left to the age; a send takes a command that could overtake,
or the eldest itself (`NextIsNear`), and with it one turn. TLC checked this invariant
before it was proved.

For `RequestFlow` the commands behind the one on the wire are the requests that wait (`InLineIs`).
Each action is one step of the flow or none; what has to be known of the history is little,
because the invariants above say it: a send finds no delay (`NoDelayThen`) and nothing deferred
(`DeferredSafe`), takes the first of its priority (`NextIsEldest`, hence `AgesOrdered`) and none
that a CRITICAL or SETUP one precedes (`NextIsUrgent`), and the deque without it is the
sequence without that place (`SendFlows`); a merged request is never the one on the wire
(`DuplicateFlows`).

For the path, `Agreement` is not inductive alone: the queue's time-out could remove the
command the transport waits for. `Waited` excludes it: after the transport's
`update()` found its time-out not reached, at most one tick passes before the same
pass of the loop comes to `check_timeout()`. `PathIInv` is `IInv`, the types,
`Agreement` and `Waited`; `SendReady` of the queue's invariant gives `TransportFree`.
`AgeBounded`, inductive on top of it, is `TransportTimely` with the two ticks told apart: one
since the last pass of the loop, one while `update()` has yet to look.

For the engine, the four invariants are inductive together with the types. Nothing
looks into the queue but two lemmas, `ContinueEffect` and `EnqueueEffect`, which say what
the two ways of the queue leave waiting, as a set of requests, and in which state
the request with the motor was sent. `ContinueKeeps` and `EnqueueKeeps` reduce every
action to two questions: may what it leaves waiting wait in the new state, and does
it enter Homing without an answer. `SetupAlive` names any request of set-up and is not
inductive: after the last write has ended, nothing would lead on. `SetupInv` says that one of the
three requests whose end leads on is ahead (`Carriers`: the read, the marker, the
homing run), and that a notification that waits for a delay is the only one (`OneAtATime`),
so that no later end replaces it.

For the values, `Quotient`, `Split` and `RoundedBounds` reduce C++ division and `std::round()` to
linear bounds; `MinusExact` and `AbsWithinTick` do the borrows. `LostOnlyInHaste` is
inductive as `Bound`: as long as no move was skipped in haste, the last command in the
queue is the wanted target, or the motor's axis is within a tick of it. What was asked for is
kept by `KeptAsAsked`: the steps of the base class are those of the positions, the defaults
the conversions of what was asked for last. The rest is about rounding: an error is compared
after it was multiplied by the denominator (`RoundedError`, `RoundedNearest`), and two
roundings, to a tick and back to a step, return to the step (`StepsRoundTrip`) as long as
a tick is no more than a step.

For set-up, `SettledAgrees` is not inductive: while a read is outstanding it says nothing.
`Fresh` says that every outstanding write carries what the configuration says now, or its
setting is open. `ConfigKept` keeps the fields that no
setter touches as the device has them, `QueueOK` the order of reads, writes and markers, and
`DataOK` the ranges. The lemmas about `UpdateWrites` reduce the concatenation to one
question: for which settings is there a write, and with which value.

Only model-checked: the engine's four liveness properties and
`EveryCallbackCalled`, since liveness under fairness is out of the prover's reach.

## 5. Plan

In this order, the most important behaviour first:

1. **Queue** (done): `CommandQueue`, `RequestLedger`, `MCCommandQueue`,
   `CommandQueueProofs`.
2. **Transport and command path** (done): `ModbusTransport`, `CommandPath`,
   `MCCommandPath`, `CommandPathProofs`.
3. **Engine and life cycle** (done): `StepperEngine`, `MCStepperEngine`,
   `StepperEngineProofs`.
4. **Engine over queue** (done on the side of the queue: `RequestFlow`, `Priorities`,
   `QueueImplementsFlow`). Left: that every handler of the engine is a sequence of steps of
   `RequestFlow`, as a theorem or a run.
5. **Values** (done for positions, speeds and accelerations in steps): `Position`, `Motion`,
   `MCMotion`, `MotionProofs`. Left: the direction of virtual homing.
6. **Configuration and set-up** (done): `ConfigData`, `Setup`, `MCSetup`, `SetupProofs`.
7. **Proofs** (done for the callbacks, the refinement, the order and the bounds of the queue:
   `CommandQueueCallbacks`, `CommandQueueLedger`, `CommandQueueBounds`; for what
   was asked for and for set-up: `MotionProofs`, `StepperEngineProofs`). Left: item 4.

## 6. Not modelled

Of the YAML actions, those that only forward their argument (the call they reach is modelled);
of the schema, the parsing of units and the registration of actions and sensors; all of that
runs once, on the build host. Logging, `dump_config()`, sensors. Byte order and length of
payloads, the other units of values and the error of `float`. Commands that nothing sends
(the bus and serial settings, `write_all_config`, speed limits).
