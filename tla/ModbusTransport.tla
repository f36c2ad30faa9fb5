-------------------------- MODULE ModbusTransport --------------------------
(***************************************************************************)
(* Layer 4 of the ServoXXD component: the transport that turns one command *)
(* at a time into a Modbus request and judges the answer                   *)
(* (src/components/servoxxd/stepper/servoxxd_modbus.{h,cpp}).              *)
(*                                                                         *)
(* The module gives the transport's part of every handler.  Each of them   *)
(* ends with the callback to the queue, after state_ has become IDLE, so   *)
(* the callback may send the next command; CommandPath adds the queue's    *)
(* part of the same call.  Error codes, of which the queue makes no use,   *)
(* and the bytes of PDUs are left out: a request is the command it was     *)
(* made from, an answer is valid or not.                                   *)
(***************************************************************************)
EXTENDS Integers, Sequences

CONSTANTS
  Command,            \* the commands (type and payload)
  Commandtype,        \* the type of each command, which is its register
  FunctionCode,       \* the function code of each type
  Registers,          \* the number of registers a command's payload fills
  ResponseTimeoutMs,  \* timeout_ms_, in ticks
  ClockWrap           \* number of values of millis()

READ_INPUT == 4       \* 0x04 Read Input Registers
WRITE_SINGLE == 6     \* 0x06 Write Single Register
WRITE_MULTIPLE == 16  \* 0x10 Write Multiple Registers

TransportAssumption ==
  /\ Commandtype \in [Command -> STRING]
  /\ FunctionCode \in [{Commandtype[c] : c \in Command} ->
                        {READ_INPUT, WRITE_SINGLE, WRITE_MULTIPLE}]
  /\ Registers \in [Command -> Nat]
  /\ ResponseTimeoutMs \in Nat
  /\ ClockWrap \in Nat \ {0}

VARIABLES
  state,              \* state_
  pending_command,    \* pending_command_: <<>> or <<command>>
  timeout_start_ms,   \* timeout_start_ms_
  millis              \* the clock

transportVars == <<state, pending_command, timeout_start_ms>>

TransportTypeOK ==
  /\ state \in {"IDLE", "WAITING_READ", "WAITING_WRITE"}
  /\ pending_command \in Seq(Command) /\ Len(pending_command) <= 1
  /\ timeout_start_ms \in 0 .. ClockWrap - 1
  /\ state # "IDLE" => pending_command # <<>>

is_busy == state # "IDLE"
Code(cmd) == FunctionCode[Commandtype[cmd]]

\* The command of an is_busy transport.
Pending == Head(pending_command)

TransportInit ==
  /\ state = "IDLE"
  /\ pending_command = <<>>
  /\ timeout_start_ms = 0

-----------------------------------------------------------------------------
(* execute_command().                                                      *)

\* A single register takes a payload of exactly one register.
Sendable(cmd) == Code(cmd) = WRITE_SINGLE => Registers[cmd] = 1

\* Does execute_command() get as far as to offer cmd to the hub?
Offers(cmd) == ~is_busy /\ Sendable(cmd)

\* Mutant: the time of the request is not taken.
Accept_OldStart(cmd) ==
  /\ Offers(cmd)
  /\ state' = IF Code(cmd) = READ_INPUT THEN "WAITING_READ" ELSE "WAITING_WRITE"
  /\ pending_command' = <<cmd>>
  /\ UNCHANGED timeout_start_ms

\* Mutant: the command is not kept.
Accept_NoCommand(cmd) ==
  /\ Offers(cmd)
  /\ state' = IF Code(cmd) = READ_INPUT THEN "WAITING_READ" ELSE "WAITING_WRITE"
  /\ timeout_start_ms' = millis
  /\ UNCHANGED pending_command

\* The hub takes the request.
Accept(cmd) ==
  /\ Offers(cmd)
  /\ state' = IF Code(cmd) = READ_INPUT THEN "WAITING_READ" ELSE "WAITING_WRITE"
  /\ pending_command' = <<cmd>>
  /\ timeout_start_ms' = millis

\* Busy, malformed or rejected by the hub: a result, no callback.
Refuse == UNCHANGED transportVars

-----------------------------------------------------------------------------
(* update() and the answers of the hub.                                    *)

check_timeout == (millis - timeout_start_ms) % ClockWrap > ResponseTimeoutMs

\* The transport lets go of its command and reports it.
Finish ==
  /\ is_busy
  /\ state' = "IDLE"
  /\ UNCHANGED <<pending_command, timeout_start_ms>>

TimesOut == is_busy /\ check_timeout

\* Does an answer to request concern the pending command?  Function code and
\* register are compared, both of which the type determines.
MatchesPending(request) ==
  is_busy /\ Commandtype[request] = Commandtype[Pending]

\* Mutant: the echoed value is not compared.
Consistent_AnyValue(request) ==
  Code(Pending) = WRITE_MULTIPLE => Registers[request] = Registers[Pending]

\* The checks of the motor's answer to request against the pending command:
\* length and register follow from the type; a single write echoes its value,
\* a multiple write the number of registers.
Consistent(request) ==
  /\ Code(Pending) = WRITE_SINGLE => request = Pending
  /\ Code(Pending) = WRITE_MULTIPLE => Registers[request] = Registers[Pending]

\* The answer to request ends the pending command with success ...
Succeeds(request, valid) == MatchesPending(request) /\ valid /\ Consistent(request)

\* ... or, being malformed, an exception or the echo of another write, with
\* an error.
Fails(request, valid) == MatchesPending(request) /\ ~(valid /\ Consistent(request))
=============================================================================
