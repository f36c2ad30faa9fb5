----------------------------- MODULE CommandPath -----------------------------
(***************************************************************************)
(* The path of a command: the queue (layer 3) over the Modbus transport    *)
(* (layer 4) over the Modbus hub.  Queue and transport call each other on  *)
(* one stack: execute_next() calls execute_command(), and update() and the *)
(* answers of the hub call on_response() or on_error() of the queue.       *)
(*                                                                         *)
(* The hub is external.  It takes or rejects a request, keeps the accepted *)
(* ones in order, and answers the oldest one at any later time, with the   *)
(* motor's answer, with something malformed or an exception, or never.     *)
(* A request stays in it when the transport has given it up.               *)
(***************************************************************************)
EXTENDS CommandQueue

CONSTANTS
  FunctionCode,       \* the function code of each type
  Registers,          \* the number of registers a command's payload fills
  ResponseTimeoutMs,  \* timeout_ms_ of the transport, in ticks
  MaxHub,             \* number of requests the hub keeps
  HubRejects          \* may the hub reject a request although it has room?

VARIABLES
  state,              \* state_ of the transport
  pending_command,    \* pending_command_
  timeout_start_ms,   \* timeout_start_ms_
  hub                 \* the requests the hub accepted and has not answered

T == INSTANCE ModbusTransport

PathAssumption ==
  /\ T!TransportAssumption
  /\ MaxHub \in Nat
  /\ HubRejects \in BOOLEAN
  /\ ResponseTimeoutMs < TimeoutMs
ASSUME PathAssumption

transportVars == <<state, pending_command, timeout_start_ms>>
pathVars == <<vars, transportVars, hub>>

PathTypeOK == TypeOK /\ T!TransportTypeOK /\ hub \in Seq(Command)

-----------------------------------------------------------------------------
(* The hub.                                                                *)

HubRoom == Len(hub) < MaxHub
HubAccepts(cmd) == HubRoom /\ hub' = Append(hub, cmd)
HubAnswered == hub # <<>> /\ hub' = Tail(hub)

\* A request gets no answer: lost on the bus, or the motor is off.
HubLoses == HubAnswered /\ UNCHANGED <<vars, transportVars>>

-----------------------------------------------------------------------------
(* The joint steps of queue and transport.                                 *)

\* execute_next() sends and the transport passes the request on.
PathSend ==
  /\ Send
  /\ LET cmd == Head(queue').command
     IN T!Accept(cmd) /\ HubAccepts(cmd)

\* execute_next() sends and the transport refuses.  The result is ignored.
PathSendRefused ==
  /\ Send
  /\ T!Offers(Head(queue').command) => HubRejects \/ ~HubRoom
  /\ T!Refuse
  /\ UNCHANGED hub

PathUpdateQuiet ==
  /\ TransportUpdateQuiet
  /\ ~T!TimesOut
  /\ UNCHANGED <<transportVars, hub>>

\* Mutant: the transport reports the time-out and stays busy.
PathUpdateTimeout_StaysBusy ==
  /\ T!TimesOut
  /\ TransportUpdateError(Commandtype[T!Pending])
  /\ UNCHANGED <<transportVars, hub>>

\* update() of the transport gives the pending command up.
PathUpdateTimeout ==
  /\ T!TimesOut
  /\ T!Finish
  /\ TransportUpdateError(Commandtype[T!Pending])
  /\ UNCHANGED hub

\* The hub answers a request the transport waits for.  Agreement shows that
\* on_response() and on_error() of the queue never meet their early returns.
PathResponse(valid) ==
  /\ HubAnswered
  /\ T!Succeeds(Head(hub), valid)
  /\ T!Finish
  /\ OnResponse(Commandtype[T!Pending])

PathError(valid) ==
  /\ HubAnswered
  /\ T!Fails(Head(hub), valid)
  /\ T!Finish
  /\ OnError(Commandtype[T!Pending])

\* The hub answers a request the transport does not wait for.
PathIgnored ==
  /\ stack = <<>>
  /\ HubAnswered
  /\ ~T!MatchesPending(Head(hub))
  /\ UNCHANGED <<vars, transportVars>>

\* The steps of the queue in which the transport has no part.
QueueAlone ==
  /\ \/ Enqueue \/ Clear \/ Update \/ Tick
     \/ CheckTimeoutExpires \/ CheckTimeoutPasses
     \/ CallCallback \/ CallbackReturn \/ NotifyDone \/ ClearCancels \/ ClearDone
     \/ ExecuteNextBlocked \/ ExecuteNextProceeds \/ SendNothing
  /\ UNCHANGED <<transportVars, hub>>

PathInit == Init /\ T!TransportInit /\ hub = <<>>

PathNext ==
  \/ QueueAlone
  \/ PathSend \/ PathSendRefused
  \/ PathUpdateQuiet \/ PathUpdateTimeout
  \/ \E valid \in BOOLEAN : PathResponse(valid) \/ PathError(valid)
  \/ PathIgnored \/ HubLoses

PathSpec == PathInit /\ [][PathNext]_pathVars

-----------------------------------------------------------------------------
(* Properties.                                                             *)

\* Queue and transport agree on the command with the motor: while the
\* transport waits, that command is at the front of the queue and executing,
\* sent when the transport's time began (modbus.cpp:35, queue.cpp:187), so
\* that an outcome is reported for the command it belongs to and neither
\* clear() nor a rebuilt deque takes it away.
Agreement ==
  T!is_busy =>
    /\ Executing
    /\ Head(queue).command = T!Pending
    /\ Head(queue).sent_time = timeout_start_ms

\* The precondition of execute_command(), is_busy() == false (02d:120), holds
\* at every send, also from within the transport's own callbacks.  The queue
\* does not look at the result, so a command sent to a busy transport would
\* be lost without notice.
TransportFree == Running("send") /\ queue # <<>> => ~T!is_busy

\* The time-outs nest: the queue gives up no command the transport still
\* waits for, which would leave the transport busy for the next one.
TimeoutOrder == Running("check_timeout") /\ TimedOut => ~T!is_busy

\* An unanswered request keeps the path busy for its time-out and the two
\* ticks of TimelyTimeout, although the clock wraps and the answers to
\* earlier requests keep coming.
TransportTimely ==
  T!is_busy => (millis - timeout_start_ms) % ClockWrap <= ResponseTimeoutMs + 2

\* In this step the command at the front of the queue is reported successful
\* on the strength of the answer at the head of the hub.
Confirmed ==
  /\ Len(hub') < Len(hub)
  /\ Len(queue') < Len(queue)
  /\ pending_callback' # <<>> \/ (stack' # <<>> /\ stack'[Len(stack')].success)

\* Success means the command was carried out: it is reported on the answer to
\* a request for the same register, and for a single-register write to a
\* request with the same value, also when answers come late (modbus.cpp:262).
ConfirmedByOwnRegister ==
  [][Confirmed =>
       LET cmd == Head(queue).command   request == Head(hub)
       IN /\ Commandtype[request] = Commandtype[cmd]
          /\ T!Code(cmd) = T!WRITE_SINGLE => request = cmd]_pathVars
=============================================================================
