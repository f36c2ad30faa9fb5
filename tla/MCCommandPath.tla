--------------------------- MODULE MCCommandPath ---------------------------
(***************************************************************************)
(* Instances of CommandPath for TLC: two moves (0x10, same register and    *)
(* length), two single writes to one register (enable and disable), a      *)
(* status read, and EMERGENCY_STOP with the empty payload that             *)
(* servoxxd_command_factory.h:487 gives it.                                *)
(***************************************************************************)
EXTENDS CommandPath, TLC

CONSTANTS move100, move200, enable, disable, status, estop

MCCommand == {move100, move200, enable, disable, status, estop}
MCCommandtype ==
  (move100 :> "MOVE") @@ (move200 :> "MOVE") @@ (enable :> "ENABLE_MOTOR")
  @@ (disable :> "ENABLE_MOTOR") @@ (status :> "READ_MOTOR_STATUS")
  @@ (estop :> "EMERGENCY_STOP")
MCFunctionCode ==
  ("MOVE" :> 16) @@ ("ENABLE_MOTOR" :> 6) @@ ("READ_MOTOR_STATUS" :> 4)
  @@ ("EMERGENCY_STOP" :> 6)
MCRegisters ==
  (move100 :> 4) @@ (move200 :> 4) @@ (enable :> 1) @@ (disable :> 1)
  @@ (status :> 0) @@ (estop :> 0)

Request(command, priority) ==
  [command |-> command, priority |-> priority, delay |-> 0, deduplicate |-> "auto"]

PathRequests ==
  {Request(enable, NORMAL), Request(disable, NORMAL), Request(status, BACKGROUND)}
MoveRequests == {Request(move100, NORMAL), Request(move200, NORMAL)}
StopRequests == {Request(status, BACKGROUND), Request(estop, CRITICAL)}

-----------------------------------------------------------------------------
(* What documents and tests say of the path and the code does not do.      *)

\* tests/unit/test_command_queue.cpp:645 "Late response arrives (should be
\* ignored)": a command is not completed by the answer to another one that
\* was given up earlier.  Two moves share register and number of registers,
\* all that the transport compares.
LateAnswerIgnored == [][Confirmed => Head(hub) = Head(queue).command]_pathVars

\* docs/specification/02d-layer4-transport.md:276 gives EMERGENCY_STOP the
\* frame "06 00F7 0001": a stop that the queue sends reaches a hub that has
\* room.  The command's payload is empty, which execute_command() refuses.
StopReachesBus ==
  [][Sends /\ Head(queue').command = estop /\ HubRoom => hub' = Append(hub, estop)]_pathVars
=============================================================================
