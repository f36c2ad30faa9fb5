--------------------------- MODULE MCCommandQueue ---------------------------
(***************************************************************************)
(* Instances of CommandQueue for TLC.  The requests are those of the call  *)
(* sites in servoxxd_stepper_engine.cpp: a move (:604) is NORMAL, a status *)
(* poll (:84) is BACKGROUND, restart() (:906) asks for a recovery delay,   *)
(* the setup sequence (:107, :138) uses SETUP and emergency_stop() (:647)  *)
(* CRITICAL.                                                               *)
(***************************************************************************)
EXTENDS CommandQueue, TLC

CONSTANTS move100, status, temperature, home, estop, restart

MCCommand == {move100, status, temperature, home, estop, restart}
MCCommandtype ==
  (move100 :> "MOVE") @@ (status :> "READ_MOTOR_STATUS") @@ (temperature :> "READ_OTHER")
  @@ (home :> "GO_HOME") @@ (estop :> "EMERGENCY_STOP") @@ (restart :> "RESTART")

Request(command, priority, delay, deduplicate) ==
  [command |-> command, priority |-> priority, delay |-> delay, deduplicate |-> deduplicate]

Move == Request(move100, NORMAL, 0, "auto")
Poll == Request(status, BACKGROUND, 0, "auto")
Debug == Request(temperature, IDLE, 0, "auto")
Home == Request(home, SETUP, 1, "auto")
Estop == Request(estop, CRITICAL, 0, "auto")
Restart == Request(restart, NORMAL, 2, "auto")
SetupStatus == Request(status, SETUP, 0, "yes")

ReentrancyRequests == {Move, Poll, Restart}
OrderRequests == {Poll, Home, SetupStatus, Estop}
LivenessRequests == {Move, Debug}

RequesterSymmetry == Permutations(Requester)

=============================================================================
