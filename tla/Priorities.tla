----------------------------- MODULE Priorities -----------------------------
(***************************************************************************)
(* The priorities of requests and the turn that they give, as far as it    *)
(* does not depend on how long requests have waited                        *)
(* (enum class Priority and prepare_next_command() of                      *)
(* src/components/servoxxd/stepper/servoxxd_command_queue.{h,cpp}).        *)
(***************************************************************************)
EXTENDS Naturals

\* enum class Priority: the smaller, the more urgent.
CRITICAL == 0
SETUP == 1
NORMAL == 2
BACKGROUND == 3
IDLE == 4
Priority == CRITICAL .. IDLE

\* The places from which the next request may be taken: CRITICAL before SETUP
\* before the others, first come first served within a priority.  Among NORMAL
\* and less urgent ones the age decides.
Turn(priorities) ==
  {i \in DOMAIN priorities : \A j \in DOMAIN priorities :
     /\ priorities[j] < priorities[i] => priorities[j] >= NORMAL
     /\ priorities[j] = priorities[i] => i <= j}
=============================================================================
