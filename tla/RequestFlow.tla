----------------------------- MODULE RequestFlow -----------------------------
(***************************************************************************)
(* What the command queue promises to the stepper engine about the         *)
(* requests it is given, with nothing said of callbacks, call stacks and   *)
(* clocks: the requests wait in the order in which they came until it is   *)
(* their turn, they are cancelled together, one is with the motor at a     *)
(* time, and a delay or a notification that waits for it keeps the motor   *)
(* free.  CommandQueue implements it, StepperEngine is built on it.        *)
(***************************************************************************)
EXTENDS Integers, Sequences, SequencesExt, Priorities

CONSTANT Asked   \* the requests: records with command, priority and delayed

VARIABLES
  waiting,   \* the requests that wait
  wire,      \* <<>>, or the request with the motor
  deferred,  \* does a notification of success wait for a delay?
  delaying   \* is a recovery delay running?

flowVars == <<waiting, wire, deferred, delaying>>

\* A request comes in behind the others ...
Ask ==
  /\ \E x \in Asked : waiting' = Append(waiting, x)
  /\ UNCHANGED <<wire, deferred, delaying>>

\* ... or is merged into one that waits for the same command, which becomes as
\* urgent as the more urgent one and has the delay of the later one.
Merge ==
  /\ \E i \in DOMAIN waiting, x \in Asked :
       /\ x.command = waiting[i].command
       /\ waiting' = [waiting EXCEPT
            ![i].priority = IF x.priority < @ THEN x.priority ELSE @,
            ![i].delayed = x.delayed]
  /\ UNCHANGED <<wire, deferred, delaying>>

CancelAll == waiting' = <<>> /\ UNCHANGED <<wire, deferred, delaying>>

\* The next request goes out, when nothing holds it up.
SendNext ==
  /\ wire = <<>> /\ ~delaying /\ ~deferred
  /\ \E i \in Turn([k \in DOMAIN waiting |-> waiting[k].priority]) :
       wire' = <<waiting[i]>> /\ waiting' = RemoveAt(waiting, i)
  /\ UNCHANGED <<deferred, delaying>>

\* The request with the motor ends: with success, which waits for its delay,
\* without success, when the delay is waited for as well, or by the queue's
\* time-out, which starts none.
Answered ==
  /\ wire # <<>>
  /\ wire' = <<>> /\ delaying' = wire[1].delayed /\ deferred' = wire[1].delayed
  /\ UNCHANGED waiting
Refused ==
  /\ wire # <<>>
  /\ wire' = <<>> /\ delaying' = wire[1].delayed
  /\ UNCHANGED <<waiting, deferred>>
GivenUp ==
  /\ wire # <<>>
  /\ wire' = <<>>
  /\ UNCHANGED <<waiting, deferred, delaying>>

\* A delay is over, and what waited for it is notified.
DelayEnds ==
  /\ delaying
  /\ delaying' = FALSE /\ deferred' = FALSE
  /\ UNCHANGED <<waiting, wire>>

FlowInit == waiting = <<>> /\ wire = <<>> /\ deferred = FALSE /\ delaying = FALSE

FlowNext ==
  Ask \/ Merge \/ CancelAll \/ SendNext \/ Answered \/ Refused \/ GivenUp \/ DelayEnds

FlowSpec == FlowInit /\ [][FlowNext]_flowVars
=============================================================================
