------------------------- MODULE StepperEngineProofs -------------------------
(***************************************************************************)
(* Proofs about StepperEngine: for any limits, modes, bounds and calls of  *)
(* the API, the engine keeps its types, an error leaves no motion waiting, *)
(* polls wait only after set-up was completed once, and the status that is *)
(* read while the state is Homing was asked for while it was Homing.       *)
(* Disabled comes after every motion, and the completion marker after the  *)
(* whole configuration.                                                    *)
(*                                                                         *)
(* The first four are inductive together.  What every action does to the   *)
(* queue is said by two lemmas, ContinueEffect and EnqueueEffect, in terms *)
(* of the set of requests that wait, so that their proofs never look into  *)
(* a sequence.  The last two are about the order of requests: they need    *)
(* what NextUp says of two requests of one priority.                       *)
(***************************************************************************)
EXTENDS StepperEngine, TLAPS

\* The requests of a sequence of items.
Requests(p) == {p[i].request : i \in DOMAIN p}

\* The types and the three safety invariants are inductive together.
IInv == EngineTypeOK /\ ErrorStopsMotion /\ PollsAfterSetup /\ HomingStatusFresh

-----------------------------------------------------------------------------
(* Sequences of items.                                                     *)

\* The item of a request.
LEMMA ItemType ==
  ASSUME NEW r \in Request
  PROVE Item(r) \in QueueItem /\ Item(r).request = r
  BY DEF Item, QueueItem, PollCap

\* The items of a sequence are items, and their requests are requests.
LEMMA ElementType ==
  ASSUME NEW p \in Seq(QueueItem), NEW i \in DOMAIN p
  PROVE p[i] \in QueueItem /\ p[i].request \in Request
<1>1. p[i] \in QueueItem
  OBVIOUS
<1> QED BY <1>1 DEF QueueItem

\* Concatenation.
LEMMA RequestsConcat ==
  ASSUME NEW p \in Seq(QueueItem), NEW q \in Seq(QueueItem)
  PROVE p \o q \in Seq(QueueItem) /\ Requests(p \o q) = Requests(p) \cup Requests(q)
<1>1. p \o q \in Seq(QueueItem)
  OBVIOUS
<1>2. ASSUME NEW i \in DOMAIN (p \o q)
      PROVE (p \o q)[i].request \in Requests(p) \cup Requests(q)
  <2>1. CASE i <= Len(p)
    BY <2>1, <1>2 DEF Requests
  <2>2. CASE i > Len(p)
    <3>1. i - Len(p) \in DOMAIN q /\ (p \o q)[i] = q[i - Len(p)]
      BY <2>2, <1>2
    <3> QED BY <3>1 DEF Requests
  <2> QED BY <2>1, <2>2, <1>2
<1>3. ASSUME NEW i \in DOMAIN p PROVE p[i].request \in Requests(p \o q)
  <2>1. i \in DOMAIN (p \o q) /\ (p \o q)[i] = p[i]
    BY <1>3
  <2> QED BY <2>1 DEF Requests
<1>4. ASSUME NEW i \in DOMAIN q PROVE q[i].request \in Requests(p \o q)
  <2>1. Len(p) + i \in DOMAIN (p \o q) /\ (p \o q)[Len(p) + i] = q[i]
    BY <1>4
  <2> QED BY <2>1 DEF Requests
<1> QED BY <1>1, <1>2, <1>3, <1>4 DEF Requests

\* One item, and none.
LEMMA RequestsOne ==
  ASSUME NEW r \in Request
  PROVE <<Item(r)>> \in Seq(QueueItem) /\ Requests(<<Item(r)>>) = {r}
  BY ItemType DEF Requests

LEMMA RequestsNone == <<>> \in Seq(QueueItem) /\ Requests(<<>>) = {}
  BY DEF Requests

\* Appending an item.
LEMMA RequestsAppend ==
  ASSUME NEW p \in Seq(QueueItem), NEW r \in Request
  PROVE Append(p, Item(r)) \in Seq(QueueItem) /\ Requests(Append(p, Item(r))) = Requests(p) \cup {r}
<1>1. Append(p, Item(r)) = p \o <<Item(r)>>
  BY ItemType
<1> QED BY <1>1, RequestsOne, RequestsConcat

\* Removing an item.
LEMMA RequestsRemove ==
  ASSUME NEW p \in Seq(QueueItem), NEW i \in DOMAIN p
  PROVE RemoveAt(p, i) \in Seq(QueueItem) /\ Requests(RemoveAt(p, i)) \subseteq Requests(p)
<1> DEFINE q == SubSeq(p, 1, i - 1)
           r == SubSeq(p, i + 1, Len(p))
<1>1. q \in Seq(QueueItem) /\ r \in Seq(QueueItem)
  OBVIOUS
<1>2. Requests(q) \subseteq Requests(p)
  BY DEF Requests
<1>3. ASSUME NEW j \in DOMAIN r PROVE r[j].request \in Requests(p)
  <2>1. i + j \in DOMAIN p /\ r[j] = p[i + j]
    BY <1>3
  <2> QED BY <2>1 DEF Requests
<1>4. Requests(r) \subseteq Requests(p)
  BY <1>3 DEF Requests
<1> HIDE DEF q, r
<1>5. q \o r \in Seq(QueueItem) /\ Requests(q \o r) = Requests(q) \cup Requests(r)
  BY <1>1, RequestsConcat
<1> QED BY <1>2, <1>4, <1>5 DEF RemoveAt, q, r

\* The requests that wait.
LEMMA WaitingRequests ==
  ASSUME NEW r PROVE Waiting(r) <=> r \in Requests(pending)
  BY DEF Waiting, Requests

\* The item that is sent.
LEMMA SentType ==
  ASSUME NEW x \in QueueItem, NEW s
  PROVE /\ <<Sent(x, s)>> \in Seq(WireItem) /\ Len(<<Sent(x, s)>>) = 1
        /\ <<Sent(x, s)>>[1].while_homing = (s = "Homing")
  BY DEF Sent, QueueItem, WireItem

-----------------------------------------------------------------------------
(* What the two ways of the queue do.                                      *)

\* The request whose turn it is waits, and before the others of its priority.
LEMMA NextUpIs ==
  ASSUME NEW p, NEW i \in NextUp(p)
  PROVE /\ i \in DOMAIN p
        /\ \A j \in DOMAIN p : PriorityOf(p[j].request) = PriorityOf(p[i].request) => i <= j
<1> DEFINE q == [k \in DOMAIN p |-> PriorityOf(p[k].request)]
<1>1. DOMAIN q = DOMAIN p /\ \A k \in DOMAIN p : q[k] = PriorityOf(p[k].request)
  OBVIOUS
<1>2. i \in Turn(q)
  BY DEF NextUp
<1> HIDE DEF q
<1>3. i \in DOMAIN q /\ \A j \in DOMAIN q : q[j] = q[i] => i <= j
  BY <1>2 DEF Turn
<1> QED BY <1>1, <1>3

\* After the end of a request what waits is part of p, and what is with the
\* motor was sent in state s.
LEMMA ContinueEffect ==
  ASSUME NEW p \in Seq(QueueItem), NEW s, Continue(p, s)
  PROVE /\ pending' \in Seq(QueueItem) /\ Requests(pending') \subseteq Requests(p)
        /\ wire' \in Seq(WireItem) /\ Len(wire') <= 1
        /\ wire' # <<>> => wire'[1].while_homing = (s = "Homing")
<1>1. CASE delaying' \/ p = <<>>
  <2>1. pending' = p /\ wire' = <<>>
    BY <1>1 DEF Continue
  <2> QED BY <2>1
<1>2. CASE ~(delaying' \/ p = <<>>)
  <2>1. PICK i \in NextUp(p) : pending' = RemoveAt(p, i) /\ wire' = <<Sent(p[i], s)>>
    BY <1>2 DEF Continue
  <2>2. i \in DOMAIN p
    BY NextUpIs
  <2>3. p[i] \in QueueItem
    BY <2>2, ElementType
  <2>4. pending' \in Seq(QueueItem) /\ Requests(pending') \subseteq Requests(p)
    BY <2>1, <2>2, RequestsRemove
  <2>5. /\ wire' \in Seq(WireItem) /\ Len(wire') = 1
        /\ wire'[1].while_homing = (s = "Homing")
    BY <2>1, <2>3, SentType
  <2> QED BY <2>4, <2>5
<1> QED BY <1>1, <1>2

\* After a call what waits is p and what was enqueued, and what is with the
\* motor was there before or was sent in state s.
LEMMA EnqueueEffect ==
  ASSUME EngineTypeOK, NEW p \in Seq(QueueItem), NEW new \in Seq(QueueItem), NEW s,
         Enqueue(p, new, s)
  PROVE /\ pending' \in Seq(QueueItem) /\ Requests(pending') \subseteq Requests(p) \cup Requests(new)
        /\ wire' \in Seq(WireItem) /\ Len(wire') <= 1
        /\ wire' = wire \/ wire'[1].while_homing = (s = "Homing")
        /\ pending_callback' = pending_callback /\ delaying' = delaying
<1>1. CASE QueueFree(p) /\ new # <<>>
  <2>1. wire' = <<Sent(Head(new), s)>> /\ pending' = Tail(new)
    BY <1>1 DEF Enqueue
  <2>2. Head(new) \in QueueItem /\ Tail(new) \in Seq(QueueItem)
    BY <1>1
  <2>3. ASSUME NEW i \in DOMAIN Tail(new) PROVE Tail(new)[i].request \in Requests(new)
    <3>1. i + 1 \in DOMAIN new /\ Tail(new)[i] = new[i + 1]
      BY <1>1, <2>3
    <3> QED BY <3>1 DEF Requests
  <2>4. Requests(Tail(new)) \subseteq Requests(new)
    BY <2>3 DEF Requests
  <2> QED BY <2>1, <2>2, <2>4, SentType DEF Enqueue
<1>2. CASE ~(QueueFree(p) /\ new # <<>>)
  <2>1. pending' = p \o new /\ wire' = wire
    BY <1>2 DEF Enqueue
  <2> QED BY <2>1, RequestsConcat DEF Enqueue, EngineTypeOK
<1> QED BY <1>1, <1>2

-----------------------------------------------------------------------------
(* The invariant in terms of the requests that wait.                       *)

Motionless(p) == Requests(p) \cap MotionRequests = {}
Pollfree(p) == Requests(p) \cap PollRequests = {}

LEMMA Restated ==
  /\ ErrorStopsMotion <=> (state = "Error" => Motionless(pending))
  /\ PollsAfterSetup <=> (~Pollfree(pending) => setup_state = "COMPLETED")
<1>1. ErrorStopsMotion <=> (state = "Error" => Motionless(pending))
  BY WaitingRequests DEF ErrorStopsMotion, Motionless
<1>2. PollsAfterSetup <=> (~Pollfree(pending) => setup_state = "COMPLETED")
  BY WaitingRequests DEF PollsAfterSetup, Pollfree
<1> QED BY <1>1, <1>2

LEMMA RestatedPrimed ==
  /\ ErrorStopsMotion' <=> (state' = "Error" => Motionless(pending'))
  /\ PollsAfterSetup' <=> (~Pollfree(pending') => setup_state' = "COMPLETED")
<1>1. ASSUME NEW r PROVE Waiting(r)' <=> r \in Requests(pending')
  BY DEF Waiting, Requests
<1>2. ErrorStopsMotion' <=> (state' = "Error" => Motionless(pending'))
  BY <1>1 DEF ErrorStopsMotion, Motionless
<1>3. PollsAfterSetup' <=> (~Pollfree(pending') => setup_state' = "COMPLETED")
  BY <1>1 DEF PollsAfterSetup, Pollfree
<1> QED BY <1>2, <1>3

\* The part of the invariant that is about the queue, and the other types.
QueueTypes == pending \in Seq(QueueItem) /\ wire \in Seq(WireItem) /\ Len(wire) <= 1
QueuePart == QueueTypes /\ ErrorStopsMotion /\ PollsAfterSetup /\ HomingStatusFresh
StateTypes ==
  /\ state \in State
  /\ state_age \in Nat /\ recovery_age \in Nat \cup {Never}
FlagTypes ==
  /\ emergency_flag \in BOOLEAN /\ disable_pending \in BOOLEAN /\ homed \in BOOLEAN
  /\ poll_due \in BOOLEAN
CoreTypes == setup_state \in SetupState /\ setup_age \in Nat /\ failed \in BOOLEAN
DelayTypes == delaying \in BOOLEAN /\ pending_callback \in Delayed \cup {"none"}

LEMMA Parts ==
  /\ IInv <=> config \in Configurations /\ QueuePart /\ StateTypes /\ FlagTypes /\ CoreTypes /\ DelayTypes
  /\ IInv' <=> config' \in Configurations /\ QueuePart' /\ StateTypes' /\ FlagTypes' /\ CoreTypes' /\ DelayTypes'
  BY DEF IInv, EngineTypeOK, QueuePart, QueueTypes, StateTypes, FlagTypes, CoreTypes, DelayTypes

\* The end of a request keeps the queue's part if what the callback leaves
\* waiting may wait in the new state.
LEMMA ContinueKeeps ==
  ASSUME NEW p \in Seq(QueueItem), Continue(p, state'),
         state' = "Error" => Motionless(p),
         ~Pollfree(p) => setup_state' = "COMPLETED"
  PROVE QueuePart'
<1>1. QueueTypes' /\ Requests(pending') \subseteq Requests(p)
  BY ContinueEffect DEF QueueTypes
<1>2. ErrorStopsMotion' /\ PollsAfterSetup'
  BY <1>1, RestatedPrimed DEF Motionless, Pollfree
<1>3. HomingStatusFresh'
  BY ContinueEffect DEF HomingStatusFresh
<1> QED BY <1>1, <1>2, <1>3 DEF QueuePart

\* A call keeps it if what it enqueues and what it keeps may wait in the new
\* state, and if it does not enter Homing.
LEMMA EnqueueKeeps ==
  ASSUME IInv, NEW p \in Seq(QueueItem), NEW new \in Seq(QueueItem), NEW s,
         Enqueue(p, new, s), state' = "Homing" => state = "Homing" /\ s = "Homing",
         state' = "Error" => Motionless(p) /\ Motionless(new),
         ~Pollfree(p) \/ ~Pollfree(new) => setup_state' = "COMPLETED"
  PROVE QueuePart' /\ DelayTypes'
<1>1. EngineTypeOK /\ HomingStatusFresh
  BY DEF IInv
<1>2. /\ QueueTypes' /\ Requests(pending') \subseteq Requests(p) \cup Requests(new)
      /\ wire' = wire \/ wire'[1].while_homing = (s = "Homing")
      /\ DelayTypes'
  BY <1>1, EnqueueEffect DEF QueueTypes, DelayTypes, EngineTypeOK
<1>3. ErrorStopsMotion' /\ PollsAfterSetup'
  BY <1>2, RestatedPrimed DEF Motionless, Pollfree
<1>4. HomingStatusFresh'
  BY <1>1, <1>2 DEF HomingStatusFresh
<1> QED BY <1>2, <1>3, <1>4 DEF QueuePart

\* So does a call that finds a delay over, with the state that the notification
\* leaves when the next request is sent.
LEMMA ReleaseKeeps ==
  ASSUME NEW p \in Seq(QueueItem), NEW r \in Request, EnqueueReleases(p, r),
         r \notin PollRequests, state' = "Homing" => Notified = "Homing",
         state' = "Error" => Motionless(p) /\ r \notin MotionRequests,
         ~Pollfree(p) => setup_state' = "COMPLETED"
  PROVE QueuePart' /\ DelayTypes'
<1> DEFINE q == Append(p, Item(r))
<1>1. /\ q \in Seq(QueueItem) /\ Requests(q) = Requests(p) \cup {r}
      /\ Continue(q, Notified)
  BY RequestsAppend DEF EnqueueReleases
<1> HIDE DEF q
<1>2. /\ QueueTypes' /\ Requests(pending') \subseteq Requests(p) \cup {r}
      /\ wire' # <<>> => wire'[1].while_homing = (Notified = "Homing")
  BY <1>1, ContinueEffect DEF QueueTypes
<1>3. ErrorStopsMotion' /\ PollsAfterSetup'
  BY <1>2, RestatedPrimed DEF Motionless, Pollfree
<1>4. HomingStatusFresh' /\ DelayTypes'
  BY <1>2 DEF HomingStatusFresh, EnqueueReleases, DelayTypes
<1> QED BY <1>2, <1>3, <1>4 DEF QueuePart

\* The same call, for what it does to the order.
LEMMA ReleaseContinues ==
  ASSUME NEW p \in Seq(QueueItem), NEW r \in Request, EnqueueReleases(p, r)
  PROVE /\ <<Item(r)>> \in Seq(QueueItem) /\ p \o <<Item(r)>> \in Seq(QueueItem)
        /\ Continue(p \o <<Item(r)>>, Notified)
        /\ pending_callback' = "none" /\ delaying' = FALSE
<1>1. Item(r) \in QueueItem /\ <<Item(r)>> \in Seq(QueueItem)
  BY ItemType, RequestsOne
<1>2. Append(p, Item(r)) = p \o <<Item(r)>> /\ p \o <<Item(r)>> \in Seq(QueueItem)
  BY <1>1
<1> QED BY <1>1, <1>2 DEF EnqueueReleases

\* Entering a state.
LEMMA EnterTypes ==
  ASSUME StateTypes, NEW s \in State, EnterState(s)
  PROVE StateTypes' /\ state' = s
  BY DEF StateTypes, EnterState, Never

\* Entering one after a notification.
LEMMA EnterAfterTypes ==
  ASSUME StateTypes, NEW s \in State, EnterAfterNotified(s)
  PROVE StateTypes' /\ state' = s
  BY DEF StateTypes, EnterAfterNotified, Never

LEMMA NotifiedType == state \in State => Notified \in State /\ Notified \in {state, "Homing"}
  BY DEF Notified, State

\* The sequences of requests that are enqueued.
LEMMA HomeRequestsType ==
  /\ HomeRequests \in Seq(QueueItem)
  /\ Requests(HomeRequests) \subseteq {"go_home"}
<1>1. "go_home" \in Request
  BY DEF Request, UserRequests
<1> QED BY <1>1, RequestsOne, RequestsNone DEF HomeRequests

LEMMA UpdateCommandsType ==
  ASSUME NEW commands \in UpdateCommands, EngineTypeOK
  PROVE /\ commands \in Seq(QueueItem)
        /\ Requests(commands) \subseteq {"write", "write_homing"}
<1>1. PICK writes \in Writes, homing \in HomingWrites : commands = writes \o homing
  BY DEF UpdateCommands
<1>2. "write" \in Request /\ "write_homing" \in Request
  BY DEF Request, SetupRequests
<1>3. PICK n \in 1 .. MaxWrites : writes = [i \in 1 .. n |-> Item("write")]
  BY DEF Writes
<1>4. n \in Nat
  BY EngineAssumption DEF EngineAssumption
<1>5. writes \in Seq(QueueItem) /\ Requests(writes) \subseteq {"write"}
  BY <1>2, <1>3, <1>4, ItemType DEF Requests
<1>6. homing \in Seq(QueueItem) /\ Requests(homing) \subseteq {"write_homing"}
  BY <1>2, RequestsOne, RequestsNone DEF HomingWrites
<1> QED BY <1>1, <1>5, <1>6, RequestsConcat

\* What polling leaves waiting.
LEMMA NewPollType ==
  ASSUME NEW r \in PollRequests, NEW p
  PROVE NewPoll(r, p) \in Seq(QueueItem) /\ Requests(NewPoll(r, p)) \subseteq PollRequests
<1>1. r \in Request
  BY DEF Request
<1>2. NewPoll(r, p) \in {<<Item(r)>>, <<>>}
  BY DEF NewPoll
<1> QED BY <1>1, <1>2, RequestsOne, RequestsNone

LEMMA AddPollsType ==
  ASSUME NEW p \in Seq(QueueItem)
  PROVE /\ AddPolls(p) \in Seq(QueueItem)
        /\ Requests(AddPolls(p)) \subseteq Requests(p) \cup PollRequests
<1> DEFINE more == [i \in DOMAIN p |-> IF FirstStatusRead(p, i) /\ p[i].polls < PollCap
                                         THEN [p[i] EXCEPT !.polls = @ + 1] ELSE p[i]]
           q1 == NewPoll("poll_encoder_position", p)
           q2 == NewPoll("poll_motor_speed", p)
           q3 == NewPoll("poll_motor_status", p)
<1>1. ASSUME NEW i \in DOMAIN p
      PROVE more[i] \in QueueItem /\ more[i].request = p[i].request
  <2>1. p[i] \in QueueItem
    BY ElementType
  <2> QED BY <2>1 DEF QueueItem, PollCap
<1>2. more \in Seq(QueueItem)
  BY <1>1
<1>3. Requests(more) \subseteq Requests(p)
  BY <1>1 DEF Requests
<1>4. /\ q1 \in Seq(QueueItem) /\ Requests(q1) \subseteq PollRequests
      /\ q2 \in Seq(QueueItem) /\ Requests(q2) \subseteq PollRequests
      /\ q3 \in Seq(QueueItem) /\ Requests(q3) \subseteq PollRequests
  BY NewPollType DEF PollRequests
<1>5. AddPolls(p) = ((more \o q1) \o q2) \o q3
  BY DEF AddPolls
<1> HIDE DEF more, q1, q2, q3
<1>6. more \o q1 \in Seq(QueueItem) /\ Requests(more \o q1) \subseteq Requests(p) \cup PollRequests
  BY <1>2, <1>3, <1>4, RequestsConcat
<1>7. /\ (more \o q1) \o q2 \in Seq(QueueItem)
      /\ Requests((more \o q1) \o q2) \subseteq Requests(p) \cup PollRequests
  BY <1>4, <1>6, RequestsConcat
<1>8. /\ ((more \o q1) \o q2) \o q3 \in Seq(QueueItem)
      /\ Requests(((more \o q1) \o q2) \o q3) = Requests((more \o q1) \o q2) \cup Requests(q3)
  BY <1>4, <1>7, RequestsConcat
<1> QED BY <1>4, <1>5, <1>7, <1>8

LEMMA PolledType ==
  ASSUME NEW p \in Seq(QueueItem)
  PROVE /\ Polled(p) \in Seq(QueueItem)
        /\ Requests(Polled(p)) \subseteq Requests(p) \cup PollRequests
        /\ setup_state # "COMPLETED" => Polled(p) = p
  BY AddPollsType DEF Polled

\* What the invariant says of the requests that wait, and of those that
\* are kept when a state is entered.
LEMMA WaitingNow ==
  ASSUME IInv
  PROVE /\ pending \in Seq(QueueItem)
        /\ state = "Error" => Motionless(pending)
        /\ ~Pollfree(pending) => setup_state = "COMPLETED"
  BY Restated DEF IInv, EngineTypeOK

LEMMA KeptNow ==
  ASSUME IInv, NEW s
  PROVE /\ Kept(s) \in Seq(QueueItem)
        /\ s = "Error" => Motionless(Kept(s))
        /\ ~Pollfree(Kept(s)) => setup_state = "COMPLETED"
  BY WaitingNow, RequestsNone DEF Kept, Motionless, Pollfree

\* The requests that callbacks enqueue are neither motions nor polls.
LEMMA Harmless ==
  ASSUME NEW p, Requests(p) \subseteq SetupRequests \cup RecoveryRequests \cup {"go_home"}
  PROVE Motionless(p) /\ Pollfree(p)
  BY DEF Motionless, Pollfree, SetupRequests, RecoveryRequests, MotionRequests, PollRequests

\* What waits when p was extended by requests that are neither.
LEMMA ExtendedNow ==
  ASSUME NEW p \in Seq(QueueItem), NEW q \in Seq(QueueItem), Motionless(q), Pollfree(q)
  PROVE /\ p \o q \in Seq(QueueItem)
        /\ Motionless(p) => Motionless(p \o q)
        /\ Pollfree(p) => Pollfree(p \o q)
  BY RequestsConcat DEF Motionless, Pollfree

\* Clearing and an empty queue.
LEMMA EmptyNow == <<>> \in Seq(QueueItem) /\ Motionless(<<>>) /\ Pollfree(<<>>)
  BY RequestsNone DEF Motionless, Pollfree

\* The delay after a request that succeeds or fails.
LEMMA EndTypes ==
  ASSUME DelayTypes, NEW r, Succeeds(r) \/ Fails(r)
  PROVE DelayTypes'
  BY DEF DelayTypes, Succeeds, Fails

\* The state after a status was processed.
LEMMA StatusTypes ==
  ASSUME StateTypes, FlagTypes, NEW s \in State, NEW status, ProcessStatus(s, status)
  PROVE /\ StateTypes' /\ homed' \in BOOLEAN
        /\ state' = "Error" => s = "Error"
<1>1. ASSUME NEW t \in State
      PROVE StateAfter(t, status) \in State /\ (StateAfter(t, status) = "Error" => t = "Error")
  BY DEF StateAfter, State
<1> DEFINE once == IF wire[1].polls > 0 THEN StateAfter(s, status) ELSE s
           twice == IF wire[1].polls > 1 THEN StateAfter(once, status) ELSE once
<1>2. once \in State /\ (once = "Error" => s = "Error")
  BY <1>1
<1>3. twice \in State /\ (twice = "Error" => s = "Error")
  BY <1>1, <1>2
<1>4. EnterState(twice) /\ homed' = (homed \/ (wire[1].polls > 0 /\ status = "STOP" /\ s = "Homing"))
  BY DEF ProcessStatus
<1> HIDE DEF twice
<1>5. StateTypes' /\ state' = twice
  BY <1>3, <1>4, EnterTypes
<1> QED BY <1>3, <1>4, <1>5 DEF FlagTypes

-----------------------------------------------------------------------------
(* The ends of requests.                                                   *)

\* Callbacks that leave the state alone.
LEMMA QuietEnds ==
  ASSUME IInv, UNCHANGED config, SuccessDeferred \/ DelayOver \/ EndsUnheeded
  PROVE IInv'
<1>1. /\ config \in Configurations /\ StateTypes /\ FlagTypes /\ CoreTypes /\ DelayTypes
      /\ QueuePart
  BY Parts
<1>2. UNCHANGED <<config, stateVars, flagVars, poll_due, coreVars>>
  BY DEF SuccessDeferred, DelayOver, EndsUnheeded
<1>3. config' \in Configurations /\ StateTypes' /\ FlagTypes' /\ CoreTypes'
  BY <1>1, <1>2 DEF stateVars, flagVars, coreVars, StateTypes, FlagTypes, CoreTypes
<1>4. CASE SuccessDeferred
  <2>1. wire' = <<>> /\ pending' = pending /\ DelayTypes'
    BY <1>4 DEF SuccessDeferred, DelayTypes
  <2>2. QueueTypes' /\ HomingStatusFresh'
    BY <1>1, <2>1 DEF QueuePart, QueueTypes, HomingStatusFresh
  <2>3. ErrorStopsMotion' /\ PollsAfterSetup'
    BY <1>1, <1>2, <2>1, Restated, RestatedPrimed DEF QueuePart, stateVars, coreVars
  <2> QED BY <1>3, <2>1, <2>2, <2>3, Parts DEF QueuePart
<1>5. CASE DelayOver \/ EndsUnheeded
  <2>1. Continue(pending, state') /\ state' = state /\ setup_state' = setup_state
    BY <1>2, <1>5 DEF DelayOver, EndsUnheeded, stateVars, coreVars
  <2>2. DelayTypes'
    <3>1. CASE DelayOver
      BY <1>1, <3>1 DEF DelayOver, DelayTypes
    <3>2. CASE EndsUnheeded
      BY <1>1, <3>2, EndTypes DEF EndsUnheeded
    <3> QED BY <1>5, <3>1, <3>2
  <2>3. QueuePart'
    BY <2>1, WaitingNow, ContinueKeeps
  <2> QED BY <1>3, <2>2, <2>3, Parts
<1> QED BY <1>4, <1>5

\* Callbacks that end in Error with an empty queue.
LEMMA FailingEnds ==
  ASSUME IInv, UNCHANGED config, ReadAllConfigFails \/ WriteFails \/ SetupDoneFails
  PROVE IInv'
<1>1. StateTypes /\ FlagTypes /\ CoreTypes /\ DelayTypes /\ config \in Configurations
  BY Parts
<1>2. /\ EnterState("Error") /\ Continue(<<>>, "Error")
      /\ UNCHANGED <<flagVars, poll_due, setup_age>> /\ failed' = TRUE
      /\ setup_state' \in {setup_state, "FAILED"}
      /\ \E r \in Request : Fails(r)
  BY DEF ReadAllConfigFails, WriteFails, SetupDoneFails, Request, SetupRequests
<1>3. StateTypes' /\ state' = "Error"
  BY <1>1, <1>2, EnterTypes DEF State
<1>4. FlagTypes' /\ CoreTypes' /\ DelayTypes'
  BY <1>1, <1>2, EndTypes DEF FlagTypes, CoreTypes, flagVars, SetupState
<1>5. QueuePart'
  BY <1>2, <1>3, EmptyNow, ContinueKeeps
<1> QED BY <1>1, <1>3, <1>4, <1>5, Parts

\* Callbacks of the configuration, which enqueue and leave the state alone.
LEMMA ConfigEnds ==
  ASSUME IInv, UNCHANGED config, ReadAllConfigSucceeds \/ WriteHomingSucceeds
  PROVE IInv'
<1>1. StateTypes /\ FlagTypes /\ CoreTypes /\ DelayTypes /\ config \in Configurations /\ EngineTypeOK
  BY Parts DEF IInv
<1>2. /\ UNCHANGED <<stateVars, flagVars, poll_due, coreVars>>
      /\ \E r \in Request : Succeeds(r)
  BY DEF ReadAllConfigSucceeds, WriteHomingSucceeds, Request, SetupRequests
<1>3. StateTypes' /\ FlagTypes' /\ CoreTypes' /\ DelayTypes' /\ state' = state
  BY <1>1, <1>2, EndTypes
     DEF StateTypes, FlagTypes, CoreTypes, stateVars, flagVars, coreVars
<1>4. PICK q \in Seq(QueueItem) :
        Continue(pending \o q, state) /\ Requests(q) \subseteq SetupRequests
  <2>0. "setup_done" \in Request /\ "setup_go_home" \in Request
    BY DEF Request, SetupRequests
  <2>1. CASE ReadAllConfigSucceeds
    <3>1. PICK commands \in UpdateCommands :
            Continue(Append(pending \o commands, Item("setup_done")), state)
      BY <2>1 DEF ReadAllConfigSucceeds
    <3>2. /\ commands \in Seq(QueueItem)
          /\ Requests(commands) \subseteq {"write", "write_homing"}
      BY <1>1, UpdateCommandsType
    <3>3. Append(pending \o commands, Item("setup_done"))
            = pending \o Append(commands, Item("setup_done"))
      BY <2>0, <3>2, WaitingNow, ItemType
    <3>4. /\ Append(commands, Item("setup_done")) \in Seq(QueueItem)
          /\ Requests(Append(commands, Item("setup_done"))) \subseteq SetupRequests
      BY <2>0, <3>2, RequestsAppend DEF SetupRequests
    <3> QED BY <3>1, <3>3, <3>4
  <2>2. CASE WriteHomingSucceeds
    <3>1. Continue(Append(pending, Item("setup_go_home")), state)
      BY <2>2 DEF WriteHomingSucceeds
    <3>2. Append(pending, Item("setup_go_home")) = pending \o <<Item("setup_go_home")>>
      BY <2>0, WaitingNow, ItemType
    <3>3. /\ <<Item("setup_go_home")>> \in Seq(QueueItem)
          /\ Requests(<<Item("setup_go_home")>>) \subseteq SetupRequests
      BY <2>0, RequestsOne DEF SetupRequests
    <3> QED BY <3>1, <3>2, <3>3
  <2> QED BY <2>1, <2>2
<1>5. Motionless(q) /\ Pollfree(q)
  BY <1>4, Harmless
<1>6. /\ pending \o q \in Seq(QueueItem)
      /\ Motionless(pending) => Motionless(pending \o q)
      /\ Pollfree(pending) => Pollfree(pending \o q)
  BY <1>5, ExtendedNow, WaitingNow
<1>7. QueuePart'
  BY <1>2, <1>3, <1>4, <1>6, WaitingNow, ContinueKeeps DEF coreVars
<1> QED BY <1>1, <1>3, <1>7, Parts

\* Callbacks that enter a state, and the clearing that comes with Error.
LEMMA EnteringEnds ==
  ASSUME IInv, UNCHANGED config, GoHomeSucceeds \/ GoHomeFails \/ CalibrateFails \/ MoveSucceeds
  PROVE IInv'
<1>1. StateTypes /\ FlagTypes /\ CoreTypes /\ DelayTypes /\ config \in Configurations
  BY Parts
<1>2. PICK s \in {"Homing", "Error", "Moving"} : GoTo(s)
  BY DEF GoHomeSucceeds, GoHomeFails, CalibrateFails, MoveSucceeds
<1>3. /\ UNCHANGED <<flagVars, poll_due, setup_state, setup_age>>
      /\ \E r \in Request : Succeeds(r) \/ Fails(r)
  BY DEF GoHomeSucceeds, GoHomeFails, CalibrateFails, MoveSucceeds, Request, UserRequests, SetupRequests
<1>4. EnterState(s) /\ Continue(Kept(s), s) /\ failed' \in BOOLEAN
  BY <1>1, <1>2 DEF GoTo, MarkFailed, CoreTypes, Waiting
<1>5. StateTypes' /\ state' = s
  BY <1>1, <1>4, EnterTypes DEF State
<1>6. FlagTypes' /\ CoreTypes' /\ DelayTypes'
  BY <1>1, <1>3, <1>4, EndTypes DEF FlagTypes, CoreTypes, flagVars
<1>7. QueuePart'
  BY <1>3, <1>4, <1>5, KeptNow, ContinueKeeps
<1> QED BY <1>1, <1>5, <1>6, <1>7, Parts

\* Callbacks that process the status that was read.
LEMMA StatusEnds ==
  ASSUME IInv, UNCHANGED config, SetupDoneSucceeds \/ StatusPolled \/ RecoveryStatusSucceeds
  PROVE IInv'
<1>1. StateTypes /\ FlagTypes /\ CoreTypes /\ DelayTypes /\ config \in Configurations
  BY Parts
<1> DEFINE More == {<<>>, HomeRequests, <<Item("recovery_release")>>}
<1>2. PICK s \in State, status \in MotorStatus : ProcessStatus(s, status) /\ (s = "Error" => state = "Error")
  <2>1. CASE SetupDoneSucceeds
    <3>1. PICK s \in {"Idle", state}, status \in MotorStatus : ProcessStatus(s, status)
      BY <2>1 DEF SetupDoneSucceeds
    <3>2. s \in State /\ (s = "Error" => state = "Error")
      BY <1>1 DEF StateTypes, State
    <3> QED BY <3>1, <3>2
  <2>2. CASE StatusPolled \/ RecoveryStatusSucceeds
    <3>1. state \in State /\ \E status \in MotorStatus : ProcessStatus(state, status)
      BY <1>1, <2>2 DEF StatusPolled, RecoveryStatusSucceeds, StateTypes
    <3> QED BY <3>1
  <2> QED BY <2>1, <2>2
<1>3. PICK q \in More : Continue(pending \o q, state')
  <2>0. pending \o <<>> = pending
    BY WaitingNow
  <2>1. Append(pending, Item("recovery_release")) = pending \o <<Item("recovery_release")>>
    BY WaitingNow, ItemType DEF Request, RecoveryRequests
  <2>2. \/ Continue(pending, state')
        \/ Continue(pending \o HomeRequests, state')
        \/ Continue(Append(pending, Item("recovery_release")), state')
    BY DEF SetupDoneSucceeds, StatusPolled, RecoveryStatusSucceeds
  <2> QED BY <2>0, <2>1, <2>2
<1>4. setup_state' = setup_state \/ setup_state' = "COMPLETED"
  BY DEF SetupDoneSucceeds, StatusPolled, RecoveryStatusSucceeds, coreVars
<1>5. q \in Seq(QueueItem) /\ Motionless(q) /\ Pollfree(q)
  <2>1. "recovery_release" \in Request
    BY DEF Request, RecoveryRequests
  <2>2. q \in Seq(QueueItem) /\ Requests(q) \subseteq {"go_home", "recovery_release"}
    BY <1>3, <2>1, RequestsOne, RequestsNone, HomeRequestsType
  <2> QED BY <2>2, Harmless DEF RecoveryRequests
<1>6. /\ pending \o q \in Seq(QueueItem)
      /\ Motionless(pending) => Motionless(pending \o q)
      /\ Pollfree(pending) => Pollfree(pending \o q)
  BY <1>5, ExtendedNow, WaitingNow
<1>7. StateTypes' /\ homed' \in BOOLEAN /\ (state' = "Error" => state = "Error")
  BY <1>1, <1>2, StatusTypes
<1>8. QueuePart'
  BY <1>3, <1>4, <1>6, <1>7, WaitingNow, ContinueKeeps
<1>9. FlagTypes' /\ CoreTypes'
  BY <1>1, <1>4, <1>7
     DEF SetupDoneSucceeds, StatusPolled, RecoveryStatusSucceeds, FlagTypes, CoreTypes, coreVars,
         SetupState
<1>10. DelayTypes'
  BY <1>1, EndTypes DEF SetupDoneSucceeds, StatusPolled, RecoveryStatusSucceeds
<1> QED BY <1>1, <1>7, <1>8, <1>9, <1>10, Parts

LEMMA ReleaseEnds ==
  ASSUME IInv, UNCHANGED config, RecoveryReleaseSucceeds
  PROVE IInv'
<1>1. StateTypes /\ FlagTypes /\ CoreTypes /\ DelayTypes /\ config \in Configurations
  BY Parts
<1>2. /\ EnterState("Idle") /\ UNCHANGED <<flagVars, poll_due, coreVars>>
      /\ Succeeds("recovery_release")
      /\ \/ Continue(pending \o HomeRequests, "Idle")
         \/ Continue(pending, "Idle")
  BY DEF RecoveryReleaseSucceeds
<1>3. StateTypes' /\ state' = "Idle"
  BY <1>1, <1>2, EnterTypes DEF State
<1>4. FlagTypes' /\ CoreTypes' /\ DelayTypes'
  BY <1>1, <1>2, EndTypes DEF FlagTypes, CoreTypes, flagVars, coreVars
<1>5. /\ pending \o HomeRequests \in Seq(QueueItem)
      /\ Pollfree(pending) => Pollfree(pending \o HomeRequests)
  BY HomeRequestsType, Harmless, ExtendedNow, WaitingNow
<1>6. QueuePart'
  BY <1>2, <1>3, <1>5, WaitingNow, ContinueKeeps DEF coreVars
<1> QED BY <1>1, <1>3, <1>4, <1>6, Parts

-----------------------------------------------------------------------------
(* Calls.                                                                  *)

\* The calls that enqueue one request, and the states that they enter.
LEMMA CallsIssue ==
  ASSUME state \in State,
         \/ MoveTo \/ Stop \/ Home \/ RunContinuous \/ Enable \/ Disable
         \/ ReleaseProtection \/ Calibrate \/ SetZero \/ KeyLock
  PROVE \E r \in UserRequests, s \in State, t \in State :
          /\ IssueTo(r, s, t)
          /\ s \in {"Homing", "Error"} => s = state
          /\ t \in {"Homing", "Error"} => t = Notified
          /\ s = "Error" \/ t = "Error" => r \in {"go_home", "key_lock"}
          /\ s = "SettingUp" => state = "SettingUp"
          /\ t = "SettingUp" => Notified = "SettingUp"
<1>1. {"move", "stop", "go_home", "run", "enable", "disable", "release", "calibrate",
       "set_zero", "key_lock"} \subseteq UserRequests
  BY DEF UserRequests
<1>2. {"Stopping", "Running", "Idle", "Disabled", "Calibrating", "Homing"} \subseteq State
  BY DEF State
<1>3. Notified \in State /\ Notified \in {state, "Homing"}
  BY NotifiedType
<1>4. CASE MoveTo \/ SetZero
  BY <1>1, <1>2, <1>3, <1>4 DEF MoveTo, SetZero, Ask
<1>5. CASE Home
  BY <1>1, <1>3, <1>5 DEF Home, Ask
<1>6. CASE KeyLock
  BY <1>1, <1>3, <1>6 DEF KeyLock, Ask
<1>7. CASE Stop
  BY <1>1, <1>2, <1>7 DEF Stop, Issue
<1>8. CASE RunContinuous
  BY <1>1, <1>2, <1>8 DEF RunContinuous, Issue
<1>9. CASE Enable
  BY <1>1, <1>2, <1>9 DEF Enable, Issue
<1>10. CASE Calibrate
  BY <1>1, <1>2, <1>10 DEF Calibrate, Issue
<1>11. CASE Disable
  BY <1>1, <1>2, <1>11 DEF Disable, Issue
<1>12. CASE ReleaseProtection
  <2>1. IssueTo("release", Released(state), Released(Notified))
    BY <1>12 DEF ReleaseProtection
  <2>2. /\ Released(state) \in State \ {"Error"} /\ Released(Notified) \in State \ {"Error"}
        /\ Released(state) \in {"Homing", "SettingUp"} => Released(state) = state
        /\ Released(Notified) \in {"Homing", "SettingUp"} => Released(Notified) = Notified
    BY <1>2, <1>3 DEF Released
  <2> QED BY <1>1, <2>1, <2>2
<1> QED BY <1>4, <1>5, <1>6, <1>7, <1>8, <1>9, <1>10, <1>11, <1>12

\* Calls that enqueue one request and do not enter Error or Homing.
LEMMA IssuingCalls ==
  ASSUME IInv, UNCHANGED config,
         \/ MoveTo \/ Stop \/ Home \/ RunContinuous \/ Enable \/ Disable
         \/ ReleaseProtection \/ Calibrate \/ SetZero \/ KeyLock
  PROVE IInv'
<1>1. StateTypes /\ FlagTypes /\ CoreTypes /\ config \in Configurations
  BY Parts
<1>2. PICK r \in UserRequests, s \in State, t \in State :
        /\ IssueTo(r, s, t)
        /\ s \in {"Homing", "Error"} => s = state
        /\ t \in {"Homing", "Error"} => t = Notified
        /\ s = "Error" \/ t = "Error" => r \in {"go_home", "key_lock"}
  BY <1>1, CallsIssue DEF StateTypes
<1>3. UNCHANGED <<homed, poll_due, coreVars>>
  BY <1>2 DEF IssueTo
<1>4. CoreTypes'
  BY <1>1, <1>3 DEF CoreTypes, coreVars
<1>5. emergency_flag' \in BOOLEAN /\ disable_pending' \in BOOLEAN
  BY <1>1 DEF FlagTypes, MoveTo, Stop, Home, RunContinuous, Enable, Disable, ReleaseProtection,
              Calibrate, SetZero, KeyLock
<1>6. FlagTypes'
  BY <1>1, <1>3, <1>5 DEF FlagTypes
<1>7. r \in Request \ PollRequests
  BY DEF Request, PollRequests, UserRequests
<1>8. CASE Enqueue(pending, <<Item(r)>>, state) /\ EnterState(s)
  <2>1. StateTypes' /\ state' = s
    BY <1>1, <1>8, EnterTypes
  <2>2. /\ <<Item(r)>> \in Seq(QueueItem) /\ Pollfree(<<Item(r)>>)
        /\ s = "Error" => Motionless(<<Item(r)>>)
    <3>1. <<Item(r)>> \in Seq(QueueItem) /\ Requests(<<Item(r)>>) = {r}
      BY RequestsOne DEF Request
    <3> QED BY <1>2, <3>1 DEF Pollfree, Motionless, PollRequests, UserRequests, MotionRequests
  <2>3. QueuePart' /\ DelayTypes'
    BY <1>2, <1>3, <1>8, <2>1, <2>2, WaitingNow, EnqueueKeeps DEF coreVars
  <2> QED BY <1>1, <1>4, <1>6, <2>1, <2>3, Parts
<1>9. CASE EnqueueReleases(pending, r) /\ EnterAfterNotified(t)
  <2>1. StateTypes' /\ state' = t
    BY <1>1, <1>9, EnterAfterTypes
  <2>2. t = "Error" => state = "Error" /\ r \notin MotionRequests
    BY <1>2 DEF Notified, MotionRequests
  <2>3. QueuePart' /\ DelayTypes'
    BY <1>2, <1>3, <1>7, <1>9, <2>1, <2>2, WaitingNow, ReleaseKeeps DEF coreVars
  <2> QED BY <1>1, <1>4, <1>6, <2>1, <2>3, Parts
<1> QED BY <1>2, <1>8, <1>9 DEF IssueTo

LEMMA ReconfigureCall ==
  ASSUME IInv, UNCHANGED config, Reconfigure
  PROVE IInv'
<1> DEFINE new == <<Item("setup_restart"), Item("read_all_config")>>
<1>1. StateTypes /\ FlagTypes /\ CoreTypes /\ config \in Configurations
  BY Parts
<1>2. /\ EnterState("SettingUp") /\ Enqueue(pending, new, state)
      /\ UNCHANGED <<flagVars, poll_due, coreVars>>
  BY DEF Reconfigure
<1>3. StateTypes' /\ state' = "SettingUp"
  BY <1>1, <1>2, EnterTypes DEF State
<1>4. new \in Seq(QueueItem) /\ Motionless(new) /\ Pollfree(new)
  <2>1. "setup_restart" \in Request /\ "read_all_config" \in Request
    BY DEF Request, SetupRequests
  <2>2. new \in Seq(QueueItem) /\ Requests(new) \subseteq {"setup_restart", "read_all_config"}
    BY <2>1, ItemType DEF Requests
  <2> QED BY <2>2, Harmless DEF SetupRequests
<1> HIDE DEF new
<1>5. QueuePart' /\ DelayTypes'
  BY <1>2, <1>3, <1>4, WaitingNow, EnqueueKeeps DEF coreVars
<1>6. FlagTypes' /\ CoreTypes'
  BY <1>1, <1>2 DEF FlagTypes, CoreTypes, flagVars, coreVars
<1> QED BY <1>1, <1>3, <1>5, <1>6, Parts

\* What the callbacks of a cleared queue do to the core.
LEMMA ClearTypes ==
  ASSUME CoreTypes, ClearCallbacks
  PROVE CoreTypes'
  BY DEF CoreTypes, ClearCallbacks, SetupState, Waiting, FirstAbort

LEMMA ClearingCalls ==
  ASSUME IInv, UNCHANGED config, EmergencyStop \/ Restart
  PROVE IInv'
<1>1. StateTypes /\ FlagTypes /\ CoreTypes /\ DelayTypes /\ config \in Configurations /\ QueueTypes
  BY Parts DEF QueuePart
<1>2. FlagTypes' /\ CoreTypes'
  BY <1>1, ClearTypes DEF EmergencyStop, Restart, FlagTypes
<1>3. PICK s \in {"Error", "Idle"} : EnterState(s) \/ EnterAfterNotified(s)
  BY DEF EmergencyStop, Restart
<1>4. StateTypes' /\ state' = s
  BY <1>1, <1>3, EnterTypes, EnterAfterTypes DEF State
<1>5. ASSUME NEW r \in {"emergency_stop", "restart"}, Enqueue(<<>>, <<Item(r)>>, state)
      PROVE QueuePart' /\ DelayTypes'
  <2>1. <<Item(r)>> \in Seq(QueueItem) /\ Requests(<<Item(r)>>) = {r}
    BY RequestsOne DEF Request, UserRequests
  <2>2. Motionless(<<Item(r)>>) /\ Pollfree(<<Item(r)>>)
    BY <2>1 DEF Motionless, Pollfree, MotionRequests, PollRequests
  <2> QED BY <1>4, <1>5, <2>1, <2>2, EmptyNow, EnqueueKeeps
<1>6. CASE pending' = <<>> /\ UNCHANGED <<wire, pending_callback, delaying>>
  <2>1. QueueTypes' /\ DelayTypes'
    BY <1>1, <1>6, EmptyNow DEF QueueTypes, DelayTypes
  <2>2. ErrorStopsMotion' /\ PollsAfterSetup' /\ HomingStatusFresh'
    BY <1>4, <1>6, EmptyNow, RestatedPrimed DEF HomingStatusFresh
  <2> QED BY <1>1, <1>2, <1>4, <2>1, <2>2, Parts DEF QueuePart
<1>7. CASE ~(pending' = <<>> /\ UNCHANGED <<wire, pending_callback, delaying>>)
  <2>0. ASSUME NEW r \in {"emergency_stop", "restart"}, EnqueueReleases(<<>>, r)
        PROVE QueuePart' /\ DelayTypes'
    <3>1. r \in Request \ PollRequests /\ r \notin MotionRequests
      BY DEF Request, UserRequests, PollRequests, MotionRequests
    <3> QED BY <1>4, <2>0, <3>1, EmptyNow, ReleaseKeeps
  <2>1. QueuePart' /\ DelayTypes'
    BY <1>5, <1>7, <2>0 DEF EmergencyStop, Restart
  <2> QED BY <1>1, <1>2, <1>4, <2>1, Parts
<1> QED BY <1>6, <1>7

-----------------------------------------------------------------------------
(* The main loop and the clock.                                            *)

LEMMA UpdateStep ==
  ASSUME IInv, UNCHANGED config, Update
  PROVE IInv'
<1> DEFINE kept == Kept(StateInTime)
           s == IF DisablesNow THEN "Disabled" ELSE StateInTime
           recovery == IF RecoveryDue THEN <<Item("recovery_status")>> ELSE <<>>
           disabling == IF DisablesNow THEN <<Item("disable")>> ELSE <<>>
           own == recovery \o disabling
<1>1. StateTypes /\ FlagTypes /\ CoreTypes /\ DelayTypes /\ QueuePart /\ config \in Configurations
  BY Parts
<1>2. /\ IF QueueFree(kept)
           THEN Enqueue(kept, own \o Polled(<<>>), s)
           ELSE pending' = Polled(kept \o own) /\ UNCHANGED <<wire, pending_callback, delaying>>
      /\ state' = s
      /\ state_age' = (IF s = state THEN state_age ELSE 0)
      /\ recovery_age' = (IF RecoveryDue THEN 0 ELSE recovery_age)
      /\ MarkFailed(SetupOverdue, kept)
      /\ disable_pending' = (disable_pending /\ ~DisablesNow)
      /\ poll_due' = FALSE
      /\ setup_state' = (IF SetupOverdue THEN "FAILED" ELSE setup_state)
      /\ UNCHANGED <<emergency_flag, homed, setup_age>>
  BY DEF Update
<1>3. /\ s \in State
      /\ s = "Error" => StateInTime = "Error"
      /\ s = "Homing" => state = "Homing"
  BY <1>1 DEF StateInTime, StateTypes, State
<1>4. StateTypes'
  BY <1>1, <1>2, <1>3 DEF StateTypes
<1>5. FlagTypes' /\ CoreTypes'
  BY <1>1, <1>2 DEF FlagTypes, CoreTypes, MarkFailed, Waiting, SetupState, SetupOverdue
<1>6. setup_state = "COMPLETED" => setup_state' = "COMPLETED"
  BY <1>2 DEF SetupOverdue
<1>7. /\ kept \in Seq(QueueItem)
      /\ s = "Error" => Motionless(kept)
      /\ ~Pollfree(kept) => setup_state = "COMPLETED"
  BY <1>3, KeptNow
<1>8. own \in Seq(QueueItem) /\ Motionless(own) /\ Pollfree(own)
  <2>1. "recovery_status" \in Request /\ "disable" \in Request
    BY DEF Request, RecoveryRequests, UserRequests
  <2>2. /\ recovery \in Seq(QueueItem) /\ Requests(recovery) \subseteq {"recovery_status"}
        /\ disabling \in Seq(QueueItem) /\ Requests(disabling) \subseteq {"disable"}
    BY <2>1, RequestsOne, RequestsNone
  <2> HIDE DEF recovery, disabling
  <2>3. own \in Seq(QueueItem) /\ Requests(own) \subseteq {"recovery_status", "disable"}
    BY <2>2, RequestsConcat
  <2> QED BY <2>3 DEF Motionless, Pollfree, MotionRequests, PollRequests
<1> HIDE DEF kept, s, own
<1>9. ASSUME NEW p \in Seq(QueueItem)
      PROVE /\ Polled(p) \in Seq(QueueItem)
            /\ Motionless(p) => Motionless(Polled(p))
            /\ Pollfree(p) /\ ~Pollfree(Polled(p)) => setup_state = "COMPLETED"
  BY PolledType DEF Motionless, Pollfree, MotionRequests, PollRequests
<1>10. CASE QueueFree(kept)
  <2> DEFINE q == Polled(<<>>)
  <2>1. /\ q \in Seq(QueueItem) /\ Motionless(q)
        /\ ~Pollfree(q) => setup_state = "COMPLETED"
    BY <1>9, EmptyNow
  <2> HIDE DEF q
  <2>2. /\ own \o q \in Seq(QueueItem) /\ Motionless(own \o q)
        /\ ~Pollfree(own \o q) => setup_state = "COMPLETED"
    BY <1>8, <2>1, RequestsConcat DEF Motionless, Pollfree
  <2>3. Enqueue(kept, own \o q, s)
    BY <1>2, <1>10 DEF q
  <2>4. QueuePart' /\ DelayTypes'
    BY <1>2, <1>3, <1>6, <1>7, <2>2, <2>3, EnqueueKeeps
  <2> QED BY <1>1, <1>4, <1>5, <2>4, Parts
<1>11. CASE ~QueueFree(kept)
  <2>1. /\ kept \o own \in Seq(QueueItem)
        /\ Motionless(kept) => Motionless(kept \o own)
        /\ Pollfree(kept) => Pollfree(kept \o own)
    BY <1>7, <1>8, ExtendedNow
  <2>2. pending' = Polled(kept \o own) /\ UNCHANGED <<wire, pending_callback, delaying>>
    BY <1>2, <1>11
  <2>3. /\ pending' \in Seq(QueueItem)
        /\ s = "Error" => Motionless(pending')
        /\ ~Pollfree(pending') => setup_state = "COMPLETED"
    BY <1>7, <1>9, <2>1, <2>2
  <2>4. QueueTypes' /\ DelayTypes'
    BY <1>1, <2>2, <2>3 DEF QueuePart, QueueTypes, DelayTypes
  <2>5. ErrorStopsMotion' /\ PollsAfterSetup'
    BY <1>2, <1>6, <2>3, RestatedPrimed
  <2>6. HomingStatusFresh'
    BY <1>1, <1>2, <1>3, <2>2 DEF QueuePart, HomingStatusFresh
  <2> QED BY <1>1, <1>4, <1>5, <2>4, <2>5, <2>6, Parts DEF QueuePart
<1> QED BY <1>10, <1>11

LEMMA TickStep ==
  ASSUME IInv, UNCHANGED config, Tick
  PROVE IInv'
<1>1. ASSUME NEW age \in Nat PROVE Older(age) \in Nat
  BY DEF Older
<1>2. EngineTypeOK'
  BY <1>1 DEF IInv, EngineTypeOK, Tick, flagVars, queueVars, Never
<1>3. UNCHANGED <<state, setup_state, pending, wire>>
  BY DEF Tick, queueVars
<1>4. ErrorStopsMotion' /\ PollsAfterSetup' /\ HomingStatusFresh'
  BY <1>3, Restated, RestatedPrimed DEF IInv, HomingStatusFresh
<1> QED BY <1>2, <1>4 DEF IInv

-----------------------------------------------------------------------------
(* The theorems.                                                           *)

LEMMA Initially == Init => IInv
<1> SUFFICES ASSUME Init PROVE IInv
  OBVIOUS
<1>1. "setup_restart" \in Request /\ "read_all_config" \in Request
  BY DEF Request, SetupRequests
<1>2. pending \in Seq(QueueItem) /\ Requests(pending) = {"read_all_config"}
  BY <1>1, RequestsOne DEF Init
<1>3. wire \in Seq(WireItem) /\ Len(wire) = 1
  BY <1>1, ItemType, SentType DEF Init
<1>4. EngineTypeOK
  <2>1. /\ config \in Configurations /\ StateTypes /\ FlagTypes /\ CoreTypes /\ DelayTypes
    BY DEF Init, StateTypes, FlagTypes, CoreTypes, DelayTypes, State, SetupState
  <2> QED BY <1>2, <1>3, <2>1 DEF EngineTypeOK, StateTypes, FlagTypes, CoreTypes, DelayTypes
<1>5. ErrorStopsMotion /\ PollsAfterSetup /\ HomingStatusFresh
  BY <1>2, Restated DEF Init, HomingStatusFresh, Pollfree, PollRequests
<1> QED BY <1>4, <1>5 DEF IInv

LEMMA Inductive == IInv /\ [Next]_vars => IInv'
<1> SUFFICES ASSUME IInv, [Next]_vars PROVE IInv'
  OBVIOUS
<1>1. CASE UNCHANGED vars
  BY <1>1 DEF vars, stateVars, flagVars, coreVars, queueVars, IInv, EngineTypeOK,
              ErrorStopsMotion, PollsAfterSetup, HomingStatusFresh, Waiting
<1>2. CASE Call /\ UNCHANGED config
  BY <1>2, IssuingCalls, ReconfigureCall, ClearingCalls DEF Call
<1>3. CASE Update /\ UNCHANGED config
  BY <1>3, UpdateStep
<1>4. CASE Tick /\ UNCHANGED config
  BY <1>4, TickStep
<1>5. CASE RequestEnds /\ UNCHANGED config
  BY <1>5, QuietEnds, FailingEnds, ConfigEnds, EnteringEnds, StatusEnds, ReleaseEnds
     DEF RequestEnds
<1> QED BY <1>1, <1>2, <1>3, <1>4, <1>5 DEF Next

\* The four invariants hold together, for any configurations, limits and
\* bounds.
THEOREM EngineInvariance == Spec => []IInv
  BY Initially, Inductive, PTL DEF Spec

\* Every variable of the engine, its queue and the core keeps its type.
THEOREM EngineTypeCorrectness == Spec => []EngineTypeOK
<1>1. IInv => EngineTypeOK
  BY DEF IInv
<1> QED BY <1>1, EngineInvariance, PTL

\* Whichever way led into Error, no motion that was requested before is left
\* in the queue to be started later (.cpp:1027).
THEOREM NoMotionInError == Spec => []ErrorStopsMotion
<1>1. IInv => ErrorStopsMotion
  BY DEF IInv
<1> QED BY <1>1, EngineInvariance, PTL

\* Polls wait for the end of the first set-up (servoxxd.cpp:326).
THEOREM PollsWait == Spec => []PollsAfterSetup
<1>1. IInv => PollsAfterSetup
  BY DEF IInv
<1> QED BY <1>1, EngineInvariance, PTL

\* A STOP from before GoHome was accepted cannot end Homing (.cpp:1179).
THEOREM HomingNotEndedEarly == Spec => []HomingStatusFresh
<1>1. IInv => HomingStatusFresh
  BY DEF IInv
<1> QED BY <1>1, EngineInvariance, PTL
-----------------------------------------------------------------------------
(* Disabled.                                                               *)

StartsMotion == {"move", "run", "calibrate"}

\* Every start of a motion in p is followed by the disabling, and none is there.
Covered(p) ==
  \A i \in DOMAIN p : p[i].request \in StartsMotion =>
    \E j \in DOMAIN p : j > i /\ p[j].request = "disable"
Still(p) == Requests(p) \cap StartsMotion = {}

LEMMA DisabledRestated ==
  /\ DisabledIsLast <=> (state = "Disabled" => Covered(pending))
  /\ DisabledIsLast' <=> (state' = "Disabled" => Covered(pending'))
  BY DEF DisabledIsLast, Covered, StartsMotion

LEMMA StillCovered ==
  ASSUME NEW p, Still(p)
  PROVE Covered(p)
  BY DEF Still, Covered, Requests

\* Concatenation, and a disabling at the end.
LEMMA CoveredConcat ==
  ASSUME NEW p \in Seq(QueueItem), NEW q \in Seq(QueueItem), Covered(p), Covered(q)
  PROVE Covered(p \o q)
<1> SUFFICES ASSUME NEW i \in DOMAIN (p \o q), (p \o q)[i].request \in StartsMotion
             PROVE \E j \in DOMAIN (p \o q) : j > i /\ (p \o q)[j].request = "disable"
  BY DEF Covered
<1>1. CASE i <= Len(p)
  <2>1. i \in DOMAIN p /\ p[i] = (p \o q)[i]
    BY <1>1
  <2>2. PICK j \in DOMAIN p : j > i /\ p[j].request = "disable"
    BY <2>1 DEF Covered
  <2>3. j \in DOMAIN (p \o q) /\ (p \o q)[j] = p[j]
    OBVIOUS
  <2> QED BY <2>2, <2>3
<1>2. CASE i > Len(p)
  <2>1. i - Len(p) \in DOMAIN q /\ q[i - Len(p)] = (p \o q)[i]
    BY <1>2
  <2>2. PICK j \in DOMAIN q : j > i - Len(p) /\ q[j].request = "disable"
    BY <2>1 DEF Covered
  <2>3. Len(p) + j \in DOMAIN (p \o q) /\ (p \o q)[Len(p) + j] = q[j] /\ Len(p) + j > i
    BY <2>2
  <2> QED BY <2>2, <2>3
<1> QED BY <1>1, <1>2

LEMMA CoveredByDisable ==
  ASSUME NEW p \in Seq(QueueItem)
  PROVE Covered(p \o <<Item("disable")>>)
<1> DEFINE q == p \o <<Item("disable")>>
<1>1. "disable" \in Request
  BY DEF Request, UserRequests
<1>2. Len(q) = Len(p) + 1 /\ DOMAIN q = 1 .. Len(q) /\ q[Len(q)].request = "disable"
  BY <1>1, ItemType
<1> HIDE DEF q
<1>3. Len(q) \in Nat
  BY <1>2
<1> SUFFICES ASSUME NEW i \in DOMAIN q, q[i].request \in StartsMotion
             PROVE Len(q) > i
  BY <1>2, <1>3 DEF Covered, q
<1> QED BY <1>2, <1>3 DEF StartsMotion

\* The second part of a concatenation.
LEMMA ConcatAt ==
  ASSUME NEW p \in Seq(QueueItem), NEW q \in Seq(QueueItem),
         NEW k \in Nat, Len(p) < k, k <= Len(p) + Len(q)
  PROVE (p \o q)[k] = q[k - Len(p)]
<1>1. k \in DOMAIN (p \o q) /\ k - Len(p) \in DOMAIN q
  OBVIOUS
<1> QED BY <1>1

\* The places of a sequence from which an item was removed.
LEMMA RemovedPlaces ==
  ASSUME NEW p \in Seq(QueueItem), NEW i \in DOMAIN p
  PROVE /\ DOMAIN RemoveAt(p, i) = 1 .. Len(p) - 1
        /\ \A k \in 1 .. Len(p) - 1 : RemoveAt(p, i)[k] = p[IF k < i THEN k ELSE k + 1]
<1> DEFINE q == SubSeq(p, 1, i - 1)
           r == SubSeq(p, i + 1, Len(p))
<1>0. i \in 1 .. Len(p) /\ Len(p) \in Nat
  OBVIOUS
<1>1. /\ q \in Seq(QueueItem) /\ Len(q) = i - 1 /\ \A k \in 1 .. i - 1 : q[k] = p[k]
      /\ r \in Seq(QueueItem) /\ Len(r) = Len(p) - i
      /\ \A k \in 1 .. Len(p) - i : r[k] = p[i + k]
  OBVIOUS
<1> HIDE DEF q, r
<1>2. DOMAIN (q \o r) = 1 .. Len(p) - 1
  BY <1>1
<1>3. ASSUME NEW k \in 1 .. Len(p) - 1
      PROVE (q \o r)[k] = p[IF k < i THEN k ELSE k + 1]
  <2>1. CASE k < i
    BY <1>0, <1>1, <2>1
  <2>2. CASE ~(k < i)
    <3>1. (q \o r)[k] = r[k - (i - 1)]
      <4>1. k \in Nat /\ Len(q) < k /\ k <= Len(q) + Len(r)
        BY <1>0, <1>1, <2>2
      <4>2. (q \o r)[k] = r[k - Len(q)]
        BY <1>1, <4>1, ConcatAt
      <4> QED BY <1>1, <4>2
    <3>2. k - (i - 1) \in 1 .. Len(p) - i /\ i + (k - (i - 1)) = k + 1
      BY <1>0, <2>2
    <3>3. r[k - (i - 1)] = p[i + (k - (i - 1))]
      BY <1>1, <3>2
    <3>4. (q \o r)[k] = p[k + 1]
      BY <3>1, <3>2, <3>3
    <3> QED BY <2>2, <3>4
  <2> QED BY <2>1, <2>2
<1> QED BY <1>2, <1>3 DEF RemoveAt, q, r

\* What goes out next is no disabling that a waiting motion has before it.
LEMMA CoveredRemove ==
  ASSUME NEW p \in Seq(QueueItem), Covered(p), NEW i \in NextUp(p)
  PROVE Covered(RemoveAt(p, i))
<1> DEFINE q == RemoveAt(p, i)
           At(k) == IF k < i THEN k ELSE k + 1
<1>1. i \in DOMAIN p
  BY NextUpIs
<1>2. DOMAIN q = 1 .. Len(p) - 1 /\ \A k \in 1 .. Len(p) - 1 : q[k] = p[At(k)]
  BY <1>1, RemovedPlaces
<1> HIDE DEF q
<1> SUFFICES ASSUME NEW k \in 1 .. Len(p) - 1, q[k].request \in StartsMotion
             PROVE \E j \in 1 .. Len(p) - 1 : j > k /\ q[j].request = "disable"
  BY <1>2 DEF Covered, q
<1>3. At(k) \in DOMAIN p /\ p[At(k)].request \in StartsMotion
  BY <1>1, <1>2
<1>4. PICK n \in DOMAIN p : n > At(k) /\ p[n].request = "disable"
  BY <1>3 DEF Covered
<1>5. n # i
  <2>1. PriorityOf("disable") = NORMAL /\ \A r \in StartsMotion : PriorityOf(r) = NORMAL
    BY DEF PriorityOf, StartsMotion, SetupRequests, RecoveryRequests, PollRequests
  <2>2. PriorityOf(p[At(k)].request) = PriorityOf(p[n].request)
    BY <1>3, <1>4, <2>1
  <2>3. SUFFICES ASSUME n = i PROVE FALSE
    OBVIOUS
  <2>4. i <= At(k)
    BY <1>3, <2>2, <2>3, NextUpIs
  <2> QED BY <1>1, <1>3, <1>4, <2>3, <2>4
<1> DEFINE j == IF n < i THEN n ELSE n - 1
<1>6. j \in 1 .. Len(p) - 1 /\ j > k /\ At(j) = n
  BY <1>1, <1>3, <1>4, <1>5
<1> QED BY <1>2, <1>4, <1>6

LEMMA CoveredTail ==
  ASSUME NEW q \in Seq(QueueItem), q # <<>>, Covered(q)
  PROVE Covered(Tail(q))
<1> DEFINE r == Tail(q)
<1>1. r \in Seq(QueueItem) /\ Len(r) = Len(q) - 1 /\ \A i \in DOMAIN r : i + 1 \in DOMAIN q /\ r[i] = q[i + 1]
  OBVIOUS
<1>2. DOMAIN r = 1 .. Len(q) - 1 /\ DOMAIN q = 1 .. Len(q)
  BY <1>1
<1> HIDE DEF r
<1> SUFFICES ASSUME NEW i \in DOMAIN r, r[i].request \in StartsMotion
             PROVE \E j \in DOMAIN r : j > i /\ r[j].request = "disable"
  BY DEF Covered, r
<1>3. PICK j \in DOMAIN q : j > i + 1 /\ q[j].request = "disable"
  BY <1>1 DEF Covered
<1>4. j - 1 \in DOMAIN r /\ j - 1 > i /\ r[j - 1] = q[(j - 1) + 1] /\ (j - 1) + 1 = j
  BY <1>1, <1>2, <1>3
<1> QED BY <1>3, <1>4

\* Polling adds callbacks to what waits, and reads behind it.
LEMMA CoveredPolled ==
  ASSUME NEW p \in Seq(QueueItem), Covered(p)
  PROVE Polled(p) \in Seq(QueueItem) /\ Covered(Polled(p))
<1> DEFINE more == [i \in DOMAIN p |-> IF FirstStatusRead(p, i) /\ p[i].polls < PollCap
                                         THEN [p[i] EXCEPT !.polls = @ + 1] ELSE p[i]]
           q1 == NewPoll("poll_encoder_position", p)
           q2 == NewPoll("poll_motor_speed", p)
           q3 == NewPoll("poll_motor_status", p)
<1>0. Polled(p) \in Seq(QueueItem)
  BY PolledType
<1>1. ASSUME NEW i \in DOMAIN p
      PROVE more[i] \in QueueItem /\ more[i].request = p[i].request
  <2>1. p[i] \in QueueItem
    BY ElementType
  <2> QED BY <2>1 DEF QueueItem, PollCap
<1>2. more \in Seq(QueueItem) /\ DOMAIN more = DOMAIN p
  BY <1>1
<1>3. Covered(more)
  BY <1>1, <1>2 DEF Covered
<1>4. ASSUME NEW r \in PollRequests
      PROVE NewPoll(r, p) \in Seq(QueueItem) /\ Covered(NewPoll(r, p))
  <2>1. Still(NewPoll(r, p))
    BY NewPollType DEF Still, StartsMotion, PollRequests
  <2> QED BY <2>1, NewPollType, StillCovered
<1>5. q1 \in Seq(QueueItem) /\ Covered(q1) /\ q2 \in Seq(QueueItem) /\ Covered(q2)
      /\ q3 \in Seq(QueueItem) /\ Covered(q3)
  BY <1>4 DEF PollRequests
<1>6. AddPolls(p) = ((more \o q1) \o q2) \o q3
  BY DEF AddPolls
<1> HIDE DEF more, q1, q2, q3
<1>7. more \o q1 \in Seq(QueueItem) /\ Covered(more \o q1)
  BY <1>2, <1>3, <1>5, CoveredConcat, RequestsConcat
<1>8. (more \o q1) \o q2 \in Seq(QueueItem) /\ Covered((more \o q1) \o q2)
  BY <1>5, <1>7, CoveredConcat, RequestsConcat
<1>9. Covered(AddPolls(p))
  BY <1>5, <1>6, <1>8, CoveredConcat
<1> QED BY <1>0, <1>9 DEF Polled

\* The two ways of the queue.
LEMMA ContinueCovers ==
  ASSUME NEW p \in Seq(QueueItem), NEW s, Continue(p, s), Covered(p)
  PROVE Covered(pending')
  BY CoveredRemove DEF Continue

LEMMA EnqueueCovers ==
  ASSUME NEW p \in Seq(QueueItem), NEW new \in Seq(QueueItem), NEW s, Enqueue(p, new, s),
         Covered(p \o new)
  PROVE Covered(pending')
<1>1. CASE QueueFree(p) /\ new # <<>>
  <2>1. p \o new = new
    BY <1>1 DEF QueueFree
  <2> QED BY <1>1, <2>1, CoveredTail DEF Enqueue
<1>2. CASE ~(QueueFree(p) /\ new # <<>>)
  BY <1>2 DEF Enqueue
<1> QED BY <1>1, <1>2

\* Requests that start no motion may be added.
LEMMA CoveredExtended ==
  ASSUME NEW p \in Seq(QueueItem), NEW q \in Seq(QueueItem), Covered(p), Still(q)
  PROVE p \o q \in Seq(QueueItem) /\ Covered(p \o q)
  BY StillCovered, CoveredConcat, RequestsConcat

\* No callback leads to Disabled, and none starts a motion.
LEMMA DisabledEnds ==
  ASSUME IInv, DisabledIsLast, RequestEnds
  PROVE DisabledIsLast'
<1> SUFFICES ASSUME state' = "Disabled" PROVE Covered(pending')
  BY DisabledRestated
<1>0. pending \in Seq(QueueItem) /\ EngineTypeOK
  BY WaitingNow DEF IInv
<1>1. CASE SuccessDeferred
  BY <1>1, DisabledRestated DEF SuccessDeferred, stateVars
<1>2. CASE DelayOver \/ EndsUnheeded
  <2>1. Continue(pending, state) /\ state' = state
    BY <1>2 DEF DelayOver, EndsUnheeded, stateVars
  <2> QED BY <1>0, <2>1, ContinueCovers, DisabledRestated
<1>3. CASE ReadAllConfigFails \/ WriteFails \/ SetupDoneFails
  BY <1>3 DEF ReadAllConfigFails, WriteFails, SetupDoneFails, EnterState
<1>4. CASE GoHomeSucceeds \/ GoHomeFails \/ CalibrateFails \/ MoveSucceeds
  BY <1>4 DEF GoHomeSucceeds, GoHomeFails, CalibrateFails, MoveSucceeds, GoTo, EnterState
<1>5. CASE RecoveryReleaseSucceeds
  BY <1>5 DEF RecoveryReleaseSucceeds, EnterState
<1>6. CASE ReadAllConfigSucceeds
  <2>1. state = "Disabled"
    BY <1>6 DEF ReadAllConfigSucceeds, stateVars
  <2>2. PICK commands \in UpdateCommands :
          Continue(Append(pending \o commands, Item("setup_done")), state)
    BY <1>6 DEF ReadAllConfigSucceeds
  <2>3. /\ commands \in Seq(QueueItem)
        /\ Requests(commands) \subseteq {"write", "write_homing"}
    BY <1>0, UpdateCommandsType
  <2>4. "setup_done" \in Request
    BY DEF Request, SetupRequests
  <2>5. pending \o commands \in Seq(QueueItem) /\ Covered(pending \o commands)
    BY <1>0, <2>1, <2>3, DisabledRestated, CoveredExtended DEF Still, StartsMotion
  <2>6. /\ <<Item("setup_done")>> \in Seq(QueueItem) /\ Still(<<Item("setup_done")>>)
        /\ Item("setup_done") \in QueueItem
    BY <2>4, RequestsOne, ItemType DEF Still, StartsMotion
  <2>7. Append(pending \o commands, Item("setup_done"))
          = (pending \o commands) \o <<Item("setup_done")>>
    BY <2>5, <2>6
  <2> QED BY <2>2, <2>5, <2>6, <2>7, CoveredExtended, ContinueCovers
<1>7. CASE WriteHomingSucceeds
  <2>1. state = "Disabled" /\ Continue(Append(pending, Item("setup_go_home")), state)
    BY <1>7 DEF WriteHomingSucceeds, stateVars
  <2>2. "setup_go_home" \in Request
    BY DEF Request, SetupRequests
  <2>3. /\ <<Item("setup_go_home")>> \in Seq(QueueItem) /\ Still(<<Item("setup_go_home")>>)
        /\ Item("setup_go_home") \in QueueItem
    BY <2>2, RequestsOne, ItemType DEF Still, StartsMotion
  <2>4. Append(pending, Item("setup_go_home")) = pending \o <<Item("setup_go_home")>>
    BY <1>0, <2>3
  <2> QED BY <1>0, <2>1, <2>3, <2>4, DisabledRestated, CoveredExtended, ContinueCovers
<1>8. CASE SetupDoneSucceeds \/ StatusPolled \/ RecoveryStatusSucceeds
  <2>1. PICK s \in {"Idle", state}, status \in MotorStatus : ProcessStatus(s, status)
    BY <1>8 DEF SetupDoneSucceeds, StatusPolled, RecoveryStatusSucceeds
  <2>2. ASSUME NEW t, StateAfter(t, status) = "Disabled" PROVE t = "Disabled"
    BY <2>2 DEF StateAfter
  <2>3. state = "Disabled"
    BY <2>1, <2>2 DEF ProcessStatus, EnterState
  <2>4. "recovery_release" \in Request
    BY DEF Request, RecoveryRequests
  <2>5. /\ <<Item("recovery_release")>> \in Seq(QueueItem) /\ Still(<<Item("recovery_release")>>)
        /\ Item("recovery_release") \in QueueItem
        /\ HomeRequests \in Seq(QueueItem) /\ Still(HomeRequests)
    BY <2>4, RequestsOne, ItemType, HomeRequestsType DEF Still, StartsMotion
  <2>6. Append(pending, Item("recovery_release")) = pending \o <<Item("recovery_release")>>
    BY <1>0, <2>5
  <2>7. \/ Continue(pending, state')
        \/ Continue(pending \o HomeRequests, state')
        \/ Continue(pending \o <<Item("recovery_release")>>, state')
    BY <1>8, <2>6 DEF SetupDoneSucceeds, StatusPolled, RecoveryStatusSucceeds
  <2>8. Covered(pending)
    BY <2>3, DisabledRestated
  <2> QED BY <1>0, <2>5, <2>7, <2>8, CoveredExtended, ContinueCovers
<1> QED BY <1>1, <1>2, <1>3, <1>4, <1>5, <1>6, <1>7, <1>8 DEF RequestEnds

\* Of the calls, disable() puts the disabling behind everything, and in Disabled
\* no call starts a motion and stays there.
LEMMA DisabledCalls ==
  ASSUME IInv, DisabledIsLast, Call
  PROVE DisabledIsLast'
<1> SUFFICES ASSUME state' = "Disabled" PROVE Covered(pending')
  BY DisabledRestated
<1>0. pending \in Seq(QueueItem)
  BY WaitingNow
<1>1. CASE EmergencyStop \/ Restart \/ Reconfigure
  BY <1>1 DEF EmergencyStop, Restart, Reconfigure, EnterState, EnterAfterNotified
<1>2. CASE MoveTo \/ Stop \/ RunContinuous \/ Enable \/ Calibrate \/ SetZero
  BY <1>2 DEF MoveTo, Stop, RunContinuous, Enable, Calibrate, SetZero, Ask, Issue, IssueTo,
              EnterState, EnterAfterNotified, Notified
<1>3. CASE Disable
  <2>1. \/ Enqueue(pending, <<Item("disable")>>, state)
        \/ EnqueueReleases(pending, "disable")
    BY <1>3 DEF Disable, Issue, IssueTo, EnterState, EnterAfterNotified
  <2>2. "disable" \in Request
    BY DEF Request, UserRequests
  <2> QED BY <1>0, <2>1, <2>2, RequestsOne, ReleaseContinues, CoveredByDisable, EnqueueCovers,
             ContinueCovers
<1>4. CASE Home \/ KeyLock \/ ReleaseProtection
  <2>1. PICK r \in {"go_home", "key_lock", "release"} :
          /\ state = "Disabled"
          /\ Enqueue(pending, <<Item(r)>>, state) \/ EnqueueReleases(pending, r)
    BY <1>4 DEF Home, KeyLock, ReleaseProtection, Ask, IssueTo, EnterState, EnterAfterNotified,
                Notified, Released
  <2>2. r \in Request
    BY DEF Request, UserRequests
  <2>3. <<Item(r)>> \in Seq(QueueItem) /\ Still(<<Item(r)>>)
    BY <2>2, RequestsOne DEF Still, StartsMotion
  <2>4. Covered(pending \o <<Item(r)>>)
    BY <1>0, <2>1, <2>3, DisabledRestated, CoveredExtended
  <2> QED BY <1>0, <2>1, <2>2, <2>3, <2>4, ReleaseContinues, EnqueueCovers, ContinueCovers
<1> QED BY <1>1, <1>2, <1>3, <1>4 DEF Call

\* The main loop disables in Idle, behind everything.
LEMMA DisabledUpdate ==
  ASSUME IInv, DisabledIsLast, Update
  PROVE DisabledIsLast'
<1> DEFINE kept == Kept(StateInTime)
           s == IF DisablesNow THEN "Disabled" ELSE StateInTime
           recovery == IF RecoveryDue THEN <<Item("recovery_status")>> ELSE <<>>
           disabling == IF DisablesNow THEN <<Item("disable")>> ELSE <<>>
           own == recovery \o disabling
<1> SUFFICES ASSUME state' = "Disabled" PROVE Covered(pending')
  BY DisabledRestated
<1>1. /\ IF QueueFree(kept)
           THEN Enqueue(kept, own \o Polled(<<>>), s)
           ELSE pending' = Polled(kept \o own)
      /\ s = "Disabled"
  BY DEF Update
<1>2. kept = pending /\ kept \in Seq(QueueItem)
  BY <1>1, WaitingNow DEF Kept, StateInTime, DisablesNow
<1>3. own = disabling
  <2>1. ~RecoveryDue
    BY <1>1 DEF RecoveryDue, StateInTime, DisablesNow, Expired, TimedStates
  <2> QED BY <2>1
<1>4. own \in Seq(QueueItem)
  BY <1>3, RequestsOne DEF Request, UserRequests
<1>5. kept \o own \in Seq(QueueItem) /\ Covered(kept \o own)
  <2>1. CASE DisablesNow
    BY <1>2, <1>3, <1>4, <2>1, CoveredByDisable, RequestsConcat
  <2>2. CASE ~DisablesNow
    <3>1. state = "Disabled" /\ own = <<>>
      BY <1>1, <1>3, <2>2 DEF StateInTime
    <3>2. kept \o <<>> = kept
      BY <1>2
    <3> QED BY <1>2, <3>1, <3>2, DisabledRestated
  <2> QED BY <2>1, <2>2
<1> HIDE DEF kept, s, own
<1>6. CASE ~QueueFree(kept)
  BY <1>1, <1>5, <1>6, CoveredPolled
<1>7. CASE QueueFree(kept)
  <2> DEFINE q == Polled(<<>>)
  <2>0. <<>> \in Seq(QueueItem) /\ Covered(<<>>)
    BY RequestsNone, StillCovered DEF Still
  <2>1. q \in Seq(QueueItem) /\ Covered(q)
    BY <2>0, CoveredPolled
  <2> HIDE DEF q
  <2>2. own \o q \in Seq(QueueItem) /\ Covered((kept \o own) \o q)
    BY <1>4, <1>5, <2>1, CoveredConcat, RequestsConcat
  <2>3. (kept \o own) \o q = kept \o (own \o q)
    BY <1>2, <1>4, <1>7, <2>1, <2>2 DEF QueueFree
  <2> QED BY <1>1, <1>2, <1>7, <2>2, <2>3, EnqueueCovers DEF q
<1> QED BY <1>6, <1>7

LEMMA DisabledInductive == IInv /\ DisabledIsLast /\ [Next]_vars => DisabledIsLast'
<1> SUFFICES ASSUME IInv, DisabledIsLast, [Next]_vars PROVE DisabledIsLast'
  OBVIOUS
<1>1. CASE UNCHANGED vars \/ Tick
  BY <1>1 DEF vars, stateVars, queueVars, Tick, DisabledIsLast
<1> QED BY <1>1, DisabledEnds, DisabledCalls, DisabledUpdate DEF Next

\* Whoever finds Disabled knows that the disabling comes after every move, run and
\* calibration that waits, whether disable() was called in motion or at rest (.cpp:845, 550): it
\* has the priority of the motions, and those go out in order.
THEOREM DisabledStaysLast == Spec => []DisabledIsLast
<1>1. Init => DisabledIsLast
  BY DEF Init, DisabledIsLast
<1> QED BY <1>1, DisabledInductive, EngineInvariance, PTL DEF Spec

-----------------------------------------------------------------------------
(* The completion marker.                                                  *)

\* The requests that make up the set-up of the configuration, in their order:
\* the read stands alone, and the marker behind whatever is written.
SetupFlow == ConfigRequests \cup {"setup_done"}
Foreign(p) == Requests(p) \cap SetupFlow = {}
InOrder(p) ==
  \A i, j \in DOMAIN p :
    /\ p[i].request = "setup_done" /\ p[j].request \in ConfigRequests => j < i
    /\ p[i].request = "read_all_config" /\ p[j].request \in SetupFlow => j = i

\* What waits behind the marker, or the read, that is with the motor.
Behind(w, p) ==
  w # <<>> =>
    /\ w[1].request = "setup_done" => Requests(p) \cap ConfigRequests = {}
    /\ w[1].request = "read_all_config" => Foreign(p)

FirstSetupInOrder ==
  setup_state = "IN_PROGRESS" => InOrder(pending) /\ Behind(wire, pending)

LEMMA ForeignInOrder ==
  ASSUME NEW p, Foreign(p)
  PROVE InOrder(p) /\ \A w : Behind(w, p)
  BY DEF Foreign, InOrder, Behind, Requests, SetupFlow, ConfigRequests

\* A smaller set of requests behind the same one.
LEMMA BehindFewer ==
  ASSUME NEW w, NEW p, NEW q, Behind(w, p), Requests(q) \cap SetupFlow \subseteq Requests(p)
  PROVE Behind(w, q)
  BY DEF Behind, Foreign, SetupFlow

\* Others may be added.
LEMMA InOrderExtended ==
  ASSUME NEW p \in Seq(QueueItem), NEW q \in Seq(QueueItem), InOrder(p), Foreign(q)
  PROVE /\ p \o q \in Seq(QueueItem) /\ InOrder(p \o q)
        /\ Requests(p \o q) \cap SetupFlow \subseteq Requests(p)
<1>1. p \o q \in Seq(QueueItem) /\ Requests(p \o q) = Requests(p) \cup Requests(q)
  BY RequestsConcat
<1>2. ASSUME NEW i \in DOMAIN (p \o q), (p \o q)[i].request \in SetupFlow
      PROVE i \in DOMAIN p /\ (p \o q)[i] = p[i]
  <2>1. CASE i <= Len(p)
    BY <2>1
  <2>2. CASE i > Len(p)
    <3>1. i - Len(p) \in DOMAIN q /\ (p \o q)[i] = q[i - Len(p)]
      BY <2>2
    <3> QED BY <1>2, <3>1 DEF Foreign, Requests
  <2> QED BY <2>1, <2>2
<1>3. InOrder(p \o q)
  BY <1>2 DEF InOrder, SetupFlow, ConfigRequests
<1> QED BY <1>1, <1>3 DEF Foreign

\* Removing keeps the order.
LEMMA InOrderRemove ==
  ASSUME NEW p \in Seq(QueueItem), InOrder(p), NEW n \in DOMAIN p
  PROVE InOrder(RemoveAt(p, n))
<1> DEFINE q == RemoveAt(p, n)
           At(k) == IF k < n THEN k ELSE k + 1
<1>1. n \in 1 .. Len(p) /\ Len(p) \in Nat /\ DOMAIN p = 1 .. Len(p)
  OBVIOUS
<1>2. DOMAIN q = 1 .. Len(p) - 1 /\ \A k \in 1 .. Len(p) - 1 : q[k] = p[At(k)]
  BY RemovedPlaces
<1> HIDE DEF q
<1> SUFFICES ASSUME NEW i \in 1 .. Len(p) - 1, NEW j \in 1 .. Len(p) - 1
             PROVE /\ q[i].request = "setup_done" /\ q[j].request \in ConfigRequests => j < i
                   /\ q[i].request = "read_all_config" /\ q[j].request \in SetupFlow => j = i
  BY <1>2 DEF InOrder, q
<1>3. /\ At(i) \in DOMAIN p /\ At(j) \in DOMAIN p
      /\ At(j) < At(i) => j < i
      /\ At(j) = At(i) => j = i
  BY <1>1
<1>4. q[i] = p[At(i)] /\ q[j] = p[At(j)]
  BY <1>2
<1> HIDE DEF At
<1>5. /\ p[At(i)].request = "setup_done" /\ p[At(j)].request \in ConfigRequests => At(j) < At(i)
      /\ p[At(i)].request = "read_all_config" /\ p[At(j)].request \in SetupFlow => At(j) = At(i)
  BY <1>3 DEF InOrder
<1> QED BY <1>3, <1>4, <1>5

\* First come, first served: nothing that belongs before it is left when the
\* marker goes out, and nothing at all when the read does.
LEMMA SentInOrder ==
  ASSUME NEW p \in Seq(QueueItem), InOrder(p), NEW n \in NextUp(p), NEW s
  PROVE Behind(<<Sent(p[n], s)>>, RemoveAt(p, n))
<1> DEFINE q == RemoveAt(p, n)
           At(k) == IF k < n THEN k ELSE k + 1
<1>0. n \in DOMAIN p
  BY NextUpIs
<1>1. n \in 1 .. Len(p) /\ Len(p) \in Nat /\ DOMAIN p = 1 .. Len(p)
  BY <1>0
<1>2. DOMAIN q = 1 .. Len(p) - 1 /\ \A k \in 1 .. Len(p) - 1 : q[k] = p[At(k)]
  BY <1>0, RemovedPlaces
<1> HIDE DEF q
<1>3. ASSUME NEW r \in SetupFlow PROVE PriorityOf(r) = SETUP
  BY DEF PriorityOf, SetupFlow, ConfigRequests, SetupRequests, RecoveryRequests, PollRequests
<1>4. <<Sent(p[n], s)>>[1].request = p[n].request
  BY DEF Sent
<1>5. ASSUME NEW k \in DOMAIN q, q[k].request \in SetupFlow, p[n].request \in SetupFlow
      PROVE /\ At(k) \in DOMAIN p /\ n < At(k)
            /\ q[k].request = p[At(k)].request
  <2>1. At(k) \in DOMAIN p /\ At(k) # n /\ q[k] = p[At(k)]
    BY <1>1, <1>2, <1>5
  <2>2. n <= At(k)
    BY <1>3, <1>5, <2>1, NextUpIs
  <2> QED BY <1>1, <2>1, <2>2
<1>6. ASSUME p[n].request = "setup_done" PROVE Requests(q) \cap ConfigRequests = {}
  <2> SUFFICES ASSUME NEW k \in DOMAIN q, q[k].request \in ConfigRequests PROVE FALSE
    BY DEF Requests
  <2>1. At(k) \in DOMAIN p /\ n < At(k) /\ p[At(k)].request \in ConfigRequests
    BY <1>5, <1>6 DEF SetupFlow
  <2> QED BY <1>0, <1>1, <1>6, <2>1 DEF InOrder
<1>7. ASSUME p[n].request = "read_all_config" PROVE Foreign(q)
  <2> SUFFICES ASSUME NEW k \in DOMAIN q, q[k].request \in SetupFlow PROVE FALSE
    BY DEF Requests, Foreign
  <2>1. At(k) \in DOMAIN p /\ n < At(k) /\ p[At(k)].request \in SetupFlow
    BY <1>5, <1>7 DEF SetupFlow, ConfigRequests
  <2> QED BY <1>0, <1>1, <1>7, <2>1 DEF InOrder
<1> QED BY <1>4, <1>6, <1>7 DEF Behind, q

\* The two ways of the queue.
LEMMA ContinueInOrder ==
  ASSUME NEW p \in Seq(QueueItem), NEW s, Continue(p, s), InOrder(p)
  PROVE InOrder(pending') /\ Behind(wire', pending')
<1>1. CASE delaying' \/ p = <<>>
  BY <1>1 DEF Continue, Behind
<1>2. CASE ~(delaying' \/ p = <<>>)
  <2>1. PICK n \in NextUp(p) : pending' = RemoveAt(p, n) /\ wire' = <<Sent(p[n], s)>>
    BY <1>2 DEF Continue
  <2>2. n \in DOMAIN p
    BY NextUpIs
  <2> QED BY <2>1, <2>2, InOrderRemove, SentInOrder
<1> QED BY <1>1, <1>2

LEMMA EnqueueInOrder ==
  ASSUME NEW p \in Seq(QueueItem), NEW new \in Seq(QueueItem), NEW s, Enqueue(p, new, s),
         InOrder(p), Behind(wire, p), Foreign(new)
  PROVE InOrder(pending') /\ Behind(wire', pending')
<1>1. CASE QueueFree(p) /\ new # <<>>
  <2>1. pending' = Tail(new)
    BY <1>1 DEF Enqueue
  <2>2. ASSUME NEW i \in DOMAIN Tail(new) PROVE Tail(new)[i].request \in Requests(new)
    <3>1. i + 1 \in DOMAIN new /\ Tail(new)[i] = new[i + 1]
      BY <1>1, <2>2
    <3> QED BY <3>1 DEF Requests
  <2>3. Foreign(Tail(new))
    BY <2>2 DEF Foreign, Requests
  <2> QED BY <2>1, <2>3, ForeignInOrder
<1>2. CASE ~(QueueFree(p) /\ new # <<>>)
  <2>1. pending' = p \o new /\ wire' = wire
    BY <1>2 DEF Enqueue
  <2> QED BY <2>1, InOrderExtended, BehindFewer
<1> QED BY <1>1, <1>2

\* Polling adds only to what waits, and behind it.
LEMMA PolledInOrder ==
  ASSUME NEW p \in Seq(QueueItem), setup_state = "IN_PROGRESS"
  PROVE Polled(p) = p
  BY DEF Polled

\* Set-up writes no more than the marker can wait for.
LEMMA UpdateInOrder ==
  ASSUME EngineTypeOK, Foreign(pending), NEW commands \in UpdateCommands
  PROVE /\ Append(pending \o commands, Item("setup_done")) \in Seq(QueueItem)
        /\ InOrder(Append(pending \o commands, Item("setup_done")))
<1> DEFINE p == pending \o commands
           x == Item("setup_done")
<1>1. x \in QueueItem /\ x.request = "setup_done"
  BY ItemType DEF Request, SetupRequests
<1>2. p \in Seq(QueueItem) /\ Requests(p) \cap SetupFlow \subseteq {"write", "write_homing"}
  BY UpdateCommandsType, RequestsConcat DEF EngineTypeOK, Foreign
<1> HIDE DEF p, x
<1>3. ASSUME NEW i \in DOMAIN Append(p, x)
      PROVE \/ i = Len(p) + 1 /\ Append(p, x)[i] = x
            \/ i \in DOMAIN p /\ i < Len(p) + 1 /\ Append(p, x)[i] = p[i]
  BY <1>1, <1>2
<1>4. ASSUME NEW i \in DOMAIN p
      PROVE p[i].request # "setup_done" /\ p[i].request # "read_all_config"
  BY <1>2 DEF Requests, SetupFlow, ConfigRequests
<1>5. InOrder(Append(p, x))
  <2> SUFFICES ASSUME NEW i \in DOMAIN Append(p, x), NEW j \in DOMAIN Append(p, x)
               PROVE /\ /\ Append(p, x)[i].request = "setup_done"
                        /\ Append(p, x)[j].request \in ConfigRequests
                        => j < i
                     /\ Append(p, x)[i].request # "read_all_config"
    BY DEF InOrder
  <2>1. Append(p, x)[i].request # "read_all_config"
    BY <1>1, <1>3, <1>4
  <2>2. ASSUME Append(p, x)[i].request = "setup_done",
               Append(p, x)[j].request \in ConfigRequests
        PROVE j < i
    <3>1. i = Len(p) + 1
      BY <1>3, <1>4, <2>2
    <3>2. j < Len(p) + 1
      BY <1>1, <1>3, <2>2 DEF ConfigRequests
    <3> QED BY <3>1, <3>2
  <2> QED BY <2>1, <2>2
<1> QED BY <1>1, <1>2, <1>5 DEF p, x

\* A cleared queue has no order to lose.
LEMMA EmptyInOrder ==
  <<>> \in Seq(QueueItem) /\ InOrder(<<>>) /\ \A w : Behind(w, <<>>)
  BY RequestsNone, ForeignInOrder DEF Foreign

\* The callbacks, while the first set-up is in progress.
LEMMA OrderedEnds ==
  ASSUME IInv, FirstSetupInOrder, RequestEnds, setup_state' = "IN_PROGRESS",
         setup_state = "IN_PROGRESS"
  PROVE InOrder(pending') /\ Behind(wire', pending')
<1>0. /\ pending \in Seq(QueueItem) /\ EngineTypeOK
      /\ InOrder(pending) /\ Behind(wire, pending)
  BY WaitingNow DEF IInv, FirstSetupInOrder
<1>1. CASE SuccessDeferred
  BY <1>0, <1>1 DEF SuccessDeferred, Behind
<1>2. CASE DelayOver \/ EndsUnheeded
  BY <1>0, <1>2, ContinueInOrder DEF DelayOver, EndsUnheeded
<1>3. CASE ReadAllConfigFails \/ WriteFails \/ SetupDoneFails
  BY <1>3, EmptyInOrder, ContinueInOrder DEF ReadAllConfigFails, WriteFails, SetupDoneFails
<1>4. CASE GoHomeSucceeds \/ GoHomeFails \/ CalibrateFails \/ MoveSucceeds
  <2>1. PICK s : Continue(Kept(s), s)
    BY <1>4 DEF GoHomeSucceeds, GoHomeFails, CalibrateFails, MoveSucceeds, GoTo
  <2>2. Kept(s) \in Seq(QueueItem) /\ InOrder(Kept(s))
    BY <1>0, EmptyInOrder DEF Kept
  <2> QED BY <2>1, <2>2, ContinueInOrder
<1>5. CASE ReadAllConfigSucceeds
  <2>1. Foreign(pending)
    BY <1>0, <1>5 DEF ReadAllConfigSucceeds, Succeeds, OnWire, Behind, EngineTypeOK, Delayed
  <2> QED BY <1>0, <1>5, <2>1, UpdateInOrder, ContinueInOrder DEF ReadAllConfigSucceeds
<1>6. CASE \/ WriteHomingSucceeds \/ SetupDoneSucceeds \/ StatusPolled
           \/ RecoveryStatusSucceeds \/ RecoveryReleaseSucceeds
  <2>1. "setup_go_home" \in Request /\ "recovery_release" \in Request
    BY DEF Request, SetupRequests, RecoveryRequests
  <2>2. /\ HomeRequests \in Seq(QueueItem) /\ Foreign(HomeRequests)
        /\ \A r \in {"setup_go_home", "recovery_release"} :
             /\ Item(r) \in QueueItem
             /\ <<Item(r)>> \in Seq(QueueItem) /\ Foreign(<<Item(r)>>)
    BY <2>1, HomeRequestsType, RequestsOne, ItemType DEF Foreign, SetupFlow, ConfigRequests
  <2>3. ASSUME NEW r \in {"setup_go_home", "recovery_release"}
        PROVE Append(pending, Item(r)) = pending \o <<Item(r)>>
    BY <1>0, <2>2
  <2>4. \E s : \/ Continue(pending, s)
               \/ Continue(pending \o HomeRequests, s)
               \/ \E r \in {"setup_go_home", "recovery_release"} :
                    Continue(pending \o <<Item(r)>>, s)
    BY <1>6, <2>3 DEF WriteHomingSucceeds, SetupDoneSucceeds, StatusPolled,
                      RecoveryStatusSucceeds, RecoveryReleaseSucceeds
  <2> QED BY <1>0, <2>2, <2>4, InOrderExtended, ContinueInOrder
<1> QED BY <1>1, <1>2, <1>3, <1>4, <1>5, <1>6 DEF RequestEnds

\* Calls and the main loop: no call sets the motor up a second time before the
\* first set-up is completed.
LEMMA OrderedCalls ==
  ASSUME IInv, FirstSetupInOrder, Call \/ Update, setup_state' = "IN_PROGRESS",
         setup_state = "IN_PROGRESS"
  PROVE InOrder(pending') /\ Behind(wire', pending')
<1>0. /\ pending \in Seq(QueueItem) /\ EngineTypeOK
      /\ InOrder(pending) /\ Behind(wire, pending)
  BY WaitingNow DEF IInv, FirstSetupInOrder
<1>1. ASSUME NEW r \in UserRequests \cup {"recovery_status"}
      PROVE <<Item(r)>> \in Seq(QueueItem) /\ Foreign(<<Item(r)>>)
  <2>1. r \in Request
    BY DEF Request, RecoveryRequests
  <2>2. <<Item(r)>> \in Seq(QueueItem) /\ Requests(<<Item(r)>>) = {r}
    BY <2>1, RequestsOne
  <2> QED BY <2>2 DEF Foreign, SetupFlow, ConfigRequests, UserRequests
<1>2. CASE \/ MoveTo \/ Stop \/ Home \/ RunContinuous \/ Enable \/ Disable
           \/ ReleaseProtection \/ Calibrate \/ SetZero \/ KeyLock
  <2>1. PICK r \in UserRequests : \/ Enqueue(pending, <<Item(r)>>, state)
                                 \/ EnqueueReleases(pending, r)
    BY <1>0, <1>2, CallsIssue DEF EngineTypeOK, IssueTo
  <2>2. CASE EnqueueReleases(pending, r)
    <3>1. r \in Request
      BY DEF Request
    <3> QED BY <1>0, <1>1, <2>2, <3>1, ReleaseContinues, InOrderExtended, ContinueInOrder
  <2> QED BY <1>0, <1>1, <2>1, <2>2, EnqueueInOrder
<1>3. CASE Reconfigure
  BY <1>3 DEF Reconfigure
<1>4. CASE EmergencyStop \/ Restart
  <2>1. \/ pending' = <<>>
        \/ \E r \in UserRequests : \/ Enqueue(<<>>, <<Item(r)>>, state)
                                   \/ EnqueueReleases(<<>>, r)
    BY <1>4 DEF EmergencyStop, Restart, UserRequests
  <2>2. CASE pending' = <<>>
    BY <2>2, EmptyInOrder
  <2>3. ASSUME NEW r \in UserRequests, EnqueueReleases(<<>>, r)
        PROVE InOrder(pending') /\ Behind(wire', pending')
    <3>1. r \in Request
      BY DEF Request
    <3> QED BY <1>1, <2>3, <3>1, EmptyInOrder, ReleaseContinues, InOrderExtended, ContinueInOrder
  <2> QED BY <1>1, <2>1, <2>2, <2>3, EmptyInOrder, EnqueueInOrder
<1>5. CASE Update
  <2> DEFINE kept == Kept(StateInTime)
             recovery == IF RecoveryDue THEN <<Item("recovery_status")>> ELSE <<>>
             disabling == IF DisablesNow THEN <<Item("disable")>> ELSE <<>>
             own == recovery \o disabling
  <2>1. /\ kept \in Seq(QueueItem) /\ InOrder(kept) /\ Behind(wire, kept)
    BY <1>0, EmptyInOrder DEF Kept
  <2>2. own \in Seq(QueueItem) /\ Foreign(own)
    <3>1. /\ recovery \in Seq(QueueItem) /\ Foreign(recovery)
          /\ disabling \in Seq(QueueItem) /\ Foreign(disabling)
      BY <1>1, RequestsNone DEF Foreign, UserRequests
    <3> HIDE DEF recovery, disabling
    <3> QED BY <3>1, RequestsConcat DEF Foreign
  <2>3. \/ \E s : Enqueue(kept, own \o Polled(<<>>), s)
        \/ pending' = Polled(kept \o own) /\ wire' = wire
    BY <1>5 DEF Update
  <2> HIDE DEF kept, own
  <2>4. own \o Polled(<<>>) = own /\ Polled(kept \o own) = kept \o own
    <3>0. own \o <<>> = own
      BY <2>2
    <3>1. Polled(<<>>) = <<>> /\ own \o <<>> = own
      BY <3>0, PolledInOrder, RequestsNone
    <3>2. kept \o own \in Seq(QueueItem)
      BY <2>1, <2>2, RequestsConcat
    <3> QED BY <3>1, <3>2, PolledInOrder
  <2>5. CASE \E s : Enqueue(kept, own \o Polled(<<>>), s)
    <3>1. PICK s : Enqueue(kept, own, s)
      BY <2>4, <2>5
    <3> QED BY <2>1, <2>2, <3>1, EnqueueInOrder
  <2>6. CASE pending' = Polled(kept \o own) /\ wire' = wire
    <3>1. pending' = kept \o own /\ wire' = wire
      BY <2>4, <2>6
    <3> QED BY <2>1, <2>2, <3>1, InOrderExtended, BehindFewer
  <2> QED BY <2>3, <2>5, <2>6
<1> QED BY <1>2, <1>3, <1>4, <1>5 DEF Call

LEMMA OrderInductive == IInv /\ FirstSetupInOrder /\ [Next]_vars => FirstSetupInOrder'
<1> SUFFICES ASSUME IInv, FirstSetupInOrder, [Next]_vars, setup_state' = "IN_PROGRESS"
             PROVE InOrder(pending') /\ Behind(wire', pending')
  BY DEF FirstSetupInOrder
<1>1. CASE UNCHANGED vars \/ Tick
  BY <1>1 DEF vars, coreVars, queueVars, Tick, FirstSetupInOrder
<1>2. CASE Call \/ Update \/ RequestEnds
  <2>1. setup_state = "IN_PROGRESS"
    BY <1>2 DEF Call, Update, RequestEnds, MoveTo, Stop, EmergencyStop, Home, RunContinuous, Enable,
            Disable, ReleaseProtection, Restart, Calibrate, SetZero, KeyLock, Reconfigure, Issue,
            Ask, IssueTo, coreVars, ClearCallbacks, SuccessDeferred, DelayOver, EndsUnheeded,
            ReadAllConfigSucceeds, ReadAllConfigFails, WriteHomingSucceeds, WriteFails,
            SetupDoneSucceeds, SetupDoneFails, GoHomeSucceeds, GoHomeFails, CalibrateFails,
            MoveSucceeds, StatusPolled, RecoveryStatusSucceeds, RecoveryReleaseSucceeds
  <2> QED BY <1>2, <2>1, OrderedEnds, OrderedCalls
<1> QED BY <1>1, <1>2 DEF Next

\* Only the marker completes set-up, and when it does the configuration is read
\* and written: the requests of set-up go out in the order in which they are
\* enqueued, whatever recoveries and homing runs come between (.cpp:482).
THEOREM MarkerComesLast == Spec => MarkerIsLast
<1>1. Init => FirstSetupInOrder
  <2> SUFFICES ASSUME Init PROVE FirstSetupInOrder
    OBVIOUS
  <2>1. pending = <<Item("read_all_config")>> /\ wire[1].request = "setup_restart"
    BY DEF Init, Sent, Item
  <2>2. InOrder(pending)
    BY <2>1 DEF InOrder, Item
  <2> QED BY <2>1, <2>2 DEF FirstSetupInOrder, Behind
<1>2. ASSUME IInv, FirstSetupInOrder, Next,
             setup_state = "IN_PROGRESS", setup_state' = "COMPLETED", NEW r \in ConfigRequests
      PROVE ~Outstanding(r)
  <2>1. SetupDoneSucceeds
    BY <1>2 DEF Next, Tick, Call, Update, RequestEnds, MoveTo, Stop, EmergencyStop, Home,
            RunContinuous, Enable, Disable, ReleaseProtection, Restart, Calibrate, SetZero, KeyLock,
            Reconfigure, Issue, Ask, IssueTo, coreVars, ClearCallbacks, SuccessDeferred, DelayOver,
            EndsUnheeded, ReadAllConfigSucceeds, ReadAllConfigFails, WriteHomingSucceeds,
            WriteFails, SetupDoneFails, GoHomeSucceeds, GoHomeFails, CalibrateFails,
            MoveSucceeds, StatusPolled, RecoveryStatusSucceeds, RecoveryReleaseSucceeds
  <2>2. pending_callback \in Delayed \cup {"none"}
    BY <1>2 DEF IInv, EngineTypeOK
  <2>3. OnWire("setup_done") /\ pending_callback # r
    BY <2>1, <2>2 DEF SetupDoneSucceeds, Succeeds, Delayed, ConfigRequests
  <2>4. Requests(pending) \cap ConfigRequests = {}
    BY <1>2, <2>3 DEF FirstSetupInOrder, Behind, OnWire
  <2> QED BY <1>2, <2>3, <2>4, WaitingRequests DEF Outstanding, OnWire, ConfigRequests
<1>3. IInv /\ FirstSetupInOrder /\ [Next]_vars =>
        (setup_state = "IN_PROGRESS" /\ setup_state' = "COMPLETED" =>
           \A r \in ConfigRequests : ~Outstanding(r))
  BY <1>2 DEF vars, coreVars
<1>4. Spec => []FirstSetupInOrder
  BY <1>1, OrderInductive, EngineInvariance, PTL DEF Spec
<1> QED BY <1>3, <1>4, EngineInvariance, PTL DEF Spec, MarkerIsLast
-----------------------------------------------------------------------------
(* Set-up goes on.                                                         *)

\* The set of what is still to come or to end.
WireRequests(w) == IF w = <<>> THEN {} ELSE {w[1].request}
Ahead == Requests(pending) \cup WireRequests(wire) \cup {pending_callback}

\* The requests whose ends lead on in set-up, or out of it.
Carriers == {"read_all_config", "setup_done", "go_home"}

\* home() sends something in every mode in which set-up ends with it.
HomingImplemented == config.at_startup => config.homing_mode \in {"NO_HOMING", "ENDSTOP"}

\* A notification waits only for a delay, and nothing is with the motor
\* meanwhile: no second notification replaces the first one.
OneAtATime ==
  /\ pending_callback # "none" => delaying
  /\ delaying => wire = <<>>

SetupCarried == HomingImplemented /\ state = "SettingUp" => Ahead \cap Carriers # {}
SetupInv == OneAtATime /\ SetupCarried

LEMMA AheadIsOutstanding ==
  ASSUME NEW r, r # "none"
  PROVE Outstanding(r) <=> r \in Ahead
  BY WaitingRequests DEF Outstanding, OnWire, Ahead, WireRequests

\* Requests at a place, and at the other places.
LEMMA RequestsSplit ==
  ASSUME NEW p \in Seq(QueueItem), NEW i \in DOMAIN p
  PROVE Requests(p) \subseteq Requests(RemoveAt(p, i)) \cup {p[i].request}
<1> DEFINE q == RemoveAt(p, i)
<1>1. DOMAIN q = 1 .. Len(p) - 1 /\ \A k \in 1 .. Len(p) - 1 : q[k] = p[IF k < i THEN k ELSE k + 1]
  BY RemovedPlaces
<1> HIDE DEF q
<1> SUFFICES ASSUME NEW j \in DOMAIN p, j # i PROVE \E k \in DOMAIN q : q[k] = p[j]
  BY DEF Requests, q
<1> DEFINE k == IF j < i THEN j ELSE j - 1
<1>2. k \in DOMAIN q /\ q[k] = p[j]
  BY <1>1
<1> QED BY <1>2

\* Neither way of the queue loses a request.
LEMMA ContinueCarries ==
  ASSUME NEW p \in Seq(QueueItem), NEW s, Continue(p, s)
  PROVE /\ Requests(p) \subseteq Ahead'
        /\ delaying' => wire' = <<>>
<1>1. CASE delaying' \/ p = <<>>
  BY <1>1 DEF Continue, Ahead
<1>2. CASE ~(delaying' \/ p = <<>>)
  <2>1. PICK i \in NextUp(p) : pending' = RemoveAt(p, i) /\ wire' = <<Sent(p[i], s)>>
    BY <1>2 DEF Continue
  <2>2. i \in DOMAIN p
    BY NextUpIs
  <2>3. WireRequests(wire') = {p[i].request}
    BY <2>1 DEF WireRequests, Sent
  <2> QED BY <1>2, <2>1, <2>2, <2>3, RequestsSplit DEF Ahead
<1> QED BY <1>1, <1>2

LEMMA EnqueueCarries ==
  ASSUME OneAtATime, NEW p \in Seq(QueueItem), NEW new \in Seq(QueueItem), NEW s, Enqueue(p, new, s)
  PROVE /\ Requests(p) \cup Requests(new) \cup WireRequests(wire) \cup {pending_callback} \subseteq Ahead'
        /\ OneAtATime'
<1>0. pending_callback' = pending_callback /\ delaying' = delaying
  BY DEF Enqueue
<1>1. CASE QueueFree(p) /\ new # <<>>
  <2>1. /\ wire' = <<Sent(Head(new), s)>> /\ pending' = Tail(new)
        /\ p = <<>> /\ wire = <<>> /\ ~delaying
    BY <1>1 DEF Enqueue, QueueFree
  <2>2. WireRequests(wire') = {new[1].request} /\ WireRequests(wire) = {} /\ Requests(p) = {}
    BY <1>1, <2>1, RequestsNone DEF WireRequests, Sent
  <2>3. ASSUME NEW j \in DOMAIN new, j # 1 PROVE \E k \in DOMAIN Tail(new) : Tail(new)[k] = new[j]
    <3>1. j - 1 \in DOMAIN Tail(new) /\ Tail(new)[j - 1] = new[j]
      BY <1>1, <2>3
    <3> QED BY <3>1
  <2>4. Requests(new) \subseteq Requests(Tail(new)) \cup {new[1].request}
    BY <2>3 DEF Requests
  <2> QED BY <1>0, <2>1, <2>2, <2>4 DEF Ahead, OneAtATime
<1>2. CASE ~(QueueFree(p) /\ new # <<>>)
  <2>1. pending' = p \o new /\ wire' = wire
    BY <1>2 DEF Enqueue
  <2>2. Requests(pending') = Requests(p) \cup Requests(new)
    BY <2>1, RequestsConcat
  <2> QED BY <1>0, <2>1, <2>2 DEF Ahead, OneAtATime
<1> QED BY <1>1, <1>2

\* A call that finds a delay over loses the notification that waited, and no more.
LEMMA ReleaseCarries ==
  ASSUME OneAtATime, NEW p \in Seq(QueueItem), NEW r \in Request, EnqueueReleases(p, r)
  PROVE /\ Requests(p) \subseteq Ahead'
        /\ WireRequests(wire) = {}
        /\ OneAtATime'
<1>1. Continue(p \o <<Item(r)>>, Notified) /\ pending_callback' = "none"
      /\ <<Item(r)>> \in Seq(QueueItem) /\ p \o <<Item(r)>> \in Seq(QueueItem)
  BY ReleaseContinues
<1>2. Requests(p) \subseteq Requests(p \o <<Item(r)>>)
  BY <1>1, RequestsConcat
<1>3. Requests(p \o <<Item(r)>>) \subseteq Ahead' /\ (delaying' => wire' = <<>>)
  BY <1>1, ContinueCarries
<1> QED BY <1>1, <1>2, <1>3 DEF OneAtATime, EnqueueReleases, WireRequests

\* Polling loses none either.
LEMMA PolledCarries ==
  ASSUME NEW p \in Seq(QueueItem)
  PROVE Polled(p) \in Seq(QueueItem) /\ Requests(p) \subseteq Requests(Polled(p))
<1> DEFINE more == [i \in DOMAIN p |-> IF FirstStatusRead(p, i) /\ p[i].polls < PollCap
                                         THEN [p[i] EXCEPT !.polls = @ + 1] ELSE p[i]]
           q1 == NewPoll("poll_encoder_position", p)
           q2 == NewPoll("poll_motor_speed", p)
           q3 == NewPoll("poll_motor_status", p)
<1>1. ASSUME NEW i \in DOMAIN p
      PROVE more[i] \in QueueItem /\ more[i].request = p[i].request
  <2>1. p[i] \in QueueItem
    BY ElementType
  <2> QED BY <2>1 DEF QueueItem, PollCap
<1>2. more \in Seq(QueueItem) /\ DOMAIN more = DOMAIN p
  BY <1>1
<1>3. Requests(more) = Requests(p)
  BY <1>1, <1>2 DEF Requests
<1>4. q1 \in Seq(QueueItem) /\ q2 \in Seq(QueueItem) /\ q3 \in Seq(QueueItem)
  BY NewPollType DEF PollRequests
<1>5. AddPolls(p) = ((more \o q1) \o q2) \o q3
  BY DEF AddPolls
<1> HIDE DEF more, q1, q2, q3
<1>6. ASSUME NEW x \in Seq(QueueItem), Requests(p) \subseteq Requests(x), NEW y \in Seq(QueueItem)
      PROVE x \o y \in Seq(QueueItem) /\ Requests(p) \subseteq Requests(x \o y)
  BY <1>6, RequestsConcat
<1>7. more \o q1 \in Seq(QueueItem) /\ Requests(p) \subseteq Requests(more \o q1)
  BY <1>2, <1>3, <1>4, <1>6
<1>8. (more \o q1) \o q2 \in Seq(QueueItem) /\ Requests(p) \subseteq Requests((more \o q1) \o q2)
  BY <1>4, <1>6, <1>7
<1>9. Requests(p) \subseteq Requests(((more \o q1) \o q2) \o q3)
  BY <1>4, <1>6, <1>8
<1> QED BY <1>5, <1>9, PolledType DEF Polled

\* What was ahead when a request ends is that request, or waits.
LEMMA EndLeaves ==
  ASSUME OneAtATime, NEW r \in Request, Succeeds(r) \/ Fails(r)
  PROVE /\ Ahead \subseteq Requests(pending) \cup {r, "none"}
        /\ pending_callback' = "none"
<1>0. r # "none"
  BY DEF Request, SetupRequests, RecoveryRequests, PollRequests, UserRequests
<1>1. CASE OnWire(r)
  BY <1>0, <1>1 DEF OneAtATime, OnWire, Ahead, WireRequests, Succeeds, Fails
<1>2. CASE ~OnWire(r)
  BY <1>0, <1>2 DEF OneAtATime, Ahead, WireRequests, Succeeds, Fails
<1> QED BY <1>1, <1>2

\* The end of a request that carries nothing, or of one whose callback leaves
\* another carrier behind.
LEMMA EndCarries ==
  ASSUME OneAtATime, NEW r \in Request, Succeeds(r) \/ Fails(r),
         NEW p \in Seq(QueueItem), NEW s, Continue(p, s)
  PROVE /\ OneAtATime'
        /\ Requests(pending) \subseteq Requests(p) /\ Ahead \cap Carriers # {} /\ r \notin Carriers
             => Ahead' \cap Carriers # {}
        /\ Requests(p) \cap Carriers # {} => Ahead' \cap Carriers # {}
<1>1. pending_callback' = "none" /\ Ahead \subseteq Requests(pending) \cup {r, "none"}
  BY EndLeaves
<1>2. Requests(p) \subseteq Ahead' /\ (delaying' => wire' = <<>>)
  BY ContinueCarries
<1>3. "none" \notin Carriers
  BY DEF Carriers
<1> QED BY <1>1, <1>2, <1>3 DEF OneAtATime

\* A status that is processed in another state does not lead into set-up.
LEMMA StatusLeavesSetup ==
  ASSUME NEW s, NEW status, ProcessStatus(s, status), state' = "SettingUp"
  PROVE s = "SettingUp"
<1>1. ASSUME NEW t, StateAfter(t, status) = "SettingUp" PROVE t = "SettingUp"
  BY <1>1 DEF StateAfter
<1> QED BY <1>1 DEF ProcessStatus, EnterState

LEMMA CarryingEnds ==
  ASSUME IInv, SetupInv, UNCHANGED config, RequestEnds
  PROVE SetupInv'
<1>0. pending \in Seq(QueueItem) /\ EngineTypeOK /\ OneAtATime /\ SetupCarried
  BY WaitingNow DEF IInv, SetupInv
<1>1. HomingImplemented' <=> HomingImplemented
  BY DEF HomingImplemented
<1>2. CASE SuccessDeferred
  <2>1. PICK r \in Delayed : OnWire(r) /\ wire' = <<>> /\ pending_callback' = r /\ delaying' = TRUE
                             /\ pending' = pending /\ state' = state
    BY <1>2 DEF SuccessDeferred, stateVars
  <2>2. pending_callback = "none" /\ WireRequests(wire) = {r}
    BY <1>0, <2>1 DEF OneAtATime, OnWire, WireRequests
  <2>3. Ahead \cap Carriers \subseteq Ahead'
    BY <2>1, <2>2 DEF Ahead, Carriers
  <2> QED BY <1>0, <1>1, <2>1, <2>3 DEF OneAtATime, SetupCarried, SetupInv
<1>3. CASE DelayOver
  <2>1. /\ pending_callback' = "none" /\ delaying' = FALSE /\ wire = <<>> /\ state' = state
        /\ pending_callback = "none" /\ Continue(pending, state)
    BY <1>0, <1>3 DEF DelayOver, OneAtATime, stateVars
  <2>2. Ahead \cap Carriers \subseteq Ahead'
    BY <1>0, <2>1, ContinueCarries DEF Ahead, WireRequests, Carriers
  <2> QED BY <1>0, <1>1, <2>1, <2>2 DEF OneAtATime, SetupCarried, SetupInv
<1>4. CASE EndsUnheeded
  <2>1. PICK r \in Request, ok \in BOOLEAN :
          NoEffect(r, ok) /\ (Succeeds(r) \/ Fails(r)) /\ Continue(pending, state) /\ state' = state
    BY <1>4 DEF EndsUnheeded, stateVars
  <2>2. r \in Carriers => state = "Error"
    BY <2>1 DEF NoEffect, Carriers, RecoveryRequests
  <2> QED BY <1>0, <1>1, <2>1, <2>2, EndCarries DEF SetupCarried, SetupInv
<1>5. CASE ReadAllConfigSucceeds
  <2>1. PICK commands \in UpdateCommands :
          /\ Continue(Append(pending \o commands, Item("setup_done")), state)
          /\ Succeeds("read_all_config")
    BY <1>5 DEF ReadAllConfigSucceeds
  <2>2. "setup_done" \in Request /\ "read_all_config" \in Request /\ "setup_done" \in Carriers
    BY DEF Request, SetupRequests, Carriers
  <2>3. /\ Append(pending \o commands, Item("setup_done")) \in Seq(QueueItem)
        /\ "setup_done" \in Requests(Append(pending \o commands, Item("setup_done")))
    <3>1. pending \o commands \in Seq(QueueItem)
      BY <1>0, UpdateCommandsType, RequestsConcat
    <3> DEFINE p == pending \o commands
    <3> HIDE DEF p
    <3>2. Append(p, Item("setup_done")) \in Seq(QueueItem)
          /\ "setup_done" \in Requests(Append(p, Item("setup_done")))
      BY <2>2, <3>1, RequestsAppend DEF p
    <3> QED BY <3>2 DEF p
  <2> QED BY <1>0, <2>1, <2>2, <2>3, EndCarries DEF SetupCarried, SetupInv
<1>6. CASE ReadAllConfigFails \/ WriteFails \/ SetupDoneFails
  <2>1. PICK r \in Request : Fails(r) /\ Continue(<<>>, "Error") /\ state' = "Error"
    BY <1>6 DEF ReadAllConfigFails, WriteFails, SetupDoneFails, EnterState, Request, SetupRequests
  <2> QED BY <1>0, <2>1, RequestsNone, EndCarries DEF SetupCarried, SetupInv
<1>7. CASE WriteHomingSucceeds
  <2>1. /\ Continue(Append(pending, Item("setup_go_home")), state)
        /\ Succeeds("write_homing") /\ state' = state
    BY <1>7 DEF WriteHomingSucceeds, stateVars
  <2>2. "write_homing" \in Request \ Carriers /\ "setup_go_home" \in Request
    BY DEF Request, SetupRequests, Carriers
  <2>3. /\ Append(pending, Item("setup_go_home")) \in Seq(QueueItem)
        /\ Requests(pending) \subseteq Requests(Append(pending, Item("setup_go_home")))
    BY <1>0, <2>2, RequestsAppend
  <2> QED BY <1>0, <1>1, <2>1, <2>2, <2>3, EndCarries DEF SetupCarried, SetupInv
<1>8. CASE SetupDoneSucceeds
  <2>1. PICK status \in MotorStatus :
          /\ ProcessStatus(IF state = "SettingUp" /\ ~HomesAtStartup THEN "Idle" ELSE state, status)
          /\ Continue(IF state \notin {"Error", "Homing"} /\ HomesAtStartup
                        THEN pending \o HomeRequests ELSE pending, state')
          /\ Succeeds("setup_done")
    BY <1>8 DEF SetupDoneSucceeds
  <2> DEFINE p == IF state \notin {"Error", "Homing"} /\ HomesAtStartup
                    THEN pending \o HomeRequests ELSE pending
  <2>2. "setup_done" \in Request
    BY DEF Request, SetupRequests
  <2>3. p \in Seq(QueueItem)
    BY <1>0, HomeRequestsType, RequestsConcat
  <2>4. OneAtATime'
    BY <1>0, <2>1, <2>2, <2>3, EndCarries
  <2>5. ASSUME HomingImplemented, state' = "SettingUp"
        PROVE Requests(p) \cap Carriers # {}
    <3>1. state = "SettingUp" /\ HomesAtStartup
      BY <2>1, <2>5, StatusLeavesSetup
    <3>2. HomeRequests = <<Item("go_home")>> /\ "go_home" \in Request
      BY <2>5, <3>1 DEF HomesAtStartup, HomingImplemented, HomeRequests, Request, UserRequests
    <3>3. "go_home" \in Requests(p)
      BY <1>0, <3>1, <3>2, RequestsOne, RequestsConcat
    <3> QED BY <3>3 DEF Carriers
  <2>6. HomingImplemented /\ state' = "SettingUp" => Ahead' \cap Carriers # {}
    BY <1>0, <2>1, <2>2, <2>3, <2>5, EndCarries
  <2> QED BY <1>1, <2>4, <2>6 DEF SetupCarried, SetupInv
<1>9. CASE GoHomeSucceeds \/ GoHomeFails \/ CalibrateFails \/ MoveSucceeds
  <2>1. PICK r \in Request, s \in {"Homing", "Error", "Moving"} : (Succeeds(r) \/ Fails(r)) /\ GoTo(s)
    BY <1>9 DEF GoHomeSucceeds, GoHomeFails, CalibrateFails, MoveSucceeds, Request, UserRequests,
                SetupRequests
  <2>2. Continue(Kept(s), s) /\ state' = s
    BY <2>1 DEF GoTo, EnterState
  <2>3. Kept(s) \in Seq(QueueItem)
    BY KeptNow
  <2> QED BY <1>0, <2>1, <2>2, <2>3, EndCarries DEF SetupCarried, SetupInv
<1>10. CASE StatusPolled \/ RecoveryStatusSucceeds
  <2>1. PICK r \in {"poll_motor_status", "recovery_status"}, status \in MotorStatus,
             p \in {pending, Append(pending, Item("recovery_release"))} :
          Succeeds(r) /\ ProcessStatus(state, status) /\ Continue(p, state')
    BY <1>10 DEF StatusPolled, RecoveryStatusSucceeds
  <2>2. r \in Request \ Carriers /\ "recovery_release" \in Request
    BY DEF Request, PollRequests, RecoveryRequests, Carriers
  <2>3. p \in Seq(QueueItem) /\ Requests(pending) \subseteq Requests(p)
    BY <1>0, <2>2, RequestsAppend
  <2>4. state' = "SettingUp" => state = "SettingUp"
    BY <2>1, StatusLeavesSetup
  <2> QED BY <1>0, <1>1, <2>1, <2>2, <2>3, <2>4, EndCarries DEF SetupCarried, SetupInv
<1>11. CASE RecoveryReleaseSucceeds
  <2>1. PICK p \in {pending, pending \o HomeRequests} :
          Succeeds("recovery_release") /\ Continue(p, "Idle") /\ state' = "Idle"
    BY <1>11 DEF RecoveryReleaseSucceeds, EnterState
  <2>2. "recovery_release" \in Request /\ p \in Seq(QueueItem)
    BY <1>0, HomeRequestsType, RequestsConcat DEF Request, RecoveryRequests
  <2> QED BY <1>0, <2>1, <2>2, EndCarries DEF SetupCarried, SetupInv
<1> QED BY <1>2, <1>3, <1>4, <1>5, <1>6, <1>7, <1>8, <1>9, <1>10, <1>11 DEF RequestEnds

\* A call leaves set-up, lets it go on, or starts it with a read of the
\* configuration.
LEMMA CarryingCalls ==
  ASSUME IInv, SetupInv, UNCHANGED config, Call
  PROVE SetupInv'
<1>0. pending \in Seq(QueueItem) /\ OneAtATime /\ SetupCarried
  BY WaitingNow DEF IInv, SetupInv
<1>1. HomingImplemented' <=> HomingImplemented
  BY DEF HomingImplemented
<1>2. CASE Reconfigure
  <2> DEFINE new == <<Item("setup_restart"), Item("read_all_config")>>
  <2>1. Enqueue(pending, new, state)
    BY <1>2 DEF Reconfigure
  <2>2. "setup_restart" \in Request /\ "read_all_config" \in Request
    BY DEF Request, SetupRequests
  <2>3. new = <<Item("setup_restart")>> \o <<Item("read_all_config")>>
    OBVIOUS
  <2> HIDE DEF new
  <2>4. new \in Seq(QueueItem) /\ "read_all_config" \in Requests(new)
    <3>1. /\ <<Item("setup_restart")>> \in Seq(QueueItem)
          /\ <<Item("read_all_config")>> \in Seq(QueueItem)
          /\ Requests(<<Item("read_all_config")>>) = {"read_all_config"}
      BY <2>2, RequestsOne
    <3> QED BY <2>3, <3>1, RequestsConcat
  <2>5. OneAtATime' /\ "read_all_config" \in Ahead'
    BY <1>0, <2>1, <2>4, EnqueueCarries
  <2> QED BY <2>5 DEF SetupCarried, SetupInv, Carriers
<1>3. CASE EmergencyStop \/ Restart
  <2>1. state' # "SettingUp"
    BY <1>3 DEF EmergencyStop, Restart, EnterState, EnterAfterNotified
  <2>2. CASE UNCHANGED <<wire, pending_callback, delaying>>
    BY <1>0, <2>1, <2>2 DEF OneAtATime, SetupCarried, SetupInv
  <2>3. CASE ~UNCHANGED <<wire, pending_callback, delaying>>
    <3>1. PICK r \in {"emergency_stop", "restart"} :
            Enqueue(<<>>, <<Item(r)>>, state) \/ EnqueueReleases(<<>>, r)
      BY <1>3, <2>3 DEF EmergencyStop, Restart
    <3>2. r \in Request
      BY DEF Request, UserRequests
    <3> QED BY <1>0, <2>1, <3>1, <3>2, RequestsOne, RequestsNone, EnqueueCarries, ReleaseCarries
            DEF SetupCarried, SetupInv
  <2> QED BY <2>2, <2>3
<1>4. CASE \/ MoveTo \/ Stop \/ Home \/ RunContinuous \/ Enable \/ Disable
           \/ ReleaseProtection \/ Calibrate \/ SetZero \/ KeyLock
  <2>0. state \in State /\ pending_callback \in Delayed \cup {"none"}
    BY DEF IInv, EngineTypeOK
  <2>1. PICK r \in UserRequests, s \in State, t \in State :
          /\ IssueTo(r, s, t)
          /\ s = "SettingUp" => state = "SettingUp"
          /\ t = "SettingUp" => Notified = "SettingUp"
    BY <1>4, <2>0, CallsIssue
  <2>2. r \in Request /\ <<Item(r)>> \in Seq(QueueItem)
    BY RequestsOne DEF Request
  <2>3. CASE Enqueue(pending, <<Item(r)>>, state) /\ EnterState(s)
    <3>1. OneAtATime' /\ Ahead \subseteq Ahead'
      BY <1>0, <2>2, <2>3, EnqueueCarries DEF Ahead
    <3> QED BY <1>0, <1>1, <2>1, <2>3, <3>1 DEF SetupCarried, SetupInv, EnterState
  <2>4. CASE EnqueueReleases(pending, r) /\ EnterAfterNotified(t)
    <3>1. OneAtATime' /\ Requests(pending) \subseteq Ahead' /\ WireRequests(wire) = {}
      BY <1>0, <2>2, <2>4, ReleaseCarries
    <3>2. ASSUME state' = "SettingUp"
          PROVE state = "SettingUp" /\ Ahead \cap Carriers \subseteq Ahead'
      <4>1. state = "SettingUp" /\ pending_callback # "go_home"
        BY <2>1, <2>4, <3>2 DEF EnterAfterNotified, Notified
      <4>2. pending_callback \notin Carriers
        BY <2>0, <4>1 DEF Carriers, Delayed
      <4> QED BY <3>1, <4>1, <4>2 DEF Ahead
    <3> QED BY <1>0, <1>1, <3>1, <3>2 DEF SetupCarried, SetupInv
  <2> QED BY <2>1, <2>3, <2>4 DEF IssueTo
<1> QED BY <1>2, <1>3, <1>4 DEF Call

\* The main loop takes nothing out of the queue in set-up.
LEMMA CarryingUpdate ==
  ASSUME IInv, SetupInv, UNCHANGED config, Update
  PROVE SetupInv'
<1> DEFINE kept == Kept(StateInTime)
           s == IF DisablesNow THEN "Disabled" ELSE StateInTime
           recovery == IF RecoveryDue THEN <<Item("recovery_status")>> ELSE <<>>
           disabling == IF DisablesNow THEN <<Item("disable")>> ELSE <<>>
           own == recovery \o disabling
<1>0. pending \in Seq(QueueItem) /\ OneAtATime /\ SetupCarried
  BY WaitingNow DEF IInv, SetupInv
<1>1. HomingImplemented' <=> HomingImplemented
  BY DEF HomingImplemented
<1>2. /\ IF QueueFree(kept)
           THEN Enqueue(kept, own \o Polled(<<>>), s)
           ELSE pending' = Polled(kept \o own) /\ UNCHANGED <<wire, pending_callback, delaying>>
      /\ state' = s
  BY DEF Update
<1>3. s = "SettingUp" => state = "SettingUp" /\ kept = pending
  BY DEF StateInTime, Kept
<1>4. kept \in Seq(QueueItem) /\ own \in Seq(QueueItem)
  <2>1. "recovery_status" \in Request /\ "disable" \in Request
    BY DEF Request, RecoveryRequests, UserRequests
  <2>2. recovery \in Seq(QueueItem) /\ disabling \in Seq(QueueItem)
    BY <2>1, RequestsOne, RequestsNone
  <2> QED BY <2>2, KeptNow, RequestsConcat
<1> HIDE DEF kept, s, own
<1>5. CASE QueueFree(kept)
  <2> DEFINE q == Polled(<<>>)
  <2>1. q \in Seq(QueueItem)
    BY RequestsNone, PolledCarries
  <2> HIDE DEF q
  <2>2. own \o q \in Seq(QueueItem)
    BY <1>4, <2>1, RequestsConcat
  <2>3. Enqueue(kept, own \o q, s)
    BY <1>2, <1>5 DEF q
  <2>4. OneAtATime' /\ (kept = pending => Ahead \subseteq Ahead')
    BY <1>0, <1>4, <2>2, <2>3, EnqueueCarries DEF Ahead
  <2> QED BY <1>0, <1>1, <1>2, <1>3, <2>4 DEF SetupCarried, SetupInv
<1>6. CASE ~QueueFree(kept)
  <2>1. pending' = Polled(kept \o own) /\ UNCHANGED <<wire, pending_callback, delaying>>
    BY <1>2, <1>6
  <2>2. kept \o own \in Seq(QueueItem) /\ Requests(kept) \subseteq Requests(kept \o own)
    BY <1>4, RequestsConcat
  <2>3. Requests(kept) \subseteq Requests(pending')
    BY <2>1, <2>2, PolledCarries
  <2>4. OneAtATime' /\ (kept = pending => Ahead \subseteq Ahead')
    BY <1>0, <2>1, <2>3 DEF Ahead, OneAtATime
  <2> QED BY <1>0, <1>1, <1>2, <1>3, <2>4 DEF SetupCarried, SetupInv
<1> QED BY <1>5, <1>6

\* Set-up does not get stuck: while the state is SettingUp something is still to
\* come that leads on or out, on every device whose homing at start-up is
\* implemented (.cpp:518; for the others home() sends nothing, .cpp:669, 772).
THEOREM SetupNeverStuck == Spec => [](HomingImplemented => SetupAlive)
<1>1. Init => SetupInv
  BY DEF Init, SetupInv, OneAtATime, SetupCarried, Ahead, Requests, Carriers, Item
<1>2. IInv /\ SetupInv /\ [Next]_vars => SetupInv'
  <2> SUFFICES ASSUME IInv, SetupInv, [Next]_vars PROVE SetupInv'
    OBVIOUS
  <2>1. CASE UNCHANGED vars \/ (Tick /\ UNCHANGED config)
    BY <2>1 DEF vars, stateVars, queueVars, Tick, SetupInv, OneAtATime, SetupCarried, Ahead,
                HomingImplemented
  <2> QED BY <2>1, CarryingEnds, CarryingCalls, CarryingUpdate DEF Next
<1>3. SetupInv => (HomingImplemented => SetupAlive)
  <2> SUFFICES ASSUME SetupInv, HomingImplemented, state = "SettingUp"
               PROVE \E r \in SetupRequests \cup {"go_home"} : Outstanding(r)
    BY DEF SetupAlive
  <2>1. PICK r \in Carriers : r \in Ahead
    BY DEF SetupInv, SetupCarried
  <2> QED BY <2>1, AheadIsOutstanding DEF Carriers, SetupRequests
<1> QED BY <1>1, <1>2, <1>3, EngineInvariance, PTL DEF Spec

=============================================================================
