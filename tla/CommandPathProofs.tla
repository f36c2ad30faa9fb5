-------------------------- MODULE CommandPathProofs --------------------------
(***************************************************************************)
(* Proofs about CommandPath, for any commands, requests, time-outs with    *)
(* ResponseTimeoutMs < TimeoutMs, clock width, hub and depth of nested     *)
(* calls.  The path implements the queue of CommandQueue with its open     *)
(* environment, so every theorem of CommandQueueProofs holds of it; queue  *)
(* and transport agree on the command with the motor; the transport is     *)
(* free at every send.                                                     *)
(*                                                                         *)
(* The argument is about time: in a pass of update() the transport looks   *)
(* at its time-out first, and at most one tick passes before the queue     *)
(* looks at its own, longer one (Waited).  So the queue never gives up a   *)
(* command the transport still has.                                        *)
(***************************************************************************)
EXTENDS CommandPath, CommandQueueProofs

\* Is a call of check_timeout() of the queue in progress or to come?
HasCheck(st) == \E k \in 1 .. Len(st) : st[k].op = "check_timeout"

\* Between update() of the transport and check_timeout() of the queue the
\* transport's command is no older than the time-out, or one tick older.
Waited ==
  T!is_busy /\ HasCheck(stack) /\ ~Running("transport_update")
    => (millis - timeout_start_ms) % ClockWrap <= ResponseTimeoutMs + (IF looped THEN 0 ELSE 1)

PathIInv == IInv /\ PathTypeOK /\ Agreement /\ Waited

-----------------------------------------------------------------------------
(* Calls of check_timeout().                                               *)

\* A call that is no check_timeout() adds none.
LEMMA NoCheckPushed ==
  ASSUME NEW S, NEW s \in Seq(S), NEW f, f.op # "check_timeout", ~HasCheck(s)
  PROVE Append(s, f) \in Seq(S \cup {f}) /\ ~HasCheck(Append(s, f))
<1> DEFINE t == Append(s, f)
<1>1. /\ t \in Seq(S \cup {f}) /\ Len(t) = Len(s) + 1 /\ Len(s) \in Nat
      /\ t[Len(s) + 1] = f
      /\ \A k \in 1 .. Len(s) : t[k] = s[k]
  OBVIOUS
<1> HIDE DEF t
<1>2. t \in Seq(S \cup {f}) /\ ~HasCheck(t)
  BY <1>1 DEF HasCheck
<1> QED BY <1>2 DEF t

\* Nor do two of them.
LEMMA NoCheckPushedTwo ==
  ASSUME NEW s \in Seq(Frame), NEW f, NEW g, f.op # "check_timeout",
         g.op # "check_timeout", ~HasCheck(s)
  PROVE ~HasCheck(Append(Append(s, f), g))
<1>1. Append(s, f) \in Seq(Frame \cup {f}) /\ ~HasCheck(Append(s, f))
  BY NoCheckPushed
<1> HIDE DEF HasCheck
<1> QED BY <1>1, NoCheckPushed

\* Nor does the return of the innermost call.
LEMMA NoCheckBelow ==
  ASSUME TypeOK, stack # <<>>, ~HasCheck(stack)
  PROVE Below \in Seq(Frame) /\ ~HasCheck(Below)
<1>1. Below \in Seq(Frame) /\ Top \in Frame /\ stack = Append(Below, Top)
  BY TopType, StackIsAppend
<1>2. /\ Len(stack) = Len(Below) + 1 /\ Len(Below) \in Nat
      /\ \A k \in 1 .. Len(Below) : Below[k] = stack[k]
  BY <1>1
<1> QED BY <1>1, <1>2 DEF HasCheck

\* Only update() calls check_timeout().
LEMMA NoCheckEntered ==
  ASSUME TypeOK, QueueAlone, ~Update, ~HasCheck(stack)
  PROVE ~HasCheck(stack')
<1>1. stack \in Seq(Frame)
  BY DEF TypeOK
<1>2. stack # <<>> => Below \in Seq(Frame) /\ ~HasCheck(Below)
  BY NoCheckBelow
<1>3. /\ Call("execute_next").op # "check_timeout" /\ Call("send").op # "check_timeout"
      /\ Call("callback").op # "check_timeout"
      /\ \A cbs, ok : Notify(cbs, ok).op # "check_timeout"
      /\ \A lists : ClearCall(lists).op # "check_timeout"
  BY DEF Call, Notify, ClearCall
<1>4. CASE Enqueue
  <2>1. UNCHANGED stack \/ stack' = Append(stack, Call("execute_next"))
    BY <1>4 DEF Enqueue, EnqueueDuplicate, EnqueueNew
  <2>2. ~HasCheck(Append(stack, Call("execute_next")))
    BY <1>1, <1>3, NoCheckPushed
  <2> QED BY <2>1, <2>2 DEF HasCheck
<1>5. CASE Clear
  <2>1. PICK lists : stack' = Append(stack, ClearCall(lists))
    BY <1>5 DEF Clear
  <2> QED BY <2>1, <1>1, <1>3, NoCheckPushed
<1>6. CASE Tick
  BY <1>6 DEF Tick, HasCheck
<1>7. CASE CheckTimeoutExpires
  <2>1. /\ \E cbs : stack' = Append(Append(Below, Call("execute_next")), Notify(cbs, FALSE))
        /\ stack # <<>>
    BY <1>7 DEF CheckTimeoutExpires, BecomeTop, Running
  <2> QED BY <2>1, <1>2, <1>3, NoCheckPushedTwo
<1>8. CASE CheckTimeoutPasses \/ CallbackReturn \/ NotifyDone \/ ExecuteNextBlocked \/ SendNothing
  <2>1. stack # <<>> /\ stack' = Below
    BY <1>8 DEF CheckTimeoutPasses, CallbackReturn, NotifyDone, ExecuteNextBlocked,
       SendNothing, Running
  <2> QED BY <2>1, <1>2
<1>9. CASE CallCallback \/ ClearCancels
  <2>1. stack # <<>> /\ Top \in Frame /\ Top.op \in {"notify", "clear"}
    BY <1>9, TopType DEF CallCallback, ClearCancels, Running
  <2>2. \E f, g : /\ f.op = Top.op /\ g.op # "check_timeout"
                  /\ stack' = Append(Append(Below, f), g)
    <3>1. CASE CallCallback
      <4> DEFINE f == [Top EXCEPT !.callbacks = Tail(@)]
      <4>1. stack' = Append(Append(Below, f), Call("callback"))
        BY <3>1 DEF CallCallback, BecomeTop
      <4>2. f.op = Top.op
        BY <2>1 DEF Frame
      <4> QED BY <4>1, <4>2, <1>3
    <3>2. CASE ClearCancels
      <4> DEFINE f == [Top EXCEPT !.cancelled = Tail(@)]
      <4>1. stack' = Append(Append(Below, f), Notify(Head(Top.cancelled), FALSE))
        BY <3>2 DEF ClearCancels, BecomeTop
      <4>2. f.op = Top.op
        BY <2>1 DEF Frame
      <4> QED BY <4>1, <4>2, <1>3
    <3> QED BY <1>9, <3>1, <3>2
  <2> QED BY <2>1, <2>2, <1>2, NoCheckPushedTwo
<1>10. CASE ClearDone
  <2>1. stack # <<>> /\ stack' = Append(Below, Call("execute_next"))
    BY <1>10 DEF ClearDone, BecomeTop, Running
  <2> QED BY <2>1, <1>2, <1>3, NoCheckPushed
<1>11. CASE ExecuteNextProceeds
  <2>1. /\ stack # <<>>
        /\ \/ stack' = Append(Below, Call("send"))
           \/ \E cbs : stack' = Append(Append(Below, Call("send")), Notify(cbs, TRUE))
    BY <1>11 DEF ExecuteNextProceeds, BecomeTop, Running
  <2> QED BY <2>1, <1>2, <1>3, NoCheckPushed, NoCheckPushedTwo
<1> QED BY <1>4, <1>5, <1>6, <1>7, <1>8, <1>9, <1>10, <1>11 DEF QueueAlone

\* While the transport's update() runs nothing else of the queue happens.
LEMMA TransportUpdateAlone ==
  ASSUME QueueAlone, ~Tick PROVE ~Running("transport_update")
  BY DEF QueueAlone, Enqueue, EnqueueDuplicate, EnqueueNew, Clear, UserCode, Update,
     CheckTimeoutExpires, CheckTimeoutPasses, CallCallback, CallbackReturn, NotifyDone,
     ClearCancels, ClearDone, ExecuteNextBlocked, ExecuteNextProceeds, SendNothing, Running

-----------------------------------------------------------------------------
(* The command on the wire.                                                *)

\* What the agreement says of the front of a queue.
SameFront == Head(queue').command = Head(queue).command /\ Head(queue').sent_time = Head(queue).sent_time

\* enqueue() leaves the executing command at the front.
LEMMA FrontEnqueue ==
  ASSUME TypeOK, Enqueue, Executing PROVE Executing' /\ SameFront
<1>1. /\ queue \in Seq(QueuedCommand) /\ Len(queue) \in Nat /\ Len(queue) >= 1
      /\ queue[1] \in QueuedCommand /\ queue[1].state = "EXECUTING" /\ Head(queue) = queue[1]
  BY DEF TypeOK, Executing
<1>2. /\ queue'[1] = queue[1] /\ queue' # <<>> /\ Head(queue') = queue'[1]
  <2>1. PICK req \in Requests, cb \in {<<>>} \cup {<<r>> : r \in Requester \ outstanding} :
          EnqueueDuplicate(req, cb) \/ EnqueueNew(req, cb)
    BY DEF Enqueue
  <2>2. CASE EnqueueDuplicate(req, cb)
    <3>1. PICK i \in 1 .. Len(queue) :
            /\ IsDuplicate(i, req.command)
            /\ queue' = [queue EXCEPT
                 ![i].priority = IF req.priority < @ THEN req.priority ELSE @,
                 ![i].delay = req.delay,
                 ![i].callbacks = @ \o cb]
      BY <2>2 DEF EnqueueDuplicate
    <3>2. i # 1
      BY <1>1, <3>1 DEF IsDuplicate
    <3>3. \E merged : queue' = [queue EXCEPT ![i] = merged]
      BY <1>1, <3>1
    <3> QED BY <1>1, <3>2, <3>3
  <2>3. CASE EnqueueNew(req, cb)
    <3>1. \E new : queue' = Append(queue, new)
      BY <2>3 DEF EnqueueNew
    <3> QED BY <1>1, <3>1
  <2> QED BY <2>1, <2>2, <2>3
<1> QED BY <1>1, <1>2 DEF Executing, SameFront

\* clear() leaves the executing command at the front.
LEMMA FrontClear ==
  ASSUME TypeOK, Clear, Executing PROVE Executing' /\ SameFront
<1>1. /\ queue \in Seq(QueuedCommand) /\ Len(queue) \in Nat /\ Len(queue) >= 1
      /\ Head(queue) = queue[1]
  BY DEF TypeOK, Executing
<1>2. queue' = SubSeq(queue, 1, 1)
  BY DEF Clear
<1>3. queue' # <<>> /\ Head(queue') = Head(queue)
  BY <1>1, <1>2
<1> QED BY <1>3 DEF Executing, SameFront

\* No step of the queue alone but its time-out touches the command on the wire.
LEMMA FrontKept ==
  ASSUME TypeOK, QueueAlone, ~CheckTimeoutExpires, Executing PROVE Executing' /\ SameFront
<1>1. Enqueue \/ Clear \/ UNCHANGED queue
  BY DEF QueueAlone, Update, Tick, CheckTimeoutPasses, CallCallback, CallbackReturn, NotifyDone,
     ClearCancels, ClearDone, ExecuteNextBlocked, ExecuteNextProceeds, SendNothing, queueVars
<1>2. UNCHANGED queue => Executing' /\ SameFront
  BY DEF Executing, SameFront
<1> QED BY <1>1, <1>2, FrontEnqueue, FrontClear

\* A send puts a command in front, executing from now on.
LEMMA FrontSent ==
  ASSUME TypeOK, Send
  PROVE /\ Executing' /\ queue' # <<>>
        /\ Head(queue').command \in Command /\ Head(queue').sent_time = millis
<1>1. PICK best \in 1 .. Len(queue) :
        queue' = [MoveToFront(best) EXCEPT ![1].state = "EXECUTING", ![1].sent_time = millis]
  BY DEF Send
<1>2. queue' \in Seq(QueuedCommand) /\ Len(queue') = Len(queue) /\ Len(queue) >= 1
  <2>1. queue' \in Seq(QueuedCommand) /\ Len(queue') = Len(queue)
    BY <1>1, SentQueue
  <2>2. Len(queue) \in Nat
    BY DEF TypeOK
  <2> QED BY <2>1, <2>2, <1>1
<1>3. MoveToFront(best)[1] = queue[best] /\ queue[best] \in QueuedCommand /\ 1 \in DOMAIN MoveToFront(best)
  BY <1>2 DEF MoveToFront, TypeOK
<1>4. queue'[1].state = "EXECUTING" /\ queue'[1].sent_time = millis
  BY <1>1, <1>3 DEF QueuedCommand
<1>5. Head(queue') = queue'[1] /\ queue' # <<>> /\ queue'[1] \in QueuedCommand
  BY <1>2
<1> QED BY <1>4, <1>5 DEF Executing, QueuedCommand

-----------------------------------------------------------------------------
(* The steps of the path.                                                  *)

\* The transport and the hub start idle.
LEMMA PathInitially == PathInit => PathIInv
<1> SUFFICES ASSUME PathInit PROVE PathIInv
  OBVIOUS
<1>1. IInv
  BY InitInvariant DEF PathInit
<1>2. 0 \in 0 .. ClockWrap - 1
  BY ConstantsAssumption DEF ConstantsAssumption
<1>3. T!TransportTypeOK /\ ~T!is_busy
  BY <1>2 DEF PathInit, T!TransportInit, T!TransportTypeOK, T!is_busy
<1> QED BY <1>1, <1>3 DEF PathIInv, PathTypeOK, IInv, Agreement, Waited, PathInit

\* The type of the command on the wire is one the queue handles.
LEMMA TypeHandled ==
  ASSUME TypeOK, Executing, NEW t, Commandtype[Head(queue).command] = t PROVE t \in Types
<1>1. Head(queue) \in QueuedCommand
  BY FrontType DEF Executing
<1> QED BY <1>1 DEF QueuedCommand, Types

\* Every step of the path is a step of the queue in its open environment.
LEMMA PathStepOfQueue == ASSUME TypeOK, [PathNext]_pathVars PROVE [Next]_vars
<1>1. CASE QueueAlone
  BY <1>1 DEF QueueAlone, Next, Internal
<1>2. CASE PathSend \/ PathSendRefused \/ PathUpdateQuiet
  BY <1>2 DEF PathSend, PathSendRefused, PathUpdateQuiet, Next, Internal
<1>3. CASE PathUpdateTimeout
  <2>1. TransportUpdateError(Commandtype[T!Pending])
    BY <1>3 DEF PathUpdateTimeout
  <2>2. Commandtype[T!Pending] \in Types
    BY <2>1, TypeHandled DEF TransportUpdateError
  <2> QED BY <2>1, <2>2 DEF Next
<1>4. ASSUME NEW valid \in BOOLEAN, PathResponse(valid) \/ PathError(valid) PROVE [Next]_vars
  <2>1. OnResponse(Commandtype[T!Pending]) \/ OnError(Commandtype[T!Pending])
    BY <1>4 DEF PathResponse, PathError
  <2>2. Commandtype[T!Pending] \in Types
    BY <2>1, TypeHandled DEF OnResponse, OnError
  <2> QED BY <2>1, <2>2 DEF Next
<1>5. CASE PathIgnored \/ HubLoses \/ UNCHANGED pathVars
  BY <1>5 DEF PathIgnored, HubLoses, pathVars
<1> QED BY <1>1, <1>2, <1>3, <1>4, <1>5 DEF PathNext

\* The queue gives up no command that the transport still waits for.
LEMMA NoEarlyExpiry == ASSUME PathIInv PROVE TimeoutOrder
<1> SUFFICES ASSUME Running("check_timeout"), TimedOut, T!is_busy PROVE FALSE
  BY DEF TimeoutOrder
<1>1. HasCheck(stack) /\ ~Running("transport_update")
  BY DEF Running, Top, HasCheck, PathIInv, IInv, TypeOK
<1>2. Head(queue).sent_time = timeout_start_ms
  BY DEF PathIInv, Agreement
<1>3. Elapsed(timeout_start_ms) <= ResponseTimeoutMs + (IF looped THEN 0 ELSE 1)
  BY <1>1 DEF PathIInv, Waited, Elapsed
<1>4. Elapsed(timeout_start_ms) > TimeoutMs
  BY <1>2 DEF TimedOut
<1>5. Elapsed(timeout_start_ms) \in Nat
  BY ElapsedTick DEF Elapsed, PathIInv, IInv, TypeOK, PathTypeOK, T!TransportTypeOK
<1>6. ResponseTimeoutMs \in Nat /\ TimeoutMs \in Nat /\ ResponseTimeoutMs < TimeoutMs
  BY PathAssumption, ConstantsAssumption
  DEF PathAssumption, ConstantsAssumption, T!TransportAssumption
<1> HIDE DEF Elapsed
<1> QED BY <1>3, <1>4, <1>5, <1>6

\* The transport is free when the queue sends.
LEMMA FreeToSend == ASSUME PathIInv, Running("send") PROVE ~T!is_busy
  BY DEF Running, Top, PathIInv, IInv, TypeOK, SendReady, Agreement

\* The queue alone keeps the agreement.
LEMMA AgreementQueueAlone == ASSUME PathIInv, QueueAlone PROVE Agreement'
<1> SUFFICES ASSUME T!is_busy'
             PROVE Executing' /\ Head(queue').command = T!Pending' /\ Head(queue').sent_time = timeout_start_ms'
  BY DEF Agreement
<1>1. UNCHANGED <<state, pending_command, timeout_start_ms>>
  BY DEF QueueAlone, transportVars
<1>2. T!is_busy /\ T!Pending' = T!Pending
  BY <1>1 DEF T!is_busy, T!Pending
<1>3. ~CheckTimeoutExpires
  BY <1>2, NoEarlyExpiry DEF CheckTimeoutExpires, TimeoutOrder
<1>4. Executing' /\ SameFront
  BY <1>2, <1>3, FrontKept DEF PathIInv, IInv, Agreement
<1> QED BY <1>1, <1>2, <1>4 DEF SameFront, PathIInv, Agreement

\* The queue alone takes at most one tick between the two time-outs.
LEMMA WaitedQueueAlone == ASSUME PathIInv, QueueAlone PROVE Waited'
<1> SUFFICES ASSUME T!is_busy', HasCheck(stack'), ~Running("transport_update")'
             PROVE (millis' - timeout_start_ms') % ClockWrap
                     <= ResponseTimeoutMs + (IF looped' THEN 0 ELSE 1)
  BY DEF Waited
<1>1. UNCHANGED <<state, pending_command, timeout_start_ms>> /\ T!is_busy
  BY DEF QueueAlone, transportVars, T!is_busy
<1>2. ~Update
  BY DEF Update, Call, Running, Top
<1>3. HasCheck(stack)
  BY <1>2, NoCheckEntered DEF PathIInv, IInv
<1>4. ~Running("transport_update")
  <2>1. CASE Tick
    BY <2>1 DEF Tick, Running, Top
  <2> QED BY <2>1, TransportUpdateAlone
<1>5. (millis - timeout_start_ms) % ClockWrap <= ResponseTimeoutMs + (IF looped THEN 0 ELSE 1)
  BY <1>1, <1>3, <1>4 DEF PathIInv, Waited
<1>6. CASE ~Tick
  <2>1. UNCHANGED <<millis, looped>>
    BY <1>2, <1>6 DEF QueueAlone, Enqueue, EnqueueDuplicate, EnqueueNew, Clear, CheckTimeoutExpires,
       CheckTimeoutPasses, CallCallback, CallbackReturn, NotifyDone, ClearCancels, ClearDone,
       ExecuteNextBlocked, ExecuteNextProceeds, SendNothing
  <2> QED BY <2>1, <1>1, <1>5
<1>7. CASE Tick
  <2>1. looped /\ ~looped' /\ millis' = (millis + 1) % ClockWrap
    BY <1>7 DEF Tick
  <2>2. /\ (millis - timeout_start_ms) % ClockWrap \in Nat
        /\ (millis' - timeout_start_ms) % ClockWrap <= ((millis - timeout_start_ms) % ClockWrap) + 1
    BY <2>1, ElapsedTick DEF PathIInv, IInv, TypeOK, PathTypeOK, T!TransportTypeOK
  <2>3. (millis' - timeout_start_ms) % ClockWrap \in Int /\ ResponseTimeoutMs \in Nat
    <3>1. millis' \in Int /\ timeout_start_ms \in Int /\ ClockWrap \in Nat /\ ClockWrap > 0 /\ ResponseTimeoutMs \in Nat
      BY <2>1, PathAssumption, ConstantsAssumption
      DEF PathAssumption, ConstantsAssumption, T!TransportAssumption, PathIInv, IInv, TypeOK,
          PathTypeOK, T!TransportTypeOK
    <3> QED BY <3>1
  <2> DEFINE before == (millis - timeout_start_ms) % ClockWrap
             after == (millis' - timeout_start_ms) % ClockWrap
  <2>4. after <= ResponseTimeoutMs + 1
    <3>1. before <= ResponseTimeoutMs /\ before \in Nat /\ after <= before + 1
          /\ after \in Int /\ ResponseTimeoutMs \in Nat
      BY <1>5, <2>1, <2>2, <2>3
    <3> HIDE DEF before, after
    <3> QED BY <3>1
  <2> QED BY <2>1, <2>4, <1>1
<1> QED BY <1>6, <1>7

\* Where neither the transport nor the hub takes part, or only the hub.
LEMMA TransportTypeKept ==
  ASSUME PathIInv, UNCHANGED transportVars, millis' \in 0 .. ClockWrap - 1
  PROVE T!TransportTypeOK' /\ (T!is_busy' <=> T!is_busy) /\ T!Pending' = T!Pending
  BY DEF transportVars, PathIInv, PathTypeOK, T!TransportTypeOK, T!is_busy, T!Pending

\* A transport that let its command go agrees with everything.
LEMMA Finished ==
  ASSUME PathIInv, IInv', T!Finish, hub' \in Seq(Command) PROVE PathIInv'
<1>1. ~T!is_busy'
  BY DEF T!Finish, T!is_busy
<1>2. T!TransportTypeOK'
  BY DEF T!Finish, PathIInv, PathTypeOK, T!TransportTypeOK
<1> QED BY <1>1, <1>2 DEF PathIInv, PathTypeOK, IInv, Agreement, Waited

\* The oldest request leaves the hub.
LEMMA HubShrinks ==
  ASSUME hub \in Seq(Command), HubAnswered PROVE hub' \in Seq(Command)
  BY DEF HubAnswered

\* The queue sends, the transport passes on.
LEMMA PathSendStep == ASSUME PathIInv, IInv', PathSend PROVE PathIInv'
<1> DEFINE cmd == Head(queue').command
<1>1. Executing' /\ cmd \in Command /\ Head(queue').sent_time = millis
  BY FrontSent DEF PathSend, PathIInv, IInv
<1>2. T!Accept(cmd) /\ HubAccepts(cmd) /\ UNCHANGED <<millis, looped>>
  BY DEF PathSend, Send
<1> HIDE DEF cmd
<1>3. T!TransportTypeOK' /\ T!Pending' = cmd
  BY <1>1, <1>2 DEF T!Accept, T!TransportTypeOK, T!Pending, PathIInv, IInv, TypeOK
<1>4. hub' \in Seq(Command)
  BY <1>1, <1>2, AppendType DEF HubAccepts, PathIInv, PathTypeOK
<1>5. Agreement'
  BY <1>1, <1>2, <1>3 DEF Agreement, T!Accept, cmd
<1>6. (millis' - timeout_start_ms') % ClockWrap = 0
  BY <1>2, ElapsedNow DEF T!Accept, PathIInv, IInv, TypeOK
<1>7. Waited'
  BY <1>6, PathAssumption DEF Waited, PathAssumption, T!TransportAssumption
<1> QED BY <1>3, <1>4, <1>5, <1>7 DEF PathIInv, PathTypeOK, IInv

\* Every step keeps the invariant of the path.
LEMMA PathStep == PathIInv /\ [PathNext]_pathVars => PathIInv'
<1> SUFFICES ASSUME PathIInv, [PathNext]_pathVars PROVE PathIInv'
  OBVIOUS
<1>1. IInv'
  BY PathStepOfQueue, StepInvariant DEF PathIInv, IInv
<1>2. millis' \in 0 .. ClockWrap - 1
  BY <1>1 DEF IInv, TypeOK
<1>3. hub \in Seq(Command)
  BY DEF PathIInv, PathTypeOK
<1>4. CASE QueueAlone
  <2>1. UNCHANGED transportVars /\ UNCHANGED hub
    BY <1>4 DEF QueueAlone
  <2>2. PathTypeOK'
    BY <1>1, <1>2, <1>3, <2>1, TransportTypeKept DEF PathTypeOK, IInv
  <2>3. Agreement' /\ Waited'
    BY <1>4, AgreementQueueAlone, WaitedQueueAlone
  <2> QED BY <1>1, <2>2, <2>3 DEF PathIInv
<1>5. CASE PathSend
  BY <1>1, <1>5, PathSendStep
<1>6. CASE PathSendRefused
  <2>1. UNCHANGED transportVars /\ UNCHANGED hub /\ ~T!is_busy
    BY <1>6, FreeToSend DEF PathSendRefused, Send, T!Refuse, T!transportVars, transportVars
  <2>2. T!TransportTypeOK' /\ ~T!is_busy'
    BY <1>2, <2>1, TransportTypeKept
  <2> QED BY <1>1, <1>3, <2>1, <2>2 DEF PathIInv, PathTypeOK, IInv, Agreement, Waited
<1>7. CASE PathUpdateQuiet
  <2>1. UNCHANGED transportVars /\ UNCHANGED hub /\ UNCHANGED <<queue, millis, looped>> /\ ~T!TimesOut
    BY <1>7 DEF PathUpdateQuiet, TransportUpdateQuiet, queueVars
  <2>2. PathTypeOK'
    BY <1>1, <1>2, <1>3, <2>1, TransportTypeKept DEF PathTypeOK, IInv
  <2>3. Agreement'
    BY <1>2, <2>1, TransportTypeKept DEF PathIInv, Agreement, Executing, transportVars
  <2>4. T!is_busy' => (millis' - timeout_start_ms') % ClockWrap <= ResponseTimeoutMs
    <3>1. T!is_busy' => (millis - timeout_start_ms) % ClockWrap <= ResponseTimeoutMs
      <4>1. (millis - timeout_start_ms) % ClockWrap \in Nat
        BY ElapsedTick DEF PathIInv, IInv, TypeOK, PathTypeOK, T!TransportTypeOK
      <4>2. ResponseTimeoutMs \in Nat
        BY PathAssumption DEF PathAssumption, T!TransportAssumption
      <4>3. T!is_busy' => ~T!check_timeout
        BY <1>2, <2>1, TransportTypeKept DEF T!TimesOut
      <4> DEFINE age == (millis - timeout_start_ms) % ClockWrap
      <4>4. T!is_busy' => ~(age > ResponseTimeoutMs)
        BY <4>3 DEF T!check_timeout
      <4>5. age \in Nat
        BY <4>1
      <4> HIDE DEF age
      <4>6. T!is_busy' => age <= ResponseTimeoutMs
        BY <4>2, <4>4, <4>5
      <4> QED BY <4>6 DEF age
    <3> QED BY <3>1, <2>1 DEF transportVars
  <2>5. Waited'
    <3> DEFINE age == (millis' - timeout_start_ms') % ClockWrap
    <3>1. age \in Nat /\ ResponseTimeoutMs \in Nat
      BY <1>1, <2>2, ElapsedTick, PathAssumption
      DEF IInv, TypeOK, PathTypeOK, T!TransportTypeOK, PathAssumption, T!TransportAssumption
    <3>2. T!is_busy' => age <= ResponseTimeoutMs
      BY <2>4
    <3> HIDE DEF age
    <3>3. T!is_busy' => age <= ResponseTimeoutMs + (IF looped' THEN 0 ELSE 1)
      BY <3>1, <3>2
    <3> QED BY <3>3 DEF age, Waited
  <2> QED BY <1>1, <2>2, <2>3, <2>5 DEF PathIInv
<1>8. CASE PathUpdateTimeout
  BY <1>1, <1>3, <1>8, Finished DEF PathUpdateTimeout
<1>9. ASSUME NEW valid \in BOOLEAN, PathResponse(valid) \/ PathError(valid) PROVE PathIInv'
  BY <1>1, <1>3, <1>9, Finished, HubShrinks DEF PathResponse, PathError
<1>10. CASE PathIgnored \/ HubLoses \/ UNCHANGED pathVars
  <2>1. UNCHANGED vars /\ UNCHANGED transportVars
    BY <1>10 DEF PathIgnored, HubLoses, pathVars
  <2>2. hub' \in Seq(Command)
    BY <1>3, <1>10, HubShrinks DEF PathIgnored, HubLoses, pathVars
  <2>3. PathTypeOK'
    BY <1>1, <1>2, <2>1, <2>2, TransportTypeKept DEF PathTypeOK, IInv
  <2>4. Agreement' /\ Waited'
    BY <1>2, <2>1, TransportTypeKept
    DEF PathIInv, Agreement, Waited, Executing, HasCheck, Running, Top, vars, queueVars, transportVars
  <2> QED BY <1>1, <2>3, <2>4 DEF PathIInv
<1> QED BY <1>4, <1>5, <1>6, <1>7, <1>8, <1>9, <1>10 DEF PathNext

-----------------------------------------------------------------------------
(* Theorems.                                                               *)

\* The path keeps its inductive invariant.
THEOREM PathInvariance == PathSpec => []PathIInv
  BY PathInitially, PathStep, PTL DEF PathSpec

\* Queue, transport and hub together implement the queue with an environment
\* that answers, fails or ignores whatever it likes: every theorem about Spec
\* holds of the path.
THEOREM PathImplementsQueue == PathSpec => Spec
<1>1. PathInit => Init
  BY DEF PathInit
<1>2. PathIInv /\ [PathNext]_pathVars => [Next]_vars
  BY PathStepOfQueue DEF PathIInv, IInv
<1> QED BY <1>1, <1>2, PathInvariance, PTL DEF PathSpec, Spec

\* Every variable of queue, transport and hub keeps its type.
THEOREM PathTypeCorrectness == PathSpec => []PathTypeOK
<1>1. PathIInv => PathTypeOK
  BY DEF PathIInv
<1> QED BY <1>1, PathInvariance, PTL

\* While the transport waits, its command is at the front of the queue,
\* executing and sent when the transport's time began.
THEOREM QueueAndTransportAgree == PathSpec => []Agreement
<1>1. PathIInv => Agreement
  BY DEF PathIInv
<1> QED BY <1>1, PathInvariance, PTL

\* The transport is not busy at any send of the queue.
THEOREM SendsFindTransportFree == PathSpec => []TransportFree
<1>1. PathIInv => TransportFree
  BY FreeToSend DEF TransportFree
<1> QED BY <1>1, PathInvariance, PTL

\* The queue's time-out never overtakes the transport's.
THEOREM TimeoutsNest == PathSpec => []TimeoutOrder
<1> QED BY NoEarlyExpiry, PathInvariance, PTL

\* A success is reported only on the answer to a request for the register of
\* the command, and for a single write with its value.
LEMMA ConfirmedStep ==
  ASSUME PathIInv, PathNext, Confirmed
  PROVE /\ Commandtype[Head(hub)] = Commandtype[Head(queue).command]
        /\ T!Code(Head(queue).command) = T!WRITE_SINGLE => Head(hub) = Head(queue).command
<1>1. hub \in Seq(Command) /\ queue \in Seq(QueuedCommand) /\ stack \in Seq(Frame)
  BY DEF PathIInv, PathTypeOK, IInv, TypeOK
<1>2. hub' # hub /\ queue' # queue
  BY <1>1 DEF Confirmed
<1>3. ~PathIgnored /\ ~HubLoses
  BY <1>2 DEF PathIgnored, HubLoses, vars, queueVars
<1>4. ~QueueAlone /\ ~PathSendRefused /\ ~PathUpdateQuiet /\ ~PathUpdateTimeout
  BY <1>2 DEF QueueAlone, PathSendRefused, PathUpdateQuiet, PathUpdateTimeout
<1>5. ~PathSend
  <2> SUFFICES ASSUME PathSend PROVE FALSE
    OBVIOUS
  <2>1. \E cmd : hub' = Append(hub, cmd)
    BY DEF PathSend, HubAccepts
  <2>2. Len(hub') = Len(hub) + 1 /\ Len(hub) \in Nat
    BY <1>1, <2>1
  <2> QED BY <2>2 DEF Confirmed
<1>6. PICK valid \in BOOLEAN : PathResponse(valid) \/ PathError(valid)
  BY <1>3, <1>4, <1>5 DEF PathNext
<1>7. ~PathError(valid)
  <2> SUFFICES ASSUME PathError(valid) PROVE FALSE
    OBVIOUS
  <2>1. Executing /\ UNCHANGED pending_callback
        /\ stack' = Append(Append(stack, Call("execute_next")), Notify(Head(queue).callbacks, FALSE))
    BY DEF PathError, OnError, Fail
  <2>2. pending_callback' = <<>>
    BY <2>1 DEF PathIInv, IInv, DeferredSafe
  <2>3. Append(stack, Call("execute_next")) \in Seq(Frame \cup {Call("execute_next")})
    BY <1>1
  <2>4. stack'[Len(stack')] = Notify(Head(queue).callbacks, FALSE)
    BY <2>1, <2>3
  <2> QED BY <2>2, <2>4 DEF Confirmed, Notify
<1>8. T!Succeeds(Head(hub), valid)
  BY <1>6, <1>7 DEF PathResponse
<1>9. Head(queue).command = T!Pending
  BY <1>8 DEF T!Succeeds, T!MatchesPending, PathIInv, Agreement
<1> QED BY <1>8, <1>9 DEF T!Succeeds, T!MatchesPending, T!Consistent

\* Success means that the motor answered a request for the command's register,
\* with its value if it writes a single register, late answers included.
THEOREM SuccessIsOwn == PathSpec => ConfirmedByOwnRegister
<1>1. PathIInv /\ [PathNext]_pathVars
        => [Confirmed =>
              LET cmd == Head(queue).command   request == Head(hub)
              IN /\ Commandtype[request] = Commandtype[cmd]
                 /\ T!Code(cmd) = T!WRITE_SINGLE => request = cmd]_pathVars
  BY ConfirmedStep
<1> QED BY <1>1, PathInvariance, PTL DEF PathSpec, ConfirmedByOwnRegister

-----------------------------------------------------------------------------
(* How long the transport waits.                                           *)

\* The transport waits a tick longer if no pass of the main loop began since
\* the last one, and a tick longer if its update() has yet to look.
TransportAge == (millis - timeout_start_ms) % ClockWrap
AgeBounded ==
  T!is_busy => TransportAge <= ResponseTimeoutMs + (IF looped THEN 0 ELSE 1)
                                 + (IF Running("transport_update") THEN 1 ELSE 0)

\* The age of the request is a number of ticks.
LEMMA TransportAgeType == ASSUME PathIInv
                          PROVE TransportAge \in Nat /\ ResponseTimeoutMs \in Nat /\ looped \in BOOLEAN
  BY ElapsedTick, PathAssumption
  DEF TransportAge, PathIInv, IInv, TypeOK, PathTypeOK, T!TransportTypeOK, PathAssumption,
      T!TransportAssumption

\* A tick is taken once in a pass of the main loop.
LEMMA AgeBoundedTick == ASSUME PathIInv, AgeBounded, PathIInv', Tick, UNCHANGED transportVars
                        PROVE AgeBounded'
<1>1. /\ looped /\ ~looped' /\ stack' = stack /\ millis' = (millis + 1) % ClockWrap
      /\ UNCHANGED <<state, timeout_start_ms>>
  BY DEF Tick, transportVars
<1>2. TransportAge \in Nat /\ TransportAge' \in Nat /\ ResponseTimeoutMs \in Nat
  <2>1. TransportAge \in Nat /\ ResponseTimeoutMs \in Nat
    BY TransportAgeType
  <2>2. millis' \in 0 .. ClockWrap - 1 /\ timeout_start_ms' \in 0 .. ClockWrap - 1
    BY DEF PathIInv, IInv, TypeOK, PathTypeOK, T!TransportTypeOK
  <2>3. TransportAge' \in Nat
    BY <2>2, ElapsedTick DEF TransportAge
  <2> QED BY <2>1, <2>3
<1>3. TransportAge' <= TransportAge + 1
  BY <1>1, ElapsedTick DEF TransportAge, PathIInv, IInv, TypeOK, PathTypeOK, T!TransportTypeOK
<1>4. (Running("transport_update")' <=> Running("transport_update")) /\ (T!is_busy' <=> T!is_busy)
  BY <1>1 DEF Running, Top, T!is_busy
<1>5. AgeBounded
  OBVIOUS
<1> HIDE DEF TransportAge
<1> QED BY <1>1, <1>2, <1>3, <1>4, <1>5 DEF AgeBounded

\* The other steps of the queue take no time, and none of them is taken while
\* update() of the transport has yet to look.
LEMMA AgeBoundedAlone == ASSUME PathIInv, AgeBounded, QueueAlone, ~Tick PROVE AgeBounded'
<1>1. UNCHANGED <<millis, state, timeout_start_ms>> /\ ~Running("transport_update")
  BY TransportUpdateAlone
  DEF QueueAlone, transportVars, Enqueue, EnqueueDuplicate, EnqueueNew, Clear, Update,
      CheckTimeoutExpires, CheckTimeoutPasses, CallCallback, CallbackReturn, NotifyDone,
      ClearCancels, ClearDone, ExecuteNextBlocked, ExecuteNextProceeds, SendNothing
<1>2. TransportAge' = TransportAge /\ (T!is_busy' <=> T!is_busy)
  BY <1>1 DEF TransportAge, T!is_busy
<1>3. \/ looped' = looped
      \/ looped' = TRUE /\ Running("transport_update")'
  <2>1. CASE Update
    BY <2>1 DEF Update, Running, Top, Call
  <2> QED BY <2>1 DEF QueueAlone, Enqueue, EnqueueDuplicate, EnqueueNew, Clear,
      CheckTimeoutExpires, CheckTimeoutPasses, CallCallback, CallbackReturn, NotifyDone,
      ClearCancels, ClearDone, ExecuteNextBlocked, ExecuteNextProceeds, SendNothing
<1>4. TransportAge \in Nat /\ ResponseTimeoutMs \in Nat /\ looped \in BOOLEAN
  BY TransportAgeType
<1> HIDE DEF TransportAge
<1> QED BY <1>1, <1>2, <1>3, <1>4 DEF AgeBounded

\* After update() looked, a transport that still waits is not late.
LEMMA AgeBoundedQuiet == ASSUME PathIInv, PathIInv', PathUpdateQuiet PROVE AgeBounded'
<1>1. UNCHANGED <<millis, state, timeout_start_ms, looped>> /\ ~T!TimesOut
  BY DEF PathUpdateQuiet, TransportUpdateQuiet, transportVars, queueVars
<1>2. TransportAge' = TransportAge /\ (T!is_busy' <=> T!is_busy)
  BY <1>1 DEF TransportAge, T!is_busy
<1>3. T!is_busy => ~(TransportAge > ResponseTimeoutMs)
  BY <1>1 DEF T!TimesOut, T!check_timeout, TransportAge
<1>4. TransportAge \in Nat /\ ResponseTimeoutMs \in Nat
  BY TransportAgeType
<1> HIDE DEF TransportAge
<1> QED BY <1>2, <1>3, <1>4 DEF AgeBounded

\* Every step keeps the bound.
LEMMA AgeBoundedStep == PathIInv /\ PathIInv' /\ AgeBounded /\ [PathNext]_pathVars => AgeBounded'
<1> SUFFICES ASSUME PathIInv, PathIInv', AgeBounded, [PathNext]_pathVars PROVE AgeBounded'
  OBVIOUS
<1>1. CASE QueueAlone
  BY <1>1, AgeBoundedTick, AgeBoundedAlone DEF QueueAlone
<1>2. CASE PathSend
  <2>1. timeout_start_ms' = millis /\ millis' = millis /\ millis \in 0 .. ClockWrap - 1
    BY <1>2 DEF PathSend, Send, T!Accept, PathIInv, IInv, TypeOK
  <2>2. TransportAge' = 0
    BY <2>1, ElapsedNow DEF TransportAge
  <2>3. ResponseTimeoutMs \in Nat
    BY TransportAgeType
  <2> QED BY <2>2, <2>3 DEF AgeBounded
<1>3. CASE PathSendRefused
  <2>1. ~T!is_busy'
    BY <1>3, FreeToSend DEF PathSendRefused, Send, T!Refuse, T!transportVars, T!is_busy
  <2> QED BY <2>1 DEF AgeBounded
<1>4. CASE PathUpdateQuiet
  BY <1>4, AgeBoundedQuiet
<1>5. CASE PathUpdateTimeout \/ \E valid \in BOOLEAN : PathResponse(valid) \/ PathError(valid)
  <2>1. ~T!is_busy'
    BY <1>5 DEF PathUpdateTimeout, PathResponse, PathError, T!Finish, T!is_busy
  <2> QED BY <2>1 DEF AgeBounded
<1>6. CASE PathIgnored \/ HubLoses \/ UNCHANGED pathVars
  BY <1>6 DEF PathIgnored, HubLoses, pathVars, vars, queueVars, transportVars, AgeBounded,
     TransportAge, T!is_busy, Running, Top
<1> QED BY <1>1, <1>2, <1>3, <1>4, <1>5, <1>6 DEF PathNext

\* A request that is not answered keeps the path busy for the transport's
\* time-out and two ticks at most, although the clock wraps and answers to
\* earlier requests keep coming (modbus.cpp:102).
THEOREM PathNotBusyForLong == PathSpec => []TransportTimely
<1>1. PathInit => AgeBounded
  BY DEF PathInit, T!TransportInit, T!is_busy, AgeBounded
<1>2. PathIInv /\ AgeBounded => TransportTimely
  <2> SUFFICES ASSUME PathIInv, AgeBounded, T!is_busy PROVE TransportAge <= ResponseTimeoutMs + 2
    BY DEF TransportTimely, TransportAge
  <2>1. TransportAge \in Nat /\ ResponseTimeoutMs \in Nat
    BY TransportAgeType
  <2> HIDE DEF TransportAge
  <2> QED BY <2>1 DEF AgeBounded
<1> QED BY <1>1, <1>2, AgeBoundedStep, PathInvariance, PTL DEF PathSpec
=============================================================================
