------------------------- MODULE CommandQueueBounds -------------------------
(***************************************************************************)
(* Proofs about what CommandQueue bounds: polling keeps at most one        *)
(* request of a kind waiting, a command that is not answered is given up   *)
(* soon after its time-out, and no command waits for more than a turn of   *)
(* the line per place in the queue and the head start of the others, or    *)
(* for nothing.  With that the queue implements RequestFlow.  All for any  *)
(* commands, requests, time-outs, clock width and depth of nested calls.   *)
(***************************************************************************)
EXTENDS CommandQueueLedger

-----------------------------------------------------------------------------
(* Polling.                                                                *)

\* All requests for c are deduplicated.
Deduplicated(c) ==
  \A req \in Requests :
    req.command = c => req.deduplicate = "auto" /\ req.priority \in {BACKGROUND, IDLE}

PendingFor(q, i, c) == q[i].command = c /\ q[i].state = "PENDING"
OnePending(q, c) ==
  \A i, j \in 1 .. Len(q) : PendingFor(q, i, c) /\ PendingFor(q, j, c) => i = j

OneOfEach == \A c \in Command : Deduplicated(c) => OnePending(queue, c)

\* The front command leaves, or only it stays.
LEMMA OneWithoutFront ==
  ASSUME NEW q \in Seq(QueuedCommand), NEW c, OnePending(q, c)
  PROVE /\ q # <<>> => OnePending(Tail(q), c)
        /\ \A n \in 0 .. 1 : n <= Len(q) => OnePending(SubSeq(q, 1, n), c)
<1>1. ASSUME q # <<>> PROVE OnePending(Tail(q), c)
  <2>1. \A i \in 1 .. Len(Tail(q)) : Tail(q)[i] = q[i + 1] /\ i + 1 \in 1 .. Len(q)
    BY <1>1
  <2>2. ASSUME NEW i \in 1 .. Len(Tail(q)), NEW j \in 1 .. Len(Tail(q)),
               PendingFor(Tail(q), i, c), PendingFor(Tail(q), j, c)
        PROVE i = j
    <3>1. i + 1 = j + 1
      BY <2>1, <2>2 DEF OnePending, PendingFor
    <3> QED BY <3>1
  <2> QED BY <2>2 DEF OnePending
<1>2. ASSUME NEW n \in 0 .. 1, n <= Len(q) PROVE OnePending(SubSeq(q, 1, n), c)
  <2>1. Len(SubSeq(q, 1, n)) = n
    BY <1>2
  <2> QED BY <1>2, <2>1 DEF OnePending
<1> QED BY <1>1, <1>2

\* A request that is deduplicated becomes a command of its own only if none
\* like it is pending.
LEMMA OneAppended ==
  ASSUME IInv, NEW c \in Command, Deduplicated(c), OnePending(queue, c),
         NEW req \in Requests, NEW cb, EnqueueNew(req, cb)
  PROVE OnePending(queue', c)
<1> DEFINE new == [command |-> req.command, callbacks |-> cb, state |-> "PENDING",
                   priority |-> req.priority, delay |-> req.delay,
                   enqueued_time |-> millis, sent_time |-> 0]
<1>1. queue' = Append(queue, new) /\ queue \in Seq(QueuedCommand) /\ new.command = req.command
  BY DEF EnqueueNew, IInv, TypeOK
<1>2. req.command = c => \A i \in 1 .. Len(queue) : ~PendingFor(queue, i, c)
  BY DEF EnqueueNew, Deduplicated, ShouldDeduplicate, IsDuplicate, PendingFor
<1> HIDE DEF new
<1>3. \A i \in 1 .. Len(queue') :
        \/ i \in 1 .. Len(queue) /\ queue'[i] = queue[i]
        \/ i = Len(queue) + 1 /\ queue'[i] = new
  BY <1>1
<1>4. ASSUME NEW i \in 1 .. Len(queue'), NEW j \in 1 .. Len(queue'),
             PendingFor(queue', i, c), PendingFor(queue', j, c)
      PROVE i = j
  BY <1>1, <1>2, <1>3, <1>4 DEF OnePending, PendingFor
<1> QED BY <1>4 DEF OnePending

\* Absorbing a request changes neither the command nor its state.
LEMMA OneMerged ==
  ASSUME IInv, NEW c, OnePending(queue, c), NEW req \in Requests, NEW cb \in Seq(Requester),
         EnqueueDuplicate(req, cb)
  PROVE OnePending(queue', c)
<1>1. PICK m \in 1 .. Len(queue) :
        queue' = [queue EXCEPT
             ![m].priority = IF req.priority < @ THEN req.priority ELSE @,
             ![m].delay = req.delay,
             ![m].callbacks = @ \o cb]
  BY DEF EnqueueDuplicate
<1> DEFINE merged == [queue[m] EXCEPT
             !.priority = IF req.priority < @ THEN req.priority ELSE @,
             !.delay = req.delay, !.callbacks = @ \o cb]
<1>2. queue[m] \in QueuedCommand /\ queue \in Seq(QueuedCommand)
  BY DEF IInv, TypeOK
<1>3. merged \in QueuedCommand
  BY MergedType DEF IInv
<1>4. merged.command = queue[m].command /\ merged.state = queue[m].state
  BY <1>2 DEF QueuedCommand
<1>5. queue' = [queue EXCEPT ![m] = merged]
  BY <1>1, <1>2 DEF QueuedCommand
<1> HIDE DEF merged
<1>6. /\ Len(queue') = Len(queue) /\ queue'[m] = merged
      /\ \A i \in 1 .. Len(queue) : i # m => queue'[i] = queue[i]
  BY <1>2, <1>3, <1>5, ExceptElements
<1>7. \A i \in 1 .. Len(queue) : PendingFor(queue', i, c) <=> PendingFor(queue, i, c)
  BY <1>4, <1>6 DEF PendingFor
<1> QED BY <1>6, <1>7 DEF OnePending

\* The command that is sent is not pending any more, the others only move.
LEMMA OneSent ==
  ASSUME IInv, NEW c, OnePending(queue, c), Send
  PROVE OnePending(queue', c)
<1>1. PICK best \in 1 .. Len(queue) :
        queue' = [MoveToFront(best) EXCEPT ![1].state = "EXECUTING", ![1].sent_time = millis]
  BY DEF Send
<1>2. Len(queue') = Len(queue) /\ \A k \in 2 .. Len(queue) : queue'[k] = MoveToFront(best)[k]
  BY <1>1, SentQueue DEF IInv
<1>3. Len(queue) \in Nat
  BY DEF IInv, TypeOK
<1> DEFINE From(k) == IF k <= best THEN k - 1 ELSE k
<1>4. ASSUME NEW k \in 2 .. Len(queue)
      PROVE queue'[k] = queue[From(k)] /\ From(k) \in 1 .. Len(queue)
  <2>1. MoveToFront(best)[k] = queue[From(k)]
    BY <1>1, <1>3 DEF MoveToFront
  <2>2. From(k) \in 1 .. Len(queue)
    BY <1>1, <1>3
  <2> QED BY <1>2, <2>1, <2>2
<1>5. ~PendingFor(queue', 1, c)
  <2>1. 1 \in DOMAIN MoveToFront(best) /\ MoveToFront(best)[1] \in QueuedCommand
    BY <1>3 DEF MoveToFront, IInv, TypeOK
  <2>2. queue'[1].state = "EXECUTING"
    BY <1>1, <2>1 DEF QueuedCommand
  <2> QED BY <2>2 DEF PendingFor
<1>6. ASSUME NEW i \in 1 .. Len(queue'), NEW j \in 1 .. Len(queue'),
             PendingFor(queue', i, c), PendingFor(queue', j, c)
      PROVE i = j
  <2>1. i \in 2 .. Len(queue) /\ j \in 2 .. Len(queue)
    BY <1>2, <1>3, <1>5, <1>6
  <2>2. PendingFor(queue, From(i), c) /\ PendingFor(queue, From(j), c)
    BY <1>4, <1>6, <2>1 DEF PendingFor
  <2>3. From(i) = From(j)
    BY <1>4, <2>1, <2>2 DEF OnePending
  <2> QED BY <2>1, <2>2, <2>3, <1>6, <1>2, <1>3, <1>1
<1> QED BY <1>6 DEF OnePending

\* Only a request adds to the queue, and it looks for its duplicate first.
LEMMA OneOfEachStep == IInv /\ OneOfEach /\ [Next]_vars => OneOfEach'
<1> SUFFICES ASSUME IInv, OneOfEach, [Next]_vars, NEW c \in Command, Deduplicated(c)
             PROVE OnePending(queue', c)
  BY DEF OneOfEach, Deduplicated
<1>1. OnePending(queue, c) /\ queue \in Seq(QueuedCommand) /\ Len(queue) \in Nat
  BY DEF OneOfEach, IInv, TypeOK
<1>2. CASE UNCHANGED queue
  BY <1>1, <1>2 DEF OnePending, PendingFor
<1>3. CASE Enqueue
  <2>1. PICK req \in Requests, cb \in {<<>>} \cup {<<r>> : r \in Requester \ outstanding} :
          EnqueueDuplicate(req, cb) \/ EnqueueNew(req, cb)
    BY <1>3 DEF Enqueue
  <2>2. cb \in Seq(Requester)
    <3>1. CASE cb = <<>>
      BY <3>1
    <3>2. ASSUME NEW r \in Requester, cb = <<r>>
          PROVE cb \in Seq(Requester)
      BY <3>2
    <3> QED BY <3>1, <3>2
  <2> QED BY <1>1, <2>1, <2>2, OneAppended, OneMerged
<1>4. CASE queue # <<>> /\ queue' = Tail(queue)
  BY <1>1, <1>4, OneWithoutFront
<1>5. CASE Clear
  BY <1>1, <1>5, OneWithoutFront DEF Clear, Executing
<1>6. CASE Send
  BY <1>1, <1>6, OneSent
<1>7. CASE \/ Update \/ Tick \/ (Internal /\ ~Send)
           \/ \E t \in Types : OnResponse(t) \/ OnError(t) \/ TransportUpdateError(t)
  <2>1. UNCHANGED queue \/ (queue # <<>> /\ queue' = Tail(queue))
    BY <1>7 DEF Update, Tick, Internal, OnResponse, OnError, TransportUpdateError, Fail, Executing,
            TransportUpdateQuiet, CheckTimeoutExpires, CheckTimeoutPasses, TimedOut, CallCallback,
            CallbackReturn, NotifyDone, ClearCancels, ClearDone, ExecuteNextBlocked,
            ExecuteNextProceeds, SendNothing, queueVars
  <2> QED BY <2>1, <1>2, <1>4
<1>8. CASE UNCHANGED vars
  BY <1>2, <1>8 DEF vars, queueVars
<1> QED BY <1>3, <1>5, <1>6, <1>7, <1>8 DEF Next

\* Polling cannot fill the queue while the motor is slow or gone: of a command
\* whose requests are all deduplicated at most one waits, whatever callbacks
\* enqueue and clear and in whatever order commands are sent (.cpp:46).
THEOREM PollsDoNotPileUp == Spec => []PollingBounded
<1>1. Init => OneOfEach
  BY DEF Init, OneOfEach, OnePending
<1>2. IInv /\ OneOfEach => PollingBounded
  <2> SUFFICES ASSUME IInv, NEW c \in Command, OnePending(queue, c)
               PROVE Cardinality({i \in 1 .. Len(queue) :
                        queue[i].command = c /\ queue[i].state = "PENDING"}) <= 1
    BY DEF OneOfEach, PollingBounded, Deduplicated
  <2> DEFINE S == {i \in 1 .. Len(queue) : queue[i].command = c /\ queue[i].state = "PENDING"}
  <2>1. S = {} \/ \E i \in 1 .. Len(queue) : S = {i}
    BY DEF OnePending, PendingFor
  <2> HIDE DEF S
  <2>2. CASE S = {}
    <3>1. Cardinality(S) = 0
      BY <2>2, FS_EmptySet
    <3> QED BY <3>1 DEF S
  <2>3. CASE \E i \in 1 .. Len(queue) : S = {i}
    <3>1. Cardinality(S) = 1
      BY <2>3, FS_Singleton
    <3> QED BY <3>1 DEF S
  <2> QED BY <2>1, <2>2, <2>3
<1> QED BY <1>1, <1>2, OneOfEachStep, Invariance, PTL DEF Spec

-----------------------------------------------------------------------------
(* The time-out.                                                           *)

\* A pass of the main loop still has its check_timeout() before it.
HasCheck(s) == \E k \in 1 .. Len(s) : s[k].op = "check_timeout"

\* How late the command on the wire is: a tick if no pass of the main loop
\* began since the last one, and a tick if the pass has yet to check.
Age == Elapsed(Head(queue).sent_time)
CheckInv ==
  Executing => Age <= TimeoutMs + (IF looped THEN 0 ELSE 1) + (IF HasCheck(stack) THEN 1 ELSE 0)

\* What is called leaves the calls below it in progress.
LEMMA CheckStays ==
  ASSUME NEW S, NEW s \in Seq(S), NEW f, HasCheck(s)
  PROVE HasCheck(Append(s, f)) /\ Append(s, f) \in Seq(S \cup {f})
<1> DEFINE t == Append(s, f)
<1>1. /\ t \in Seq(S \cup {f}) /\ Len(t) = Len(s) + 1 /\ Len(s) \in Nat
      /\ \A k \in 1 .. Len(s) : t[k] = s[k]
  OBVIOUS
<1> HIDE DEF t
<1>2. HasCheck(t)
  BY <1>1 DEF HasCheck
<1> QED BY <1>1, <1>2 DEF t

\* Nor do two calls end those below.
LEMMA CheckStaysBelowTwo ==
  ASSUME NEW s \in Seq(Frame), NEW f, NEW g, HasCheck(s)
  PROVE HasCheck(Append(Append(s, f), g))
<1>1. Append(s, f) \in Seq(Frame \cup {f}) /\ HasCheck(Append(s, f))
  BY CheckStays
<1> HIDE DEF HasCheck
<1> QED BY <1>1, CheckStays

\* When a call other than check_timeout() returns, the check is still to come.
LEMMA CheckBelow ==
  ASSUME IInv, stack # <<>>, Top.op # "check_timeout", HasCheck(stack)
  PROVE HasCheck(Below) /\ Below \in Seq(Frame)
<1>1. Below \in Seq(Frame) /\ Top \in Frame /\ stack = Append(Below, Top)
  BY Returned, StackIsAppend DEF IInv
<1>2. /\ Len(stack) = Len(Below) + 1 /\ Len(Below) \in Nat
      /\ stack[Len(stack)] = Top
      /\ \A k \in 1 .. Len(Below) : Below[k] = stack[k]
  BY <1>1
<1>3. HasCheck(Below)
  BY <1>2 DEF HasCheck
<1> QED BY <1>1, <1>3

\* Only check_timeout() ends the wait for the check.
LEMMA CheckKept ==
  ASSUME IInv, Next, HasCheck(stack), ~CheckTimeoutPasses, ~CheckTimeoutExpires
  PROVE HasCheck(stack')
<1>1. stack \in Seq(Frame) /\ stack # <<>>
  BY DEF IInv, TypeOK, HasCheck
<1>2. CASE Enqueue
  <2>1. UNCHANGED stack \/ stack' = Append(stack, Call("execute_next"))
    BY <1>2 DEF Enqueue, EnqueueDuplicate, EnqueueNew
  <2> QED BY <1>1, <2>1, CheckStays DEF HasCheck
<1>3. CASE Clear
  <2>1. PICK lists : stack' = Append(stack, ClearCall(lists))
    BY <1>3 DEF Clear
  <2> QED BY <1>1, <2>1, CheckStays
<1>4. CASE Tick
  BY <1>4 DEF Tick, HasCheck
<1>5. ~Update /\ ~\E t \in Types : OnResponse(t) \/ OnError(t)
  BY <1>1 DEF Update, OnResponse, OnError
<1>6. CASE \E t \in Types : TransportUpdateError(t)
  <2>1. /\ \E cbs : stack' = Append(Append(Below, Call("execute_next")), Notify(cbs, FALSE))
        /\ Top.op = "transport_update"
    BY <1>6 DEF TransportUpdateError, Fail, Running
  <2> QED BY <1>1, <2>1, CheckBelow, CheckStaysBelowTwo
<1>7. CASE TransportUpdateQuiet \/ CallbackReturn \/ NotifyDone
           \/ ExecuteNextBlocked \/ SendNothing \/ Send
  <2>1. stack' = Below /\ Top.op # "check_timeout"
    BY <1>7 DEF TransportUpdateQuiet, CallbackReturn, NotifyDone,
       ExecuteNextBlocked, SendNothing, Send, Running
  <2> QED BY <1>1, <2>1, CheckBelow
<1>8. CASE CallCallback \/ ClearCancels
  <2>1. /\ \E f, g : stack' = Append(Append(Below, f), g)
        /\ Top.op # "check_timeout"
    BY <1>8 DEF CallCallback, ClearCancels, BecomeTop, Running
  <2> QED BY <1>1, <2>1, CheckBelow, CheckStaysBelowTwo
<1>9. CASE ClearDone \/ ExecuteNextProceeds
  <2>1. /\ \/ \E f : stack' = Append(Below, f)
           \/ \E f, g : stack' = Append(Append(Below, f), g)
        /\ Top.op # "check_timeout"
    BY <1>9 DEF ClearDone, ExecuteNextProceeds, BecomeTop, Running
  <2> QED BY <1>1, <2>1, CheckBelow, CheckStays, CheckStaysBelowTwo
<1> QED BY <1>2, <1>3, <1>4, <1>5, <1>6, <1>7, <1>8, <1>9 DEF Next, Internal

\* The command on the wire stays in front, with its time.
LEMMA StillSent ==
  ASSUME IInv, Executing, Next, Executing'
  PROVE Head(queue').sent_time = Head(queue).sent_time
<1>1. queue \in Seq(QueuedCommand) /\ queue # <<>> /\ Len(queue) \in Nat /\ Len(queue) >= 1
  BY DEF IInv, TypeOK, Executing
<1>2. CASE UNCHANGED queue
  BY <1>2
<1>3. CASE Enqueue
  <2>0. PICK req \in Requests : \E cb : EnqueueDuplicate(req, cb) \/ EnqueueNew(req, cb)
    BY <1>3 DEF Enqueue
  <2>1. PICK cb : EnqueueDuplicate(req, cb) \/ EnqueueNew(req, cb)
    BY <2>0
  <2>2. CASE EnqueueNew(req, cb)
    BY <1>1, <2>2 DEF EnqueueNew
  <2>3. CASE EnqueueDuplicate(req, cb)
    <3>1. PICK m \in 1 .. Len(queue) :
            /\ queue[m].state = "PENDING"
            /\ queue' = [queue EXCEPT
                 ![m].priority = IF req.priority < @ THEN req.priority ELSE @,
                 ![m].delay = req.delay,
                 ![m].callbacks = @ \o cb]
      BY <2>3 DEF EnqueueDuplicate, IsDuplicate
    <3>2. m # 1
      BY <1>1, <3>1 DEF Executing
    <3>3. queue'[1] = queue[1]
      BY <1>1, <3>1, <3>2
    <3>4. Head(queue') = queue'[1] /\ Head(queue) = queue[1]
      BY <1>1, <3>1
    <3> QED BY <3>3, <3>4
  <2> QED BY <2>1, <2>2, <2>3
<1>4. CASE Clear
  BY <1>1, <1>4 DEF Clear
<1>5. CASE \/ \E t \in Types : OnResponse(t) \/ OnError(t) \/ TransportUpdateError(t)
           \/ CheckTimeoutExpires
  BY <1>5, OnResponseStep, OnErrorStep, TransportUpdateErrorStep, CheckTimeoutExpiresStep
<1>6. ~Send
  BY ExecutingNoSend, Returned DEF Send, Running
<1>7. CASE Update \/ Tick \/ (Internal /\ ~CheckTimeoutExpires)
  <2>1. UNCHANGED queue
    BY <1>6, <1>7 DEF Update, Tick, Internal, TransportUpdateQuiet, CheckTimeoutPasses,
       CallCallback, CallbackReturn, NotifyDone, ClearCancels, ClearDone,
       ExecuteNextBlocked, ExecuteNextProceeds, SendNothing, queueVars
  <2> QED BY <1>2, <2>1
<1> QED BY <1>3, <1>4, <1>5, <1>7 DEF Next

\* The age of the command on the wire is a number of ticks.
LEMMA AgeType == ASSUME IInv, Executing PROVE Age \in Nat /\ Head(queue).sent_time \in 0 .. ClockWrap - 1
<1>1. millis \in 0 .. ClockWrap - 1 /\ Head(queue).sent_time \in 0 .. ClockWrap - 1
  BY FrontType DEF IInv, TypeOK, Executing, QueuedCommand
<1> QED BY <1>1, ElapsedTick DEF Age, Elapsed

\* A command that is sent has no age.
LEMMA SentNow == ASSUME IInv, Send PROVE Age' = 0
<1>1. PICK best \in 1 .. Len(queue) :
        queue' = [MoveToFront(best) EXCEPT ![1].state = "EXECUTING", ![1].sent_time = millis]
  BY DEF Send
<1>2. /\ 1 \in DOMAIN MoveToFront(best) /\ MoveToFront(best)[1] \in QueuedCommand
      /\ Head(queue') = queue'[1]
  BY <1>1, SentQueue DEF MoveToFront, IInv, TypeOK
<1>3. Head(queue').sent_time = millis /\ millis' = millis /\ millis \in 0 .. ClockWrap - 1
  BY <1>1, <1>2 DEF QueuedCommand, Send, IInv, TypeOK
<1> QED BY <1>3, ElapsedNow DEF Age, Elapsed

\* So the bound on the age holds of it.
LEMMA JustSent == ASSUME IInv, Send PROVE CheckInv'
  BY SentNow, ConstantsAssumption DEF CheckInv, ConstantsAssumption

\* Every step keeps the bound on the age.
LEMMA CheckStep == IInv /\ CheckInv /\ [Next]_vars => CheckInv'
<1> SUFFICES ASSUME IInv, CheckInv, [Next]_vars, Executing' PROVE CheckInv'
  BY DEF CheckInv
<1>1. CASE UNCHANGED vars
  BY <1>1 DEF vars, queueVars, CheckInv, Age, Elapsed, Executing, HasCheck
<1>2. CASE Next /\ ~Executing
  BY <1>2, OnlySendSends, JustSent DEF Sends
<1>3. CASE Next /\ Executing
  <2>1. /\ Head(queue').sent_time = Head(queue).sent_time
        /\ Age \in Nat /\ Head(queue).sent_time \in 0 .. ClockWrap - 1
        /\ TimeoutMs \in Nat /\ looped \in BOOLEAN
    BY <1>3, StillSent, AgeType, ConstantsAssumption DEF ConstantsAssumption, IInv, TypeOK
  <2>2. ~CheckTimeoutExpires
    BY <1>3, CheckTimeoutExpiresStep
  <2>3. CASE Tick
    <3>1. /\ looped /\ ~looped' /\ stack' = stack /\ millis' = (millis + 1) % ClockWrap
          /\ millis \in 0 .. ClockWrap - 1
      BY <2>3 DEF Tick, IInv, TypeOK
    <3>2. Age' <= Age + 1
      BY <2>1, <3>1, ElapsedTick DEF Age, Elapsed
    <3>3. Age' \in Nat
      <4>1. millis' \in 0 .. ClockWrap - 1
        BY <3>1, ClockType
      <4> QED BY <2>1, <4>1, ElapsedTick DEF Age, Elapsed
    <3>4. HasCheck(stack') <=> HasCheck(stack)
      BY <3>1
    <3>5. Age <= TimeoutMs + (IF HasCheck(stack) THEN 1 ELSE 0)
      BY <1>3, <2>1, <3>1 DEF CheckInv
    <3>6. Age' <= TimeoutMs + 1 + (IF HasCheck(stack') THEN 1 ELSE 0)
      BY <2>1, <3>2, <3>3, <3>4, <3>5
    <3> QED BY <2>1, <3>1, <3>6 DEF CheckInv
  <2>4. CASE Update
    <3>1. /\ stack = <<>> /\ looped' /\ millis' = millis
          /\ stack' = <<Call("execute_next"), Call("check_timeout"), Call("transport_update")>>
      BY <2>4 DEF Update
    <3>2. ~HasCheck(stack)
      BY <3>1 DEF HasCheck
    <3>3. HasCheck(stack')
      BY <3>1 DEF HasCheck, Call
    <3>4. Age' = Age
      BY <2>1, <3>1 DEF Age, Elapsed
    <3> QED BY <1>3, <2>1, <3>1, <3>2, <3>3, <3>4 DEF CheckInv
  <2>5. CASE CheckTimeoutPasses
    <3>1. ~(Age > TimeoutMs) /\ millis' = millis
      BY <1>3, <2>5 DEF CheckTimeoutPasses, TimedOut, Age
    <3>2. Age' = Age
      BY <2>1, <3>1 DEF Age, Elapsed
    <3> QED BY <2>1, <3>1, <3>2 DEF CheckInv
  <2>6. CASE ~Tick /\ ~Update /\ ~CheckTimeoutPasses
    <3>1. UNCHANGED <<millis, looped>>
      BY <1>3, <2>2, <2>6 DEF Next, Enqueue, EnqueueNew, EnqueueDuplicate, Clear, Internal,
         TransportUpdateQuiet, CallCallback, CallbackReturn, NotifyDone, ClearCancels,
         ClearDone, ExecuteNextBlocked, ExecuteNextProceeds, SendNothing, Send, OnResponse,
         OnError, TransportUpdateError, Fail
    <3>2. HasCheck(stack) => HasCheck(stack')
      BY <1>3, <2>2, <2>6, CheckKept
    <3>3. Age' = Age
      BY <2>1, <3>1 DEF Age, Elapsed
    <3> QED BY <1>3, <2>1, <3>1, <3>2, <3>3 DEF CheckInv
  <2> QED BY <2>3, <2>4, <2>5, <2>6
<1> QED BY <1>1, <1>2, <1>3

\* A command that is not answered is given up at most two ticks after its
\* time-out: one for the pass of the main loop that checks and one for the
\* tick that may fall before its check (.cpp:266), although millis() wraps.
THEOREM GivenUpInTime == Spec => []TimelyTimeout
<1>1. Init => CheckInv
  BY DEF Init, CheckInv, Executing
<1>2. IInv /\ CheckInv => TimelyTimeout
  <2> SUFFICES ASSUME IInv, CheckInv, Executing PROVE Age <= TimeoutMs + 2
    BY DEF TimelyTimeout, Age
  <2>1. Age \in Nat /\ TimeoutMs \in Nat
    BY AgeType, ConstantsAssumption DEF ConstantsAssumption
  <2> QED BY <2>1 DEF CheckInv
<1> QED BY <1>1, <1>2, CheckStep, Invariance, PTL DEF Spec

-----------------------------------------------------------------------------
(* The main loop sends whenever it can.                                    *)

\* Every call from the main loop ends in an execute_next().
EndsInNext(s) == s # <<>> => s[1].op \in {"execute_next", "send", "clear"}

\* The first of the calls when others are entered.
LEMMA FirstOfAppend ==
  ASSUME NEW s \in Seq(Frame), NEW f, NEW g
  PROVE /\ Append(s, f) # <<>> /\ Append(s, f)[1] = IF s = <<>> THEN f ELSE s[1]
        /\ Append(Append(s, f), g) # <<>>
        /\ Append(Append(s, f), g)[1] = IF s = <<>> THEN f ELSE s[1]
<1> DEFINE t == Append(s, f)
<1>1. /\ t \in Seq(Frame \cup {f}) /\ Len(t) = Len(s) + 1 /\ Len(s) \in Nat
      /\ \A k \in 1 .. Len(s) : t[k] = s[k]
      /\ t[Len(s) + 1] = f
  OBVIOUS
<1>2. t # <<>> /\ t[1] = IF s = <<>> THEN f ELSE s[1]
  <2>1. CASE s = <<>>
    BY <1>1, <2>1
  <2>2. CASE s # <<>>
    BY <1>1, <2>2
  <2> QED BY <2>1, <2>2
<1> HIDE DEF t
<1>3. /\ Append(t, g) # <<>> /\ Len(t) >= 1 /\ Append(t, g)[1] = t[1]
  BY <1>1
<1> QED BY <1>2, <1>3 DEF t

\* The first of the calls when the innermost one returns.
LEMMA FirstOfBelow ==
  ASSUME IInv, stack # <<>>
  PROVE /\ Below \in Seq(Frame) /\ stack[1] = IF Below = <<>> THEN Top ELSE Below[1]
        /\ Below = <<>> => Len(stack) = 1
<1>1. Below \in Seq(Frame) /\ stack = Append(Below, Top)
  BY Returned, StackIsAppend DEF IInv
<1> HIDE DEF Below
<1>2. Below = <<>> => Len(stack) = 1
  <2> SUFFICES ASSUME Below = <<>> PROVE Len(stack) = 1
    OBVIOUS
  <2>1. Len(Append(Below, Top)) = Len(Below) + 1
    BY <1>1
  <2> QED BY <1>1, <2>1
<1> QED BY <1>1, <1>2, FirstOfAppend

\* Whatever is called next ends in an execute_next() too.
LEMMA EndsInNextStep == IInv /\ EndsInNext(stack) /\ [Next]_vars => EndsInNext(stack')
<1> SUFFICES ASSUME IInv, EndsInNext(stack), [Next]_vars PROVE EndsInNext(stack')
  OBVIOUS
<1>0. stack \in Seq(Frame) /\ \A op : Call(op).op = op
  BY DEF IInv, TypeOK, Call
<1>1. CASE Enqueue
  <2>1. UNCHANGED stack \/ stack' = Append(stack, Call("execute_next"))
    BY <1>1 DEF Enqueue, EnqueueDuplicate, EnqueueNew
  <2> QED BY <1>0, <2>1, FirstOfAppend DEF EndsInNext
<1>2. CASE Clear
  <2>1. PICK lists : stack' = Append(stack, ClearCall(lists))
    BY <1>2 DEF Clear
  <2>2. ClearCall(lists).op = "clear"
    BY DEF ClearCall
  <2> QED BY <1>0, <2>1, <2>2, FirstOfAppend DEF EndsInNext
<1>3. CASE Update
  <2>1. stack' = <<Call("execute_next"), Call("check_timeout"), Call("transport_update")>>
    BY <1>3 DEF Update
  <2>2. stack'[1] = Call("execute_next")
    BY <2>1
  <2> QED BY <1>0, <2>2 DEF EndsInNext
<1>4. CASE Tick \/ UNCHANGED vars
  BY <1>4 DEF Tick, vars, EndsInNext
<1>5. CASE \E t \in Types : OnResponse(t) \/ OnError(t)
  <2>1. stack = <<>> /\ \E f : \/ stack' = Append(stack, Call("execute_next"))
                               \/ stack' = Append(Append(stack, Call("execute_next")), f)
    BY <1>5 DEF OnResponse, OnError, Fail
  <2> QED BY <1>0, <2>1, FirstOfAppend DEF EndsInNext
<1>6. CASE \E t \in Types : TransportUpdateError(t)
  <2>1. stack # <<>> /\ \E f : stack' = Append(Append(Below, Call("execute_next")), f)
    BY <1>6 DEF TransportUpdateError, Running, Fail
  <2> QED BY <1>0, <2>1, FirstOfAppend, FirstOfBelow DEF EndsInNext
<1>7. CASE CheckTimeoutExpires \/ ClearDone \/ ExecuteNextProceeds
  <2> DEFINE Ends == \E op \in {"execute_next", "send"} : \E f :
                 \/ stack' = Append(Below, Call(op))
                 \/ stack' = Append(Append(Below, Call(op)), f)
  <2>1. stack # <<>> /\ Ends
    <3>1. CASE CheckTimeoutExpires
      BY <3>1 DEF CheckTimeoutExpires, Running, BecomeTop
    <3>2. CASE ClearDone
      BY <3>2 DEF ClearDone, Running, BecomeTop
    <3>3. CASE ExecuteNextProceeds
      BY <3>3 DEF ExecuteNextProceeds, Running, BecomeTop
    <3> QED BY <1>7, <3>1, <3>2, <3>3
  <2>2. PICK op, f : /\ op \in {"execute_next", "send"}
                     /\ \/ stack' = Append(Below, Call(op))
                        \/ stack' = Append(Append(Below, Call(op)), f)
    BY <2>1
  <2>3. Below \in Seq(Frame) /\ (Below # <<>> => stack[1] = Below[1])
    BY <2>1, FirstOfBelow
  <2>4. stack' # <<>> /\ stack'[1] = IF Below = <<>> THEN Call(op) ELSE Below[1]
    BY <2>2, <2>3, FirstOfAppend
  <2> QED BY <1>0, <2>1, <2>3, <2>4 DEF EndsInNext
<1>8. CASE CallCallback \/ ClearCancels
  <2>1. /\ stack # <<>>
        /\ \E f, g : stack' = Append(Append(Below, f), g) /\ (Top.op = "clear" => f.op = "clear")
        /\ Top.op \in {"notify", "clear"}
    <3>1. stack # <<>> /\ Top \in Frame
      BY <1>8, Returned DEF CallCallback, ClearCancels, Running
    <3>2. [Top EXCEPT !.cancelled = Tail(@)].op = Top.op
      BY <3>1 DEF Frame
    <3> QED BY <1>8, <3>1, <3>2 DEF CallCallback, ClearCancels, Running, BecomeTop
  <2>2. Below = <<>> => Top.op = "clear"
    BY <2>1, FirstOfBelow DEF EndsInNext
  <2> QED BY <1>0, <2>1, <2>2, FirstOfAppend, FirstOfBelow DEF EndsInNext
<1>9. CASE TransportUpdateQuiet \/ CheckTimeoutPasses \/ CallbackReturn \/ NotifyDone
           \/ ExecuteNextBlocked \/ SendNothing \/ Send
  <2>1. stack # <<>> /\ stack' = Below
    BY <1>9 DEF TransportUpdateQuiet, CheckTimeoutPasses, CallbackReturn, NotifyDone,
       ExecuteNextBlocked, SendNothing, Send, Running
  <2> QED BY <2>1, FirstOfBelow DEF EndsInNext
<1> QED BY <1>1, <1>2, <1>3, <1>4, <1>5, <1>6, <1>7, <1>8, <1>9 DEF Next, Internal

\* The main loop is free again after an execute_next() that was kept from
\* sending by the command on the wire or by a delay, or after its send.
LEMMA BecomesFree ==
  ASSUME IInv, EndsInNext(stack), Next, stack # <<>>, stack' = <<>>
  PROVE \/ SendNothing \/ Send
        \/ ExecuteNextBlocked /\ (Executing \/ DelayRunning)
<1>1. stack \in Seq(Frame)
  BY DEF IInv, TypeOK
<1>2. ~Enqueue /\ ~Clear
  <2>1. ~Clear
    BY <1>1, FirstOfAppend DEF Clear
  <2>2. ASSUME Enqueue PROVE FALSE
    <3>1. UNCHANGED stack \/ stack' = Append(stack, Call("execute_next"))
      BY <2>2 DEF Enqueue, EnqueueDuplicate, EnqueueNew
    <3> QED BY <1>1, <3>1, FirstOfAppend
  <2> QED BY <2>1, <2>2
<1>3. ~Update /\ ~Tick /\ ~\E t \in Types : OnResponse(t) \/ OnError(t)
  BY DEF Update, Tick, OnResponse, OnError
<1>4. ~\E t \in Types : TransportUpdateError(t)
  <2> SUFFICES ASSUME NEW t \in Types, TransportUpdateError(t) PROVE FALSE
    OBVIOUS
  <2>1. \E f : stack' = Append(Append(Below, Call("execute_next")), f)
    BY DEF TransportUpdateError, Fail
  <2> QED BY <2>1, FirstOfAppend, FirstOfBelow
<1>5. ~CheckTimeoutExpires /\ ~ClearDone /\ ~ExecuteNextProceeds /\ ~CallCallback /\ ~ClearCancels
  <2>1. ASSUME CheckTimeoutExpires \/ ClearDone \/ ExecuteNextProceeds \/ CallCallback \/ ClearCancels
        PROVE \E f, g : stack' = Append(Below, f) \/ stack' = Append(Append(Below, f), g)
    BY <2>1 DEF CheckTimeoutExpires, ClearDone, ExecuteNextProceeds, CallCallback, ClearCancels, BecomeTop
  <2> QED BY <2>1, FirstOfAppend, FirstOfBelow
<1>6. ASSUME stack' = Below PROVE Top = stack[1] /\ Len(stack) = 1 /\ Top.op \in {"execute_next", "send", "clear"}
  BY <1>6, FirstOfBelow DEF EndsInNext
<1>7. ~TransportUpdateQuiet /\ ~CheckTimeoutPasses /\ ~CallbackReturn /\ ~NotifyDone
  BY <1>6 DEF TransportUpdateQuiet, CheckTimeoutPasses, CallbackReturn, NotifyDone, Running
<1>8. ASSUME ExecuteNextBlocked PROVE Executing \/ DelayRunning
  <2>1. Top = stack[1] /\ Len(stack) = 1 /\ Top.op = "execute_next"
    BY <1>6, <1>8 DEF ExecuteNextBlocked, Running
  <2>2. ~dispatching_callbacks
    BY <2>1 DEF IInv, DispatchFlag, FlagMatches, Dispatching
  <2> QED BY <1>8, <2>2 DEF ExecuteNextBlocked, Blocked
<1> QED BY <1>2, <1>3, <1>4, <1>5, <1>7, <1>8 DEF Next, Internal

\* A delay is over before a command is sent.
NoDelayThen == Executing \/ HasSend(stack) => delay_duration_ms = 0

\* What else changes the delay than the end of the command on the wire and the
\* execute_next() that finds the delay over.
LEMMA DelayChanges ==
  ASSUME Next, ~ExecuteNextProceeds, ~(UNCHANGED <<delay_started_ms, delay_duration_ms>>)
  PROVE /\ Executing /\ delay_started_ms' = millis /\ delay_duration_ms' = Head(queue).delay
        /\ queue' = Tail(queue) /\ millis' = millis
        /\ \E t \in Types : OnResponse(t) \/ OnError(t) \/ TransportUpdateError(t)
<1>1. CASE \E t \in Types : OnResponse(t) \/ OnError(t) \/ TransportUpdateError(t)
  BY <1>1 DEF OnResponse, OnError, TransportUpdateError, Fail
<1>2. CASE Enqueue \/ Clear \/ Update \/ Tick \/ (Internal /\ ~ExecuteNextProceeds)
  BY <1>2 DEF Enqueue, EnqueueNew, EnqueueDuplicate, Clear, Update, Tick, Internal,
     TransportUpdateQuiet, CheckTimeoutExpires, CheckTimeoutPasses, CallCallback,
     CallbackReturn, NotifyDone, ClearCancels, ClearDone, ExecuteNextBlocked,
     SendNothing, Send, queueVars
<1> QED BY <1>1, <1>2 DEF Next

\* A command is sent only after a delay has ended, and its own starts when it ends.
LEMMA NoDelayStep == IInv /\ NoDelayThen /\ [Next]_vars => NoDelayThen'
<1> SUFFICES ASSUME IInv, NoDelayThen, [Next]_vars PROVE NoDelayThen'
  OBVIOUS
<1>1. CASE UNCHANGED vars
  BY <1>1 DEF vars, queueVars, NoDelayThen, Executing, HasSend
<1>2. CASE ExecuteNextProceeds
  BY <1>2 DEF ExecuteNextProceeds, NoDelayThen
<1>3. CASE Next /\ ~ExecuteNextProceeds
  <2>1. ASSUME Executing' PROVE delay_duration_ms' = 0
    <3>1. Send \/ Executing
      BY <1>3, <2>1, OnlySendSends DEF Sends
    <3>2. delay_duration_ms = 0
      BY <3>1, Returned DEF NoDelayThen, Send, Running
    <3>3. ~\E t \in Types : OnResponse(t) \/ OnError(t) \/ TransportUpdateError(t)
      BY <2>1, OnResponseStep, OnErrorStep, TransportUpdateErrorStep
    <3> QED BY <1>3, <3>2, <3>3, DelayChanges
  <2>2. ASSUME HasSend(stack') PROVE delay_duration_ms' = 0
    <3>1. HasSend(stack)
      BY <1>3, <2>2, NoSendEntered
    <3>2. delay_duration_ms = 0 /\ ~Executing
      BY <3>1, ExecutingNoSend DEF NoDelayThen
    <3> QED BY <1>3, <3>2, DelayChanges
  <2> QED BY <2>1, <2>2 DEF NoDelayThen
<1> QED BY <1>1, <1>2, <1>3

\* How late execute_next() sees that a delay is over: a tick if no pass of the
\* main loop began since the last one, and a tick if a call is in progress.
SeenInTime ==
  delay_duration_ms > 0 =>
    Elapsed(delay_started_ms)
      <= delay_duration_ms - 1 + (IF looped THEN 0 ELSE 1) + (IF stack # <<>> THEN 1 ELSE 0)

\* The steps that move the clock or begin a pass.
LEMMA ClockChanges ==
  ASSUME Next, ~Tick, ~Update PROVE UNCHANGED <<millis, looped>>
  BY DEF Next, Enqueue, EnqueueNew, EnqueueDuplicate, Clear, Internal, TransportUpdateQuiet,
     CheckTimeoutExpires, CheckTimeoutPasses, CallCallback, CallbackReturn, NotifyDone,
     ClearCancels, ClearDone, ExecuteNextBlocked, ExecuteNextProceeds, SendNothing, Send,
     OnResponse, OnError, TransportUpdateError, Fail

\* The age of the delay is a number, and a tick adds one at most.
LEMMA DelayAge ==
  ASSUME IInv
  PROVE /\ Elapsed(delay_started_ms) \in Nat /\ delay_duration_ms \in Nat /\ looped \in BOOLEAN
        /\ Tick => Elapsed(delay_started_ms)' <= Elapsed(delay_started_ms) + 1
        /\ Tick => Elapsed(delay_started_ms)' \in Nat
<1>1. millis \in 0 .. ClockWrap - 1 /\ delay_started_ms \in 0 .. ClockWrap - 1
  BY DEF IInv, TypeOK
<1>2. ASSUME Tick PROVE /\ Elapsed(delay_started_ms)' <= Elapsed(delay_started_ms) + 1
                        /\ Elapsed(delay_started_ms)' \in Nat
  <2>1. /\ millis' = (millis + 1) % ClockWrap /\ delay_started_ms' = delay_started_ms
        /\ millis' \in 0 .. ClockWrap - 1
    BY <1>1, <1>2, ClockType DEF Tick, queueVars
  <2> QED BY <1>1, <2>1, ElapsedTick DEF Elapsed
<1> QED BY <1>1, <1>2, ElapsedTick DEF Elapsed, IInv, TypeOK

\* The pass of the loop that comes before each tick ends a delay that is over.
LEMMA SeenInTimeStep ==
  IInv /\ EndsInNext(stack) /\ NoDelayThen /\ SeenInTime /\ [Next]_vars => SeenInTime'
<1> SUFFICES ASSUME IInv, EndsInNext(stack), NoDelayThen, SeenInTime, [Next]_vars PROVE SeenInTime'
  OBVIOUS
<1>1. CASE UNCHANGED vars
  BY <1>1 DEF vars, queueVars, SeenInTime, Elapsed
<1>2. CASE ExecuteNextProceeds
  BY <1>2 DEF ExecuteNextProceeds, SeenInTime
<1>3. CASE Tick
  <2>1. /\ looped /\ ~looped' /\ UNCHANGED <<stack, delay_duration_ms>>
    BY <1>3 DEF Tick, queueVars
  <2> QED BY <1>3, <2>1, DelayAge DEF SeenInTime
<1>4. CASE Update
  <2>1. /\ stack = <<>> /\ stack' # <<>> /\ looped' /\ UNCHANGED <<millis, delay_started_ms, delay_duration_ms>>
    BY <1>4 DEF Update, queueVars
  <2>2. Elapsed(delay_started_ms)' = Elapsed(delay_started_ms)
    BY <2>1 DEF Elapsed
  <2> QED BY <2>1, <2>2, DelayAge DEF SeenInTime
<1>5. CASE Next /\ ~Tick /\ ~Update /\ ~ExecuteNextProceeds
  <2>1. UNCHANGED <<millis, looped>>
    BY <1>5, ClockChanges
  <2>2. CASE ~UNCHANGED <<delay_started_ms, delay_duration_ms>>
    <3>1. delay_started_ms' = millis /\ millis \in 0 .. ClockWrap - 1
      BY <1>5, <2>2, DelayChanges DEF IInv, TypeOK
    <3>2. Elapsed(delay_started_ms)' = 0
      BY <2>1, <3>1, ElapsedNow DEF Elapsed
    <3>3. delay_duration_ms' \in Nat
      BY <1>5, <2>2, DelayChanges, ExecutingDelay
    <3>4. PICK duration \in Nat : delay_duration_ms' = duration
      BY <3>3
    <3>5. PICK late \in 0 .. 2 :
            late = (IF looped' THEN 0 ELSE 1) + (IF stack' # <<>> THEN 1 ELSE 0)
      BY DelayAge
    <3>6. duration > 0 => 0 <= duration - 1 + (IF looped' THEN 0 ELSE 1) + (IF stack' # <<>> THEN 1 ELSE 0)
      BY <3>5
    <3> QED BY <3>2, <3>4, <3>6 DEF SeenInTime
  <2>3. CASE UNCHANGED <<delay_started_ms, delay_duration_ms>>
    <3>1. Elapsed(delay_started_ms)' = Elapsed(delay_started_ms)
      BY <2>1, <2>3 DEF Elapsed
    <3>2. CASE stack # <<>> /\ stack' = <<>>
      <4>1. delay_duration_ms > 0 => Elapsed(delay_started_ms) < delay_duration_ms
        BY <1>5, <3>2, BecomesFree, Returned
           DEF SendNothing, Send, Running, NoDelayThen, DelayRunning
      <4> QED BY <2>1, <2>3, <3>1, <3>2, <4>1, DelayAge DEF SeenInTime
    <3>3. CASE stack' # <<>> \/ stack = <<>>
      BY <2>1, <2>3, <3>1, <3>3, DelayAge DEF SeenInTime
    <3> QED BY <3>2, <3>3
  <2> QED BY <2>2, <2>3
<1> QED BY <1>1, <1>2, <1>3, <1>4, <1>5

\* The command that is sent is on the wire.
LEMMA SentExecutes == ASSUME IInv, Send PROVE Executing' /\ queue' # <<>>
<1>1. PICK best : SentAs(queue, queue', best)
  BY SendElements
<1>2. queue' \in Seq(QueuedCommand) /\ Len(queue') >= 1 /\ queue'[1].state = "EXECUTING"
  <2>1. queue \in Seq(QueuedCommand) /\ queue' \in Seq(QueuedCommand) /\ queue # <<>>
    BY SendStep DEF IInv, TypeOK, Send
  <2> QED BY <1>1, <2>1 DEF SentAs
<1> QED BY <1>2 DEF Executing

\* A step that keeps or adds commands leaves the one on the wire there.
LEMMA StaysExecuting ==
  ASSUME IInv, IInv', Grown(queue, queue', millis), queue # <<>>
  PROVE queue' # <<>> /\ (Executing' <=> Executing)
<1>1. /\ queue \in Seq(QueuedCommand) /\ queue' \in Seq(QueuedCommand)
      /\ Len(queue) >= 1 /\ Len(queue') >= 1
      /\ Head(queue) = queue[1] /\ Head(queue') = queue'[1]
  BY DEF IInv, TypeOK, Grown
<1>2. queue'[1].state = queue[1].state
  BY <1>1 DEF Grown
<1> QED BY <1>1, <1>2 DEF Executing

\* Commands are added with a call of execute_next().
LEMMA EnqueueFree ==
  ASSUME IInv, Enqueue, stack' = <<>>
  PROVE queue # <<>> /\ Grown(queue, queue', millis)
<1>1. PICK req \in Requests : \E cb : EnqueueDuplicate(req, cb) \/ EnqueueNew(req, cb)
  BY DEF Enqueue
<1>2. PICK cb : EnqueueDuplicate(req, cb) \/ EnqueueNew(req, cb)
  BY <1>1
<1>3. ~EnqueueNew(req, cb)
  BY FirstOfAppend DEF EnqueueNew, IInv, TypeOK
<1>4. PICK m \in 1 .. Len(queue) : IsDuplicate(m, req.command)
  BY <1>2, <1>3 DEF EnqueueDuplicate
<1>5. queue # <<>>
  BY <1>4
<1> QED BY <1>5, EnqueueGrows

\* Whatever frees the wire or ends a delay goes on to execute_next().
LEMMA NeverIdleStep ==
  IInv /\ IInv' /\ EndsInNext(stack) /\ NoDelayThen /\ NeverIdle /\ [Next]_vars => NeverIdle'
<1> SUFFICES ASSUME IInv, IInv', EndsInNext(stack), NoDelayThen, NeverIdle, [Next]_vars,
                    queue' # <<>>, ~Executing', delay_duration_ms' = 0, stack' = <<>>
             PROVE FALSE
  BY DEF NeverIdle
<1>1. CASE UNCHANGED vars
  BY <1>1 DEF vars, queueVars, NeverIdle, Executing
<1>2. CASE Next /\ stack # <<>>
  <2>1. ~Send
    BY SentExecutes
  <2>2. ~SendNothing
    BY DEF SendNothing, queueVars
  <2>3. ExecuteNextBlocked /\ (Executing \/ DelayRunning)
    BY <1>2, <2>1, <2>2, BecomesFree
  <2>4. UNCHANGED <<queue, delay_duration_ms>>
    BY <2>3 DEF ExecuteNextBlocked, queueVars
  <2>5. ~Executing
    BY <2>4 DEF Executing
  <2>6. Elapsed(delay_started_ms) < delay_duration_ms
    BY <2>3, <2>5 DEF DelayRunning
  <2> QED BY <2>4, <2>6, DelayAge
<1>3. CASE Next /\ stack = <<>>
  <2>1. \A f, g : stack' # Append(stack, f) /\ stack' # Append(Append(stack, f), g)
    BY FirstOfAppend DEF IInv, TypeOK
  <2>2. ~Clear
    BY <2>1 DEF Clear
  <2>3. ~Update
    BY DEF Update
  <2>4. ~\E t \in Types : OnResponse(t) \/ OnError(t)
    BY <2>1 DEF OnResponse, OnError, Fail
  <2>5. ~Internal /\ ~\E t \in Types : TransportUpdateError(t)
    BY <1>3 DEF Internal, TransportUpdateQuiet, CheckTimeoutExpires, CheckTimeoutPasses,
       CallCallback, CallbackReturn, NotifyDone, ClearCancels, ClearDone, ExecuteNextBlocked,
       ExecuteNextProceeds, SendNothing, Send, TransportUpdateError, Running
  <2>6. CASE Enqueue
    <3>1. queue # <<>> /\ ~Executing
      BY <2>6, EnqueueFree, StaysExecuting
    <3>2. delay_duration_ms' = delay_duration_ms
      BY <2>6 DEF Enqueue, EnqueueDuplicate, EnqueueNew
    <3> QED BY <1>3, <3>1, <3>2 DEF NeverIdle
  <2>7. CASE Tick
    BY <1>3, <2>7 DEF Tick, queueVars, NeverIdle, Executing
  <2> QED BY <1>3, <2>2, <2>3, <2>4, <2>5, <2>6, <2>7 DEF Next
<1> QED BY <1>1, <1>2, <1>3

-----------------------------------------------------------------------------
(* How long a command waits.                                               *)

\* No request is more urgent than NORMAL, and no delay is longer than d: what
\* is asked of the queue between set-ups and emergency stops.
Mild(d) == \A req \in Requests : req.priority >= NORMAL /\ req.delay <= d

MildCommand(cmd, d) == cmd.priority >= NORMAL /\ cmd.delay <= d
MildQueue(d) ==
  /\ Len(queue) <= MaxQueue
  /\ \A i \in 1 .. Len(queue) : MildCommand(queue[i], d)
  /\ delay_duration_ms <= d

\* An empty queue is mild.
LEMMA MildInitially == ASSUME NEW d \in Nat PROVE Init => MildQueue(d)
  BY ConstantsAssumption DEF Init, MildQueue, ConstantsAssumption

\* A request that is mild makes or leaves a mild command.
LEMMA MildEnqueue ==
  ASSUME IInv, NEW d \in Nat, Mild(d), MildQueue(d), Enqueue
  PROVE MildQueue(d)'
<1>1. PICK req \in Requests, cb \in {<<>>} \cup {<<r>> : r \in Requester \ outstanding} :
        EnqueueDuplicate(req, cb) \/ EnqueueNew(req, cb)
  BY DEF Enqueue
<1>2. cb \in Seq(Requester)
  <2>1. CASE cb = <<>>
    BY <2>1
  <2>2. ASSUME NEW r \in Requester, cb = <<r>> PROVE cb \in Seq(Requester)
    BY <2>2
  <2> QED BY <2>1, <2>2
<1>3. /\ queue \in Seq(QueuedCommand) /\ Len(queue) \in Nat /\ MaxQueue \in Nat
      /\ req.priority \in Priority /\ req.delay \in Nat /\ req.priority >= NORMAL /\ req.delay <= d
      /\ delay_duration_ms' = delay_duration_ms
  <2>1. queue \in Seq(QueuedCommand) /\ Len(queue) \in Nat
    BY DEF IInv, TypeOK
  <2>2. req.priority \in Priority /\ req.delay \in Nat /\ MaxQueue \in Nat
    BY ConstantsAssumption DEF ConstantsAssumption
  <2>3. delay_duration_ms' = delay_duration_ms
    BY <1>1 DEF EnqueueDuplicate, EnqueueNew
  <2> QED BY <2>1, <2>2, <2>3 DEF Mild
<1>4. CASE EnqueueNew(req, cb)
  <2> DEFINE new == [command |-> req.command, callbacks |-> cb, state |-> "PENDING",
                     priority |-> req.priority, delay |-> req.delay,
                     enqueued_time |-> millis, sent_time |-> 0]
  <2>1. queue' = Append(queue, new) /\ MildCommand(new, d) /\ Len(queue) < MaxQueue
    BY <1>3, <1>4 DEF EnqueueNew, MildCommand
  <2> HIDE DEF new
  <2>2. /\ Len(queue') = Len(queue) + 1 /\ queue'[Len(queue) + 1] = new
        /\ \A k \in 1 .. Len(queue) : queue'[k] = queue[k]
    BY <1>3, <2>1
  <2>3. ASSUME NEW i \in 1 .. Len(queue') PROVE MildCommand(queue'[i], d)
    <3>1. i \in 1 .. Len(queue) \/ i = Len(queue) + 1
      BY <1>3, <2>2
    <3> QED BY <2>1, <2>2, <3>1 DEF MildQueue
  <2> QED BY <1>3, <2>1, <2>2, <2>3 DEF MildQueue
<1>5. CASE EnqueueDuplicate(req, cb)
  <2>1. PICK m \in 1 .. Len(queue) :
          queue' = [queue EXCEPT
               ![m].priority = IF req.priority < @ THEN req.priority ELSE @,
               ![m].delay = req.delay,
               ![m].callbacks = @ \o cb]
    BY <1>5 DEF EnqueueDuplicate
  <2> DEFINE merged == [queue[m] EXCEPT
               !.priority = IF req.priority < @ THEN req.priority ELSE @,
               !.delay = req.delay, !.callbacks = @ \o cb]
  <2>2. queue[m] \in QueuedCommand /\ MildCommand(queue[m], d)
    BY <1>3 DEF MildQueue
  <2>3. merged \in QueuedCommand
    BY <1>2, MergedType DEF IInv
  <2>4. MildCommand(merged, d)
    BY <1>3, <2>2 DEF QueuedCommand, MildCommand
  <2>5. queue' = [queue EXCEPT ![m] = merged]
    BY <1>3, <2>1, <2>2 DEF QueuedCommand
  <2> HIDE DEF merged
  <2>6. /\ Len(queue') = Len(queue) /\ queue'[m] = merged
        /\ \A i \in 1 .. Len(queue) : i # m => queue'[i] = queue[i]
    BY <1>3, <2>3, <2>5, ExceptElements
  <2>7. \A i \in 1 .. Len(queue) : MildCommand(queue'[i], d)
    BY <2>4, <2>6 DEF MildQueue
  <2> QED BY <1>3, <2>6, <2>7 DEF MildQueue
<1> QED BY <1>1, <1>4, <1>5

\* A send changes neither the priority nor the delay of a command.
LEMMA MildSend ==
  ASSUME IInv, NEW d \in Nat, MildQueue(d), Send
  PROVE Len(queue') = Len(queue) /\ \A i \in 1 .. Len(queue) : MildCommand(queue'[i], d)
<1>1. PICK best \in 1 .. Len(queue) :
        queue' = [MoveToFront(best) EXCEPT ![1].state = "EXECUTING", ![1].sent_time = millis]
  BY DEF Send
<1>2. /\ queue \in Seq(QueuedCommand) /\ Len(queue) \in Nat /\ Len(queue) >= 1
      /\ Len(queue') = Len(queue)
      /\ \A k \in 2 .. Len(queue) : queue'[k] = MoveToFront(best)[k]
  <2>1. Len(queue') = Len(queue) /\ \A k \in 2 .. Len(queue) : queue'[k] = MoveToFront(best)[k]
    BY <1>1, SentQueue DEF IInv
  <2>2. queue \in Seq(QueuedCommand) /\ Len(queue) \in Nat
    BY DEF IInv, TypeOK
  <2> QED BY <2>1, <2>2
<1>3. \A k \in 1 .. Len(queue) : MildCommand(MoveToFront(best)[k], d)
  BY <1>2 DEF MoveToFront, MildQueue
<1>4. MoveToFront(best)[1] \in QueuedCommand /\ 1 \in DOMAIN MoveToFront(best)
  BY <1>2 DEF MoveToFront
<1>5. MildCommand(queue'[1], d)
  <2> HIDE DEF MoveToFront
  <2>1. queue'[1] = [MoveToFront(best)[1] EXCEPT !.state = "EXECUTING", !.sent_time = millis]
    BY <1>1, <1>4
  <2>2. queue'[1].priority = MoveToFront(best)[1].priority /\ queue'[1].delay = MoveToFront(best)[1].delay
    BY <1>4, <2>1 DEF QueuedCommand
  <2> QED BY <1>2, <1>3, <2>2 DEF MildCommand
<1> QED BY <1>2, <1>3, <1>5

\* The queue stays mild, since delays come from its commands.
LEMMA MildStep ==
  ASSUME NEW d \in Nat, Mild(d)
  PROVE IInv /\ MildQueue(d) /\ [Next]_vars => MildQueue(d)'
<1> SUFFICES ASSUME IInv, MildQueue(d), [Next]_vars PROVE MildQueue(d)'
  OBVIOUS
<1>1. queue \in Seq(QueuedCommand) /\ Len(queue) \in Nat /\ MaxQueue \in Nat
  BY ConstantsAssumption DEF IInv, TypeOK, ConstantsAssumption
<1>2. CASE UNCHANGED vars
  BY <1>2 DEF vars, queueVars, MildQueue
<1>3. CASE Enqueue
  BY <1>3, MildEnqueue
<1>4. CASE Next /\ ~Enqueue
  <2>1. Len(queue') <= MaxQueue /\ \A i \in 1 .. Len(queue') : MildCommand(queue'[i], d)
    <3>1. CASE Send
      BY <1>1, <3>1, MildSend DEF MildQueue
    <3>2. CASE queue # <<>> /\ queue' = Tail(queue)
      <4>1. Len(queue') = Len(queue) - 1 /\ \A i \in 1 .. Len(queue') : queue'[i] = queue[i + 1] /\ i + 1 \in 1 .. Len(queue)
        BY <1>1, <3>2
      <4> QED BY <1>1, <4>1 DEF MildQueue
    <3>3. CASE Clear
      <4>1. PICK n \in 0 .. 1 : n <= Len(queue) /\ queue' = SubSeq(queue, 1, n)
        BY <1>1, <3>3 DEF Clear, Executing
      <4>2. Len(queue') = n /\ \A i \in 1 .. Len(queue') : queue'[i] = queue[i] /\ i \in 1 .. Len(queue)
        BY <1>1, <4>1
      <4> QED BY <1>1, <4>1, <4>2 DEF MildQueue
    <3>4. CASE \/ Update \/ Tick \/ (Internal /\ ~Send)
               \/ \E t \in Types : OnResponse(t) \/ OnError(t) \/ TransportUpdateError(t)
      <4>1. UNCHANGED queue \/ (queue # <<>> /\ queue' = Tail(queue))
        BY <3>4 DEF Update, Tick, Internal, OnResponse, OnError, TransportUpdateError, Fail, Executing,
                TransportUpdateQuiet, CheckTimeoutExpires, CheckTimeoutPasses, TimedOut, CallCallback,
                CallbackReturn, NotifyDone, ClearCancels, ClearDone, ExecuteNextBlocked,
                ExecuteNextProceeds, SendNothing, queueVars
      <4> QED BY <3>2, <4>1 DEF MildQueue
    <3> QED BY <1>4, <3>1, <3>3, <3>4 DEF Next
  <2>2. delay_duration_ms' <= d
    <3>1. CASE ExecuteNextProceeds
      BY <3>1 DEF ExecuteNextProceeds
    <3>2. CASE UNCHANGED <<delay_started_ms, delay_duration_ms>>
      BY <3>2 DEF MildQueue
    <3>3. CASE ~ExecuteNextProceeds /\ ~UNCHANGED <<delay_started_ms, delay_duration_ms>>
      <4>1. delay_duration_ms' = Head(queue).delay /\ Executing
        BY <1>4, <3>3, DelayChanges
      <4>2. Head(queue) = queue[1] /\ 1 \in 1 .. Len(queue)
        BY <1>1, <4>1 DEF Executing
      <4> QED BY <4>1, <4>2 DEF MildQueue, MildCommand
    <3> QED BY <3>1, <3>2, <3>3
  <2> QED BY <2>1, <2>2 DEF MildQueue
<1> QED BY <1>2, <1>3, <1>4

\* The penalty that ageing has to make up for.
MaxPenalty == IF BackgroundPenalty > IdlePenalty THEN BackgroundPenalty ELSE IdlePenalty

\* The ticks of a recovery delay, those of a command, its delay and the send
\* of the next one, and those that a command may wait.
Recovery(d) == IF d = 0 THEN 0 ELSE d + 1
TurnTime(d) == TimeoutMs + 2 + Recovery(d) + 1
LongestWait(d) == MaxPenalty + TurnTime(d) * MaxQueue

\* The ticks left until the next send while commands wait, at most.
Remaining(d) ==
  IF Executing THEN TimeoutMs + 2 - Age + Recovery(d) + 1
  ELSE IF delay_duration_ms > 0 THEN Recovery(d) - Elapsed(delay_started_ms) + 1
  ELSE IF looped THEN 1 ELSE 0

\* As long as a command waits, it has waited and will wait no longer than the
\* penalty and a turn for each of the first m commands, where m is any place
\* whose command could still overtake it: one that came later by no more than
\* the penalty.  A send takes the turn of one of them.  q is the queue, rest
\* the time until the next send, wire 1 if the first command is on the wire.
Counted(q, now, rest, wire, d) ==
  \A i, m :
    WaitsIn(q, i) /\ WaitsIn(q, m) /\ AgeAt(q[i], now) - AgeAt(q[m], now) <= MaxPenalty =>
      AgeAt(q[i], now) + rest + TurnTime(d) * (m - wire) <= MaxPenalty + TurnTime(d) * (MaxQueue + 1)

Wire == IF Executing THEN 1 ELSE 0
TurnsCount(d) == Counted(queue, millis, Remaining(d), Wire, d)

WaitInv(d) ==
  /\ CheckInv /\ EndsInNext(stack) /\ NoDelayThen /\ SeenInTime /\ NeverIdle
  /\ MildQueue(d) /\ TurnsCount(d)

\* The types of all that is counted.
LEMMA WaitTypes ==
  ASSUME NEW d \in Nat
  PROVE /\ MaxPenalty \in Nat /\ BackgroundPenalty <= MaxPenalty /\ IdlePenalty <= MaxPenalty
        /\ Recovery(d) \in Nat /\ d <= Recovery(d) /\ (d > 0 => Recovery(d) = d + 1)
        /\ TurnTime(d) \in Nat /\ TurnTime(d) = TimeoutMs + Recovery(d) + 3
        /\ TimeoutMs \in Nat /\ MaxQueue \in Nat /\ ClockWrap \in Nat \ {0}
  BY ConstantsAssumption DEF ConstantsAssumption, MaxPenalty, Recovery, TurnTime

\* Ages of waiting commands.
LEMMA WaitingAge ==
  ASSUME NEW q \in Seq(QueuedCommand), NEW now \in 0 .. ClockWrap - 1, NEW i, WaitsIn(q, i)
  PROVE AgeAt(q[i], now) \in Nat /\ i \in 1 .. Len(q) /\ i \in Nat /\ q[i] \in QueuedCommand
<1>1. i \in 1 .. Len(q) /\ q[i] \in QueuedCommand /\ i \in Nat
  BY DEF WaitsIn
<1> QED BY <1>1, AgeNat

\* The command on the wire and the delay after it are over in time.
LEMMA WireAge ==
  ASSUME IInv, CheckInv, Executing PROVE Age \in Nat /\ Age <= TimeoutMs + 2
<1>1. Age \in Nat /\ TimeoutMs \in Nat
  BY AgeType, ConstantsAssumption DEF ConstantsAssumption
<1> QED BY <1>1 DEF CheckInv

\* A delay that runs is not much older than the longest one asked for.
LEMMA DelayAgeBound ==
  ASSUME IInv, NEW d \in Nat, SeenInTime, MildQueue(d), delay_duration_ms > 0
  PROVE Elapsed(delay_started_ms) \in Nat /\ d > 0 /\ Elapsed(delay_started_ms) <= d + 1
<1>1. /\ Elapsed(delay_started_ms) \in Nat /\ delay_duration_ms \in Nat /\ looped \in BOOLEAN
      /\ delay_duration_ms <= d
  BY DelayAge DEF MildQueue
<1> QED BY <1>1 DEF SeenInTime

\* What is left of a turn: a number, no more than a turn while the time-outs
\* and delays are seen in time.
LEMMA RemainingBounds ==
  ASSUME IInv, NEW d \in Nat, CheckInv, SeenInTime, MildQueue(d)
  PROVE Remaining(d) \in Int /\ 0 <= Remaining(d) /\ Remaining(d) <= TurnTime(d)
<1>1. CASE Executing
  <2>1. Age \in Nat /\ Age <= TimeoutMs + 2
    BY <1>1, WireAge
  <2> QED BY <1>1, <2>1, WaitTypes DEF Remaining
<1>2. CASE ~Executing /\ delay_duration_ms > 0
  <2>1. Elapsed(delay_started_ms) \in Nat /\ d > 0 /\ Elapsed(delay_started_ms) <= d + 1
    BY <1>2, DelayAgeBound
  <2> QED BY <1>2, <2>1, WaitTypes DEF Remaining
<1>3. CASE ~Executing /\ ~(delay_duration_ms > 0)
  BY <1>3, WaitTypes DEF Remaining
<1> QED BY <1>1, <1>2, <1>3

\* The same of the next state.
LEMMA RemainingBoundsNext ==
  ASSUME NEW d \in Nat
  PROVE (IInv /\ CheckInv /\ SeenInTime /\ MildQueue(d))'
          => (Remaining(d) \in Int /\ Remaining(d) <= TurnTime(d))'
<1>1. (IInv /\ CheckInv /\ SeenInTime /\ MildQueue(d))
          => (Remaining(d) \in Int /\ Remaining(d) <= TurnTime(d))
  BY RemainingBounds
<1> QED BY <1>1, PTL

\* Turns are counted with a factor that is not a literal.
LEMMA TurnsAdd ==
  ASSUME NEW t \in Nat, NEW m \in Int, NEW n \in Int
  PROVE /\ t * m \in Int /\ t * (m - 1) = t * m - t /\ t * (m + 1) = t * m + t
        /\ (m <= n => t * m <= t * n)
<1>1. t * m \in Int /\ t * (m - 1) = t * m - t /\ t * (m + 1) = t * m + t
  OBVIOUS
<1>2. ASSUME m <= n PROVE t * m <= t * n
  <2>1. n - m \in Nat /\ t * (n - m) \in Nat
    BY <1>2
  <2>2. t * (n - m) = t * n - t * m
    OBVIOUS
  <2> QED BY <2>1, <2>2
<1> QED BY <1>1, <1>2

\* A command that is not older than the penalty has time for all turns.
LEMMA YoungHasTime ==
  ASSUME NEW d \in Nat, NEW age \in Nat, age <= MaxPenalty, NEW rest \in Int, rest <= TurnTime(d),
         NEW n \in Int, n <= MaxQueue
  PROVE age + rest + TurnTime(d) * n <= MaxPenalty + TurnTime(d) * (MaxQueue + 1)
<1> DEFINE t == TurnTime(d)
<1>1. t \in Nat /\ MaxPenalty \in Nat /\ MaxQueue \in Nat
  BY WaitTypes
<1> HIDE DEF t
<1>2. t * n \in Int /\ t * n <= t * MaxQueue /\ t * (MaxQueue + 1) = t * MaxQueue + t /\ t * MaxQueue \in Int
  BY <1>1, TurnsAdd
<1>3. rest <= t
  BY DEF t
<1> DEFINE a == t * n  b == t * MaxQueue  c == t * (MaxQueue + 1)
<1>4. a \in Int /\ b \in Int /\ a <= b /\ c = b + t
  BY <1>2
<1> HIDE DEF a, b, c
<1>5. age + rest + a <= MaxPenalty + c
  BY <1>1, <1>3, <1>4
<1> QED BY <1>5 DEF a, c, t

\* The first command leaves the wire.
LEMMA CountedTail ==
  ASSUME NEW d \in Nat, NEW q \in Seq(QueuedCommand), q # <<>>, NEW now \in 0 .. ClockWrap - 1,
         NEW rest \in Int, NEW rest2 \in Int, rest2 <= rest, Counted(q, now, rest, 1, d)
  PROVE Counted(Tail(q), now, rest2, 0, d)
<1> DEFINE u == Tail(q)  t == TurnTime(d)
<1>1. /\ Len(q) \in Nat /\ Len(u) = Len(q) - 1 /\ u \in Seq(QueuedCommand)
      /\ \A i \in 1 .. Len(u) : u[i] = q[i + 1] /\ i + 1 \in 1 .. Len(q)
  OBVIOUS
<1> HIDE DEF u
<1> SUFFICES ASSUME NEW i, NEW m, WaitsIn(u, i), WaitsIn(u, m),
                    AgeAt(u[i], now) - AgeAt(u[m], now) <= MaxPenalty
             PROVE AgeAt(u[i], now) + rest2 + TurnTime(d) * (m - 0) <= MaxPenalty + TurnTime(d) * (MaxQueue + 1)
  BY DEF Counted, u
<1>2. /\ i \in Nat /\ m \in Nat /\ AgeAt(u[i], now) \in Nat
      /\ u[i] = q[i + 1] /\ u[m] = q[m + 1] /\ WaitsIn(q, i + 1) /\ WaitsIn(q, m + 1)
  BY <1>1, WaitingAge DEF WaitsIn
<1>3. AgeAt(u[i], now) + rest + t * ((m + 1) - 1) <= MaxPenalty + t * (MaxQueue + 1)
  BY <1>2 DEF Counted
<1>4. (m + 1) - 1 = m /\ m - 0 = m /\ t \in Nat /\ MaxPenalty \in Nat /\ MaxQueue \in Nat
  BY <1>2, WaitTypes
<1> HIDE DEF t
<1> DEFINE a == t * m  c == t * (MaxQueue + 1)
<1>5. a \in Int /\ c \in Int
  BY <1>2, <1>4
<1>6. AgeAt(u[i], now) + rest + a <= MaxPenalty + c
  BY <1>3, <1>4
<1> HIDE DEF a, c
<1>7. AgeAt(u[i], now) + rest2 + a <= MaxPenalty + c
  BY <1>2, <1>4, <1>5, <1>6
<1> QED BY <1>4, <1>7 DEF a, c, t

\* A tick makes all of them older and takes from what is left.
LEMMA CountedTick ==
  ASSUME NEW d \in Nat, NEW q \in Seq(QueuedCommand), NEW now \in 0 .. ClockWrap - 1,
         NEW wire \in 0 .. 1, NEW rest \in Int, NEW rest2 \in Int, q # <<>> => rest2 <= rest - 1,
         Counted(q, now, rest, wire, d),
         \A i : WaitsIn(q, i) => AgeAt(q[i], now) < ClockWrap - 1
  PROVE Counted(q, (now + 1) % ClockWrap, rest2, wire, d)
<1> DEFINE next == (now + 1) % ClockWrap  t == TurnTime(d)
<1>1. \A i : WaitsIn(q, i) => /\ AgeAt(q[i], next) = AgeAt(q[i], now) + 1
                              /\ AgeAt(q[i], now) \in Nat /\ i \in Nat /\ q # <<>>
  BY WaitingAge, AgeGrows DEF WaitsIn
<1> HIDE DEF next
<1> SUFFICES ASSUME NEW i, NEW m, WaitsIn(q, i), WaitsIn(q, m),
                    AgeAt(q[i], next) - AgeAt(q[m], next) <= MaxPenalty
             PROVE AgeAt(q[i], next) + rest2 + TurnTime(d) * (m - wire) <= MaxPenalty + TurnTime(d) * (MaxQueue + 1)
  BY DEF Counted, next
<1>0. /\ AgeAt(q[i], next) = AgeAt(q[i], now) + 1 /\ AgeAt(q[i], now) \in Nat
      /\ AgeAt(q[m], next) = AgeAt(q[m], now) + 1 /\ AgeAt(q[m], now) \in Nat
      /\ MaxPenalty \in Nat /\ rest2 <= rest - 1
  BY <1>1, WaitTypes
<1>2. AgeAt(q[i], now) - AgeAt(q[m], now) <= MaxPenalty
  BY <1>0
<1>3. AgeAt(q[i], now) + rest + t * (m - wire) <= MaxPenalty + t * (MaxQueue + 1)
  BY <1>2 DEF Counted
<1>4. t \in Nat /\ MaxPenalty \in Nat /\ MaxQueue \in Nat /\ m - wire \in Int
  <2>1. t \in Nat /\ MaxPenalty \in Nat /\ MaxQueue \in Nat
    BY WaitTypes
  <2>2. m \in Nat
    BY <1>1
  <2> QED BY <2>1, <2>2
<1> HIDE DEF t
<1> DEFINE a == t * (m - wire)  c == t * (MaxQueue + 1)
<1>5. a \in Int /\ c \in Int
  BY <1>4
<1>6. AgeAt(q[i], now) + rest + a <= MaxPenalty + c
  BY <1>3
<1> HIDE DEF a, c
<1>7. AgeAt(q[i], next) + rest2 + a <= MaxPenalty + c
  BY <1>0, <1>5, <1>6
<1> QED BY <1>7 DEF a, c, t

\* A command that comes is younger than the penalty, and so is any other that
\* it could overtake.
LEMMA CountedGrown ==
  ASSUME NEW d \in Nat, NEW q \in Seq(QueuedCommand), NEW u \in Seq(QueuedCommand),
         NEW now \in 0 .. ClockWrap - 1, Grown(q, u, now), Len(u) <= MaxQueue,
         NEW wire, NEW wire2 \in 0 .. 1, q # <<>> => wire2 = wire,
         NEW rest \in Int, NEW rest2 \in Int, q # <<>> => rest2 <= rest, rest2 <= TurnTime(d),
         Counted(q, now, rest, wire, d)
  PROVE Counted(u, now, rest2, wire2, d)
<1> DEFINE t == TurnTime(d)
<1>1. /\ Len(q) \in Nat /\ Len(u) \in Nat /\ Len(u) \in {Len(q), Len(q) + 1}
      /\ t \in Nat /\ MaxPenalty \in Nat /\ MaxQueue \in Nat
  <2>1. t \in Nat /\ MaxPenalty \in Nat /\ MaxQueue \in Nat
    BY WaitTypes
  <2>2. Len(q) \in Nat /\ Len(u) \in Nat
    OBVIOUS
  <2> QED BY <2>1, <2>2 DEF Grown
<1> SUFFICES ASSUME NEW i, NEW m, WaitsIn(u, i), WaitsIn(u, m),
                    AgeAt(u[i], now) - AgeAt(u[m], now) <= MaxPenalty
             PROVE AgeAt(u[i], now) + rest2 + TurnTime(d) * (m - wire2) <= MaxPenalty + TurnTime(d) * (MaxQueue + 1)
  BY DEF Counted
<1>2. /\ i \in 1 .. Len(u) /\ m \in 1 .. Len(u)
      /\ AgeAt(u[i], now) \in Nat /\ AgeAt(u[m], now) \in Nat
  BY WaitingAge
<1>3. CASE AgeAt(u[i], now) <= MaxPenalty
  <2>1. m - wire2 \in Int /\ m - wire2 <= MaxQueue
    BY <1>1, <1>2
  <2> QED BY <1>2, <1>3, <2>1, YoungHasTime
<1>4. CASE i \in 1 .. Len(q) /\ m \in 1 .. Len(q)
  <2>1. /\ WaitsIn(q, i) /\ WaitsIn(q, m) /\ q # <<>>
        /\ u[i].enqueued_time = q[i].enqueued_time /\ u[m].enqueued_time = q[m].enqueued_time
    BY <1>4 DEF Grown, WaitsIn
  <2>2. AgeAt(u[i], now) = AgeAt(q[i], now) /\ AgeAt(u[m], now) = AgeAt(q[m], now)
    BY <2>1 DEF AgeAt
  <2>3. AgeAt(u[i], now) + rest + t * (m - wire2) <= MaxPenalty + t * (MaxQueue + 1)
    BY <2>1, <2>2 DEF Counted
  <2>4. rest2 <= rest /\ m - wire2 \in Int
    BY <1>2, <2>1
  <2> HIDE DEF t
  <2> DEFINE a == t * (m - wire2)  c == t * (MaxQueue + 1)
  <2>5. a \in Int /\ c \in Int
    BY <1>1, <2>4
  <2>6. AgeAt(u[i], now) + rest + a <= MaxPenalty + c
    BY <2>3
  <2> HIDE DEF a, c
  <2>7. AgeAt(u[i], now) + rest2 + a <= MaxPenalty + c
    <3>1. AgeAt(u[i], now) \in Nat /\ MaxPenalty \in Nat
      BY <1>1, <1>2
    <3> QED BY <2>4, <2>5, <2>6, <3>1
  <2> QED BY <2>7 DEF a, c, t
<1>5. CASE i \notin 1 .. Len(q) \/ m \notin 1 .. Len(q)
  <2>1. Len(u) = Len(q) + 1 /\ (i = Len(u) \/ m = Len(u))
    BY <1>1, <1>2, <1>5
  <2>2. u[Len(u)] \in QueuedCommand /\ AgeAt(u[Len(u)], now) = 0
    <3>1. u[Len(u)] \in QueuedCommand /\ u[Len(u)].enqueued_time = now
      BY <1>1, <2>1 DEF Grown
    <3> QED BY <3>1, AgeNat
  <2>3. AgeAt(u[i], now) <= MaxPenalty
    BY <1>1, <1>2, <2>1, <2>2
  <2> QED BY <2>3, <1>3
<1> QED BY <1>4, <1>5

\* The command that is sent takes its own turn: those behind it keep their
\* place, and those before it move up into a place that counted already.
LEMMA CountedSent ==
  ASSUME NEW d \in Nat, NEW q \in Seq(QueuedCommand), NEW u \in Seq(QueuedCommand),
         NEW now \in 0 .. ClockWrap - 1, NEW best, SentAs(q, u, best),
         NEW rest \in Int, 0 <= rest, Counted(q, now, rest, 0, d),
         \A i : WaitsIn(q, i) => AgeAt(q[i], now) - AgeAt(q[best], now) <= MaxPenalty
  PROVE Counted(u, now, TurnTime(d), 1, d)
<1> DEFINE t == TurnTime(d)
<1>1. /\ Len(q) \in Nat /\ Len(u) = Len(q) /\ best \in 1 .. Len(q)
      /\ t \in Nat /\ MaxPenalty \in Nat /\ MaxQueue \in Nat
      /\ WaitsIn(q, best)
  BY WaitTypes DEF SentAs, WaitsIn
<1> SUFFICES ASSUME NEW i, NEW m, WaitsIn(u, i), WaitsIn(u, m),
                    AgeAt(u[i], now) - AgeAt(u[m], now) <= MaxPenalty
             PROVE AgeAt(u[i], now) + TurnTime(d) + TurnTime(d) * (m - 1) <= MaxPenalty + TurnTime(d) * (MaxQueue + 1)
  BY DEF Counted
<1>2. \A k : WaitsIn(u, k) => /\ k \in 2 .. Len(q) /\ u[k] = q[Source(best, k)]
                              /\ WaitsIn(q, Source(best, k))
  BY <1>1 DEF SentAs, WaitsIn
<1>3. /\ i \in Nat /\ m \in 2 .. Len(q) /\ AgeAt(u[i], now) \in Nat /\ WaitsIn(q, Source(best, i))
      /\ u[i] = q[Source(best, i)] /\ u[m] = q[Source(best, m)] /\ WaitsIn(q, Source(best, m))
  BY <1>2, WaitingAge
<1>4. PICK k \in Nat : m <= k /\ AgeAt(u[i], now) + rest + t * (k - 0) <= MaxPenalty + t * (MaxQueue + 1)
  <2>1. CASE m <= best
    <3>1. AgeAt(u[i], now) - AgeAt(q[best], now) <= MaxPenalty
      BY <1>3
    <3>2. AgeAt(u[i], now) + rest + t * (best - 0) <= MaxPenalty + t * (MaxQueue + 1)
      BY <1>1, <1>3, <3>1 DEF Counted
    <3> QED BY <1>1, <2>1, <3>2
  <2>2. CASE ~(m <= best)
    <3>1. Source(best, m) = m
      BY <1>1, <1>3, <2>2 DEF Source
    <3>2. AgeAt(u[i], now) + rest + t * (m - 0) <= MaxPenalty + t * (MaxQueue + 1)
      BY <1>3, <3>1 DEF Counted
    <3> QED BY <1>3, <3>2
  <2> QED BY <2>1, <2>2
<1> HIDE DEF t
<1>5. k - 0 = k /\ t * (m - 1) = t * m - t /\ t * m \in Int /\ t * k \in Int /\ t * m <= t * k
  BY <1>1, <1>3, <1>4, TurnsAdd
<1> DEFINE a == t * m  b == t * k  e == t * (m - 1)  c == t * (MaxQueue + 1)
<1>6. /\ a \in Int /\ b \in Int /\ c \in Int /\ a <= b /\ e = a - t
      /\ AgeAt(u[i], now) + rest + b <= MaxPenalty + c
  BY <1>1, <1>4, <1>5
<1> HIDE DEF a, b, c, e
<1>7. AgeAt(u[i], now) + t + e <= MaxPenalty + c
  BY <1>1, <1>3, <1>6
<1> QED BY <1>7 DEF c, e, t

\* A penalty is one of the two, or none.
LEMMA PenaltyBound ==
  ASSUME NEW p
  PROVE Penalty(p) \in Nat /\ Penalty(p) <= MaxPenalty
<1>1. BackgroundPenalty \in Nat /\ IdlePenalty \in Nat
  BY ConstantsAssumption DEF ConstantsAssumption
<1>2. Penalty(p) = BackgroundPenalty \/ Penalty(p) = IdlePenalty \/ Penalty(p) = 0
  BY DEF Penalty
<1> QED BY <1>1, <1>2 DEF MaxPenalty

\* The command that goes next is not younger than another one that waits by
\* more than the penalty.
LEMMA NextIsNear ==
  ASSUME IInv, NEW d \in Nat, MildQueue(d), ~Executing, NEW best, IsNext(best), best \in 1 .. Len(queue),
         NEW i, WaitsIn(queue, i)
  PROVE AgeAt(queue[i], millis) - AgeAt(queue[best], millis) <= MaxPenalty
<1>1. /\ queue \in Seq(QueuedCommand) /\ i \in 1 .. Len(queue) /\ millis \in 0 .. ClockWrap - 1
      /\ queue[i] \in QueuedCommand /\ queue[best] \in QueuedCommand
  BY DEF IInv, TypeOK, WaitsIn
<1>2. /\ AgeAt(queue[i], millis) \in Nat /\ AgeAt(queue[best], millis) \in Nat
      /\ ~(queue[i].priority < NORMAL) /\ ~(queue[best].priority < NORMAL)
  <2>1. queue[i].priority >= NORMAL /\ queue[best].priority >= NORMAL
    BY <1>1 DEF MildQueue, MildCommand
  <2>2. queue[i].priority \in 0 .. 4 /\ queue[best].priority \in 0 .. 4
    BY <1>1 DEF QueuedCommand, Priority, CRITICAL, IDLE
  <2> QED BY <1>1, <2>1, <2>2, AgeNat DEF NORMAL
<1>3. ~(EffectiveTime(queue[i]) < EffectiveTime(queue[best]))
  BY <1>1, <1>2 DEF IsNext, Precedes
<1> DEFINE p == Penalty(queue[i].priority)  b == Penalty(queue[best].priority)
           x == AgeAt(queue[i], millis)  y == AgeAt(queue[best], millis)
<1>4. EffectiveTime(queue[i]) = p - x /\ EffectiveTime(queue[best]) = b - y
  BY EffectiveTimeIs
<1>5. p \in Nat /\ b \in Nat /\ p <= MaxPenalty
  BY PenaltyBound
<1> HIDE DEF p, b, x, y
<1>6. x \in Nat /\ y \in Nat /\ MaxPenalty \in Nat
  BY <1>2, WaitTypes DEF x, y
<1>7. x - y <= MaxPenalty
  BY <1>3, <1>4, <1>5, <1>6
<1> QED BY <1>7 DEF x, y

\* No step but a tick and a send leaves more time until the next send.
LEMMA RemainingShrinks ==
  ASSUME IInv, IInv', NEW d \in Nat, CheckInv, NoDelayThen, SeenInTime, NeverIdle, MildQueue(d),
         Next, ~Tick, ~Send, queue # <<>>
  PROVE Remaining(d)' <= Remaining(d)
<1>0. /\ Recovery(d) \in Nat /\ TimeoutMs \in Nat /\ (d > 0 => Recovery(d) = d + 1)
  BY WaitTypes
<1>1. /\ millis' = millis /\ Remaining(d) \in Int
      /\ (Executing' => Executing)
  BY OnlySendSends, ClockChanges, RemainingBounds DEF Update, Sends
<1>2. CASE Executing'
  <2>1. Age' = Age
    BY <1>1, <1>2, StillSent DEF Age, Elapsed
  <2>2. Remaining(d)' = Remaining(d)
    BY <1>1, <1>2, <2>1 DEF Remaining, Recovery
  <2> QED BY <1>1, <2>2
<1>3. CASE Executing /\ ~Executing'
  <2>1. Age \in Nat /\ Age <= TimeoutMs + 2
    BY <1>3, WireAge
  <2>2. Remaining(d) >= Recovery(d) + 1
    <3>1. Remaining(d) = TimeoutMs + 2 - Age + Recovery(d) + 1
      BY <1>3 DEF Remaining
    <3> QED BY <1>0, <2>1, <3>1
  <2>3. PICK elapsed \in Nat : elapsed = Elapsed(delay_started_ms)'
    BY ElapsedTick DEF Elapsed, IInv, TypeOK
  <2>4. Remaining(d)' \in {Recovery(d) - elapsed + 1, 0, 1}
    BY <1>3, <2>3 DEF Remaining, Recovery
  <2>5. \A rest \in {Recovery(d) - elapsed + 1, 0, 1} : rest <= Remaining(d)
    BY <1>0, <1>1, <2>2
  <2> QED BY <2>4, <2>5
<1>4. CASE ~Executing /\ ~Executing'
  <2>1. CASE ExecuteNextProceeds
    <3>1. delay_duration_ms' = 0 /\ looped' = looped
      BY <2>1 DEF ExecuteNextProceeds
    <3>2. Remaining(d)' = IF looped THEN 1 ELSE 0
      BY <1>4, <3>1 DEF Remaining
    <3>3. CASE delay_duration_ms > 0
      <4>1. Elapsed(delay_started_ms) \in Nat /\ d > 0 /\ Elapsed(delay_started_ms) <= d + 1
        BY <3>3, DelayAgeBound
      <4>2. Remaining(d) = Recovery(d) - Elapsed(delay_started_ms) + 1
        BY <1>4, <3>3 DEF Remaining
      <4> QED BY <1>0, <3>2, <4>1, <4>2
    <3>4. CASE ~(delay_duration_ms > 0)
      BY <1>4, <3>2, <3>4 DEF Remaining
    <3> QED BY <3>3, <3>4
  <2>2. CASE ~ExecuteNextProceeds
    <3>1. UNCHANGED <<delay_started_ms, delay_duration_ms>>
      BY <1>4, <2>2, DelayChanges
    <3>2. Elapsed(delay_started_ms)' = Elapsed(delay_started_ms)
      BY <1>1, <3>1 DEF Elapsed
    <3>3. Update => delay_duration_ms > 0
      BY <1>4, DelayAge DEF Update, NeverIdle
    <3>4. ~Update => looped' = looped
      BY ClockChanges
    <3>5. Remaining(d)' = Remaining(d)
      BY <1>4, <3>1, <3>2, <3>3, <3>4 DEF Remaining, Recovery
    <3> QED BY <1>1, <3>5
  <2> QED BY <2>1, <2>2
<1> QED BY <1>1, <1>2, <1>3, <1>4

\* A distance that has not come round grows by one with a tick.
LEMMA ElapsedGrows ==
  ASSUME NEW now \in 0 .. ClockWrap - 1, NEW since \in 0 .. ClockWrap - 1,
         (now - since) % ClockWrap < ClockWrap - 1
  PROVE (((now + 1) % ClockWrap) - since) % ClockWrap = ((now - since) % ClockWrap) + 1
<1>1. ClockWrap \in Nat /\ ClockWrap > 0
  BY ConstantsAssumption DEF ConstantsAssumption
<1> QED BY <1>1

\* A turn is shorter than a cycle of the clock.
LEMMA TurnFits ==
  ASSUME NEW d \in Nat, LongestWait(d) < ClockWrap - 1, MaxQueue >= 1
  PROVE TurnTime(d) < ClockWrap - 1
<1>1. TurnTime(d) \in Nat /\ MaxQueue \in Nat /\ MaxPenalty \in Nat /\ ClockWrap \in Nat
  BY WaitTypes
<1> DEFINE t == TurnTime(d)  a == t * 1  b == t * MaxQueue
<1>2. a \in Int /\ b \in Int /\ a <= b /\ a = t /\ MaxPenalty + b < ClockWrap - 1
  <2>1. t \in Nat
    BY <1>1
  <2>2. MaxPenalty + b < ClockWrap - 1
    BY DEF LongestWait
  <2> HIDE DEF t
  <2>3. t * 1 \in Int /\ t * MaxQueue \in Int /\ t * 1 <= t * MaxQueue /\ t * 1 = t
    BY <1>1, <2>1, TurnsAdd
  <2> QED BY <2>2, <2>3
<1> HIDE DEF a, b, t
<1>3. t < ClockWrap - 1
  BY <1>1, <1>2
<1> QED BY <1>3 DEF t

\* A tick takes one from what is left.
LEMMA RemainingTicks ==
  ASSUME IInv, NEW d \in Nat, LongestWait(d) < ClockWrap - 1, CheckInv, SeenInTime, MildQueue(d),
         Tick, queue # <<>>
  PROVE Remaining(d)' <= Remaining(d) - 1
<1>1. /\ looped /\ ~looped' /\ millis' = (millis + 1) % ClockWrap
      /\ UNCHANGED <<queue, delay_started_ms, delay_duration_ms>>
      /\ Executing' = Executing /\ millis \in 0 .. ClockWrap - 1
  BY DEF Tick, queueVars, Executing, IInv, TypeOK
<1>2. TurnTime(d) < ClockWrap - 1 /\ TurnTime(d) = TimeoutMs + Recovery(d) + 3
  <2>1. queue \in Seq(QueuedCommand) /\ Len(queue) <= MaxQueue /\ MaxQueue \in Nat
    BY WaitTypes DEF IInv, TypeOK, MildQueue
  <2>2. MaxQueue >= 1
    BY <2>1
  <2> QED BY <2>2, TurnFits, WaitTypes
<1>3. /\ Recovery(d) \in Nat /\ TimeoutMs \in Nat /\ (d > 0 => Recovery(d) = d + 1)
      /\ ClockWrap \in Nat
  BY WaitTypes
<1>4. CASE Executing
  <2>1. Age \in Nat /\ Age <= TimeoutMs + 2 /\ Head(queue).sent_time \in 0 .. ClockWrap - 1
    BY <1>4, WireAge, AgeType
  <2>2. Age < ClockWrap - 1
    BY <1>2, <1>3, <2>1
  <2>3. Age' = Age + 1
    BY <1>1, <2>1, <2>2, ElapsedGrows DEF Age, Elapsed
  <2>4. Remaining(d) = TimeoutMs + 2 - Age + Recovery(d) + 1
    BY <1>4 DEF Remaining
  <2>5. Remaining(d)' = TimeoutMs + 2 - (Age + 1) + Recovery(d) + 1
    BY <1>1, <1>4, <2>3 DEF Remaining, Recovery
  <2> QED BY <1>3, <2>1, <2>4, <2>5
<1>5. CASE ~Executing /\ delay_duration_ms > 0
  <2>1. /\ Elapsed(delay_started_ms) \in Nat /\ d > 0 /\ Elapsed(delay_started_ms) <= d + 1
        /\ delay_started_ms \in 0 .. ClockWrap - 1
    BY <1>5, DelayAgeBound DEF IInv, TypeOK
  <2>2. Elapsed(delay_started_ms) < ClockWrap - 1
    BY <1>2, <1>3, <2>1
  <2>3. Elapsed(delay_started_ms)' = Elapsed(delay_started_ms) + 1
    BY <1>1, <2>1, <2>2, ElapsedGrows DEF Elapsed
  <2>4. Remaining(d) = Recovery(d) - Elapsed(delay_started_ms) + 1
    BY <1>5 DEF Remaining
  <2>5. Remaining(d)' = Recovery(d) - (Elapsed(delay_started_ms) + 1) + 1
    BY <1>1, <1>5, <2>3 DEF Remaining, Recovery
  <2> QED BY <1>3, <2>1, <2>4, <2>5
<1>6. CASE ~Executing /\ ~(delay_duration_ms > 0)
  BY <1>1, <1>6 DEF Remaining
<1> QED BY <1>4, <1>5, <1>6

\* Every step keeps the count of turns.
LEMMA TurnsStep ==
  ASSUME NEW d \in Nat, LongestWait(d) < ClockWrap - 1
  PROVE IInv /\ IInv' /\ WaitInv(d) /\ CheckInv' /\ SeenInTime' /\ MildQueue(d)' /\ [Next]_vars
          => TurnsCount(d)'
<1> SUFFICES ASSUME IInv, IInv', WaitInv(d), CheckInv', SeenInTime', MildQueue(d)', [Next]_vars
             PROVE TurnsCount(d)'
  OBVIOUS
<1> USE DEF WaitInv
<1>1. /\ queue \in Seq(QueuedCommand) /\ queue' \in Seq(QueuedCommand) /\ Len(queue') <= MaxQueue
      /\ millis \in 0 .. ClockWrap - 1
  BY DEF IInv, TypeOK, MildQueue
<1>2. Remaining(d) \in Int /\ 0 <= Remaining(d) /\ Wire \in 0 .. 1 /\ Wire' \in 0 .. 1
  BY RemainingBounds DEF Wire
<1>3. Remaining(d)' \in Int /\ Remaining(d)' <= TurnTime(d)
  BY RemainingBoundsNext
<1>4. Counted(queue, millis, Remaining(d), Wire, d)
  BY DEF TurnsCount
<1> DEFINE rest == Remaining(d)  rest2 == Remaining(d)'
<1>5. SUFFICES Counted(queue', millis', rest2, Wire', d)
  BY DEF TurnsCount
<1> HIDE DEF WaitInv, rest, rest2
<1>6. rest \in Int /\ 0 <= rest /\ rest2 \in Int /\ rest2 <= TurnTime(d) /\ Counted(queue, millis, rest, Wire, d)
  BY <1>2, <1>3, <1>4 DEF rest, rest2
<1>7. CASE UNCHANGED vars
  <2>1. queue' = queue /\ millis' = millis /\ Wire' = Wire /\ rest2 = rest
    BY <1>7 DEF vars, queueVars, Wire, Executing, rest, rest2, Remaining, Recovery, Age, Elapsed
  <2> QED BY <1>6, <2>1
<1>8. CASE Tick
  <2>1. /\ queue' = queue /\ millis' = (millis + 1) % ClockWrap /\ Wire' = Wire
        /\ \A i : WaitsIn(queue, i) => AgeAt(queue[i], millis) < ClockWrap - 1
    BY <1>8 DEF Tick, queueVars, Wire, Executing, WithinClockCycle, WaitsIn, AgeAt, Elapsed
  <2>2. queue # <<>> => rest2 <= rest - 1
    BY <1>8, RemainingTicks DEF WaitInv, rest, rest2
  <2> QED BY <1>1, <1>2, <1>6, <2>1, <2>2, CountedTick
<1>9. CASE Send
  <2>1. PICK best : IsNext(best) /\ SentAs(queue, queue', best)
    BY <1>9, SendElements
  <2>2. ~Executing /\ Executing' /\ millis' = millis /\ Age' = 0 /\ best \in 1 .. Len(queue)
    BY <1>9, <2>1, Returned, ExecutingNoSend, SentExecutes, SentNow DEF Send, Running, SentAs
  <2>3. \A i : WaitsIn(queue, i) => AgeAt(queue[i], millis) - AgeAt(queue[best], millis) <= MaxPenalty
    BY <2>1, <2>2, NextIsNear DEF WaitInv
  <2>4. Wire = 0 /\ Wire' = 1
    BY <2>2 DEF Wire
  <2>5. rest2 = TurnTime(d)
    <3>1. rest2 = TimeoutMs + 2 - 0 + Recovery(d) + 1
      BY <2>2 DEF rest2, Remaining, Recovery
    <3> QED BY <3>1, WaitTypes
  <2>6. Counted(queue', millis, TurnTime(d), 1, d)
    BY <1>1, <1>6, <2>1, <2>3, <2>4, CountedSent
  <2> QED BY <2>2, <2>4, <2>5, <2>6
<1>10. CASE Next /\ ~Tick /\ ~Send
  <2>1. millis' = millis
    BY <1>10, ClockChanges DEF Update
  <2>2. queue # <<>> => rest2 <= rest
    BY <1>10, RemainingShrinks DEF WaitInv, rest, rest2
  <2>3. CASE Grown(queue, queue', millis)
    <3>1. queue # <<>> => Wire' = Wire
      BY <2>3, StaysExecuting DEF Wire
    <3> QED BY <1>1, <1>2, <1>6, <2>1, <2>2, <2>3, <3>1, CountedGrown
  <2>4. CASE Executing /\ queue' = Tail(queue)
    <3>1. queue # <<>> /\ Wire = 1 /\ Wire' = 0
      BY <2>4, FrontLeaves DEF IInv, Wire, Executing
    <3> QED BY <1>1, <1>6, <2>1, <2>2, <2>4, <3>1, CountedTail
  <2>5. CASE \A i : ~WaitsIn(queue', i)
    BY <2>5 DEF Counted
  <2> QED BY <1>10, <2>3, <2>4, <2>5, QueueChanges
<1> QED BY <1>7, <1>8, <1>9, <1>10

\* The waiting commands are counted from the beginning.
LEMMA WaitInitially == ASSUME NEW d \in Nat PROVE Init => WaitInv(d)
<1> SUFFICES ASSUME Init PROVE WaitInv(d)
  OBVIOUS
<1>1. queue = <<>> /\ stack = <<>> /\ delay_duration_ms = 0
  BY DEF Init
<1>2. \A i : ~WaitsIn(queue, i)
  BY <1>1 DEF WaitsIn
<1>3. ~Executing /\ ~HasSend(stack) /\ EndsInNext(stack)
  BY <1>1 DEF Executing, HasSend, EndsInNext
<1> QED BY <1>1, <1>2, <1>3, MildInitially
     DEF WaitInv, CheckInv, NoDelayThen, SeenInTime, NeverIdle, TurnsCount, Counted

\* The invariant is inductive.
LEMMA WaitStep ==
  ASSUME NEW d \in Nat, Mild(d), LongestWait(d) < ClockWrap - 1
  PROVE IInv /\ IInv' /\ WaitInv(d) /\ [Next]_vars => WaitInv(d)'
<1> SUFFICES ASSUME IInv, IInv', WaitInv(d), [Next]_vars PROVE WaitInv(d)'
  OBVIOUS
<1>1. /\ CheckInv /\ EndsInNext(stack) /\ NoDelayThen /\ SeenInTime /\ NeverIdle /\ MildQueue(d)
  BY DEF WaitInv
<1>2. /\ CheckInv' /\ EndsInNext(stack') /\ NoDelayThen' /\ SeenInTime' /\ NeverIdle' /\ MildQueue(d)'
  BY <1>1, CheckStep, EndsInNextStep, NoDelayStep, SeenInTimeStep, NeverIdleStep, MildStep
<1>3. TurnsCount(d)'
  BY <1>2, TurnsStep
<1> QED BY <1>2, <1>3 DEF WaitInv

\* Every command that waits is younger than the longest wait.
WaitAtMost(ticks) == \A i : WaitsIn(queue, i) => AgeAt(queue[i], millis) <= ticks

\* There is a turn of its own left for a command that waits, so it has waited for
\* those of the others at most.
LEMMA WaitFollows ==
  ASSUME NEW d \in Nat
  PROVE IInv /\ WaitInv(d) => WaitAtMost(LongestWait(d))
<1> SUFFICES ASSUME IInv, WaitInv(d), NEW i, WaitsIn(queue, i)
             PROVE AgeAt(queue[i], millis) <= LongestWait(d)
  BY DEF WaitAtMost
<1>1. /\ queue \in Seq(QueuedCommand) /\ millis \in 0 .. ClockWrap - 1
      /\ AgeAt(queue[i], millis) \in Nat /\ i \in 1 .. Len(queue)
  BY WaitingAge DEF IInv, TypeOK
<1>2. i - Wire >= 1 /\ i - Wire \in Int
  <2>1. CASE Executing
    <3>1. i # 1
      BY <1>1, <2>1 DEF Executing, WaitsIn
    <3> QED BY <1>1, <2>1, <3>1 DEF Wire
  <2>2. CASE ~Executing
    BY <1>1, <2>2 DEF Wire
  <2> QED BY <2>1, <2>2
<1>3. Remaining(d) \in Int /\ 0 <= Remaining(d)
  BY RemainingBounds DEF WaitInv
<1>4. TurnTime(d) \in Nat /\ MaxPenalty \in Nat /\ MaxQueue \in Nat
  BY WaitTypes
<1>5. AgeAt(queue[i], millis) + Remaining(d) + TurnTime(d) * (i - Wire) <= MaxPenalty + TurnTime(d) * (MaxQueue + 1)
  BY <1>1, <1>4 DEF WaitInv, TurnsCount, Counted
<1> DEFINE t == TurnTime(d)  n == i - Wire  a == t * n  b == t * MaxQueue  c == t * (MaxQueue + 1)
           one == t * 1
<1>6. a \in Int /\ b \in Int /\ c = b + t /\ one <= a /\ one = t
  <2>1. t \in Nat /\ n \in Int /\ 1 <= n
    BY <1>2, <1>4
  <2> HIDE DEF t, n
  <2> QED BY <1>4, <2>1, TurnsAdd
<1>7. AgeAt(queue[i], millis) + Remaining(d) + a <= MaxPenalty + c
  BY <1>5
<1>8. t \in Nat
  BY <1>4
<1> HIDE DEF t, n, a, b, c, one
<1>9. AgeAt(queue[i], millis) <= MaxPenalty + b
  BY <1>1, <1>3, <1>4, <1>6, <1>7, <1>8
<1> QED BY <1>9 DEF b, t, LongestWait

\* Of requests that are not more urgent than NORMAL, none waits longer than the
\* penalty of its priority and a turn, from one send to the next, for every
\* place in the queue, although newer NORMAL requests keep coming and the motor
\* answers none of them (.h:239-240).
THEOREM AgeingBoundsWaits ==
  ASSUME NEW d \in Nat, Mild(d), LongestWait(d) < ClockWrap - 1
  PROVE Spec => []WaitAtMost(LongestWait(d))
<1>1. Init => WaitInv(d)
  BY WaitInitially
<1>2. IInv /\ IInv' /\ WaitInv(d) /\ [Next]_vars => WaitInv(d)'
  BY WaitStep
<1>3. IInv /\ WaitInv(d) => WaitAtMost(LongestWait(d))
  BY WaitFollows
<1> QED BY <1>1, <1>2, <1>3, Invariance, PTL DEF Spec

\* So no command gets as old as a cycle of the clock, up to which the code
\* promises that its ages are right (.h:250), as long as a cycle is longer than
\* the turns of a full queue.
THEOREM NobodyWaitsForACycle ==
  ASSUME NEW d \in Nat, Mild(d), LongestWait(d) < ClockWrap - 1
  PROVE Spec => []BoundedWait
<1>1. IInv /\ WaitAtMost(LongestWait(d)) => BoundedWait
  <2> SUFFICES ASSUME IInv, WaitAtMost(LongestWait(d)),
                      NEW i \in 1 .. Len(queue), queue[i].state = "PENDING"
               PROVE Elapsed(queue[i].enqueued_time) < ClockWrap - 1
    BY DEF BoundedWait, WithinClockCycle
  <2>1. WaitsIn(queue, i) /\ AgeAt(queue[i], millis) = Elapsed(queue[i].enqueued_time)
    BY DEF WaitsIn, AgeAt, Elapsed
  <2>2. Elapsed(queue[i].enqueued_time) \in Nat
    BY <2>1, WaitingAge DEF IInv, TypeOK
  <2>3. LongestWait(d) \in Int /\ ClockWrap \in Nat
    <3>1. MaxPenalty \in Nat /\ TurnTime(d) \in Nat /\ MaxQueue \in Nat /\ ClockWrap \in Nat
      BY WaitTypes
    <3> HIDE DEF MaxPenalty, TurnTime
    <3> QED BY <3>1 DEF LongestWait
  <2> QED BY <2>1, <2>2, <2>3 DEF WaitAtMost
<1> QED BY <1>1, AgeingBoundsWaits, Invariance, PTL

-----------------------------------------------------------------------------
(* The flow of requests that the engine relies on.                         *)

\* What the flow is told of.
AskedSet == [command : Command, priority : Priority, delayed : BOOLEAN]
InLine == AskedIn(IF Executing THEN Tail(queue) ELSE queue)
WithMotor == IF Executing THEN <<AskedOf(Head(queue))>> ELSE <<>>
Waits == pending_callback # <<>>
Delaying == delay_duration_ms > 0
FlowVars == <<InLine, WithMotor, Waits, Delaying>>

\* How many commands of the queue are with the motor.
OnWire == IF Executing THEN 1 ELSE 0

\* A command that is not with the motor is one that the flow knows of.
LEMMA AskedType == ASSUME NEW cmd \in QueuedCommand PROVE AskedOf(cmd) \in AskedSet
  BY DEF AskedOf, AskedSet, QueuedCommand

\* What the flow keeps of a command.
LEMMA AskedFields ==
  ASSUME NEW cmd PROVE AskedOf(cmd).priority = cmd.priority /\ AskedOf(cmd).command = cmd.command
  BY DEF AskedOf

\* What becomes of a request that another one joins.
LEMMA JoinedFields ==
  ASSUME NEW r \in AskedSet, NEW n, NEW d
  PROVE [r EXCEPT !.priority = IF n < @ THEN n ELSE @, !.delayed = d]
          = [command |-> r.command, priority |-> IF n < r.priority THEN n ELSE r.priority, delayed |-> d]
<1> SUFFICES ASSUME NEW v
             PROVE [r EXCEPT !.priority = v, !.delayed = d]
                     = [command |-> r.command, priority |-> v, delayed |-> d]
  OBVIOUS
<1> DEFINE e == [r EXCEPT !.priority = v, !.delayed = d]
           f == [command |-> r.command, priority |-> v, delayed |-> d]
<1>1. /\ DOMAIN e = DOMAIN f /\ DOMAIN f = {"command", "priority", "delayed"}
      /\ e.command = f.command /\ e.priority = f.priority /\ e.delayed = f.delayed
  BY DEF AskedSet
<1>2. e = [x \in DOMAIN e |-> e[x]] /\ f = [x \in DOMAIN f |-> f[x]]
  BY DEF AskedSet
<1> HIDE DEF e, f
<1>3. \A x \in {"command", "priority", "delayed"} : e[x] = f[x]
  BY <1>1
<1>4. [x \in DOMAIN f |-> e[x]] = [x \in DOMAIN f |-> f[x]]
  BY <1>1, <1>3
<1> QED BY <1>1, <1>2, <1>4 DEF e, f

\* The requests that wait are the commands behind the one on the wire.
LEMMA InLineIs ==
  ASSUME TypeOK
  PROVE /\ InLine \in Seq(AskedSet) /\ OnWire \in 0 .. 1 /\ OnWire <= Len(queue)
        /\ Len(InLine) = Len(queue) - OnWire
        /\ \A i \in 1 .. Len(queue) - OnWire : InLine[i] = AskedOf(queue[i + OnWire])
<1> DEFINE q == IF Executing THEN Tail(queue) ELSE queue
<1>1. queue \in Seq(QueuedCommand) /\ Len(queue) \in Nat
  BY DEF TypeOK
<1>2. OnWire \in 0 .. 1 /\ OnWire <= Len(queue)
  BY <1>1 DEF OnWire, Executing
<1>3. /\ q \in Seq(QueuedCommand) /\ Len(q) = Len(queue) - OnWire
      /\ \A i \in 1 .. Len(q) : q[i] = queue[i + OnWire]
  <2>1. CASE Executing
    <3>1. queue # <<>>
      BY <2>1 DEF Executing
    <3> QED BY <1>1, <2>1, <3>1 DEF OnWire
  <2>2. CASE ~Executing
    BY <1>1, <2>2 DEF OnWire
  <2> QED BY <2>1, <2>2
<1> HIDE DEF q
<1>4. AskedIn(q) = [i \in 1 .. Len(q) |-> AskedOf(q[i])]
  BY DEF AskedIn
<1>5. \A i \in 1 .. Len(q) : AskedOf(q[i]) \in AskedSet
  BY <1>3, AskedType
<1>6. Len(q) \in Nat
  BY <1>3
<1>7. AskedIn(q) \in Seq(AskedSet) /\ Len(AskedIn(q)) = Len(q)
  BY <1>4, <1>5, <1>6
<1>8. InLine = AskedIn(q)
  BY DEF InLine, q
<1> QED BY <1>2, <1>3, <1>4, <1>7, <1>8

\* A step that leaves the queue and the delay alone is none of the flow's.
LEMMA FlowStutters ==
  ASSUME UNCHANGED <<queue, pending_callback, delay_duration_ms>>
  PROVE UNCHANGED FlowVars
  BY DEF FlowVars, InLine, WithMotor, Waits, Delaying, Executing

\* The command on the wire leaves, and the others wait as before.
LEMMA FlowFrontLeaves ==
  ASSUME IInv, Executing, queue' = Tail(queue)
  PROVE WithMotor # <<>> /\ WithMotor[1] = AskedOf(Head(queue)) /\ WithMotor' = <<>> /\ InLine' = InLine
<1>1. ~Executing'
  BY FrontLeaves DEF IInv, Executing
<1>2. InLine' = AskedIn(queue') /\ InLine = AskedIn(Tail(queue))
  BY <1>1 DEF InLine
<1> QED BY <1>1, <1>2 DEF WithMotor

\* The motor answers.
LEMMA ResponseFlows == ASSUME IInv, NEW t \in Types, OnResponse(t) PROVE Flow!Answered
<1>1. WithMotor # <<>> /\ WithMotor[1] = AskedOf(Head(queue)) /\ WithMotor' = <<>> /\ InLine' = InLine
  BY FlowFrontLeaves DEF OnResponse
<1>2. Head(queue).delay \in Nat
  BY ExecutingDelay DEF OnResponse
<1>3. ~Waits
  BY DEF OnResponse, IInv, DeferredSafe, Waits
<1>4. Delaying' = WithMotor[1].delayed /\ Waits' = WithMotor[1].delayed
  <2>1. WithMotor[1].delayed = (Head(queue).delay > 0)
    BY <1>1 DEF AskedOf
  <2>0. /\ delay_duration_ms' = Head(queue).delay
        /\ \/ Head(queue).delay > 0 /\ pending_callback' = <<Head(queue).callbacks>>
           \/ Head(queue).delay = 0 /\ pending_callback' = pending_callback
    BY DEF OnResponse
  <2>2. CASE Head(queue).delay > 0
    <3>1. delay_duration_ms' = Head(queue).delay /\ pending_callback' = <<Head(queue).callbacks>>
      BY <2>2, <2>0
    <3>2. delay_duration_ms' > 0 /\ pending_callback' # <<>>
      BY <2>2, <3>1
    <3> QED BY <2>1, <2>2, <3>2 DEF Delaying, Waits
  <2>3. CASE Head(queue).delay = 0
    <3>1. delay_duration_ms' = Head(queue).delay /\ pending_callback' = pending_callback
      BY <2>3, <2>0
    <3>2. ~(delay_duration_ms' > 0) /\ ~(Head(queue).delay > 0)
      BY <2>3, <3>1
    <3> QED BY <1>3, <2>1, <3>1, <3>2 DEF Delaying, Waits
  <2> QED BY <1>2, <2>2, <2>3
<1> QED BY <1>1, <1>4 DEF Flow!Answered, InLine, WithMotor, Waits, Delaying

\* The motor refuses, or the transport gives up.
LEMMA ErrorFlows ==
  ASSUME IInv, NEW t \in Types, OnError(t) \/ TransportUpdateError(t)
  PROVE Flow!Refused
<1>1. /\ Executing /\ queue' = Tail(queue)
      /\ delay_duration_ms' = Head(queue).delay /\ pending_callback' = pending_callback
  BY DEF OnError, TransportUpdateError, Fail
<1>2. WithMotor # <<>> /\ WithMotor[1] = AskedOf(Head(queue)) /\ WithMotor' = <<>> /\ InLine' = InLine
  BY <1>1, FlowFrontLeaves
<1>3. Delaying' = WithMotor[1].delayed /\ Waits' = Waits
  BY <1>1, <1>2 DEF Delaying, Waits, AskedOf
<1> QED BY <1>2, <1>3 DEF Flow!Refused, InLine, WithMotor, Waits, Delaying

\* The queue gives up.
LEMMA TimeoutFlows == ASSUME IInv, CheckTimeoutExpires PROVE Flow!GivenUp
<1>1. Executing /\ queue' = Tail(queue) /\ UNCHANGED <<delay_duration_ms, pending_callback>>
  BY DEF CheckTimeoutExpires, TimedOut
<1>2. WithMotor # <<>> /\ WithMotor' = <<>> /\ InLine' = InLine
  BY <1>1, FlowFrontLeaves
<1>3. Delaying' = Delaying /\ Waits' = Waits
  BY <1>1 DEF Delaying, Waits
<1> QED BY <1>2, <1>3 DEF Flow!GivenUp, InLine, WithMotor, Waits, Delaying

\* A delay is over, or there was none.
LEMMA ProceedingFlows ==
  ASSUME IInv, ExecuteNextProceeds
  PROVE Flow!DelayEnds \/ UNCHANGED FlowVars
<1>1. queue' = queue /\ delay_duration_ms' = 0 /\ pending_callback' = <<>>
  BY DEF ExecuteNextProceeds
<1>2. UNCHANGED <<InLine, WithMotor>> /\ ~Delaying' /\ ~Waits'
  BY <1>1 DEF InLine, WithMotor, Executing, Delaying, Waits
<1>3. CASE Delaying
  BY <1>2, <1>3 DEF Flow!DelayEnds, InLine, WithMotor, Waits, Delaying
<1>4. CASE ~Delaying
  <2>1. ~Waits
    BY <1>4 DEF IInv, DeferredSafe, Waits, Delaying
  <2> QED BY <1>2, <1>4, <2>1 DEF FlowVars, Waits, Delaying
<1> QED BY <1>3, <1>4

\* Requests come in behind the others.
LEMMA NewFlows ==
  ASSUME IInv, NEW req \in Requests, NEW cb, EnqueueNew(req, cb), TypeOK'
  PROVE Flow!Ask
<1> DEFINE new == [command |-> req.command, callbacks |-> cb, state |-> "PENDING",
                   priority |-> req.priority, delay |-> req.delay,
                   enqueued_time |-> millis, sent_time |-> 0]
           x == [command |-> req.command, priority |-> req.priority, delayed |-> req.delay > 0]
<1>1. /\ queue' = Append(queue, new) /\ queue \in Seq(QueuedCommand) /\ new.state = "PENDING"
      /\ UNCHANGED <<pending_callback, delay_duration_ms>> /\ Len(queue) \in Nat
  BY DEF EnqueueNew, IInv, TypeOK
<1>2. x \in AskedSet /\ AskedOf(new) = x
  <2>1. req.command \in Command /\ req.priority \in Priority
    BY ConstantsAssumption DEF ConstantsAssumption
  <2> QED BY <2>1 DEF AskedSet, AskedOf
<1> HIDE DEF new, x
<1>3. /\ Len(queue') = Len(queue) + 1 /\ queue'[Len(queue) + 1] = new
      /\ \A k \in 1 .. Len(queue) : queue'[k] = queue[k]
  BY <1>1
<1>4. (Executing' <=> Executing) /\ (Executing => Head(queue') = Head(queue))
  <2>1. CASE queue = <<>>
    BY <1>1, <1>3, <2>1 DEF Executing
  <2>2. CASE queue # <<>>
    <3>1. Head(queue) = queue[1] /\ Head(queue') = queue'[1] /\ queue'[1] = queue[1] /\ queue' # <<>>
      BY <1>1, <1>3, <2>2
    <3> QED BY <2>2, <3>1 DEF Executing
  <2> QED BY <2>1, <2>2
<1>5. InLine' = Append(InLine, x)
  <2>1. /\ InLine \in Seq(AskedSet) /\ OnWire \in 0 .. 1 /\ OnWire <= Len(queue)
        /\ Len(InLine) = Len(queue) - OnWire
        /\ \A i \in 1 .. Len(queue) - OnWire : InLine[i] = AskedOf(queue[i + OnWire])
    BY InLineIs DEF IInv
  <2>2. OnWire' = OnWire
    BY <1>4 DEF OnWire
  <2>3. /\ InLine' \in Seq(AskedSet) /\ Len(InLine') = Len(queue') - OnWire
        /\ \A i \in 1 .. Len(queue') - OnWire : InLine'[i] = AskedOf(queue'[i + OnWire])
    <3>1. (/\ InLine \in Seq(AskedSet) /\ Len(InLine) = Len(queue) - OnWire
           /\ \A i \in 1 .. Len(queue) - OnWire : InLine[i] = AskedOf(queue[i + OnWire]))'
      BY InLineIs, PTL
    <3> QED BY <2>2, <3>1
  <2>4. ASSUME NEW i \in 1 .. Len(InLine') PROVE InLine'[i] = Append(InLine, x)[i]
    <3>1. i + OnWire \in 1 .. Len(queue) + 1 /\ i \in 1 .. Len(InLine) + 1
      BY <1>1, <1>3, <2>1, <2>3
    <3>2. CASE i + OnWire = Len(queue) + 1
      BY <1>1, <1>2, <1>3, <2>1, <2>3, <3>1, <3>2
    <3>3. CASE i + OnWire # Len(queue) + 1
      BY <1>1, <1>3, <2>1, <2>3, <3>1, <3>3
    <3> QED BY <3>2, <3>3
  <2>5. Append(InLine, x) \in Seq(AskedSet) /\ Len(Append(InLine, x)) = Len(InLine')
    BY <1>1, <1>2, <1>3, <2>1, <2>3
  <2> QED BY <2>3, <2>4, <2>5, SeqEqual
<1>6. WithMotor' = WithMotor /\ Waits' = Waits /\ Delaying' = Delaying
  BY <1>1, <1>4 DEF WithMotor, Waits, Delaying
<1>7. \E y \in AskedSet : InLine' = Append(InLine, y)
  BY <1>2, <1>5
<1> QED BY <1>6, <1>7 DEF Flow!Ask, InLine, WithMotor, Waits, Delaying, AskedSet

\* A request is merged into one that waits.
LEMMA DuplicateFlows ==
  ASSUME IInv, NEW req \in Requests, NEW cb \in Seq(Requester), EnqueueDuplicate(req, cb), TypeOK'
  PROVE Flow!Merge
<1> DEFINE x == [command |-> req.command, priority |-> req.priority, delayed |-> req.delay > 0]
<1>1. PICK m \in 1 .. Len(queue) :
        /\ IsDuplicate(m, req.command)
        /\ queue' = [queue EXCEPT
             ![m].priority = IF req.priority < @ THEN req.priority ELSE @,
             ![m].delay = req.delay,
             ![m].callbacks = @ \o cb]
  BY DEF EnqueueDuplicate
<1> DEFINE merged == [queue[m] EXCEPT
             !.priority = IF req.priority < @ THEN req.priority ELSE @,
             !.delay = req.delay, !.callbacks = @ \o cb]
<1>2. queue \in Seq(QueuedCommand) /\ Len(queue) \in Nat /\ queue[m] \in QueuedCommand
  BY DEF IInv, TypeOK
<1>3. merged \in QueuedCommand /\ queue' = [queue EXCEPT ![m] = merged]
  <2>1. merged \in QueuedCommand
    BY MergedType DEF IInv
  <2> QED BY <1>1, <1>2, <2>1 DEF QueuedCommand
<1>4. /\ merged.state = "PENDING" /\ queue[m].state = "PENDING"
      /\ x.command = AskedOf(queue[m]).command
      /\ AskedOf(merged) = [AskedOf(queue[m]) EXCEPT
           !.priority = IF x.priority < @ THEN x.priority ELSE @, !.delayed = x.delayed]
  <2>1. /\ merged.state = queue[m].state /\ merged.command = queue[m].command /\ merged.delay = req.delay
        /\ merged.priority = IF req.priority < queue[m].priority THEN req.priority ELSE queue[m].priority
    BY <1>2 DEF QueuedCommand
  <2>2. queue[m].state = "PENDING" /\ queue[m].command = req.command
    BY <1>1 DEF IsDuplicate
  <2>3. x.command = req.command /\ x.priority = req.priority /\ x.delayed = (req.delay > 0)
    OBVIOUS
  <2> HIDE DEF merged, x
  <2> DEFINE p == IF x.priority < queue[m].priority THEN x.priority ELSE queue[m].priority
  <2>4. AskedOf(merged) = [command |-> queue[m].command, priority |-> p, delayed |-> x.delayed]
    BY <2>1, <2>3 DEF AskedOf
  <2>5. AskedOf(queue[m]).priority = queue[m].priority /\ AskedOf(queue[m]).command = queue[m].command
    BY AskedFields
  <2>6. [AskedOf(queue[m]) EXCEPT
           !.priority = IF x.priority < @ THEN x.priority ELSE @, !.delayed = x.delayed]
          = [command |-> queue[m].command, priority |-> p, delayed |-> x.delayed]
    <3>1. AskedOf(queue[m]) \in AskedSet
      BY <1>2, AskedType
    <3>2. \A n, d : [AskedOf(queue[m]) EXCEPT !.priority = IF n < @ THEN n ELSE @, !.delayed = d]
                      = [command |-> AskedOf(queue[m]).command,
                         priority |-> IF n < AskedOf(queue[m]).priority THEN n ELSE AskedOf(queue[m]).priority,
                         delayed |-> d]
      BY <3>1, JoinedFields
    <3> QED BY <2>5, <3>2
  <2> QED BY <2>1, <2>2, <2>3, <2>4, <2>5, <2>6
<1>5. x \in AskedSet
  <2>1. req.command \in Command /\ req.priority \in Priority
    BY ConstantsAssumption DEF ConstantsAssumption
  <2> QED BY <2>1 DEF AskedSet
<1> HIDE DEF merged, x
<1>6. /\ Len(queue') = Len(queue) /\ queue'[m] = merged
      /\ \A i \in 1 .. Len(queue) : i # m => queue'[i] = queue[i]
  BY <1>2, <1>3, ExceptElements
<1>7. /\ Executing' <=> Executing
      /\ Executing => m # 1 /\ Head(queue') = Head(queue)
  <2>1. queue # <<>> /\ queue' # <<>> /\ Head(queue) = queue[1] /\ Head(queue') = queue'[1] /\ 1 \in 1 .. Len(queue)
    BY <1>2, <1>3, <1>6
  <2>2. CASE m = 1
    BY <1>4, <1>6, <2>1, <2>2 DEF Executing
  <2>3. CASE m # 1
    <3>1. queue'[1] = queue[1]
      BY <1>6, <2>1, <2>3
    <3> QED BY <2>1, <2>3, <3>1 DEF Executing
  <2> QED BY <2>2, <2>3
<1>8. /\ InLine \in Seq(AskedSet) /\ OnWire \in 0 .. 1 /\ OnWire <= Len(queue)
      /\ Len(InLine) = Len(queue) - OnWire
      /\ \A i \in 1 .. Len(queue) - OnWire : InLine[i] = AskedOf(queue[i + OnWire])
  BY InLineIs DEF IInv
<1>9. /\ InLine' \in Seq(AskedSet) /\ Len(InLine') = Len(queue) - OnWire
      /\ \A i \in 1 .. Len(queue) - OnWire : InLine'[i] = AskedOf(queue'[i + OnWire])
  <2>1. (/\ InLine \in Seq(AskedSet) /\ Len(InLine) = Len(queue) - OnWire
         /\ \A i \in 1 .. Len(queue) - OnWire : InLine[i] = AskedOf(queue[i + OnWire]))'
    BY InLineIs, PTL
  <2>2. OnWire' = OnWire
    BY <1>7 DEF OnWire
  <2> QED BY <1>6, <2>1, <2>2
<1>10. PICK n \in 1 .. Len(InLine) : n + OnWire = m
  <2>1. m - OnWire \in 1 .. Len(InLine) /\ (m - OnWire) + OnWire = m
    <3>1. OnWire = 1 => m # 1
      BY <1>7 DEF OnWire
    <3> QED BY <1>2, <1>8, <3>1
  <2> QED BY <2>1
<1> DEFINE joined == [InLine[n] EXCEPT
             !.priority = IF x.priority < @ THEN x.priority ELSE @, !.delayed = x.delayed]
<1>11. InLine[n] = AskedOf(queue[m]) /\ InLine[n] \in AskedSet
  BY <1>8, <1>10
<1>12. InLine'[n] = joined /\ joined \in AskedSet
  <2>1. InLine'[n] = AskedOf(merged)
    BY <1>6, <1>8, <1>9, <1>10
  <2>2. AskedOf(merged) \in AskedSet
    BY <1>3, AskedType
  <2> QED BY <1>4, <1>11, <2>1, <2>2
<1>13. [InLine EXCEPT ![n].priority = IF x.priority < @ THEN x.priority ELSE @, ![n].delayed = x.delayed]
         = [InLine EXCEPT ![n] = joined]
  BY <1>8, <1>11 DEF AskedSet
<1> HIDE DEF joined
<1>14. InLine' = [InLine EXCEPT ![n] = joined]
  <2>1. /\ Len([InLine EXCEPT ![n] = joined]) = Len(InLine)
        /\ [InLine EXCEPT ![n] = joined][n] = joined
        /\ \A k \in 1 .. Len(InLine) : k # n => [InLine EXCEPT ![n] = joined][k] = InLine[k]
    BY <1>8, <1>12, ExceptElements
  <2>2. [InLine EXCEPT ![n] = joined] \in Seq(AskedSet)
    BY <1>8, <1>12, ExceptType
  <2>3. ASSUME NEW k \in 1 .. Len(InLine') PROVE InLine'[k] = [InLine EXCEPT ![n] = joined][k]
    <3>1. CASE k = n
      BY <1>12, <2>1, <3>1
    <3>2. CASE k # n
      <4>1. k + OnWire # m /\ k + OnWire \in 1 .. Len(queue) /\ k \in 1 .. Len(InLine)
        BY <1>2, <1>8, <1>9, <1>10, <3>2
      <4> QED BY <1>6, <1>8, <1>9, <2>1, <3>2, <4>1
    <3> QED BY <3>1, <3>2
  <2>4. Len(InLine') = Len(InLine)
    BY <1>8, <1>9
  <2> QED BY <1>9, <2>1, <2>2, <2>3, <2>4, SeqEqual
<1>15. UNCHANGED <<WithMotor, Waits, Delaying>>
  BY <1>7 DEF EnqueueDuplicate, WithMotor, Waits, Delaying
<1>16. \E i \in DOMAIN InLine, y \in AskedSet :
         /\ y.command = InLine[i].command
         /\ InLine' = [InLine EXCEPT ![i].priority = IF y.priority < @ THEN y.priority ELSE @,
                                     ![i].delayed = y.delayed]
  <2>1. n \in DOMAIN InLine
    BY <1>8
  <2>2. x.command = InLine[n].command
    BY <1>4, <1>11
  <2> QED BY <1>5, <1>13, <1>14, <2>1, <2>2
<1> QED BY <1>15, <1>16 DEF Flow!Merge, InLine, WithMotor, Waits, Delaying, AskedSet

\* All that wait are cancelled.
LEMMA ClearFlows == ASSUME IInv, Clear PROVE Flow!CancelAll
<1>1. /\ queue # <<>> /\ queue' = SubSeq(queue, 1, OnWire) /\ queue \in Seq(QueuedCommand)
      /\ Len(queue) \in Nat /\ Len(queue) >= 1 /\ UNCHANGED <<pending_callback, delay_duration_ms>>
  BY DEF Clear, IInv, TypeOK, OnWire
<1>2. (Executing' <=> Executing) /\ (Executing => queue' # <<>> /\ Head(queue') = Head(queue) /\ Tail(queue') = <<>>)
  <2>1. CASE Executing
    <3>1. OnWire = 1
      BY <2>1 DEF OnWire
    <3>2. /\ Len(queue') = 1 /\ queue'[1] = queue[1] /\ Head(queue) = queue[1]
          /\ queue' \in Seq(QueuedCommand)
      BY <1>1, <3>1
    <3>3. PICK u \in Seq(QueuedCommand) : u = queue'
      BY <3>2
    <3>4. Len(u) = 1 /\ u[1] = queue[1]
      BY <3>2, <3>3
    <3>5. u # <<>> /\ Head(u) = u[1] /\ Tail(u) \in Seq(QueuedCommand) /\ Len(Tail(u)) = 0
      BY <3>4
    <3>6. Tail(u) = <<>>
      BY <3>5, EmptySeq
    <3>7. queue' # <<>> /\ Head(queue') = Head(queue) /\ Tail(queue') = <<>>
      BY <3>2, <3>3, <3>4, <3>5, <3>6
    <3> QED BY <2>1, <3>7 DEF Executing
  <2>2. CASE ~Executing
    <3>1. OnWire = 0
      BY <2>2 DEF OnWire
    <3>2. queue' = <<>>
      BY <1>1, <3>1
    <3> QED BY <2>2, <3>2 DEF Executing
  <2> QED BY <2>1, <2>2
<1>3. (~Executing) => queue' = <<>>
  BY <1>1 DEF OnWire
<1>4. InLine' = <<>>
  <2>1. (IF Executing THEN Tail(queue) ELSE queue)' = <<>>
    BY <1>2, <1>3
  <2>2. AskedIn(<<>>) = <<>>
    BY DEF AskedIn
  <2> QED BY <2>1, <2>2 DEF InLine
<1>5. UNCHANGED <<WithMotor, Waits, Delaying>>
  BY <1>1, <1>2 DEF WithMotor, Waits, Delaying
<1> QED BY <1>4, <1>5 DEF Flow!CancelAll, InLine, WithMotor, Waits, Delaying

\* The request whose turn it is goes to the motor.
LEMMA SendFlows == ASSUME IInv, AgeInv, NoDelayThen, Send, TypeOK' PROVE Flow!SendNext
<1>1. /\ queue \in Seq(QueuedCommand) /\ queue' \in Seq(QueuedCommand) /\ queue # <<>>
      /\ Len(queue) \in Nat /\ Len(queue) >= 1 /\ Len(queue') \in Nat
  BY DEF IInv, TypeOK, Send
<1>2. PICK best : IsNext(best) /\ SentAs(queue, queue', best)
  BY SendElements
<1>3. ~Executing /\ pending_callback = <<>> /\ delay_duration_ms = 0
  <2>1. HasSend(stack)
    BY Returned DEF Send, Running
  <2>2. ~Executing /\ delay_duration_ms = 0
    BY <2>1, ExecutingNoSend DEF NoDelayThen
  <2> QED BY <2>1, <2>2 DEF IInv, DeferredSafe
<1>4. Executing' /\ UNCHANGED <<pending_callback, delay_duration_ms>>
  BY SentExecutes DEF Send
<1>5. /\ best \in 1 .. Len(queue) /\ Len(queue') = Len(queue)
      /\ Head(queue') = queue'[1] /\ AskedOf(queue'[1]) = AskedOf(queue[best])
  BY <1>1, <1>2 DEF SentAs
<1>6. /\ InLine \in Seq(AskedSet) /\ Len(InLine) = Len(queue)
      /\ \A i \in 1 .. Len(queue) : InLine[i] = AskedOf(queue[i])
  <2>1. OnWire = 0
    BY <1>3 DEF OnWire
  <2>2. /\ InLine \in Seq(AskedSet) /\ Len(InLine) = Len(queue) - OnWire
        /\ \A i \in 1 .. Len(queue) - OnWire : InLine[i] = AskedOf(queue[i + OnWire])
    BY InLineIs DEF IInv
  <2>3. \A i \in 1 .. Len(queue) : i + 0 = i
    BY <1>1
  <2>4. Len(queue) - 0 = Len(queue)
    BY <1>1
  <2> QED BY <2>1, <2>2, <2>3, <2>4
<1>7. /\ InLine' \in Seq(AskedSet) /\ Len(InLine') = Len(queue) - 1
      /\ \A i \in 1 .. Len(queue) - 1 : InLine'[i] = AskedOf(queue'[i + 1])
  <2>1. (/\ InLine \in Seq(AskedSet) /\ Len(InLine) = Len(queue) - OnWire
         /\ \A i \in 1 .. Len(queue) - OnWire : InLine[i] = AskedOf(queue[i + OnWire]))'
    BY InLineIs, PTL
  <2>2. OnWire' = 1
    BY <1>4 DEF OnWire
  <2> QED BY <1>5, <2>1, <2>2
<1>8. WithMotor = <<>> /\ WithMotor' = <<InLine[best]>>
  BY <1>3, <1>4, <1>5, <1>6 DEF WithMotor
<1>9. best \in Flow!Turn([k \in DOMAIN InLine |-> InLine[k].priority])
  <2> DEFINE p == [k \in DOMAIN InLine |-> InLine[k].priority]
  <2>1. DOMAIN p = 1 .. Len(queue) /\ \A k \in 1 .. Len(queue) : p[k] = queue[k].priority
    <3>1. DOMAIN InLine = 1 .. Len(queue)
      BY <1>6
    <3>2. \A i \in 1 .. Len(queue) : InLine[i].priority = queue[i].priority
      BY <1>6, AskedFields
    <3> QED BY <3>1, <3>2
  <2>2. \A i \in 1 .. Len(queue) : WaitsIn(queue, i) /\ queue[i].priority \in Nat
    <3>0. \A i \in 1 .. Len(queue) : queue[i] \in QueuedCommand
      BY <1>1
    <3>1. \A i \in 1 .. Len(queue) : queue[i].priority \in Priority
      BY <3>0 DEF QueuedCommand
    <3>2. Priority \subseteq Nat
      BY DEF Priority, CRITICAL, IDLE
    <3> QED BY <1>2, <3>1, <3>2 DEF SentAs, WaitsIn
  <2> HIDE DEF p
  <2>3. ASSUME NEW j \in 1 .. Len(queue), p[j] < p[best] PROVE p[j] >= NORMAL
    <3>1. ~(queue[j].priority < NORMAL)
      BY <1>2, <1>5, <2>1, <2>3, NextIsUrgent
    <3> QED BY <2>1, <2>2, <3>1 DEF NORMAL
  <2>4. ASSUME NEW j \in 1 .. Len(queue), p[j] = p[best] PROVE best <= j
    <3>1. ~(j < best)
      BY <1>2, <1>5, <2>1, <2>2, <2>4, NextIsEldest
    <3> QED BY <1>5, <3>1
  <2>5. best \in Flow!Turn(p)
    BY <1>5, <2>1, <2>3, <2>4 DEF Flow!Turn, Flow!NORMAL, NORMAL
  <2> QED BY <2>5 DEF p
<1>10. InLine' = Flow!RemoveAt(InLine, best)
  <2> DEFINE front == SubSeq(InLine, 1, best - 1)
             rest == SubSeq(InLine, best + 1, Len(InLine))
  <2>1. /\ front \in Seq(AskedSet) /\ Len(front) = best - 1
        /\ \A i \in 1 .. best - 1 : front[i] = InLine[i]
    BY <1>1, <1>5, <1>6
  <2>2. /\ rest \in Seq(AskedSet) /\ Len(rest) = Len(queue) - best
        /\ \A i \in 1 .. Len(queue) - best : rest[i] = InLine[i + best]
    BY <1>1, <1>5, <1>6
  <2>3. Flow!RemoveAt(InLine, best) = front \o rest
    BY DEF Flow!RemoveAt
  <2> HIDE DEF front, rest
  <2>4. front \o rest \in Seq(AskedSet) /\ Len(front \o rest) = Len(queue) - 1
    BY <1>1, <1>5, <2>1, <2>2
  <2>5. ASSUME NEW i \in 1 .. Len(queue) - 1 PROVE InLine'[i] = (front \o rest)[i]
    <3>1. i + 1 \in 2 .. Len(queue) /\ i \in 1 .. Len(queue) /\ i \in Nat /\ best \in Nat
      BY <1>1, <1>5
    <3>2. InLine'[i] = AskedOf(queue[Source(best, i + 1)])
      BY <1>2, <1>7, <3>1 DEF SentAs
    <3>3. CASE i < best
      <4>1. Source(best, i + 1) = i
        BY <3>1, <3>3 DEF Source
      <4>2. (front \o rest)[i] = front[i] /\ i \in 1 .. best - 1
        BY <1>1, <1>5, <2>1, <2>2, <3>1, <3>3
      <4> QED BY <1>6, <2>1, <3>1, <3>2, <4>1, <4>2
    <3>4. CASE ~(i < best)
      <4>1. Source(best, i + 1) = i + 1
        BY <3>1, <3>4 DEF Source
      <4>2. /\ (front \o rest)[i] = rest[i - (best - 1)]
            /\ i - (best - 1) \in 1 .. Len(queue) - best /\ (i - (best - 1)) + best = i + 1
        BY <1>1, <1>5, <2>1, <2>2, <3>1, <3>4
      <4>3. (front \o rest)[i] = InLine[i + 1]
        BY <2>2, <4>2
      <4> QED BY <1>6, <3>1, <3>2, <4>1, <4>3
    <3> QED BY <3>3, <3>4
  <2> QED BY <1>1, <1>7, <2>3, <2>4, <2>5, SeqEqual
<1>11. ~Delaying /\ ~Waits /\ UNCHANGED <<Delaying, Waits>>
  BY <1>3, <1>4 DEF Delaying, Waits
<1>12. best \in DOMAIN InLine
  BY <1>5, <1>6
<1> QED BY <1>8, <1>9, <1>10, <1>11, <1>12 DEF Flow!SendNext, InLine, WithMotor, Waits, Delaying

\* Every step of the queue is a step of the flow or none.
LEMMA FlowStep ==
  IInv /\ IInv' /\ AgeInv /\ NoDelayThen /\ [Next]_vars => [Flow!FlowNext]_FlowVars
<1> SUFFICES ASSUME IInv, IInv', AgeInv, NoDelayThen, [Next]_vars
             PROVE Flow!FlowNext \/ UNCHANGED FlowVars
  OBVIOUS
<1>1. CASE Enqueue
  <2>1. PICK req \in Requests, cb \in {<<>>} \cup {<<r>> : r \in Requester \ outstanding} :
          EnqueueDuplicate(req, cb) \/ EnqueueNew(req, cb)
    BY <1>1 DEF Enqueue
  <2>2. cb \in Seq(Requester)
    <3>1. CASE cb = <<>>
      BY <3>1
    <3>2. ASSUME NEW r \in Requester, cb = <<r>> PROVE cb \in Seq(Requester)
      BY <3>2
    <3> QED BY <3>1, <3>2
  <2> QED BY <2>1, <2>2, NewFlows, DuplicateFlows DEF Flow!FlowNext, IInv
<1>2. CASE Clear
  BY <1>2, ClearFlows DEF Flow!FlowNext
<1>3. CASE \E t \in Types : OnResponse(t) \/ OnError(t) \/ TransportUpdateError(t)
  BY <1>3, ResponseFlows, ErrorFlows DEF Flow!FlowNext
<1>4. CASE CheckTimeoutExpires
  BY <1>4, TimeoutFlows DEF Flow!FlowNext
<1>5. CASE ExecuteNextProceeds
  BY <1>5, ProceedingFlows DEF Flow!FlowNext
<1>6. CASE Send
  BY <1>6, SendFlows DEF Flow!FlowNext, IInv
<1>7. CASE \/ Update \/ Tick \/ UNCHANGED vars \/ TransportUpdateQuiet \/ CheckTimeoutPasses
           \/ CallCallback \/ CallbackReturn \/ NotifyDone \/ ClearCancels \/ ClearDone
           \/ ExecuteNextBlocked \/ SendNothing
  <2>1. UNCHANGED <<queue, pending_callback, delay_duration_ms>>
    BY <1>7 DEF Update, Tick, vars, queueVars, TransportUpdateQuiet, CheckTimeoutPasses, CallCallback,
       CallbackReturn, NotifyDone, ClearCancels, ClearDone, ExecuteNextBlocked, SendNothing
  <2> QED BY <2>1, FlowStutters
<1> QED BY <1>1, <1>2, <1>3, <1>4, <1>5, <1>6, <1>7 DEF Next, Internal

\* Refinement: whatever callbacks enqueue and clear while lists of callbacks
\* are walked, the requests wait in the order in which they came, each leaves
\* by its turn or together with all others, one is with the motor at a time,
\* and a delay that runs keeps it free until it is over.  This is what the
\* stepper engine takes for granted of the queue.
THEOREM QueueImplementsFlow == Spec => ImplementsFlow
<1>1. Init => AgeInv /\ NoDelayThen /\ Flow!FlowInit
  <2> SUFFICES ASSUME Init PROVE AgeInv /\ NoDelayThen /\ Flow!FlowInit
    OBVIOUS
  <2>1. queue = <<>> /\ stack = <<>> /\ pending_callback = <<>> /\ delay_duration_ms = 0
    BY DEF Init
  <2>2. InLine = <<>> /\ WithMotor = <<>> /\ Waits = FALSE /\ Delaying = FALSE
    BY <2>1 DEF InLine, WithMotor, Waits, Delaying, Executing, AskedIn
  <2> QED BY <2>1, <2>2
        DEF AgeInv, AgesOrdered, WaitsIn, NoDelayThen, Flow!FlowInit, InLine, WithMotor, Waits, Delaying
<1>2. IInv /\ IInv' /\ AgeInv /\ [Next]_vars => AgeInv'
  BY AgeStep
<1>3. IInv /\ NoDelayThen /\ [Next]_vars => NoDelayThen'
  BY NoDelayStep
<1>4. IInv /\ IInv' /\ AgeInv /\ NoDelayThen /\ [Next]_vars => [Flow!FlowNext]_FlowVars
  BY FlowStep
<1> QED BY <1>1, <1>2, <1>3, <1>4, Invariance, PTL
        DEF Spec, ImplementsFlow, Flow!FlowSpec, Flow!flowVars, FlowVars, InLine, WithMotor, Waits, Delaying

\* No wake-up is lost: whenever the main loop is free and commands wait, one is
\* with the motor or a delay is counted down, although a callback that enqueues
\* and a clear() find sends blocked and leave them to the calls further out
\* (.cpp:144, 160).
THEOREM NoWakeUpLost == Spec => []NeverIdle
<1> DEFINE Ends == EndsInNext(stack)
<1>1. Init => Ends /\ NoDelayThen /\ NeverIdle
  BY DEF Init, EndsInNext, NoDelayThen, NeverIdle, Executing, HasSend
<1>2. IInv /\ Ends /\ [Next]_vars => Ends'
  BY EndsInNextStep
<1>3. IInv /\ NoDelayThen /\ [Next]_vars => NoDelayThen'
  BY NoDelayStep
<1>4. IInv /\ IInv' /\ Ends /\ NoDelayThen /\ NeverIdle /\ [Next]_vars => NeverIdle'
  BY NeverIdleStep
<1> HIDE DEF Ends
<1> QED BY <1>1, <1>2, <1>3, <1>4, Invariance, PTL DEF Spec
=============================================================================
