---------------------------- MODULE CommandQueue ----------------------------
(***************************************************************************)
(* Layer 3 of the ServoXXD component: the queue that serialises the        *)
(* commands of the stepper engine onto one transport                       *)
(* (src/components/servoxxd/stepper/servoxxd_command_queue.{h,cpp}).       *)
(*                                                                         *)
(* The code runs on one thread, so the hard part is re-entrancy: a         *)
(* completion callback may enqueue and clear while the queue is still      *)
(* walking a list of callbacks.  The C++ call stack is therefore part of   *)
(* the state (stack, its last element being the running call) and every    *)
(* action is a piece of a function between two calls to user code.         *)
(*                                                                         *)
(* Time is millis(), a clock of limited width that wraps around.  A tick   *)
(* is coarser than a pass of the main loop: update() starts at least once  *)
(* between two ticks.                                                      *)
(***************************************************************************)
EXTENDS Integers, Sequences, FiniteSets, Priorities

CONSTANTS
  Command,            \* the commands (type and payload) callers enqueue
  Commandtype,        \* the type of each command, a function on Command
  Requests,           \* the argument tuples of the enqueue() call sites
  Requester,          \* identities of the completion callbacks
  TimeoutMs,          \* timeout_ms_, in ticks
  BackgroundPenalty,  \* BACKGROUND_PENALTY_MS, in ticks
  IdlePenalty,        \* IDLE_PENALTY_MS, in ticks
  ClockWrap,          \* number of values of millis() (2^32 in the code)
  MaxQueue,           \* bound on the length of queue_
  MaxCalls            \* bound on the calls a callback makes, nested ones included

ConstantsAssumption ==
  /\ Requests \subseteq [command : Command, priority : Priority, delay : Nat,
                         deduplicate : {"auto", "yes", "no"}]
  /\ Commandtype \in [Command -> STRING]
  /\ TimeoutMs \in Nat /\ BackgroundPenalty \in Nat /\ IdlePenalty \in Nat
  /\ ClockWrap \in Nat \ {0}
  /\ MaxQueue \in Nat /\ MaxCalls \in Nat
ASSUME ConstantsAssumption

VARIABLES
  queue,                  \* queue_
  delay_started_ms,       \* delay_started_ms_
  delay_duration_ms,      \* delay_duration_ms_
  dispatching_callbacks,  \* dispatching_callbacks_
  pending_callback,       \* pending_callback_: <<>> or <<callbacks>>
  millis,                 \* the clock
  stack,                  \* the calls in progress, innermost last
  looped,                 \* has update() been called since the last tick?
  calls,                  \* calls made so far by the outermost callback in progress
  outstanding,            \* requesters whose callback was not called yet
  recovery_left           \* history: ticks left of the last recovery delay

queueVars == <<queue, delay_started_ms, delay_duration_ms,
               dispatching_callbacks, pending_callback>>
vars == <<queueVars, millis, stack, looped, calls, outstanding, recovery_left>>

\* QueuedCommand.  A completed, failed or timed-out command leaves the queue
\* in the same step, so only two of the five CommandStates are ever stored.
QueuedCommand ==
  [command : Command, callbacks : Seq(Requester),
   state : {"PENDING", "EXECUTING"}, priority : Priority, delay : Nat,
   enqueued_time : 0 .. ClockWrap - 1, sent_time : 0 .. ClockWrap - 1]

Operations == {"transport_update", "check_timeout", "execute_next", "send",
               "notify", "clear", "callback"}
Frame == [op : Operations, callbacks : Seq(Requester), success : BOOLEAN,
          cancelled : Seq(Seq(Requester)), was_dispatching : BOOLEAN]

TypeOK ==
  /\ queue \in Seq(QueuedCommand)
  /\ delay_started_ms \in 0 .. ClockWrap - 1
  /\ delay_duration_ms \in Nat
  /\ dispatching_callbacks \in BOOLEAN
  /\ pending_callback \in Seq(Seq(Requester)) /\ Len(pending_callback) <= 1
  /\ millis \in 0 .. ClockWrap - 1
  /\ stack \in Seq(Frame)
  /\ looped \in BOOLEAN
  /\ calls \in Nat
  /\ outstanding \subseteq Requester
  /\ recovery_left \in Nat

-----------------------------------------------------------------------------
(* The call stack.                                                         *)

Call(op) == [op |-> op, callbacks |-> <<>>, success |-> FALSE,
             cancelled |-> <<>>, was_dispatching |-> FALSE]
Notify(callbacks, success) ==
  [op |-> "notify", callbacks |-> callbacks, success |-> success,
   cancelled |-> <<>>, was_dispatching |-> dispatching_callbacks]
ClearCall(cancelled) ==
  [op |-> "clear", callbacks |-> <<>>, success |-> FALSE,
   cancelled |-> cancelled, was_dispatching |-> dispatching_callbacks]

Top == stack[Len(stack)]
Running(op) == stack # <<>> /\ Top.op = op
Below == SubSeq(stack, 1, Len(stack) - 1)
BecomeTop(frame) == Append(Below, frame)

\* User code runs in the main loop, with no call in progress, and in the body
\* of a completion callback, which returns after a limited number of calls.
UserCode ==
  \/ stack = <<>> /\ UNCHANGED calls
  \/ Running("callback") /\ calls < MaxCalls /\ calls' = calls + 1

-----------------------------------------------------------------------------
(* Helpers of the queue.                                                   *)

Elapsed(since) == (millis - since) % ClockWrap

Executing == queue # <<>> /\ Head(queue).state = "EXECUTING"

\* Mutant: only IDLE requests are deduplicated.
ShouldDeduplicate_IdleOnly(req) ==
  \/ req.deduplicate = "yes"
  \/ req.deduplicate = "auto" /\ req.priority = IDLE

ShouldDeduplicate(req) ==
  \/ req.deduplicate = "yes"
  \/ req.deduplicate = "auto" /\ req.priority \in {BACKGROUND, IDLE}

IsDuplicate(i, command) ==
  queue[i].command = command /\ queue[i].state = "PENDING"

\* Mutant: no ageing.
EffectiveTime_NoAge(cmd) ==
  CASE cmd.priority = BACKGROUND -> BackgroundPenalty
    [] cmd.priority = IDLE -> IdlePenalty
    [] OTHER -> 0

\* calculate_effective_time
EffectiveTime(cmd) ==
  (CASE cmd.priority = BACKGROUND -> BackgroundPenalty
     [] cmd.priority = IDLE -> IdlePenalty
     [] OTHER -> 0) - Elapsed(cmd.enqueued_time)

\* The comparison in the scan of prepare_next_command: a goes before b.
Precedes(a, b) ==
  IF a.priority < NORMAL \/ b.priority < NORMAL
    THEN a.priority < b.priority
    ELSE EffectiveTime(a) < EffectiveTime(b)

\* Mutant: the scan compares with <=, so that the last of equals is next.
IsNext_LastOfEquals(i) ==
  \A j \in 1 .. Len(queue) :
    /\ ~Precedes(queue[j], queue[i])
    /\ j > i => Precedes(queue[i], queue[j])

\* The element the scan ends on: the first of the least ones.
IsNext(i) ==
  \A j \in 1 .. Len(queue) :
    /\ ~Precedes(queue[j], queue[i])
    /\ j < i => Precedes(queue[i], queue[j])

\* Mutant: the command to send changes places with the front one.
MoveToFront_Swaps(i) == [queue EXCEPT ![1] = queue[i], ![i] = queue[1]]

MoveToFront(i) ==
  [k \in 1 .. Len(queue) |->
     IF k = 1 THEN queue[i] ELSE IF k <= i THEN queue[k - 1] ELSE queue[k]]

-----------------------------------------------------------------------------
(* Entry points for user code.                                             *)

\* Mutant: the callback of the absorbed request is lost.
EnqueueDuplicate_LosesCallback(req, cb) ==
  /\ UserCode
  /\ ShouldDeduplicate(req)
  /\ \E i \in 1 .. Len(queue) :
       /\ IsDuplicate(i, req.command)
       /\ \A j \in 1 .. i - 1 : ~IsDuplicate(j, req.command)
       /\ queue' = [queue EXCEPT
            ![i].priority = IF req.priority < @ THEN req.priority ELSE @,
            ![i].delay = req.delay]
  /\ UNCHANGED <<delay_started_ms, delay_duration_ms, dispatching_callbacks,
                 pending_callback, millis, stack, looped, recovery_left>>

\* enqueue() when an identical pending command absorbs the request.
EnqueueDuplicate(req, cb) ==
  /\ UserCode
  /\ ShouldDeduplicate(req)
  /\ \E i \in 1 .. Len(queue) :
       /\ IsDuplicate(i, req.command)
       /\ \A j \in 1 .. i - 1 : ~IsDuplicate(j, req.command)
       /\ queue' = [queue EXCEPT
            ![i].priority = IF req.priority < @ THEN req.priority ELSE @,
            ![i].delay = req.delay,
            ![i].callbacks = @ \o cb]
  /\ UNCHANGED <<delay_started_ms, delay_duration_ms, dispatching_callbacks,
                 pending_callback, millis, stack, looped, recovery_left>>

\* enqueue() when the request becomes a command of its own.
EnqueueNew(req, cb) ==
  /\ UserCode
  /\ Len(queue) < MaxQueue
  /\ ShouldDeduplicate(req) =>
       \A i \in 1 .. Len(queue) : ~IsDuplicate(i, req.command)
  /\ queue' = Append(queue,
       [command |-> req.command, callbacks |-> cb, state |-> "PENDING",
        priority |-> req.priority, delay |-> req.delay,
        enqueued_time |-> millis, sent_time |-> 0])
  /\ stack' = Append(stack, Call("execute_next"))
  /\ UNCHANGED <<delay_started_ms, delay_duration_ms, dispatching_callbacks,
                 pending_callback, millis, looped, recovery_left>>

\* A caller passes a callback that is not outstanding, or nullptr.
Enqueue ==
  \E req \in Requests, cb \in {<<>>} \cup {<<r>> : r \in Requester \ outstanding} :
    /\ EnqueueDuplicate(req, cb) \/ EnqueueNew(req, cb)
    /\ outstanding' = outstanding \cup {cb[k] : k \in DOMAIN cb}

\* Mutant: the command on the wire is cancelled with the others.
Clear_CancelsExecuting ==
  /\ UserCode
  /\ queue # <<>>
  /\ queue' = <<>>
  /\ stack' = Append(stack, ClearCall([i \in 1 .. Len(queue) |-> queue[i].callbacks]))
  /\ dispatching_callbacks' = TRUE
  /\ UNCHANGED <<delay_started_ms, delay_duration_ms, pending_callback,
                 millis, looped, outstanding, recovery_left>>

\* clear() detaches every command that is not on the wire, then reports them.
Clear ==
  /\ UserCode
  /\ queue # <<>>
  /\ LET kept == IF Executing THEN 1 ELSE 0
     IN /\ queue' = SubSeq(queue, 1, kept)
        /\ stack' = Append(stack, ClearCall(
             [i \in 1 .. Len(queue) - kept |-> queue[i + kept].callbacks]))
  /\ dispatching_callbacks' = TRUE
  /\ UNCHANGED <<delay_started_ms, delay_duration_ms, pending_callback,
                 millis, looped, outstanding, recovery_left>>

\* Mutant: update() forgets check_timeout().
Update_NoTimeoutCheck ==
  /\ stack = <<>>
  /\ stack' = <<Call("execute_next"), Call("transport_update")>>
  /\ looped' = TRUE
  /\ UNCHANGED <<queueVars, millis, calls, outstanding, recovery_left>>

\* update() = transport_->update(); check_timeout(); execute_next()
Update ==
  /\ stack = <<>>
  /\ stack' = <<Call("execute_next"), Call("check_timeout"),
                Call("transport_update")>>
  /\ looped' = TRUE
  /\ UNCHANGED <<queueVars, millis, calls, outstanding, recovery_left>>

-----------------------------------------------------------------------------
(* Completion of the command on the wire.                                  *)

\* on_response() for a response of type t, called from the main loop.
OnResponse(t) ==
  /\ stack = <<>>
  /\ Executing
  /\ Commandtype[Head(queue).command] = t
  /\ LET done == Head(queue)
     IN /\ queue' = Tail(queue)
        /\ delay_started_ms' = millis
        /\ delay_duration_ms' = done.delay
        /\ recovery_left' = done.delay
        /\ \/ /\ done.delay > 0
              /\ pending_callback' = <<done.callbacks>>
              /\ stack' = Append(stack, Call("execute_next"))
              /\ UNCHANGED dispatching_callbacks
           \/ /\ done.delay = 0
              /\ stack' = Append(Append(stack, Call("execute_next")),
                                Notify(done.callbacks, TRUE))
              /\ dispatching_callbacks' = TRUE
              /\ UNCHANGED pending_callback
  /\ UNCHANGED <<millis, looped, calls, outstanding>>

\* Mutant: on_error() does not go on with the commands that wait.
Fail_SendsNothing(rest) ==
  LET failed == Head(queue)
  IN /\ queue' = Tail(queue)
     /\ delay_started_ms' = millis
     /\ delay_duration_ms' = failed.delay
     /\ recovery_left' = failed.delay
     /\ stack' = Append(rest, Notify(failed.callbacks, FALSE))
     /\ dispatching_callbacks' = TRUE
     /\ UNCHANGED <<pending_callback, millis, looped, calls, outstanding>>

\* The effect of on_error() with the calls rest below it on the stack.
Fail(rest) ==
  LET failed == Head(queue)
  IN /\ queue' = Tail(queue)
     /\ delay_started_ms' = millis
     /\ delay_duration_ms' = failed.delay
     /\ recovery_left' = failed.delay
     /\ stack' = Append(Append(rest, Call("execute_next")), Notify(failed.callbacks, FALSE))
     /\ dispatching_callbacks' = TRUE
     /\ UNCHANGED <<pending_callback, millis, looped, calls, outstanding>>

\* on_error() for a command of type t, called from the main loop.
OnError(t) ==
  /\ stack = <<>>
  /\ Executing
  /\ Commandtype[Head(queue).command] = t
  /\ Fail(stack)

\* transport_->update() reports nothing ...
TransportUpdateQuiet ==
  /\ Running("transport_update")
  /\ stack' = Below
  /\ UNCHANGED <<queueVars, millis, looped, calls, outstanding, recovery_left>>

\* ... or a timeout of its own, for a command of type t.
TransportUpdateError(t) ==
  /\ Running("transport_update")
  /\ Executing
  /\ Commandtype[Head(queue).command] = t
  /\ Fail(Below)

TimedOut == Executing /\ Elapsed(Head(queue).sent_time) > TimeoutMs

\* Mutant: the timed-out command is marked and stays.
CheckTimeoutExpires_Marks ==
  /\ Running("check_timeout")
  /\ TimedOut
  /\ queue' = [queue EXCEPT ![1].state = "TIMEOUT"]
  /\ stack' = Append(BecomeTop(Call("execute_next")),
                      Notify(Head(queue).callbacks, FALSE))
  /\ dispatching_callbacks' = TRUE
  /\ UNCHANGED <<delay_started_ms, delay_duration_ms, pending_callback,
                 millis, looped, calls, outstanding, recovery_left>>

\* check_timeout() gives the command up.  Its delay is not applied.
CheckTimeoutExpires ==
  /\ Running("check_timeout")
  /\ TimedOut
  /\ queue' = Tail(queue)
  /\ stack' = Append(BecomeTop(Call("execute_next")),
                      Notify(Head(queue).callbacks, FALSE))
  /\ dispatching_callbacks' = TRUE
  /\ UNCHANGED <<delay_started_ms, delay_duration_ms, pending_callback,
                 millis, looped, calls, outstanding, recovery_left>>

\* check_timeout() finds nothing to give up.
CheckTimeoutPasses ==
  /\ Running("check_timeout")
  /\ ~TimedOut
  /\ stack' = Below
  /\ UNCHANGED <<queueVars, millis, looped, calls, outstanding, recovery_left>>

-----------------------------------------------------------------------------
(* Dispatching callbacks.                                                  *)

\* notify_callbacks() calls the next callback of its list.
CallCallback ==
  /\ Running("notify")
  /\ Top.callbacks # <<>>
  /\ stack' = Append(BecomeTop([Top EXCEPT !.callbacks = Tail(@)]), Call("callback"))
  /\ outstanding' = outstanding \ {Head(Top.callbacks)}
  /\ UNCHANGED <<queueVars, millis, looped, calls, recovery_left>>

\* A callback returns.
CallbackReturn ==
  /\ Running("callback")
  /\ stack' = Below
  /\ calls' = IF \E k \in 1 .. Len(stack) - 1 : stack[k].op = "callback"
               THEN calls ELSE 0
  /\ UNCHANGED <<queueVars, millis, looped, outstanding, recovery_left>>

\* notify_callbacks() returns.
NotifyDone ==
  /\ Running("notify")
  /\ Top.callbacks = <<>>
  /\ stack' = Below
  /\ dispatching_callbacks' = Top.was_dispatching
  /\ UNCHANGED <<queue, delay_started_ms, delay_duration_ms, pending_callback,
                 millis, looped, calls, outstanding, recovery_left>>

\* clear() reports the next command it cancelled.
ClearCancels ==
  /\ Running("clear")
  /\ Top.cancelled # <<>>
  /\ stack' = Append(BecomeTop([Top EXCEPT !.cancelled = Tail(@)]),
                      Notify(Head(Top.cancelled), FALSE))
  /\ dispatching_callbacks' = TRUE
  /\ UNCHANGED <<queue, delay_started_ms, delay_duration_ms, pending_callback,
                 millis, looped, calls, outstanding, recovery_left>>

\* Mutant: the flag is reset instead of restored.
ClearDone_Resets ==
  /\ Running("clear")
  /\ Top.cancelled = <<>>
  /\ stack' = BecomeTop(Call("execute_next"))
  /\ dispatching_callbacks' = FALSE
  /\ UNCHANGED <<queue, delay_started_ms, delay_duration_ms, pending_callback,
                 millis, looped, calls, outstanding, recovery_left>>

\* clear() has reported them all.
ClearDone ==
  /\ Running("clear")
  /\ Top.cancelled = <<>>
  /\ stack' = BecomeTop(Call("execute_next"))
  /\ dispatching_callbacks' = Top.was_dispatching
  /\ UNCHANGED <<queue, delay_started_ms, delay_duration_ms, pending_callback,
                 millis, looped, calls, outstanding, recovery_left>>

-----------------------------------------------------------------------------
(* execute_next().                                                         *)

\* Mutant: the recovery delay is one tick short.
DelayRunning_Short == Elapsed(delay_started_ms) + 1 < delay_duration_ms

DelayRunning == Elapsed(delay_started_ms) < delay_duration_ms

\* Mutant of the early returns: the guard of the executing command is missing.
Blocked_WhileExecuting == dispatching_callbacks \/ DelayRunning

Blocked == dispatching_callbacks \/ Executing \/ DelayRunning

\* The two early returns.
ExecuteNextBlocked ==
  /\ Running("execute_next")
  /\ Blocked
  /\ stack' = Below
  /\ UNCHANGED <<queueVars, millis, looped, calls, outstanding, recovery_left>>

\* Mutant: pending_callback_ is not reset.
ExecuteNextProceeds_KeepsCallback ==
  /\ Running("execute_next")
  /\ ~Blocked
  /\ delay_duration_ms' = 0
  /\ \/ /\ pending_callback = <<>>
        /\ stack' = BecomeTop(Call("send"))
        /\ UNCHANGED dispatching_callbacks
     \/ /\ pending_callback # <<>>
        /\ stack' = Append(BecomeTop(Call("send")),
                      Notify(Head(pending_callback), TRUE))
        /\ dispatching_callbacks' = TRUE
  /\ UNCHANGED <<queue, delay_started_ms, pending_callback, millis, looped,
                 calls, outstanding, recovery_left>>

\* The delay is over; a success notification that waited for it goes first.
ExecuteNextProceeds ==
  /\ Running("execute_next")
  /\ ~Blocked
  /\ delay_duration_ms' = 0
  /\ pending_callback' = <<>>
  /\ \/ /\ pending_callback = <<>>
        /\ stack' = BecomeTop(Call("send"))
        /\ UNCHANGED dispatching_callbacks
     \/ /\ pending_callback # <<>>
        /\ stack' = Append(BecomeTop(Call("send")),
                      Notify(Head(pending_callback), TRUE))
        /\ dispatching_callbacks' = TRUE
  /\ UNCHANGED <<queue, delay_started_ms, millis, looped, calls, outstanding,
                 recovery_left>>

\* The rest of execute_next() when there is nothing to send.
SendNothing ==
  /\ Running("send")
  /\ queue = <<>>
  /\ stack' = Below
  /\ UNCHANGED <<queueVars, millis, looped, calls, outstanding, recovery_left>>

\* prepare_next_command() and transport_->execute_command().
Send ==
  /\ Running("send")
  /\ queue # <<>>
  /\ \E best \in 1 .. Len(queue) :
       /\ IsNext(best)
       /\ queue' = [MoveToFront(best) EXCEPT
                      ![1].state = "EXECUTING", ![1].sent_time = millis]
  /\ stack' = Below
  /\ UNCHANGED <<delay_started_ms, delay_duration_ms, dispatching_callbacks,
                 pending_callback, millis, looped, calls, outstanding, recovery_left>>

-----------------------------------------------------------------------------

\* Bound: no command waits in the queue for a whole cycle of millis(), which
\* is the limit the code states for its ages (.h:250).
WithinClockCycle ==
  \A i \in 1 .. Len(queue) :
    queue[i].state = "PENDING" => Elapsed(queue[i].enqueued_time) < ClockWrap - 1

Tick ==
  /\ looped
  /\ WithinClockCycle
  /\ millis' = (millis + 1) % ClockWrap
  /\ looped' = FALSE
  /\ recovery_left' = IF recovery_left = 0 THEN 0 ELSE recovery_left - 1
  /\ UNCHANGED <<queueVars, stack, calls, outstanding>>

Init ==
  /\ queue = <<>>
  /\ delay_started_ms = 0
  /\ delay_duration_ms = 0
  /\ dispatching_callbacks = FALSE
  /\ pending_callback = <<>>
  /\ millis = 0
  /\ stack = <<>>
  /\ looped = FALSE
  /\ calls = 0
  /\ outstanding = {}
  /\ recovery_left = 0

\* The steps of a call in progress.
Internal ==
  \/ TransportUpdateQuiet \/ CheckTimeoutExpires \/ CheckTimeoutPasses
  \/ CallCallback \/ CallbackReturn \/ NotifyDone \/ ClearCancels \/ ClearDone
  \/ ExecuteNextBlocked \/ ExecuteNextProceeds \/ SendNothing \/ Send

Types == {Commandtype[c] : c \in Command}

Next ==
  \/ Enqueue \/ Clear \/ Update \/ Tick \/ Internal
  \/ \E t \in Types : OnResponse(t) \/ OnError(t) \/ TransportUpdateError(t)

Spec == Init /\ [][Next]_vars

\* The main loop never stops: a call that was started goes on and returns, and
\* time passes.  A pass of the loop handles finitely many other events before
\* it calls update(), hence strong fairness: the events in between may occupy
\* the stack, but not for ever.  Nothing is assumed of the transport, which
\* may never answer.
Fairness == WF_vars(Internal) /\ SF_vars(Update) /\ WF_vars(Tick)

FairSpec == Spec /\ Fairness

-----------------------------------------------------------------------------
(* Properties.                                                             *)

\* Is one of the outermost n calls of st walking a list of callbacks?
Dispatching(st, n) == \E k \in 1 .. n : st[k].op \in {"notify", "clear"}

\* Single flight: no command but the front one is on the wire, whatever
\* callbacks enqueue or clear and however the deque was rebuilt (.h:51).
SingleFlight == \A i \in 2 .. Len(queue) : queue[i].state = "PENDING"

\* While a success notification waits for a recovery delay nothing is on the
\* wire, so that no later response can overwrite pending_callback_ and lose
\* its callbacks (.cpp:86).
DeferredSafe ==
  pending_callback # <<>> => ~Executing /\ delay_duration_ms > 0

\* flag says whether st walks a list, and each walk in st knows what the flag
\* was when it began.
FlagMatches(st, flag) ==
  /\ flag <=> Dispatching(st, Len(st))
  /\ \A k \in 1 .. Len(st) :
       st[k].op \in {"notify", "clear"} =>
         (st[k].was_dispatching <=> Dispatching(st, k - 1))

\* The dispatching flag, saved and restored by nested calls (.cpp:141-147,
\* 152-157), says exactly whether a list of callbacks is being walked.
DispatchFlag == FlagMatches(stack, dispatching_callbacks)

\* execute_next() is entered outside of any walk, and between its early
\* returns and its send it calls nothing but the deferred notification.
SendShape(st) ==
  \A k \in 1 .. Len(st) :
    st[k].op = "send" =>
      /\ ~Dispatching(st, k)
      /\ k < Len(st) => st[k + 1].op = "notify"

\* When execute_next() comes to send, nothing that happened in the deferred
\* notification has sent a command or deferred another one (.cpp:170-192).
SendReady ==
  /\ SendShape(stack)
  /\ (\E k \in 1 .. Len(stack) : stack[k].op = "send")
       => pending_callback = <<>> /\ ~Executing

IInv == TypeOK /\ SingleFlight /\ DeferredSafe /\ DispatchFlag /\ SendReady

\* The places that hold the callback of r: the queue, the deferred
\* notification, and the lists being walked.
Places(r) ==
  LET Queued == UNION {{<<"queue", i, n>> : n \in {k \in DOMAIN queue[i].callbacks : queue[i].callbacks[k] = r}}
                         : i \in DOMAIN queue}
      Pending == UNION {{<<"pending", i, n>> : n \in {k \in DOMAIN pending_callback[i] : pending_callback[i][k] = r}}
                          : i \in DOMAIN pending_callback}
      Walked == UNION {{<<"notify", f, n>> : n \in {k \in DOMAIN stack[f].callbacks : stack[f].callbacks[k] = r}}
                         : f \in DOMAIN stack}
      CancelledIn(f) == UNION {{<<"clear", f, i, n>> :
                                  n \in {k \in DOMAIN stack[f].cancelled[i] : stack[f].cancelled[i][k] = r}}
                                : i \in DOMAIN stack[f].cancelled}
      Cancelled == UNION {CancelledIn(f) : f \in DOMAIN stack}
  IN Queued \cup Pending \cup Walked \cup Cancelled

\* A callback is notified exactly once, also for a deduplicated request
\* (.h:100): as long as it was not called it is held in exactly one place,
\* and from then on in none.
CallbackConservation ==
  \A r \in Requester : Cardinality(Places(r)) = IF r \in outstanding THEN 1 ELSE 0

\* A command goes onto the wire.
Sends == ~Executing /\ Executing'

\* Callback dispatch blocks sends, including re-entrant enqueue() and clear()
\* calls (.h:59): no command is sent before every list of callbacks being
\* walked has been walked to its end.
NoSendWhileNotifying == [][Sends => ~Dispatching(stack, Len(stack))]_vars

\* Success callbacks wait for the recovery delay of their command, and no
\* command is sent before it is over (.h:102-105), although millis() wraps.
RecoveryRespected ==
  [][(Sends \/ (pending_callback # <<>> /\ pending_callback' = <<>>))
       => recovery_left = 0]_vars

\* Polling cannot fill the queue while the motor is slow or gone: of a command
\* whose requests are all deduplicated at most one is pending, re-entrant
\* requests and clears included.
PollingBounded ==
  \A c \in Command :
    (\A req \in Requests :
       req.command = c => req.deduplicate = "auto" /\ req.priority \in {BACKGROUND, IDLE})
    => Cardinality({i \in 1 .. Len(queue) :
                      queue[i].command = c /\ queue[i].state = "PENDING"}) <= 1

\* A command is given up soon after its time-out: two ticks, one because
\* elapsed > timeout is strict and one for the tick that may fall between the
\* check and the previous pass of the main loop.
TimelyTimeout == Executing => Elapsed(Head(queue).sent_time) <= TimeoutMs + 2

\* The position of the pending command that carries the callback of r, or 0.
PendingAt(r, q) ==
  LET here == {i \in 1 .. Len(q) : q[i].state = "PENDING" /\ \E k \in DOMAIN q[i].callbacks : q[i].callbacks[k] = r}
  IN IF here = {} THEN 0 ELSE CHOOSE i \in here : TRUE

\* Order of sends: a command leaves the queue for the wire only after every
\* command enqueued before it with the same priority, also within the same
\* millisecond, and CRITICAL then SETUP commands precede all others
\* (.h:234-237).  Requests keep their place when the deque is rebuilt.
SendOrder ==
  [][\A r, s \in Requester :
       LET i == PendingAt(r, queue)   i1 == PendingAt(r, queue')
           j == PendingAt(s, queue)   j1 == PendingAt(s, queue')
           sent == Sends /\ j1 = 0 /\ i1 # 0
       IN i # 0 /\ j # 0 /\ i # j =>
            /\ i1 # 0 /\ j1 # 0 /\ i < j => i1 < j1
            /\ i < j /\ queue[i].priority = queue[j].priority => ~sent
            /\ queue[i].priority < NORMAL /\ queue[i].priority < queue[j].priority => ~sent
    ]_vars

\* No wake-up is lost: whenever the main loop is free and commands wait, one is
\* with the motor or a delay is counted down.  A callback that enqueues while
\* sends are blocked, and a clear() that empties the queue around it, rely on
\* the execute_next() of the call further out (.cpp:144, 160).
NeverIdle == queue # <<>> /\ ~Executing /\ delay_duration_ms = 0 => stack # <<>>

\* Ageing bounds the wait of BACKGROUND and IDLE commands while newer NORMAL
\* ones keep coming (.h:239-240): no command gets as old as a cycle of the
\* clock, so that the bound WithinClockCycle of Tick is never met.
BoundedWait == WithinClockCycle

\* Nothing waits for ever: every callback is eventually called, whether the
\* motor answers or not, although more urgent requests keep coming (ageing)
\* and callbacks enqueue and clear.
EveryCallbackCalled ==
  \A r \in Requester : r \in outstanding ~> r \notin outstanding

-----------------------------------------------------------------------------
(* The queue implements the ledger of its requesters.                      *)

Listed(r, callbacks) == \E k \in DOMAIN callbacks : callbacks[k] = r
InCommand(r, s) == \E i \in DOMAIN queue : queue[i].state = s /\ Listed(r, queue[i].callbacks)
Notifying(r, ok) == \E f \in DOMAIN stack : stack[f].success = ok /\ Listed(r, stack[f].callbacks)
Cancelled(r) == \E f \in DOMAIN stack : \E i \in DOMAIN stack[f].cancelled : Listed(r, stack[f].cancelled[i])
Deferred(r) == \E i \in DOMAIN pending_callback : Listed(r, pending_callback[i])

StatusOf(r) ==
  CASE InCommand(r, "EXECUTING") -> "sent"
    [] InCommand(r, "PENDING") -> "queued"
    [] Deferred(r) \/ Notifying(r, TRUE) -> "succeeded"
    [] Notifying(r, FALSE) \/ Cancelled(r) -> "failed"
    [] OTHER -> "idle"

Ledger == INSTANCE RequestLedger WITH status <- [r \in Requester |-> StatusOf(r)]

\* Refinement: every requester sees the life cycle of RequestLedger.  In
\* particular success is reported only for a command that was on the wire when
\* the transport answered, a cancelled or timed-out request never succeeds
\* later, and no command leaves before all outcomes were delivered.
ImplementsLedger == Ledger!LedgerSpec

-----------------------------------------------------------------------------
(* The queue implements the flow of requests that the engine relies on.    *)

AskedOf(cmd) == [command |-> cmd.command, priority |-> cmd.priority, delayed |-> cmd.delay > 0]
AskedIn(q) == [i \in 1 .. Len(q) |-> AskedOf(q[i])]

Flow == INSTANCE RequestFlow WITH
  Asked <- [command : Command, priority : Priority, delayed : BOOLEAN],
  waiting <- AskedIn(IF Executing THEN Tail(queue) ELSE queue),
  wire <- IF Executing THEN <<AskedOf(Head(queue))>> ELSE <<>>,
  deferred <- pending_callback # <<>>,
  delaying <- delay_duration_ms > 0

\* Refinement: whatever callbacks do while lists are walked, the requests wait
\* in order, each leaves by its turn or with all others, only a request that
\* the motor answered or refused starts a delay, and only its end ends it.
ImplementsFlow == Flow!FlowSpec
=============================================================================
