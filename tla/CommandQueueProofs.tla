------------------------- MODULE CommandQueueProofs -------------------------
(***************************************************************************)
(* Proofs about CommandQueue: for any commands, requests, requesters,      *)
(* time-outs, clock width and depth of nested calls, the queue keeps the   *)
(* inductive invariant IInv, sends nothing while callbacks are being       *)
(* dispatched, and respects recovery delays.                               *)
(*                                                                         *)
(* The argument is about the call stack.  Each walk of a list of callbacks *)
(* remembers the dispatching flag it found, so the flag equals "some call  *)
(* in progress is a walk" (FlagPush, FlagPop); execute_next() passes its   *)
(* early returns only with the flag down, so the one thing that can be     *)
(* above its send is the deferred notification (ShapePush, OneSend), and   *)
(* whatever runs above it is blocked by the flag.                          *)
(***************************************************************************)
EXTENDS CommandQueue, SequenceTheorems, TLAPS

\* Pushing an element keeps the type of a sequence.
LEMMA AppendType ==
  ASSUME NEW S, NEW s \in Seq(S), NEW e \in S
  PROVE Append(s, e) \in Seq(S)
  OBVIOUS

\* Replacing an element keeps the type of a sequence.
LEMMA ExceptType ==
  ASSUME NEW S, NEW s \in Seq(S), NEW i \in 1 .. Len(s), NEW e \in S
  PROVE [s EXCEPT ![i] = e] \in Seq(S)
  OBVIOUS

\* Replacing an element leaves the length and the other elements alone.
LEMMA ExceptElements ==
  ASSUME NEW S, NEW s \in Seq(S), NEW i \in 1 .. Len(s), NEW e \in S
  PROVE /\ Len([s EXCEPT ![i] = e]) = Len(s)
        /\ [s EXCEPT ![i] = e][i] = e
        /\ \A k \in 1 .. Len(s) : k # i => [s EXCEPT ![i] = e][k] = s[k]
  OBVIOUS

\* The clock stays within its width.
LEMMA ClockType ==
  ASSUME NEW n \in Int
  PROVE n % ClockWrap \in 0 .. ClockWrap - 1
  BY ConstantsAssumption DEF ConstantsAssumption

\* The frame of a call is a frame.
LEMMA CallType ==
  ASSUME NEW op \in Operations
  PROVE Call(op) \in Frame
  BY DEF Call, Frame

\* The frame of notify_callbacks() is a frame.
LEMMA NotifyType ==
  ASSUME TypeOK, NEW callbacks \in Seq(Requester), NEW success \in BOOLEAN
  PROVE Notify(callbacks, success) \in Frame
  BY DEF TypeOK, Notify, Frame, Operations

\* The frame of clear() is a frame.
LEMMA ClearCallType ==
  ASSUME TypeOK, NEW cancelled \in Seq(Seq(Requester))
  PROVE ClearCall(cancelled) \in Frame
  BY DEF TypeOK, ClearCall, Frame, Operations

\* The innermost call and those below it are frames.
LEMMA TopType ==
  ASSUME TypeOK, stack # <<>>
  PROVE /\ Top \in Frame
        /\ Below \in Seq(Frame)
        /\ \A f \in Frame : BecomeTop(f) \in Seq(Frame)
  BY DEF TypeOK, Top, Below, BecomeTop

\* The front command and those behind it are queued commands.
LEMMA FrontType ==
  ASSUME TypeOK, queue # <<>>
  PROVE /\ Head(queue) \in QueuedCommand
        /\ Tail(queue) \in Seq(QueuedCommand)
  BY DEF TypeOK

\* clear() keeps the types: what it detaches are lists of callbacks.
LEMMA TypeClear ==
  ASSUME TypeOK, Clear PROVE TypeOK'
<1> DEFINE kept == IF Executing THEN 1 ELSE 0
           cancelled == [i \in 1 .. Len(queue) - kept |-> queue[i + kept].callbacks]
<1>1. Len(queue) \in Nat /\ Len(queue) >= 1 /\ kept \in 0 .. 1
  BY DEF TypeOK, Clear
<1>2. \A i \in 1 .. Len(queue) - kept : queue[i + kept] \in QueuedCommand
  BY <1>1 DEF TypeOK
<1>3. \A i \in 1 .. Len(queue) - kept : queue[i + kept].callbacks \in Seq(Requester)
  BY <1>2 DEF QueuedCommand
<1>4. cancelled \in Seq(Seq(Requester))
  BY <1>1, <1>3
<1>5. stack' \in Seq(Frame)
  BY <1>4, ClearCallType, AppendType DEF TypeOK, Clear
<1>6. queue' \in Seq(QueuedCommand)
  BY <1>1 DEF TypeOK, Clear
<1>7. calls' \in Nat
  BY DEF TypeOK, Clear, UserCode
<1> QED BY <1>5, <1>6, <1>7 DEF TypeOK, Clear

\* prepare_next_command() and the transition to EXECUTING change the front
\* element and permute the others.
LEMMA SentQueue ==
  ASSUME TypeOK, NEW best \in 1 .. Len(queue),
         queue' = [MoveToFront(best) EXCEPT ![1].state = "EXECUTING", ![1].sent_time = millis]
  PROVE /\ queue' \in Seq(QueuedCommand) /\ Len(queue') = Len(queue)
        /\ \A k \in 2 .. Len(queue) : queue'[k] = MoveToFront(best)[k]
<1>1. \A k \in 1 .. Len(queue) : queue[k] \in QueuedCommand
  BY DEF TypeOK
<1>2. MoveToFront(best) \in Seq(QueuedCommand) /\ Len(MoveToFront(best)) = Len(queue) /\ Len(queue) >= 1
  <2>1. \A k \in 1 .. Len(queue) : MoveToFront(best)[k] \in QueuedCommand
    BY <1>1 DEF MoveToFront, TypeOK
  <2> QED BY <2>1 DEF MoveToFront, TypeOK
<1> DEFINE q == MoveToFront(best)
           sent == [q[1] EXCEPT !.state = "EXECUTING", !.sent_time = millis]
<1>3. sent \in QueuedCommand
  <2>1. q[1] \in QueuedCommand /\ millis \in 0 .. ClockWrap - 1
    BY <1>2 DEF TypeOK
  <2> HIDE DEF q
  <2> QED BY <2>1 DEF QueuedCommand
<1>4. queue' = [q EXCEPT ![1] = sent]
  BY <1>2
<1>5. q \in Seq(QueuedCommand) /\ 1 \in 1 .. Len(q) /\ Len(q) = Len(queue)
  BY <1>2
<1> HIDE DEF q, sent
<1>6. queue' \in Seq(QueuedCommand)
  <2>1. [q EXCEPT ![1] = sent] \in Seq(QueuedCommand)
    BY <1>3, <1>5, ExceptType
  <2> QED BY <1>4, <2>1
<1>7. Len(queue') = Len(queue) /\ \A k \in 2 .. Len(queue) : queue'[k] = q[k]
  BY <1>3, <1>4, <1>5, ExceptElements
<1> QED BY <1>6, <1>7 DEF q

\* Sending keeps the types.
LEMMA TypeSend ==
  ASSUME TypeOK, Send PROVE TypeOK'
<1>1. queue' \in Seq(QueuedCommand)
  BY SentQueue DEF Send
<1>2. stack' \in Seq(Frame)
  BY TopType DEF Send, Running
<1> QED BY <1>1, <1>2 DEF TypeOK, Send

-----------------------------------------------------------------------------
(* The call stack.                                                         *)

\* A stack is its innermost call on top of the others.
LEMMA StackIsAppend ==
  ASSUME TypeOK, stack # <<>>
  PROVE stack = Append(Below, Top)
  BY DEF TypeOK, Below, Top

Walks(f) == f.op \in {"notify", "clear"}

\* A new call does not change which of the calls below it walk a list.
LEMMA DispatchingAppend ==
  ASSUME NEW s \in Seq(Frame), NEW f \in Frame
  PROVE /\ \A n \in 0 .. Len(s) : Dispatching(Append(s, f), n) <=> Dispatching(s, n)
        /\ Dispatching(Append(s, f), Len(s) + 1) <=> Dispatching(s, Len(s)) \/ Walks(f)
<1>1. /\ Len(Append(s, f)) = Len(s) + 1
      /\ Append(s, f)[Len(s) + 1] = f
      /\ \A k \in 1 .. Len(s) : Append(s, f)[k] = s[k]
  OBVIOUS
<1> DEFINE t == Append(s, f)
<1>2. Len(s) \in Nat
  OBVIOUS
<1> HIDE DEF t
<1> QED BY <1>1, <1>2 DEF Dispatching, Walks

\* A walk that remembers the flag when it begins may raise it.
LEMMA FlagPush ==
  ASSUME NEW s \in Seq(Frame), NEW f \in Frame, NEW flag \in BOOLEAN,
         FlagMatches(s, flag), Walks(f) => f.was_dispatching = flag
  PROVE FlagMatches(Append(s, f), flag \/ Walks(f))
<1> DEFINE t == Append(s, f)
<1>1. /\ Len(t) = Len(s) + 1 /\ Len(s) \in Nat
      /\ t[Len(s) + 1] = f
      /\ \A k \in 1 .. Len(s) : t[k] = s[k]
  OBVIOUS
<1>2. /\ \A n \in 0 .. Len(s) : Dispatching(t, n) <=> Dispatching(s, n)
      /\ Dispatching(t, Len(s) + 1) <=> Dispatching(s, Len(s)) \/ Walks(f)
  BY DispatchingAppend
<1> HIDE DEF t
<1>3. flag \/ Walks(f) <=> Dispatching(t, Len(t))
  BY <1>1, <1>2 DEF FlagMatches
<1>4. ASSUME NEW k \in 1 .. Len(t), Walks(t[k])
      PROVE t[k].was_dispatching <=> Dispatching(t, k - 1)
  <2>1. CASE k \in 1 .. Len(s)
    BY <1>1, <1>2, <1>4, <2>1 DEF FlagMatches, Walks
  <2>2. CASE k = Len(s) + 1
    BY <1>1, <1>2, <1>4, <2>2 DEF FlagMatches, Walks
  <2> QED BY <1>1, <2>1, <2>2
<1> QED BY <1>3, <1>4 DEF FlagMatches, Walks, t

\* A walk that ends restores the flag of the calls below it.
LEMMA FlagPop ==
  ASSUME NEW s \in Seq(Frame), NEW f \in Frame, NEW flag \in BOOLEAN,
         FlagMatches(Append(s, f), flag)
  PROVE FlagMatches(s, IF Walks(f) THEN f.was_dispatching ELSE flag)
<1> DEFINE t == Append(s, f)
<1>1. /\ Len(t) = Len(s) + 1 /\ Len(s) \in Nat
      /\ t[Len(s) + 1] = f
      /\ \A k \in 1 .. Len(s) : t[k] = s[k]
  OBVIOUS
<1>2. /\ \A n \in 0 .. Len(s) : Dispatching(t, n) <=> Dispatching(s, n)
      /\ Dispatching(t, Len(s) + 1) <=> Dispatching(s, Len(s)) \/ Walks(f)
  BY DispatchingAppend
<1>3. FlagMatches(t, flag)
  OBVIOUS
<1> HIDE DEF t
<1>4. ASSUME NEW k \in 1 .. Len(s), Walks(s[k])
      PROVE s[k].was_dispatching <=> Dispatching(s, k - 1)
  BY <1>1, <1>2, <1>3, <1>4 DEF FlagMatches, Walks
<1>5. (IF Walks(f) THEN f.was_dispatching ELSE flag) <=> Dispatching(s, Len(s))
  BY <1>1, <1>2, <1>3 DEF FlagMatches, Walks
<1> QED BY <1>4, <1>5 DEF FlagMatches, Walks

\* Nothing but the deferred notification is called between the early returns
\* of execute_next() and its send.
LEMMA ShapePush ==
  ASSUME NEW s \in Seq(Frame), NEW f \in Frame, SendShape(s),
         s # <<>> /\ s[Len(s)].op = "send" => f.op = "notify",
         f.op = "send" => ~Dispatching(s, Len(s))
  PROVE SendShape(Append(s, f))
<1> DEFINE t == Append(s, f)
<1>1. /\ Len(t) = Len(s) + 1 /\ Len(s) \in Nat /\ (s = <<>> <=> Len(s) = 0)
      /\ t[Len(s) + 1] = f
      /\ \A k \in 1 .. Len(s) : t[k] = s[k]
  OBVIOUS
<1>2. /\ \A n \in 0 .. Len(s) : Dispatching(t, n) <=> Dispatching(s, n)
      /\ Dispatching(t, Len(s) + 1) <=> Dispatching(s, Len(s)) \/ Walks(f)
  BY DispatchingAppend
<1> HIDE DEF t
<1>3. ASSUME NEW k \in 1 .. Len(t), t[k].op = "send"
      PROVE ~Dispatching(t, k) /\ (k < Len(t) => t[k + 1].op = "notify")
  <2>1. CASE k < Len(s)
    BY <1>1, <1>2, <1>3, <2>1 DEF SendShape
  <2>2. CASE k = Len(s)
    BY <1>1, <1>2, <1>3, <2>2 DEF SendShape
  <2>3. CASE k = Len(s) + 1
    BY <1>1, <1>2, <1>3, <2>3 DEF SendShape, Walks
  <2> QED BY <1>1, <2>1, <2>2, <2>3
<1> QED BY <1>3 DEF SendShape, t

\* A call that returns leaves the shape below it.
LEMMA ShapePop ==
  ASSUME NEW s \in Seq(Frame), NEW f \in Frame, SendShape(Append(s, f))
  PROVE SendShape(s)
<1> DEFINE t == Append(s, f)
<1>1. /\ Len(t) = Len(s) + 1 /\ Len(s) \in Nat
      /\ \A k \in 1 .. Len(s) : t[k] = s[k]
  OBVIOUS
<1>2. \A n \in 0 .. Len(s) : Dispatching(t, n) <=> Dispatching(s, n)
  BY DispatchingAppend
<1>3. SendShape(t)
  OBVIOUS
<1> HIDE DEF t
<1> QED BY <1>1, <1>2, <1>3 DEF SendShape

\* Outside of any walk at most the innermost call is about to send.
LEMMA OneSend ==
  ASSUME NEW s \in Seq(Frame), NEW f \in Frame, SendShape(Append(s, f)),
         ~Dispatching(Append(s, f), Len(s) + 1)
  PROVE \A k \in 1 .. Len(s) : s[k].op # "send"
<1> DEFINE t == Append(s, f)
<1>1. /\ Len(t) = Len(s) + 1 /\ Len(s) \in Nat
      /\ \A k \in 1 .. Len(s) : t[k] = s[k]
  OBVIOUS
<1>2. SendShape(t) /\ ~Dispatching(t, Len(t))
  BY <1>1
<1> HIDE DEF t
<1> QED BY <1>1, <1>2 DEF SendShape, Dispatching

HasSend(s) == \E k \in 1 .. Len(s) : s[k].op = "send"

\* A new call adds a send only if it is one.
LEMMA HasSendAppend ==
  ASSUME NEW s \in Seq(Frame), NEW f \in Frame
  PROVE HasSend(Append(s, f)) <=> HasSend(s) \/ f.op = "send"
<1> DEFINE t == Append(s, f)
<1>1. /\ Len(t) = Len(s) + 1 /\ Len(s) \in Nat
      /\ t[Len(s) + 1] = f
      /\ \A k \in 1 .. Len(s) : t[k] = s[k]
  OBVIOUS
<1> HIDE DEF t
<1>2. HasSend(t) <=> HasSend(s) \/ f.op = "send"
  BY <1>1 DEF HasSend
<1> QED BY <1>2 DEF t

\* What is left when the innermost call returns.
LEMMA Returned ==
  ASSUME IInv, stack # <<>>
  PROVE /\ Below \in Seq(Frame) /\ Top \in Frame
        /\ FlagMatches(Below, IF Walks(Top) THEN Top.was_dispatching ELSE dispatching_callbacks)
        /\ SendShape(Below)
        /\ HasSend(Below) => HasSend(stack)
        /\ Top.op = "send" => HasSend(stack)
        /\ Below # <<>> /\ Top.op # "notify" => Below[Len(Below)].op # "send"
        /\ ~dispatching_callbacks => ~HasSend(Below) /\ ~Dispatching(Below, Len(Below))
        /\ Top.op = "send" => ~dispatching_callbacks /\ ~HasSend(Below)
<1>1. Below \in Seq(Frame) /\ Top \in Frame /\ stack = Append(Below, Top)
  BY TopType, StackIsAppend DEF IInv
<1>2. FlagMatches(Append(Below, Top), dispatching_callbacks) /\ SendShape(Append(Below, Top))
  BY <1>1 DEF IInv, DispatchFlag, SendReady
<1>3. FlagMatches(Below, IF Walks(Top) THEN Top.was_dispatching ELSE dispatching_callbacks)
  BY <1>1, <1>2, FlagPop DEF IInv, TypeOK
<1>4. SendShape(Below)
  BY <1>1, <1>2, ShapePop
<1>5. (HasSend(Below) => HasSend(stack)) /\ (Top.op = "send" => HasSend(stack))
  BY <1>1, HasSendAppend
<1>6. /\ Len(stack) = Len(Below) + 1 /\ Len(Below) \in Nat
      /\ stack[Len(stack)] = Top
      /\ \A k \in 1 .. Len(Below) : Below[k] = stack[k]
      /\ Below # <<>> => Len(Below) >= 1
  BY <1>1
<1>7. Below # <<>> /\ Top.op # "notify" => Below[Len(Below)].op # "send"
  BY <1>6 DEF IInv, SendReady, SendShape
<1>8. Top.op = "send" => ~dispatching_callbacks
  BY <1>6 DEF IInv, SendReady, SendShape, DispatchFlag, FlagMatches
<1>9. ~dispatching_callbacks => ~HasSend(Below)
  BY <1>1, <1>2, <1>6, OneSend DEF FlagMatches, HasSend
<1>10. ~dispatching_callbacks => ~Dispatching(Below, Len(Below))
  BY <1>2, <1>6, <1>1 DEF FlagMatches, Dispatching
<1> QED BY <1>1, <1>3, <1>4, <1>5, <1>7, <1>8, <1>9, <1>10

\* A call that is no walk and not about to send is entered.
LEMMA EnterPlain ==
  ASSUME NEW s \in Seq(Frame), NEW op \in Operations \ {"notify", "clear", "send"},
         NEW flag \in BOOLEAN, FlagMatches(s, flag), SendShape(s),
         s # <<>> => s[Len(s)].op # "send"
  PROVE LET t == Append(s, Call(op))
        IN /\ t \in Seq(Frame) /\ FlagMatches(t, flag) /\ SendShape(t)
           /\ HasSend(t) <=> HasSend(s)
           /\ t # <<>> /\ t[Len(t)].op # "send"
<1>1. Call(op) \in Frame /\ Call(op).op = op
  BY CallType DEF Call
<1>2. FlagMatches(Append(s, Call(op)), flag \/ Walks(Call(op)))
  BY <1>1, FlagPush DEF Walks
<1>3. SendShape(Append(s, Call(op)))
  BY <1>1, ShapePush
<1>4. HasSend(Append(s, Call(op))) <=> HasSend(s)
  BY <1>1, HasSendAppend
<1>5. ~Walks(Call(op))
  BY <1>1 DEF Walks
<1>6. FlagMatches(Append(s, Call(op)), flag)
  BY <1>2, <1>5 DEF FlagMatches
<1>7. LET t == Append(s, Call(op)) IN t \in Seq(Frame) /\ t # <<>> /\ t[Len(t)].op # "send"
  BY <1>1
<1> QED BY <1>3, <1>4, <1>6, <1>7

\* notify_callbacks() or clear() is entered: it remembers the flag.
LEMMA EnterWalk ==
  ASSUME NEW s \in Seq(Frame), NEW f \in Frame, Walks(f),
         f.was_dispatching \in BOOLEAN, FlagMatches(s, f.was_dispatching), SendShape(s),
         f.op = "notify" \/ (s # <<>> => s[Len(s)].op # "send")
  PROVE LET t == Append(s, f)
        IN t \in Seq(Frame) /\ FlagMatches(t, TRUE) /\ SendShape(t) /\ (HasSend(t) <=> HasSend(s))
<1>1. FlagMatches(Append(s, f), f.was_dispatching \/ Walks(f))
  BY FlagPush
<1>2. FlagMatches(Append(s, f), TRUE)
  BY <1>1 DEF FlagMatches
<1>3. SendShape(Append(s, f))
  BY ShapePush DEF Walks
<1>4. HasSend(Append(s, f)) <=> HasSend(s)
  BY HasSendAppend DEF Walks
<1>5. Append(s, f) \in Seq(Frame)
  BY AppendType
<1> QED BY <1>2, <1>3, <1>4, <1>5

\* The command on the wire leaves the queue.
LEMMA FrontLeaves ==
  ASSUME TypeOK, SingleFlight, queue # <<>>, queue' = Tail(queue)
  PROVE SingleFlight' /\ ~Executing' /\ queue' \in Seq(QueuedCommand)
<1>1. /\ queue \in Seq(QueuedCommand) /\ Len(queue) \in Nat /\ Len(queue) >= 1
      /\ \A i \in 2 .. Len(queue) : queue[i].state = "PENDING"
  BY DEF TypeOK, SingleFlight
<1>2. \A i \in 1 .. Len(queue') : queue'[i].state = "PENDING"
  BY <1>1
<1>3. queue' \in Seq(QueuedCommand)
  BY FrontType
<1>4. SingleFlight'
  BY <1>2, <1>3 DEF SingleFlight
<1>5. ~Executing'
  <2>1. CASE queue' = <<>>
    BY <2>1 DEF Executing
  <2>2. CASE queue' # <<>>
    <3>1. Head(queue').state = "PENDING"
      BY <1>2, <1>3, <2>2
    <3> QED BY <3>1 DEF Executing
  <2> QED BY <2>1, <2>2
<1> QED BY <1>3, <1>4, <1>5

-----------------------------------------------------------------------------
(* Steps that leave queue_, delay_duration_ms_ and pending_callback_ alone. *)

\* A step that touches neither the queue nor the deferred notification keeps
\* the invariant if the new stack agrees with the flag and starts no send.
LEMMA StackStep ==
  ASSUME IInv, TypeOK', UNCHANGED <<queue, delay_duration_ms, pending_callback>>,
         FlagMatches(stack', dispatching_callbacks'), SendShape(stack'),
         HasSend(stack') => HasSend(stack)
  PROVE IInv'
<1>1. SingleFlight' /\ DeferredSafe'
  BY DEF IInv, SingleFlight, DeferredSafe, Executing
<1>2. DispatchFlag'
  BY DEF DispatchFlag
<1>3. SendReady'
  BY DEF IInv, SendReady, HasSend, Executing
<1> QED BY <1>1, <1>2, <1>3 DEF IInv

\* The innermost call, no walk, returns.
LEMMA PlainReturn ==
  ASSUME IInv, stack # <<>>, ~Walks(Top), stack' = Below, calls' \in Nat,
         UNCHANGED <<queueVars, millis, looped, recovery_left, outstanding>>
  PROVE IInv'
<1>1. TypeOK'
  BY Returned DEF IInv, TypeOK, queueVars
<1> QED BY <1>1, Returned, StackStep DEF queueVars

\* A callback returns.
LEMMA CallbackReturnStep == ASSUME IInv, CallbackReturn PROVE IInv'
<1>1. calls' \in Nat
  BY DEF IInv, TypeOK, CallbackReturn
<1> QED BY <1>1, PlainReturn DEF CallbackReturn, Running, Walks

\* The calls that return without an effect.
LEMMA PlainReturnSteps ==
  ASSUME IInv, \/ TransportUpdateQuiet \/ CheckTimeoutPasses
               \/ ExecuteNextBlocked \/ SendNothing
  PROVE IInv'
<1>1. /\ stack # <<>> /\ ~Walks(Top) /\ stack' = Below
      /\ UNCHANGED <<queueVars, millis, looped, calls, outstanding, recovery_left>>
  BY DEF TransportUpdateQuiet, CheckTimeoutPasses, ExecuteNextBlocked,
         SendNothing, Running, Walks
<1>2. calls' \in Nat
  BY <1>1 DEF IInv, TypeOK
<1> QED BY <1>1, <1>2, PlainReturn

\* notify_callbacks() restores the flag.
LEMMA NotifyDoneStep == ASSUME IInv, NotifyDone PROVE IInv'
<1>1. /\ stack # <<>> /\ Top.op = "notify" /\ Walks(Top) /\ stack' = Below
      /\ dispatching_callbacks' = Top.was_dispatching
  BY DEF NotifyDone, Running, Walks
<1>2. dispatching_callbacks' \in BOOLEAN
  BY <1>1, Returned DEF Frame
<1>3. TypeOK'
  BY <1>1, <1>2, Returned DEF NotifyDone, IInv, TypeOK
<1> QED BY <1>1, <1>3, Returned, StackStep DEF NotifyDone

\* clear() restores the flag and goes on with execute_next().
LEMMA ClearDoneStep == ASSUME IInv, ClearDone PROVE IInv'
<1>1. /\ stack # <<>> /\ Top.op = "clear" /\ Walks(Top)
      /\ stack' = Append(Below, Call("execute_next"))
      /\ dispatching_callbacks' = Top.was_dispatching
  BY DEF ClearDone, Running, Walks, BecomeTop
<1>2. dispatching_callbacks' \in BOOLEAN
  BY <1>1, Returned DEF Frame
<1>3. /\ stack' \in Seq(Frame) /\ FlagMatches(stack', dispatching_callbacks')
      /\ SendShape(stack') /\ (HasSend(stack') => HasSend(stack))
  BY <1>1, <1>2, Returned, EnterPlain DEF Operations
<1>4. TypeOK'
  BY <1>2, <1>3 DEF ClearDone, IInv, TypeOK
<1> QED BY <1>3, <1>4, StackStep DEF ClearDone

\* notify_callbacks() calls a callback.
LEMMA CallCallbackStep == ASSUME IInv, CallCallback PROVE IInv'
<1> DEFINE rest == [Top EXCEPT !.callbacks = Tail(@)]
<1>1. /\ stack # <<>> /\ Top.op = "notify" /\ Walks(Top)
      /\ stack' = Append(Append(Below, rest), Call("callback"))
      /\ UNCHANGED dispatching_callbacks
  BY DEF CallCallback, Running, Walks, BecomeTop, queueVars
<1>2. rest \in Frame /\ rest.op = "notify" /\ rest.was_dispatching = Top.was_dispatching
  <2>1. Tail(Top.callbacks) \in Seq(Requester)
    BY <1>1, Returned DEF CallCallback, Frame
  <2> QED BY <1>1, <2>1, Returned DEF Frame
<1>3. Walks(rest) /\ rest.was_dispatching \in BOOLEAN /\ FlagMatches(Below, rest.was_dispatching)
  BY <1>1, <1>2, Returned DEF Walks, Frame
<1> DEFINE t == Append(Below, rest)
<1>4. t \in Seq(Frame) /\ FlagMatches(t, TRUE) /\ SendShape(t) /\ (HasSend(t) <=> HasSend(Below))
  BY <1>1, <1>2, <1>3, Returned, EnterWalk
<1>5. t # <<>> /\ t[Len(t)] = rest
  BY <1>1, <1>2, Returned
<1>6. dispatching_callbacks = TRUE
  <2>1. Dispatching(stack, Len(stack))
    BY <1>1 DEF Dispatching, Top, Walks, IInv, TypeOK
  <2> QED BY <2>1 DEF IInv, DispatchFlag, FlagMatches, TypeOK
<1> HIDE DEF t, rest
<1>7. /\ stack' \in Seq(Frame) /\ FlagMatches(stack', TRUE)
      /\ SendShape(stack') /\ (HasSend(stack') => HasSend(stack))
  BY <1>1, <1>2, <1>4, <1>5, Returned, EnterPlain DEF Operations, t
<1>8. TypeOK'
  BY <1>7 DEF CallCallback, IInv, TypeOK, queueVars
<1> QED BY <1>1, <1>6, <1>7, <1>8, StackStep DEF CallCallback, queueVars

\* clear() begins the notification of a cancelled command.
LEMMA ClearCancelsStep == ASSUME IInv, ClearCancels PROVE IInv'
<1> DEFINE rest == [Top EXCEPT !.cancelled = Tail(@)]
           note == Notify(Head(Top.cancelled), FALSE)
<1>1. /\ stack # <<>> /\ Top.op = "clear" /\ Walks(Top)
      /\ stack' = Append(Append(Below, rest), note)
      /\ dispatching_callbacks' = TRUE
  BY DEF ClearCancels, Running, Walks, BecomeTop
<1>2. rest \in Frame /\ rest.op = "clear" /\ rest.was_dispatching = Top.was_dispatching
  <2>1. Tail(Top.cancelled) \in Seq(Seq(Requester))
    BY <1>1, Returned DEF ClearCancels, Frame
  <2> QED BY <1>1, <2>1, Returned DEF Frame
<1>3. Walks(rest) /\ rest.was_dispatching \in BOOLEAN /\ FlagMatches(Below, rest.was_dispatching)
  BY <1>1, <1>2, Returned DEF Walks, Frame
<1> DEFINE t == Append(Below, rest)
<1>4. t \in Seq(Frame) /\ FlagMatches(t, TRUE) /\ SendShape(t) /\ (HasSend(t) <=> HasSend(Below))
  BY <1>1, <1>2, <1>3, Returned, EnterWalk
<1>5. dispatching_callbacks = TRUE
  <2>1. Dispatching(stack, Len(stack))
    BY <1>1 DEF Dispatching, Top, Walks, IInv, TypeOK
  <2> QED BY <2>1 DEF IInv, DispatchFlag, FlagMatches, TypeOK
<1>6. note \in Frame /\ Walks(note) /\ note.op = "notify" /\ note.was_dispatching = TRUE
  <2>1. Head(Top.cancelled) \in Seq(Requester)
    BY <1>1, Returned DEF ClearCancels, Frame
  <2> QED BY <1>5, <2>1, NotifyType DEF IInv, Notify, Walks
<1> HIDE DEF t, rest, note
<1>7. /\ stack' \in Seq(Frame) /\ FlagMatches(stack', TRUE)
      /\ SendShape(stack') /\ (HasSend(stack') => HasSend(stack))
  BY <1>1, <1>4, <1>6, Returned, EnterWalk DEF t
<1>8. TypeOK'
  BY <1>1, <1>7 DEF ClearCancels, IInv, TypeOK
<1> QED BY <1>1, <1>7, <1>8, StackStep DEF ClearCancels

\* update() is called with no call in progress.
LEMMA UpdateStep == ASSUME IInv, Update PROVE IInv'
<1> DEFINE a == Append(stack, Call("execute_next"))
           b == Append(a, Call("check_timeout"))
           c == Append(b, Call("transport_update"))
<1>1. stack = <<>> /\ stack' = c /\ UNCHANGED dispatching_callbacks
  BY DEF Update, queueVars
<1>2. /\ stack \in Seq(Frame) /\ FlagMatches(stack, dispatching_callbacks)
      /\ SendShape(stack) /\ ~HasSend(stack) /\ dispatching_callbacks \in BOOLEAN
      /\ stack # <<>> => stack[Len(stack)].op # "send"
  BY <1>1 DEF IInv, DispatchFlag, SendReady, HasSend, TypeOK
<1>3. /\ a \in Seq(Frame) /\ FlagMatches(a, dispatching_callbacks) /\ SendShape(a)
      /\ ~HasSend(a) /\ a[Len(a)].op # "send"
  BY <1>2, EnterPlain DEF Operations
<1> HIDE DEF a
<1>4. /\ b \in Seq(Frame) /\ FlagMatches(b, dispatching_callbacks) /\ SendShape(b)
      /\ ~HasSend(b) /\ b[Len(b)].op # "send"
  BY <1>2, <1>3, EnterPlain DEF Operations
<1> HIDE DEF b
<1>5. c \in Seq(Frame) /\ FlagMatches(c, dispatching_callbacks) /\ SendShape(c) /\ ~HasSend(c)
  BY <1>2, <1>4, EnterPlain DEF Operations
<1> HIDE DEF c
<1>6. TypeOK'
  BY <1>1, <1>5 DEF Update, IInv, TypeOK, queueVars
<1> QED BY <1>1, <1>5, <1>6, StackStep DEF Update, queueVars

\* Time passes.
LEMMA TickStep == ASSUME IInv, Tick PROVE IInv'
<1>1. millis' \in 0 .. ClockWrap - 1
  BY ClockType DEF IInv, TypeOK, Tick
<1>2. recovery_left' \in Nat
  BY DEF IInv, TypeOK, Tick
<1>3. TypeOK'
  BY <1>1, <1>2 DEF IInv, TypeOK, Tick, queueVars
<1> QED BY <1>3, StackStep DEF IInv, Tick, queueVars, DispatchFlag, SendReady

-----------------------------------------------------------------------------
(* Steps on the queue.                                                     *)

\* User code is called from the main loop or from a callback.
LEMMA UserCodeStack ==
  ASSUME IInv, UserCode
  PROVE /\ stack # <<>> => stack[Len(stack)].op # "send"
        /\ calls' \in Nat
  BY DEF UserCode, Running, Top, IInv, TypeOK

\* A command that absorbed a request is a queued command.
LEMMA MergedType ==
  ASSUME TypeOK, NEW req \in Requests, NEW cb \in Seq(Requester), NEW i \in 1 .. Len(queue)
  PROVE [queue[i] EXCEPT !.priority = IF req.priority < @ THEN req.priority ELSE @,
                         !.delay = req.delay, !.callbacks = @ \o cb] \in QueuedCommand
<1>1. queue[i] \in QueuedCommand
  BY DEF TypeOK
<1>2. req.priority \in Priority /\ req.delay \in Nat
  BY ConstantsAssumption DEF ConstantsAssumption
<1>3. queue[i].callbacks \o cb \in Seq(Requester)
  BY <1>1, ConcatProperties DEF QueuedCommand
<1> QED BY <1>1, <1>2, <1>3 DEF QueuedCommand

\* enqueue() merges a request into a pending command: the wire is untouched.
LEMMA EnqueueDuplicateStep ==
  ASSUME IInv, NEW req \in Requests, NEW cb \in Seq(Requester),
         EnqueueDuplicate(req, cb), outstanding' \subseteq Requester
  PROVE IInv' /\ (Executing' => Executing)
<1>1. PICK i \in 1 .. Len(queue) :
        /\ IsDuplicate(i, req.command)
        /\ queue' = [queue EXCEPT
             ![i].priority = IF req.priority < @ THEN req.priority ELSE @,
             ![i].delay = req.delay,
             ![i].callbacks = @ \o cb]
  BY DEF EnqueueDuplicate
<1> DEFINE merged == [queue[i] EXCEPT
             !.priority = IF req.priority < @ THEN req.priority ELSE @,
             !.delay = req.delay, !.callbacks = @ \o cb]
<1>2. merged \in QueuedCommand /\ merged.state = "PENDING"
  <2>1. queue[i] \in QueuedCommand /\ queue[i].state = "PENDING"
    BY <1>1 DEF IsDuplicate, IInv, TypeOK
  <2> QED BY <2>1, MergedType DEF IInv, QueuedCommand
<1>3. queue' = [queue EXCEPT ![i] = merged]
  BY <1>1, <1>2 DEF IInv, TypeOK, QueuedCommand
<1> HIDE DEF merged
<1>4. queue' \in Seq(QueuedCommand)
  BY <1>2, <1>3, ExceptType DEF IInv, TypeOK
<1>5. SingleFlight'
  BY <1>2, <1>3 DEF IInv, TypeOK, SingleFlight
<1>6. Executing' => Executing
  BY <1>2, <1>3 DEF IInv, TypeOK, Executing
<1>7. TypeOK'
  BY <1>4, UserCodeStack DEF EnqueueDuplicate, IInv, TypeOK
<1>8. DeferredSafe' /\ DispatchFlag' /\ SendReady'
  BY <1>6 DEF EnqueueDuplicate, IInv, DeferredSafe, DispatchFlag, SendReady
<1> QED BY <1>5, <1>6, <1>7, <1>8 DEF IInv

\* enqueue() appends a pending command: the wire is untouched.
LEMMA EnqueueNewStep ==
  ASSUME IInv, NEW req \in Requests, NEW cb \in Seq(Requester),
         EnqueueNew(req, cb), outstanding' \subseteq Requester
  PROVE IInv' /\ (Executing' => Executing)
<1> DEFINE new == [command |-> req.command, callbacks |-> cb, state |-> "PENDING",
                   priority |-> req.priority, delay |-> req.delay,
                   enqueued_time |-> millis, sent_time |-> 0]
<1>1. new \in QueuedCommand /\ new.state = "PENDING"
  BY ConstantsAssumption DEF ConstantsAssumption, QueuedCommand, IInv, TypeOK
<1>2. queue' = Append(queue, new)
  BY DEF EnqueueNew
<1> HIDE DEF new
<1>3. queue' \in Seq(QueuedCommand)
  BY <1>1, <1>2, AppendType DEF IInv, TypeOK
<1>4. SingleFlight'
  BY <1>1, <1>2 DEF IInv, TypeOK, SingleFlight
<1>5. Executing' => Executing
  BY <1>1, <1>2 DEF IInv, TypeOK, Executing
<1>6. /\ stack' \in Seq(Frame) /\ FlagMatches(stack', dispatching_callbacks)
      /\ SendShape(stack') /\ (HasSend(stack') => HasSend(stack))
  <2>1. /\ stack \in Seq(Frame) /\ FlagMatches(stack, dispatching_callbacks)
        /\ SendShape(stack) /\ dispatching_callbacks \in BOOLEAN
    BY DEF IInv, TypeOK, DispatchFlag, SendReady
  <2>2. (stack # <<>> => stack[Len(stack)].op # "send") /\ stack' = Append(stack, Call("execute_next"))
    BY UserCodeStack DEF EnqueueNew
  <2> QED BY <2>1, <2>2, EnterPlain DEF Operations
<1>7. TypeOK'
  BY <1>3, <1>6, UserCodeStack DEF EnqueueNew, IInv, TypeOK
<1>8. DeferredSafe' /\ DispatchFlag' /\ SendReady'
  BY <1>5, <1>6 DEF EnqueueNew, IInv, DeferredSafe, DispatchFlag, SendReady, HasSend
<1> QED BY <1>4, <1>5, <1>7, <1>8 DEF IInv

\* enqueue() keeps the invariant and puts nothing on the wire itself.
LEMMA EnqueueStep == ASSUME IInv, Enqueue PROVE IInv' /\ (Executing' => Executing)
<1>1. PICK req \in Requests, cb \in {<<>>} \cup {<<r>> : r \in Requester \ outstanding} :
        /\ EnqueueDuplicate(req, cb) \/ EnqueueNew(req, cb)
        /\ outstanding' = outstanding \cup {cb[k] : k \in DOMAIN cb}
  BY DEF Enqueue
<1>2. cb \in Seq(Requester)
  <2>1. CASE cb = <<>>
    BY <2>1
  <2>2. ASSUME NEW r \in Requester, cb = <<r>>
        PROVE cb \in Seq(Requester)
    BY <2>2
  <2> QED BY <2>1, <2>2
<1>3. outstanding' \subseteq Requester
  BY <1>1, <1>2 DEF IInv, TypeOK
<1> QED BY <1>1, <1>2, <1>3, EnqueueDuplicateStep, EnqueueNewStep

\* clear() keeps the invariant and the command on the wire.
LEMMA ClearStep == ASSUME IInv, Clear PROVE IInv' /\ (Executing' => Executing)
<1>1. TypeOK'
  BY TypeClear DEF IInv
<1> DEFINE kept == IF Executing THEN 1 ELSE 0
           walk == ClearCall([i \in 1 .. Len(queue) - kept |-> queue[i + kept].callbacks])
<1>2. queue' = SubSeq(queue, 1, kept) /\ stack' = Append(stack, walk) /\ Len(queue) \in Nat /\ Len(queue) >= 1
  BY DEF Clear, IInv, TypeOK
<1>3. Len(queue') = kept /\ kept \in 0 .. 1
  BY <1>2 DEF IInv, TypeOK
<1>4. SingleFlight' /\ (Executing' => Executing)
  BY <1>1, <1>2, <1>3 DEF SingleFlight, Executing, TypeOK
<1>5. Walks(walk) /\ walk.was_dispatching = dispatching_callbacks /\ walk.op # "notify"
  BY DEF ClearCall, Walks
<1> HIDE DEF walk
<1>6. walk \in Frame
  <2>1. stack' \in Seq(Frame) /\ stack'[Len(stack')] = walk /\ Len(stack') \in 1 .. Len(stack')
    BY <1>1, <1>2 DEF TypeOK, IInv
  <2> QED BY <2>1
<1>7. /\ FlagMatches(stack', TRUE) /\ SendShape(stack') /\ (HasSend(stack') <=> HasSend(stack))
  <2>1. /\ stack \in Seq(Frame) /\ FlagMatches(stack, dispatching_callbacks)
        /\ SendShape(stack) /\ dispatching_callbacks \in BOOLEAN
    BY DEF IInv, TypeOK, DispatchFlag, SendReady
  <2>2. stack # <<>> => stack[Len(stack)].op # "send"
    BY UserCodeStack DEF Clear
  <2> QED BY <1>2, <1>5, <1>6, <2>1, <2>2, EnterWalk
<1>8. DeferredSafe' /\ DispatchFlag' /\ SendReady'
  BY <1>4, <1>7 DEF Clear, IInv, DeferredSafe, DispatchFlag, SendReady, HasSend
<1> QED BY <1>1, <1>4, <1>8 DEF IInv

\* A command on the wire ends; its callbacks are told at once.
LEMMA TellsNow ==
  ASSUME IInv, Executing, queue' = Tail(queue), UNCHANGED pending_callback,
         NEW rest \in Seq(Frame), NEW success \in BOOLEAN,
         FlagMatches(rest, dispatching_callbacks), SendShape(rest),
         rest # <<>> => rest[Len(rest)].op # "send",
         stack' = Append(Append(rest, Call("execute_next")),
                         Notify(Head(queue).callbacks, success)),
         dispatching_callbacks' = TRUE,
         delay_started_ms' \in 0 .. ClockWrap - 1, delay_duration_ms' \in Nat,
         recovery_left' \in Nat, UNCHANGED <<millis, looped, calls, outstanding>>
  PROVE IInv' /\ ~Executing'
<1>1. SingleFlight' /\ ~Executing' /\ queue' \in Seq(QueuedCommand)
  BY FrontLeaves DEF IInv, Executing
<1> DEFINE next == Append(rest, Call("execute_next"))
           note == Notify(Head(queue).callbacks, success)
<1>2. /\ next \in Seq(Frame) /\ FlagMatches(next, dispatching_callbacks) /\ SendShape(next)
      /\ dispatching_callbacks \in BOOLEAN
  BY EnterPlain DEF Operations, IInv, TypeOK
<1>3. /\ note \in Frame /\ Walks(note) /\ note.op = "notify"
      /\ note.was_dispatching = dispatching_callbacks
  <2>1. Head(queue).callbacks \in Seq(Requester)
    BY FrontType DEF IInv, Executing, QueuedCommand
  <2> QED BY <2>1, NotifyType DEF IInv, Notify, Walks
<1>4. stack' = Append(next, note)
  OBVIOUS
<1> HIDE DEF next, note
<1>5. stack' \in Seq(Frame) /\ FlagMatches(stack', TRUE) /\ SendShape(stack')
  BY <1>2, <1>3, <1>4, EnterWalk
<1>6. pending_callback = <<>>
  BY DEF IInv, DeferredSafe
<1>7. TypeOK'
  BY <1>1, <1>5 DEF IInv, TypeOK
<1> QED BY <1>1, <1>5, <1>6, <1>7 DEF IInv, DeferredSafe, DispatchFlag, SendReady

\* The types of what a completion takes from the front command.
LEMMA ExecutingDelay ==
  ASSUME IInv, Executing
  PROVE /\ Head(queue).delay \in Nat /\ Head(queue).callbacks \in Seq(Requester)
        /\ millis \in 0 .. ClockWrap - 1
  BY FrontType DEF IInv, Executing, QueuedCommand, TypeOK

\* With no call in progress the flag is down.
LEMMA EmptyStack ==
  ASSUME IInv, stack = <<>>
  PROVE /\ stack \in Seq(Frame) /\ FlagMatches(stack, dispatching_callbacks)
        /\ SendShape(stack) /\ ~HasSend(stack) /\ dispatching_callbacks \in BOOLEAN
        /\ stack # <<>> => stack[Len(stack)].op # "send"
  BY DEF IInv, TypeOK, DispatchFlag, SendReady, HasSend

\* on_error() takes the command off the wire.
LEMMA OnErrorStep == ASSUME IInv, NEW t \in Types, OnError(t) PROVE IInv' /\ ~Executing'
  BY EmptyStack, ExecutingDelay, TellsNow DEF OnError, Fail

\* An error reported by transport_->update() takes the command off the wire.
LEMMA TransportUpdateErrorStep ==
  ASSUME IInv, NEW t \in Types, TransportUpdateError(t) PROVE IInv' /\ ~Executing'
<1>1. stack # <<>> /\ Top.op = "transport_update" /\ ~Walks(Top)
  BY DEF TransportUpdateError, Running, Walks
<1>2. /\ Below \in Seq(Frame) /\ FlagMatches(Below, dispatching_callbacks) /\ SendShape(Below)
      /\ Below # <<>> => Below[Len(Below)].op # "send"
  BY <1>1, Returned
<1> QED BY <1>2, ExecutingDelay, TellsNow DEF TransportUpdateError, Fail

\* A time-out takes the command off the wire.
LEMMA CheckTimeoutExpiresStep == ASSUME IInv, CheckTimeoutExpires PROVE IInv' /\ ~Executing'
<1>1. stack # <<>> /\ Top.op = "check_timeout" /\ ~Walks(Top) /\ Executing
  BY DEF CheckTimeoutExpires, Running, Walks, TimedOut
<1>2. /\ Below \in Seq(Frame) /\ FlagMatches(Below, dispatching_callbacks) /\ SendShape(Below)
      /\ Below # <<>> => Below[Len(Below)].op # "send"
  BY <1>1, Returned
<1>3. /\ delay_started_ms' \in 0 .. ClockWrap - 1 /\ delay_duration_ms' \in Nat
      /\ recovery_left' \in Nat
  BY DEF CheckTimeoutExpires, IInv, TypeOK
<1> QED BY <1>1, <1>2, <1>3, TellsNow DEF CheckTimeoutExpires, BecomeTop

\* on_response() takes the command off the wire and tells its callbacks now or
\* defers them.
LEMMA OnResponseStep == ASSUME IInv, NEW t \in Types, OnResponse(t) PROVE IInv' /\ ~Executing'
<1>1. /\ stack = <<>> /\ Executing /\ queue' = Tail(queue)
      /\ delay_started_ms' = millis /\ delay_duration_ms' = Head(queue).delay
      /\ recovery_left' = Head(queue).delay
      /\ UNCHANGED <<millis, looped, calls, outstanding>>
  BY DEF OnResponse
<1>4. /\ ~(Head(queue).delay > 0) => 
            /\ stack' = Append(Append(stack, Call("execute_next")), Notify(Head(queue).callbacks, TRUE))
            /\ dispatching_callbacks' = TRUE /\ UNCHANGED pending_callback
      /\ Head(queue).delay # 0 =>
            /\ pending_callback' = <<Head(queue).callbacks>>
            /\ stack' = Append(stack, Call("execute_next"))
            /\ UNCHANGED dispatching_callbacks
  BY Zenon DEF OnResponse
<1>5. Head(queue).delay \in Nat
  BY <1>1, ExecutingDelay
<1>2. CASE Head(queue).delay = 0
  <2>0. ~(Head(queue).delay > 0)
    BY <1>2, <1>5
  <2>1. /\ stack' = Append(Append(stack, Call("execute_next")), Notify(Head(queue).callbacks, TRUE))
        /\ dispatching_callbacks' = TRUE /\ UNCHANGED pending_callback
    BY <2>0, <1>4
  <2> QED BY <1>1, <2>1, EmptyStack, ExecutingDelay, TellsNow
<1>3. CASE Head(queue).delay > 0
  <2>1. /\ pending_callback' = <<Head(queue).callbacks>>
        /\ stack' = Append(stack, Call("execute_next")) /\ UNCHANGED dispatching_callbacks
    BY <1>3, <1>4, <1>5
  <2>2. SingleFlight' /\ ~Executing' /\ queue' \in Seq(QueuedCommand)
    BY <1>1, FrontLeaves DEF IInv, Executing
  <2>3. /\ stack' \in Seq(Frame) /\ FlagMatches(stack', dispatching_callbacks')
        /\ SendShape(stack') /\ ~HasSend(stack')
    <3>1. /\ stack \in Seq(Frame) /\ FlagMatches(stack, dispatching_callbacks)
          /\ SendShape(stack) /\ ~HasSend(stack) /\ dispatching_callbacks \in BOOLEAN
          /\ stack # <<>> => stack[Len(stack)].op # "send"
      BY <1>1, EmptyStack
    <3> QED BY <2>1, <3>1, EnterPlain DEF Operations
  <2>4. pending_callback' \in Seq(Seq(Requester)) /\ Len(pending_callback') <= 1
    BY <1>1, <2>1, ExecutingDelay
  <2>5. TypeOK'
    BY <1>1, <2>1, <2>2, <2>3, <2>4, ExecutingDelay DEF IInv, TypeOK
  <2>6. DeferredSafe'
    BY <1>1, <1>3, <2>2 DEF DeferredSafe
  <2>7. DispatchFlag' /\ SendReady'
    BY <2>3 DEF DispatchFlag, SendReady, HasSend
  <2> QED BY <2>2, <2>5, <2>6, <2>7 DEF IInv
<1> QED BY <1>1, <1>2, <1>3, ExecutingDelay

\* execute_next() passes its early returns outside of any walk.
LEMMA ExecuteNextProceedsStep == ASSUME IInv, ExecuteNextProceeds PROVE IInv'
<1>1. /\ stack # <<>> /\ Top.op = "execute_next" /\ ~Walks(Top) /\ ~dispatching_callbacks
      /\ ~Executing /\ delay_duration_ms' = 0 /\ pending_callback' = <<>>
      /\ UNCHANGED <<queue, delay_started_ms, millis, looped, calls, outstanding, recovery_left>>
  BY DEF ExecuteNextProceeds, Running, Walks, Blocked
<1> DEFINE send == Append(Below, Call("send"))
<1>2. /\ Below \in Seq(Frame) /\ FlagMatches(Below, FALSE) /\ SendShape(Below)
      /\ Below # <<>> => Below[Len(Below)].op # "send"
      /\ ~Dispatching(Below, Len(Below))
  <2>1. dispatching_callbacks = FALSE
    BY <1>1 DEF IInv, TypeOK
  <2> QED BY <1>1, <2>1, Returned
<1>3. send \in Seq(Frame) /\ FlagMatches(send, FALSE) /\ SendShape(send)
  <2>1. Call("send") \in Frame /\ Call("send").op = "send" /\ ~Walks(Call("send"))
    BY CallType DEF Call, Walks, Operations
  <2>2. FlagMatches(send, FALSE \/ Walks(Call("send")))
    BY <1>2, <2>1, FlagPush
  <2>3. FlagMatches(send, FALSE)
    BY <2>1, <2>2 DEF FlagMatches
  <2>4. SendShape(send)
    BY <1>2, <2>1, ShapePush
  <2> QED BY <1>2, <2>1, <2>3, <2>4, AppendType
<1> HIDE DEF send
<1>4. /\ stack' \in Seq(Frame) /\ FlagMatches(stack', dispatching_callbacks')
      /\ SendShape(stack') /\ dispatching_callbacks' \in BOOLEAN
  <2>1. CASE pending_callback = <<>>
    BY <1>1, <1>3, <2>1 DEF ExecuteNextProceeds, BecomeTop, send, IInv, TypeOK
  <2>2. CASE pending_callback # <<>>
    <3> DEFINE note == Notify(Head(pending_callback), TRUE)
    <3>1. stack' = Append(send, note) /\ dispatching_callbacks' = TRUE
      BY <2>2 DEF ExecuteNextProceeds, BecomeTop, send
    <3>2. Head(pending_callback) \in Seq(Requester)
      BY <2>2 DEF IInv, TypeOK
    <3>3. note \in Frame /\ Walks(note) /\ note.op = "notify" /\ note.was_dispatching = FALSE
      BY <1>1, <3>2, NotifyType DEF IInv, TypeOK, Notify, Walks
    <3> HIDE DEF note
    <3> QED BY <1>3, <3>1, <3>3, EnterWalk
  <2> QED BY <2>1, <2>2
<1>5. TypeOK'
  BY <1>1, <1>4 DEF IInv, TypeOK
<1>6. SingleFlight' /\ DeferredSafe' /\ DispatchFlag' /\ SendReady'
  BY <1>1, <1>4 DEF IInv, SingleFlight, DeferredSafe, DispatchFlag, SendReady, Executing
<1> QED BY <1>5, <1>6 DEF IInv

\* A send puts the front command, and no other, on the wire.
LEMMA SendStep == ASSUME IInv, Send PROVE IInv'
<1>1. /\ stack # <<>> /\ Top.op = "send" /\ ~Walks(Top) /\ stack' = Below /\ queue # <<>>
      /\ UNCHANGED <<delay_duration_ms, dispatching_callbacks, pending_callback>>
  BY DEF Send, Running, Walks
<1>2. pending_callback = <<>> /\ ~Executing /\ ~HasSend(Below)
  BY <1>1, Returned DEF IInv, SendReady, HasSend
<1>3. TypeOK'
  BY TypeSend DEF IInv
<1>4. PICK best \in 1 .. Len(queue) :
        queue' = [MoveToFront(best) EXCEPT ![1].state = "EXECUTING", ![1].sent_time = millis]
  BY DEF Send
<1>5. \A k \in 1 .. Len(queue) : queue[k].state = "PENDING"
  <2>1. queue \in Seq(QueuedCommand) /\ Len(queue) \in Nat /\ queue[1] = Head(queue)
    BY <1>1 DEF IInv, TypeOK
  <2>2. queue[1].state = "PENDING"
    <3>1. Head(queue) \in QueuedCommand
      BY <1>1, FrontType DEF IInv
    <3> QED BY <1>1, <1>2, <2>1, <3>1 DEF Executing, QueuedCommand
  <2> QED BY <2>1, <2>2 DEF IInv, SingleFlight
<1>6. SingleFlight'
  <2>1. \A k \in 2 .. Len(queue) : MoveToFront(best)[k].state = "PENDING"
    BY <1>5 DEF MoveToFront, IInv, TypeOK
  <2>2. Len(queue') = Len(queue) /\ \A k \in 2 .. Len(queue) : queue'[k] = MoveToFront(best)[k]
    BY <1>4, SentQueue DEF IInv
  <2> QED BY <2>1, <2>2 DEF SingleFlight
<1>7. DeferredSafe' /\ DispatchFlag' /\ SendReady'
  BY <1>1, <1>2, Returned DEF DeferredSafe, DispatchFlag, SendReady, HasSend
<1> QED BY <1>3, <1>6, <1>7 DEF IInv

-----------------------------------------------------------------------------
(* The theorems.                                                           *)

\* The queue is constructed with the invariant.
LEMMA InitInvariant == Init => IInv
<1> SUFFICES ASSUME Init PROVE IInv
  OBVIOUS
<1>1. TypeOK
  <2>1. 0 \in 0 .. ClockWrap - 1
    BY ConstantsAssumption DEF ConstantsAssumption
  <2>2. <<>> \in Seq(QueuedCommand) /\ <<>> \in Seq(Seq(Requester)) /\ <<>> \in Seq(Frame)
        /\ Len(<<>>) <= 1
    OBVIOUS
  <2> QED BY <2>1, <2>2 DEF Init, TypeOK
<1>2. SingleFlight /\ DeferredSafe
  BY DEF Init, SingleFlight, DeferredSafe
<1>3. DispatchFlag
  BY DEF Init, DispatchFlag, FlagMatches, Dispatching
<1>4. SendReady
  BY DEF Init, SendReady, SendShape
<1> QED BY <1>1, <1>2, <1>3, <1>4 DEF IInv

\* Every step keeps the invariant.
LEMMA StepInvariant == IInv /\ [Next]_vars => IInv'
<1> SUFFICES ASSUME IInv, [Next]_vars PROVE IInv'
  OBVIOUS
<1>1. CASE Enqueue BY <1>1, EnqueueStep
<1>2. CASE Clear BY <1>2, ClearStep
<1>3. CASE Update BY <1>3, UpdateStep
<1>4. CASE Tick BY <1>4, TickStep
<1>5. CASE Internal
  <2>1. CASE CheckTimeoutExpires BY <2>1, CheckTimeoutExpiresStep
  <2>2. CASE CallCallback BY <2>2, CallCallbackStep
  <2>3. CASE CallbackReturn BY <2>3, CallbackReturnStep
  <2>4. CASE NotifyDone BY <2>4, NotifyDoneStep
  <2>5. CASE ClearCancels BY <2>5, ClearCancelsStep
  <2>6. CASE ClearDone BY <2>6, ClearDoneStep
  <2>7. CASE ExecuteNextProceeds BY <2>7, ExecuteNextProceedsStep
  <2>8. CASE Send BY <2>8, SendStep
  <2>9. CASE TransportUpdateQuiet \/ CheckTimeoutPasses \/ ExecuteNextBlocked \/ SendNothing
    BY <2>9, PlainReturnSteps
  <2> QED BY <1>5, <2>1, <2>2, <2>3, <2>4, <2>5, <2>6, <2>7, <2>8, <2>9 DEF Internal
<1>6. CASE \E t \in Types : OnResponse(t) \/ OnError(t) \/ TransportUpdateError(t)
  BY <1>6, OnResponseStep, OnErrorStep, TransportUpdateErrorStep
<1>7. CASE UNCHANGED vars
  BY <1>7 DEF vars, queueVars, IInv, TypeOK, SingleFlight, DeferredSafe, Executing,
     DispatchFlag, FlagMatches, Dispatching, SendReady, SendShape
<1> QED BY <1>1, <1>2, <1>3, <1>4, <1>5, <1>6, <1>7 DEF Next

\* The queue keeps its inductive invariant: in particular what happens in a
\* deferred notification neither sends a command nor defers another one.
THEOREM Invariance == Spec => []IInv
  BY InitInvariant, StepInvariant, PTL DEF Spec

\* Every variable keeps its type.
THEOREM TypeCorrectness == Spec => []TypeOK
<1>1. IInv => TypeOK
  BY DEF IInv
<1> QED BY <1>1, Invariance, PTL

\* Whatever callbacks enqueue or clear, one command at most is on the wire and
\* it is the front one.
THEOREM OneOnTheWire == Spec => []SingleFlight
<1>1. IInv => SingleFlight
  BY DEF IInv
<1> QED BY <1>1, Invariance, PTL

\* No response can overwrite a success notification that waits for its
\* recovery delay.
THEOREM NoOverwrite == Spec => []DeferredSafe
<1>1. IInv => DeferredSafe
  BY DEF IInv
<1> QED BY <1>1, Invariance, PTL

\* Saved and restored by calls nested to any depth, the dispatching flag says
\* exactly whether a list of callbacks is being walked.
THEOREM FlagCorrect == Spec => []DispatchFlag
<1>1. IInv => DispatchFlag
  BY DEF IInv
<1> QED BY <1>1, Invariance, PTL

-----------------------------------------------------------------------------
(* Sends.                                                                  *)

\* Only the send of execute_next() puts a command on the wire.
LEMMA OnlySendSends == ASSUME IInv, Next, Sends PROVE Send
<1>1. ~Executing /\ Executing'
  BY DEF Sends
<1>2. ~Enqueue /\ ~Clear
  BY <1>1, EnqueueStep, ClearStep
<1>3. ~(\E t \in Types : OnResponse(t) \/ OnError(t) \/ TransportUpdateError(t))
  BY <1>1, OnResponseStep, OnErrorStep, TransportUpdateErrorStep
<1>4. ~CheckTimeoutExpires
  BY <1>1, CheckTimeoutExpiresStep
<1>5. queue' # queue
  BY <1>1 DEF Executing
<1>6. ~Update /\ ~Tick /\ ~TransportUpdateQuiet /\ ~CheckTimeoutPasses /\ ~CallCallback
      /\ ~CallbackReturn /\ ~NotifyDone /\ ~ClearCancels /\ ~ClearDone
      /\ ~ExecuteNextBlocked /\ ~ExecuteNextProceeds /\ ~SendNothing
  BY <1>5 DEF Update, Tick, TransportUpdateQuiet, CheckTimeoutPasses, CallCallback,
     CallbackReturn, NotifyDone, ClearCancels, ClearDone, ExecuteNextBlocked,
     ExecuteNextProceeds, SendNothing, queueVars
<1> QED BY <1>2, <1>3, <1>4, <1>6 DEF Next, Internal

\* A send happens outside of any walk.
LEMMA SendOutsideWalks == ASSUME IInv, Send PROVE ~Dispatching(stack, Len(stack))
<1>1. stack # <<>> /\ Top.op = "send"
  BY DEF Send, Running
<1>2. ~dispatching_callbacks
  BY <1>1, Returned
<1> QED BY <1>2 DEF IInv, DispatchFlag, FlagMatches

\* No command is sent before every list of callbacks being walked has been
\* walked to its end, re-entrant enqueue() and clear() calls included.
THEOREM QuietDispatch == Spec => NoSendWhileNotifying
<1>1. IInv /\ [Next]_vars => [Sends => ~Dispatching(stack, Len(stack))]_vars
  BY OnlySendSends, SendOutsideWalks
<1> QED BY <1>1, Invariance, PTL DEF Spec, NoSendWhileNotifying

-----------------------------------------------------------------------------
(* Recovery delays.                                                        *)

\* Where a delay has ticks left, execute_next() sees it running, and no call
\* has passed its early returns.
DelayInv ==
  recovery_left > 0 =>
    /\ Elapsed(delay_started_ms) + recovery_left <= delay_duration_ms
    /\ ~HasSend(stack)

\* The distance from a fixed time to a clock that wraps grows by one per tick
\* or starts again from zero.
LEMMA ElapsedTick ==
  ASSUME NEW now \in 0 .. ClockWrap - 1, NEW since \in 0 .. ClockWrap - 1
  PROVE /\ (now - since) % ClockWrap \in Nat
        /\ (((now + 1) % ClockWrap) - since) % ClockWrap <= ((now - since) % ClockWrap) + 1
<1>1. ClockWrap \in Nat /\ ClockWrap > 0
  BY ConstantsAssumption DEF ConstantsAssumption
<1> QED BY <1>1

\* The distance from now is zero.
LEMMA ElapsedNow ==
  ASSUME NEW now \in 0 .. ClockWrap - 1
  PROVE (now - now) % ClockWrap = 0
<1>1. ClockWrap \in Nat /\ ClockWrap > 0
  BY ConstantsAssumption DEF ConstantsAssumption
<1> QED BY <1>1

\* A call that is no send adds none.
LEMMA NoSendPushed ==
  ASSUME NEW S, NEW s \in Seq(S), NEW f, f.op # "send", ~HasSend(s)
  PROVE Append(s, f) \in Seq(S \cup {f}) /\ ~HasSend(Append(s, f))
<1> DEFINE t == Append(s, f)
<1>1. /\ t \in Seq(S \cup {f}) /\ Len(t) = Len(s) + 1 /\ Len(s) \in Nat
      /\ t[Len(s) + 1] = f
      /\ \A k \in 1 .. Len(s) : t[k] = s[k]
  OBVIOUS
<1> HIDE DEF t
<1>2. t \in Seq(S \cup {f}) /\ ~HasSend(t)
  BY <1>1 DEF HasSend
<1> QED BY <1>2 DEF t

\* Nor do two of them.
LEMMA NoSendPushedTwo ==
  ASSUME NEW s \in Seq(Frame), NEW f, NEW g, f.op # "send", g.op # "send", ~HasSend(s)
  PROVE ~HasSend(Append(Append(s, f), g))
<1>1. Append(s, f) \in Seq(Frame \cup {f}) /\ ~HasSend(Append(s, f))
  BY NoSendPushed
<1> HIDE DEF HasSend
<1> QED BY <1>1, NoSendPushed

\* Only execute_next() comes to its send.
LEMMA NoSendEntered ==
  ASSUME IInv, Next, ~ExecuteNextProceeds, ~HasSend(stack)
  PROVE ~HasSend(stack')
<1>1. stack \in Seq(Frame)
  BY DEF IInv, TypeOK
<1>2. stack # <<>> => Below \in Seq(Frame) /\ ~HasSend(Below)
  BY Returned
<1>3. \A op \in Operations \ {"send"} : Call(op).op # "send"
  BY DEF Call
<1>4. /\ \A cbs, ok : Notify(cbs, ok).op # "send"
      /\ \A lists : ClearCall(lists).op # "send"
  BY DEF Notify, ClearCall
<1>5. CASE Enqueue
  <2>1. UNCHANGED stack \/ stack' = Append(stack, Call("execute_next"))
    BY <1>5 DEF Enqueue, EnqueueDuplicate, EnqueueNew
  <2>2. ~HasSend(Append(stack, Call("execute_next")))
    BY <1>1, <1>3, NoSendPushed DEF Operations
  <2> QED BY <2>1, <2>2 DEF HasSend
<1>6. CASE Clear
  <2>1. PICK lists : stack' = Append(stack, ClearCall(lists))
    BY <1>6 DEF Clear
  <2> QED BY <2>1, <1>1, <1>4, NoSendPushed
<1>7. CASE Update
  BY <1>7 DEF Update, HasSend, Call
<1>8. CASE Tick
  BY <1>8 DEF Tick, HasSend
<1>9. CASE \E t \in Types : OnResponse(t)
  <2>1. \/ stack' = Append(stack, Call("execute_next"))
        \/ \E cbs : stack' = Append(Append(stack, Call("execute_next")), Notify(cbs, TRUE))
    BY <1>9 DEF OnResponse
  <2> QED BY <2>1, <1>1, <1>3, <1>4, NoSendPushed, NoSendPushedTwo DEF Operations
<1>10. CASE \E t \in Types : OnError(t)
  <2>1. \E cbs : stack' = Append(Append(stack, Call("execute_next")), Notify(cbs, FALSE))
    BY <1>10 DEF OnError, Fail
  <2> QED BY <2>1, <1>1, <1>3, <1>4, NoSendPushedTwo DEF Operations
<1>11. CASE (\E t \in Types : TransportUpdateError(t)) \/ CheckTimeoutExpires
  <2>1. /\ \E cbs : stack' = Append(Append(Below, Call("execute_next")), Notify(cbs, FALSE))
        /\ stack # <<>>
    BY <1>11 DEF TransportUpdateError, Fail, CheckTimeoutExpires, BecomeTop, Running
  <2> QED BY <2>1, <1>2, <1>3, <1>4, NoSendPushedTwo DEF Operations
<1>12. CASE TransportUpdateQuiet \/ CheckTimeoutPasses \/ CallbackReturn \/ NotifyDone
            \/ ExecuteNextBlocked \/ SendNothing \/ Send
  <2>1. stack # <<>> /\ stack' = Below
    BY <1>12 DEF TransportUpdateQuiet, CheckTimeoutPasses, CallbackReturn, NotifyDone,
       ExecuteNextBlocked, SendNothing, Send, Running
  <2> QED BY <2>1, <1>2
<1>13. CASE CallCallback \/ ClearCancels
  <2>1. stack # <<>> /\ Top \in Frame /\ Top.op \in {"notify", "clear"}
    BY <1>13, Returned DEF CallCallback, ClearCancels, Running
  <2>2. \E f, g : /\ f.op = Top.op /\ g.op # "send"
                  /\ stack' = Append(Append(Below, f), g)
    <3>1. CASE CallCallback
      <4> DEFINE f == [Top EXCEPT !.callbacks = Tail(@)]
      <4>1. stack' = Append(Append(Below, f), Call("callback"))
        BY <3>1 DEF CallCallback, BecomeTop
      <4>2. f.op = Top.op
        BY <2>1 DEF Frame
      <4>3. Call("callback").op # "send"
        BY <1>3 DEF Operations
      <4> QED BY <4>1, <4>2, <4>3
    <3>2. CASE ClearCancels
      <4> DEFINE f == [Top EXCEPT !.cancelled = Tail(@)]
      <4>1. stack' = Append(Append(Below, f), Notify(Head(Top.cancelled), FALSE))
        BY <3>2 DEF ClearCancels, BecomeTop
      <4>2. f.op = Top.op
        BY <2>1 DEF Frame
      <4> QED BY <4>1, <4>2, <1>4
    <3> QED BY <1>13, <3>1, <3>2
  <2> QED BY <2>1, <2>2, <1>2, NoSendPushedTwo
<1>14. CASE ClearDone
  <2>1. stack # <<>> /\ stack' = Append(Below, Call("execute_next"))
    BY <1>14 DEF ClearDone, BecomeTop, Running
  <2> QED BY <2>1, <1>2, <1>3, NoSendPushed DEF Operations
<1> QED BY <1>5, <1>6, <1>7, <1>8, <1>9, <1>10, <1>11, <1>12, <1>13, <1>14 DEF Next, Internal

\* Nothing is about to be sent while a command is on the wire.
LEMMA ExecutingNoSend == ASSUME IInv, Executing PROVE ~HasSend(stack)
  BY DEF IInv, SendReady, HasSend

\* A completion starts the delay of its command.
LEMMA DelayStarts ==
  ASSUME IInv, DelayInv, NEW t \in Types,
         OnResponse(t) \/ OnError(t) \/ TransportUpdateError(t)
  PROVE DelayInv'
<1>1. /\ Executing /\ delay_started_ms' = millis /\ millis' = millis
      /\ delay_duration_ms' = Head(queue).delay /\ recovery_left' = Head(queue).delay
  BY DEF OnResponse, OnError, TransportUpdateError, Fail
<1>2. Elapsed(delay_started_ms)' = 0 /\ Head(queue).delay \in Nat
  BY <1>1, ElapsedNow, ExecutingDelay DEF Elapsed
<1>3. ~ExecuteNextProceeds
  BY <1>1 DEF ExecuteNextProceeds, Blocked
<1>4. ~HasSend(stack)'
  BY <1>1, <1>3, ExecutingNoSend, NoSendEntered DEF Next
<1> QED BY <1>1, <1>2, <1>4 DEF DelayInv

\* A tick takes as much from the history as the clock adds at most.
LEMMA DelayTicks == ASSUME IInv, DelayInv, Tick PROVE DelayInv'
<1>1. /\ millis' = (millis + 1) % ClockWrap /\ UNCHANGED <<delay_started_ms, delay_duration_ms, stack>>
      /\ recovery_left' = IF recovery_left = 0 THEN 0 ELSE recovery_left - 1
  BY DEF Tick, queueVars
<1>2. /\ Elapsed(delay_started_ms) \in Nat
      /\ Elapsed(delay_started_ms)' <= Elapsed(delay_started_ms) + 1
      /\ Elapsed(delay_started_ms)' \in Nat
      /\ recovery_left \in Nat /\ delay_duration_ms \in Nat
  <2>1. /\ millis \in 0 .. ClockWrap - 1 /\ delay_started_ms \in 0 .. ClockWrap - 1
        /\ millis' \in 0 .. ClockWrap - 1
    BY TickStep DEF IInv, TypeOK
  <2> QED BY <1>1, <2>1, ElapsedTick DEF Elapsed, IInv, TypeOK
<1>3. HasSend(stack)' <=> HasSend(stack)
  BY <1>1 DEF HasSend
<1> QED BY <1>1, <1>2, <1>3 DEF DelayInv

\* execute_next() proceeds only when the delay is over.
LEMMA DelayOver ==
  ASSUME IInv, DelayInv, ExecuteNextProceeds
  PROVE recovery_left = 0 /\ recovery_left' = 0
<1>1. ~(Elapsed(delay_started_ms) < delay_duration_ms) /\ recovery_left' = recovery_left
  BY DEF ExecuteNextProceeds, Blocked, DelayRunning
<1>2. /\ Elapsed(delay_started_ms) \in Nat /\ recovery_left \in Nat /\ delay_duration_ms \in Nat
  BY ElapsedTick DEF Elapsed, IInv, TypeOK
<1> QED BY <1>1, <1>2 DEF DelayInv

\* Every step keeps the delay invariant.
LEMMA DelayStep == IInv /\ DelayInv /\ [Next]_vars => DelayInv'
<1> SUFFICES ASSUME IInv, DelayInv, [Next]_vars PROVE DelayInv'
  OBVIOUS
<1>1. CASE \E t \in Types : OnResponse(t) \/ OnError(t) \/ TransportUpdateError(t)
  BY <1>1, DelayStarts
<1>2. CASE Tick
  BY <1>2, DelayTicks
<1>3. CASE ExecuteNextProceeds
  BY <1>3, DelayOver DEF DelayInv
<1>4. CASE (Enqueue \/ Clear \/ Update \/ Internal) /\ ~ExecuteNextProceeds
  <2>1. UNCHANGED <<delay_started_ms, delay_duration_ms, millis, recovery_left>>
    BY <1>4 DEF Enqueue, EnqueueNew, EnqueueDuplicate, Clear, Update, Internal,
       TransportUpdateQuiet, CheckTimeoutExpires, CheckTimeoutPasses, CallCallback,
       CallbackReturn, NotifyDone, ClearCancels, ClearDone, ExecuteNextBlocked,
       SendNothing, Send, queueVars
  <2>2. Next /\ ~ExecuteNextProceeds
    BY <1>4 DEF Next
  <2>3. HasSend(stack') => HasSend(stack)
    BY <2>2, NoSendEntered
  <2> QED BY <2>1, <2>3 DEF DelayInv, Elapsed
<1>5. CASE UNCHANGED vars
  BY <1>5 DEF vars, queueVars, DelayInv, Elapsed, HasSend
<1> QED BY <1>1, <1>2, <1>3, <1>4, <1>5 DEF Next

\* No delay runs at first.
LEMMA DelayInitially == Init => DelayInv
  BY DEF Init, DelayInv

\* Commands and success notifications wait for the recovery delay of the last
\* answered command, whatever callbacks do and although millis() wraps.
THEOREM DelayKept == Spec => RecoveryRespected
<1>1. Spec => [](IInv /\ DelayInv)
  BY InitInvariant, DelayInitially, StepInvariant, DelayStep, PTL DEF Spec
<1>2. ASSUME IInv, DelayInv, Next, Sends PROVE recovery_left = 0
  <2>1. stack # <<>> /\ Top.op = "send"
    BY <1>2, OnlySendSends DEF Send, Running
  <2>2. HasSend(stack) /\ recovery_left \in Nat
    BY <1>2, <2>1, Returned DEF IInv, TypeOK
  <2> QED BY <1>2, <2>2 DEF DelayInv
<1>3. ASSUME IInv, DelayInv, Next, pending_callback # <<>>, pending_callback' = <<>>
      PROVE recovery_left = 0
  <2>1. ExecuteNextProceeds
    BY <1>3 DEF Next, Enqueue, EnqueueNew, EnqueueDuplicate, Clear, Update, Internal, Tick,
       TransportUpdateQuiet, CheckTimeoutExpires, CheckTimeoutPasses, CallCallback,
       CallbackReturn, NotifyDone, ClearCancels, ClearDone, ExecuteNextBlocked,
       SendNothing, Send, queueVars, OnResponse, OnError, TransportUpdateError, Fail
  <2> QED BY <1>3, <2>1, DelayOver
<1>4. IInv /\ DelayInv /\ [Next]_vars =>
        [(Sends \/ (pending_callback # <<>> /\ pending_callback' = <<>>))
           => recovery_left = 0]_vars
  BY <1>2, <1>3
<1> QED BY <1>1, <1>4, PTL DEF Spec, RecoveryRespected

=============================================================================
