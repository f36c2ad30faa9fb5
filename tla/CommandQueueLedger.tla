------------------------- MODULE CommandQueueLedger -------------------------
(***************************************************************************)
(* Proof that CommandQueue implements RequestLedger (ImplementsLedger),    *)
(* for any commands, requests, requesters, time-outs, clock width and      *)
(* depth of nested calls; and of the order of its sends (SendOrder).       *)
(*                                                                         *)
(* A callback that is outstanding waits in one place (CallbackInv), so it  *)
(* waits in one of four ways and has the status of that way (StatusKnown). *)
(* A step moves the callbacks that wait in one way, those of one command   *)
(* or all of a walk, to another way; the lemmas about InQueue, InWalk and  *)
(* InClear say which.                                                      *)
(*                                                                         *)
(* For the order of sends: commands wait in the order of their ages        *)
(* (AgesOrdered), so the first of one priority is the eldest.              *)
(***************************************************************************)
EXTENDS CommandQueueCallbacks

-----------------------------------------------------------------------------
(* The ways to wait.                                                       *)

\* r waits in a command of q with state s, in a walk of st that reports ok, in
\* a walk of st that cancels, in the deferred notification p.
InQueue(r, q, s) == \E i \in 1 .. Len(q) : q[i].state = s /\ Listed(r, q[i].callbacks)
InWalk(r, st, ok) == \E f \in 1 .. Len(st) : st[f].success = ok /\ Listed(r, st[f].callbacks)
InClear(r, st) == \E f \in 1 .. Len(st) : \E i \in DOMAIN st[f].cancelled : Listed(r, st[f].cancelled[i])
InDeferred(r, p) == \E i \in 1 .. Len(p) : Listed(r, p[i])

Sent(r, q) == InQueue(r, q, "EXECUTING")
Queued(r, q) == InQueue(r, q, "PENDING")
Succeeded(r, p, st) == InDeferred(r, p) \/ InWalk(r, st, TRUE)
Failed(r, st) == InWalk(r, st, FALSE) \/ InClear(r, st)

\* A callback of a list is at one of its positions.
LEMMA ListedIn ==
  ASSUME NEW H, NEW l, NEW r, H[l] \in Seq(Requester), Listed(r, H[l])
  PROVE \E k \in Nat : In(H, l, k, r)
  BY DEF Listed, In

\* A callback that waits is in a slot of the right kind.
LEMMA WaitsInSlot ==
  ASSUME NEW q \in Seq(QueuedCommand), NEW p \in Seq(Seq(Requester)), NEW st \in Seq(Frame), NEW r
  PROVE LET H == Held(q, p, st)
        IN /\ \A s : InQueue(r, q, s) =>
                \E i, k \in Nat : i \in 1 .. Len(q) /\ q[i].state = s /\ In(H, QueueSlot(i, 0), k, r)
           /\ InDeferred(r, p) => \E i, k \in Nat : In(H, PendingSlot(i, 0), k, r)
           /\ \A ok : InWalk(r, st, ok) =>
                \E i, k \in Nat : i \in 1 .. Len(st) /\ st[i].success = ok /\ In(H, NotifySlot(i, 0), k, r)
           /\ InClear(r, st) => \E i, j, k \in Nat : In(H, ClearSlot(i, j), k, r)
<1> DEFINE H == Held(q, p, st)
<1>1. H \in [Slot -> Seq(Requester)]
  BY HeldType
<1>2. \A a, b \in Nat : /\ H[QueueSlot(a, b)] \in Seq(Requester) /\ H[PendingSlot(a, b)] \in Seq(Requester)
                        /\ H[NotifySlot(a, b)] \in Seq(Requester) /\ H[ClearSlot(a, b)] \in Seq(Requester)
  <2> HIDE DEF H
  <2> QED BY <1>1, SlotParts
<1>3. ASSUME NEW a \in Nat, NEW b \in Nat
      PROVE /\ H[QueueSlot(a, b)] = QueueList(q, a, b) /\ H[PendingSlot(a, b)] = PendingList(p, a, b)
            /\ H[NotifySlot(a, b)] = NotifyList(st, a, b) /\ H[ClearSlot(a, b)] = ClearList(st, a, b)
  BY HeldValues
<1> HIDE DEF H
<1>4. ASSUME NEW s, InQueue(r, q, s)
      PROVE \E i, k \in Nat : i \in 1 .. Len(q) /\ q[i].state = s /\ In(H, QueueSlot(i, 0), k, r)
  <2>1. PICK i \in 1 .. Len(q) : q[i].state = s /\ Listed(r, q[i].callbacks)
    BY <1>4 DEF InQueue
  <2>2. i \in Nat /\ 0 \in Nat
    OBVIOUS
  <2>3. H[QueueSlot(i, 0)] = q[i].callbacks
    BY <1>3, <2>2 DEF QueueList
  <2>4. \E k \in Nat : In(H, QueueSlot(i, 0), k, r)
    BY <1>2, <2>1, <2>2, <2>3, ListedIn
  <2> QED BY <2>1, <2>2, <2>4
<1>5. ASSUME InDeferred(r, p) PROVE \E i, k \in Nat : In(H, PendingSlot(i, 0), k, r)
  <2>1. PICK i \in 1 .. Len(p) : Listed(r, p[i])
    BY <1>5 DEF InDeferred
  <2>2. i \in Nat /\ 0 \in Nat
    OBVIOUS
  <2>3. H[PendingSlot(i, 0)] = p[i]
    BY <1>3, <2>2 DEF PendingList
  <2> QED BY <1>2, <2>1, <2>2, <2>3, ListedIn
<1>6. ASSUME NEW ok, InWalk(r, st, ok)
      PROVE \E i, k \in Nat : i \in 1 .. Len(st) /\ st[i].success = ok /\ In(H, NotifySlot(i, 0), k, r)
  <2>1. PICK i \in 1 .. Len(st) : st[i].success = ok /\ Listed(r, st[i].callbacks)
    BY <1>6 DEF InWalk
  <2>2. i \in Nat /\ 0 \in Nat
    OBVIOUS
  <2>3. H[NotifySlot(i, 0)] = st[i].callbacks
    BY <1>3, <2>2 DEF NotifyList
  <2>4. \E k \in Nat : In(H, NotifySlot(i, 0), k, r)
    BY <1>2, <2>1, <2>2, <2>3, ListedIn
  <2> QED BY <2>1, <2>2, <2>4
<1>7. ASSUME InClear(r, st) PROVE \E i, j, k \in Nat : In(H, ClearSlot(i, j), k, r)
  <2>1. PICK i \in 1 .. Len(st) : \E j \in DOMAIN st[i].cancelled : Listed(r, st[i].cancelled[j])
    BY <1>7 DEF InClear
  <2>2. st[i] \in Frame /\ i \in Nat
    OBVIOUS
  <2>3. st[i].cancelled \in Seq(Seq(Requester))
    BY <2>2 DEF Frame
  <2>4. PICK j \in DOMAIN st[i].cancelled : Listed(r, st[i].cancelled[j])
    BY <2>1
  <2>5. j \in Nat /\ j \in 1 .. Len(st[i].cancelled)
    BY <2>3
  <2>6. H[ClearSlot(i, j)] = st[i].cancelled[j]
    BY <1>3, <2>2, <2>5 DEF ClearList
  <2> QED BY <1>2, <2>2, <2>4, <2>5, <2>6, ListedIn
<1> QED BY <1>4, <1>5, <1>6, <1>7 DEF H

\* And a slot that holds a callback makes it wait.
LEMMA SlotWaits ==
  ASSUME NEW q \in Seq(QueuedCommand), NEW p \in Seq(Seq(Requester)), NEW st \in Seq(Frame), NEW r,
         NEW l \in Slot, NEW k \in Nat, In(Held(q, p, st), l, k, r)
  PROVE Sent(r, q) \/ Queued(r, q) \/ Succeeded(r, p, st) \/ Failed(r, st)
<1> DEFINE H == Held(q, p, st)
<1>1. PICK a \in Nat, b \in Nat :
        l = QueueSlot(a, b) \/ l = PendingSlot(a, b) \/ l = NotifySlot(a, b) \/ l = ClearSlot(a, b)
  BY SlotParts
<1>2. /\ H[QueueSlot(a, b)] = QueueList(q, a, b) /\ H[PendingSlot(a, b)] = PendingList(p, a, b)
      /\ H[NotifySlot(a, b)] = NotifyList(st, a, b) /\ H[ClearSlot(a, b)] = ClearList(st, a, b)
  BY HeldValues
<1>3. H[l] \in Seq(Requester)
  BY HeldType
<1>4. k \in 1 .. Len(H[l]) /\ H[l][k] = r
  BY DEF In
<1> HIDE DEF H
<1>5. Listed(r, H[l]) /\ H[l] # <<>>
  BY <1>3, <1>4 DEF Listed
<1>6. CASE l = QueueSlot(a, b)
  <2>1. a \in 1 .. Len(q) /\ Listed(r, q[a].callbacks)
    BY <1>2, <1>5, <1>6 DEF QueueList
  <2>2. q[a] \in QueuedCommand
    BY <2>1
  <2>3. q[a].state \in {"EXECUTING", "PENDING"}
    BY <2>2 DEF QueuedCommand
  <2> QED BY <2>1, <2>3 DEF Sent, Queued, InQueue
<1>7. CASE l = PendingSlot(a, b)
  BY <1>2, <1>5, <1>7 DEF PendingList, Succeeded, InDeferred
<1>8. CASE l = NotifySlot(a, b)
  <2>1. a \in 1 .. Len(st) /\ Listed(r, st[a].callbacks)
    BY <1>2, <1>5, <1>8 DEF NotifyList
  <2>2. st[a] \in Frame
    BY <2>1
  <2>3. st[a].success \in BOOLEAN
    BY <2>2 DEF Frame
  <2> QED BY <2>1, <2>3 DEF Succeeded, Failed, InWalk
<1>9. CASE l = ClearSlot(a, b)
  <2>1. a \in 1 .. Len(st) /\ b \in 1 .. Len(st[a].cancelled) /\ Listed(r, st[a].cancelled[b])
    BY <1>2, <1>5, <1>9 DEF ClearList
  <2>2. st[a] \in Frame
    BY <2>1
  <2>3. st[a].cancelled \in Seq(Seq(Requester))
    BY <2>2 DEF Frame
  <2>4. b \in DOMAIN st[a].cancelled
    BY <2>1, <2>3
  <2> QED BY <2>1, <2>4 DEF Failed, InClear
<1> QED BY <1>1, <1>6, <1>7, <1>8, <1>9

\* A callback waits in one way.
LEMMA OneWay ==
  ASSUME NEW q \in Seq(QueuedCommand), NEW p \in Seq(Seq(Requester)), NEW st \in Seq(Frame),
         NEW out, Once(Held(q, p, st), out), NEW r \in Requester
  PROVE /\ r \in out <=> Sent(r, q) \/ Queued(r, q) \/ Succeeded(r, p, st) \/ Failed(r, st)
        /\ ~(Sent(r, q) /\ Queued(r, q))
        /\ ~(Succeeded(r, p, st) /\ Failed(r, st))
        /\ ~((Sent(r, q) \/ Queued(r, q)) /\ (Succeeded(r, p, st) \/ Failed(r, st)))
<1> DEFINE H == Held(q, p, st)
           InSlot(l) == l \in Slot /\ \E k \in Nat : In(H, l, k, r)
<1>1. \A s : InQueue(r, q, s) => \E i \in Nat : q[i].state = s /\ InSlot(QueueSlot(i, 0))
  BY WaitsInSlot, SlotParts
<1>2. InDeferred(r, p) => \E i \in Nat : InSlot(PendingSlot(i, 0))
  BY WaitsInSlot, SlotParts
<1>3. \A ok : InWalk(r, st, ok) => \E i \in Nat : st[i].success = ok /\ InSlot(NotifySlot(i, 0))
  BY WaitsInSlot, SlotParts
<1>4. InClear(r, st) => \E i, j \in Nat : InSlot(ClearSlot(i, j))
  BY WaitsInSlot, SlotParts
<1>5. \A l, m : InSlot(l) /\ InSlot(m) => l = m
  BY DEF Once
<1>6. r \in out <=> \E l : InSlot(l)
  BY DEF Once
<1>7. \A l : InSlot(l) => Sent(r, q) \/ Queued(r, q) \/ Succeeded(r, p, st) \/ Failed(r, st)
  BY SlotWaits
<1> HIDE DEF InSlot
<1>8. r \in out <=> Sent(r, q) \/ Queued(r, q) \/ Succeeded(r, p, st) \/ Failed(r, st)
  BY <1>1, <1>2, <1>3, <1>4, <1>6, <1>7 DEF Sent, Queued, Succeeded, Failed
<1>9. ~(Sent(r, q) /\ Queued(r, q))
  <2> SUFFICES ASSUME Sent(r, q), Queued(r, q) PROVE FALSE
    OBVIOUS
  <2>1. PICK i \in Nat : q[i].state = "EXECUTING" /\ InSlot(QueueSlot(i, 0))
    BY <1>1 DEF Sent
  <2>2. PICK j \in Nat : q[j].state = "PENDING" /\ InSlot(QueueSlot(j, 0))
    BY <1>1 DEF Queued
  <2>3. i = j
    <3>1. QueueSlot(i, 0) = QueueSlot(j, 0)
      BY <1>5, <2>1, <2>2
    <3> QED BY <3>1 DEF QueueSlot
  <2> QED BY <2>1, <2>2, <2>3
<1>10. ~(Succeeded(r, p, st) /\ Failed(r, st))
  <2>1. \A i, j, a, b : /\ PendingSlot(i, j) # NotifySlot(a, b) /\ PendingSlot(i, j) # ClearSlot(a, b)
                        /\ NotifySlot(i, j) # ClearSlot(a, b)
    BY DEF PendingSlot, NotifySlot, ClearSlot
  <2>2. ~(InWalk(r, st, TRUE) /\ InWalk(r, st, FALSE))
    <3> SUFFICES ASSUME InWalk(r, st, TRUE), InWalk(r, st, FALSE) PROVE FALSE
      OBVIOUS
    <3>1. PICK i \in Nat : st[i].success = TRUE /\ InSlot(NotifySlot(i, 0))
      BY <1>3
    <3>2. PICK j \in Nat : st[j].success = FALSE /\ InSlot(NotifySlot(j, 0))
      BY <1>3
    <3>3. i = j
      <4>1. NotifySlot(i, 0) = NotifySlot(j, 0)
        BY <1>5, <3>1, <3>2
      <4> QED BY <4>1 DEF NotifySlot
    <3> QED BY <3>1, <3>2, <3>3
  <2>3. ~(InDeferred(r, p) /\ (\E ok : InWalk(r, st, ok)))
    BY <1>2, <1>3, <1>5, <2>1
  <2>4. ~(InDeferred(r, p) /\ InClear(r, st))
    BY <1>2, <1>4, <1>5, <2>1
  <2>5. ~((\E ok : InWalk(r, st, ok)) /\ InClear(r, st))
    BY <1>3, <1>4, <1>5, <2>1
  <2> QED BY <2>2, <2>3, <2>4, <2>5 DEF Succeeded, Failed
<1>11. ~((Sent(r, q) \/ Queued(r, q)) /\ (Succeeded(r, p, st) \/ Failed(r, st)))
  <2>1. Sent(r, q) \/ Queued(r, q) => \E i \in Nat : InSlot(QueueSlot(i, 0))
    BY <1>1 DEF Sent, Queued
  <2>2. Succeeded(r, p, st) \/ Failed(r, st) =>
          \E i, j \in Nat : InSlot(PendingSlot(i, j)) \/ InSlot(NotifySlot(i, j)) \/ InSlot(ClearSlot(i, j))
    BY <1>2, <1>3, <1>4 DEF Succeeded, Failed
  <2>3. \A i, j, a, b : /\ QueueSlot(a, b) # PendingSlot(i, j) /\ QueueSlot(a, b) # NotifySlot(i, j)
                        /\ QueueSlot(a, b) # ClearSlot(i, j)
    BY DEF QueueSlot, PendingSlot, NotifySlot, ClearSlot
  <2> QED BY <1>5, <2>1, <2>2, <2>3
<1> QED BY <1>8, <1>9, <1>10, <1>11

\* The status of a requester is the way its callback waits.
StatusKnown ==
  \A r \in Requester :
    /\ StatusOf(r) \in {"idle", "queued", "sent", "succeeded", "failed"}
    /\ StatusOf(r) = "sent" <=> Sent(r, queue)
    /\ StatusOf(r) = "queued" <=> Queued(r, queue)
    /\ StatusOf(r) = "succeeded" <=> Succeeded(r, pending_callback, stack)
    /\ StatusOf(r) = "failed" <=> Failed(r, stack)
    /\ StatusOf(r) = "idle" <=> r \notin outstanding

\* So it is in every state.
LEMMA StatusIsKnown == IInv /\ CallbackInv => StatusKnown
<1> SUFFICES ASSUME IInv, CallbackInv, NEW r \in Requester
             PROVE /\ StatusOf(r) \in {"idle", "queued", "sent", "succeeded", "failed"}
                   /\ StatusOf(r) = "sent" <=> Sent(r, queue)
                   /\ StatusOf(r) = "queued" <=> Queued(r, queue)
                   /\ StatusOf(r) = "succeeded" <=> Succeeded(r, pending_callback, stack)
                   /\ StatusOf(r) = "failed" <=> Failed(r, stack)
                   /\ StatusOf(r) = "idle" <=> r \notin outstanding
  BY DEF StatusKnown
<1>1. queue \in Seq(QueuedCommand) /\ pending_callback \in Seq(Seq(Requester)) /\ stack \in Seq(Frame)
  BY DEF IInv, TypeOK
<1>2. /\ DOMAIN queue = 1 .. Len(queue) /\ DOMAIN pending_callback = 1 .. Len(pending_callback)
      /\ DOMAIN stack = 1 .. Len(stack)
  BY <1>1
<1>3. /\ InCommand(r, "EXECUTING") <=> Sent(r, queue)
      /\ InCommand(r, "PENDING") <=> Queued(r, queue)
  BY <1>2 DEF InCommand, Sent, Queued, InQueue
<1>4. /\ Deferred(r) \/ Notifying(r, TRUE) <=> Succeeded(r, pending_callback, stack)
      /\ Notifying(r, FALSE) \/ Cancelled(r) <=> Failed(r, stack)
  BY <1>2 DEF Deferred, Notifying, Cancelled, Succeeded, Failed, InDeferred, InWalk, InClear
<1>5. Once(Held(queue, pending_callback, stack), outstanding)
  BY DEF CallbackInv
<1> DEFINE s == Sent(r, queue)
           w == Queued(r, queue)
           y == Succeeded(r, pending_callback, stack)
           n == Failed(r, stack)
<1>6. /\ r \in outstanding <=> s \/ w \/ y \/ n
      /\ ~(s /\ w) /\ ~(y /\ n) /\ ~((s \/ w) /\ (y \/ n))
  BY <1>1, <1>5, OneWay
<1>7. StatusOf(r) = IF s THEN "sent" ELSE IF w THEN "queued" ELSE IF y THEN "succeeded"
                    ELSE IF n THEN "failed" ELSE "idle"
  <2> DEFINE e == InCommand(r, "EXECUTING")
             q == InCommand(r, "PENDING")
             d == Deferred(r) \/ Notifying(r, TRUE)
             f == Notifying(r, FALSE) \/ Cancelled(r)
  <2>1. (e <=> s) /\ (q <=> w) /\ (d <=> y) /\ (f <=> n)
    BY <1>3, <1>4
  <2>2. StatusOf(r) = CASE e -> "sent" [] q -> "queued" [] d -> "succeeded" [] f -> "failed"
                        [] OTHER -> "idle"
    BY DEF StatusOf
  <2> HIDE DEF s, w, y, n, e, q, d, f
  <2>3. ~(e /\ q) /\ ~(d /\ f) /\ ~((e \/ q) /\ (d \/ f))
    BY <1>6, <2>1
  <2>4. StatusOf(r) = IF e THEN "sent" ELSE IF q THEN "queued" ELSE IF d THEN "succeeded"
                      ELSE IF f THEN "failed" ELSE "idle"
    BY <2>2, <2>3
  <2> QED BY <2>1, <2>4
<1> HIDE DEF s, w, y, n
<1>8. /\ StatusOf(r) \in {"idle", "queued", "sent", "succeeded", "failed"}
      /\ StatusOf(r) = "sent" <=> s
      /\ StatusOf(r) = "queued" <=> w
      /\ StatusOf(r) = "succeeded" <=> y
      /\ StatusOf(r) = "failed" <=> n
      /\ StatusOf(r) = "idle" <=> r \notin outstanding
  BY <1>6, <1>7
<1> QED BY <1>8 DEF s, w, y, n

-----------------------------------------------------------------------------
(* What the changes of the queue and of the stack move.                    *)

\* The callbacks of one call.
Walked(r, f, ok) == f.success = ok /\ Listed(r, f.callbacks)
Detached(r, f) == \E i \in DOMAIN f.cancelled : Listed(r, f.cancelled[i])

\* A new call adds its own lists.
LEMMA PushWays ==
  ASSUME NEW st \in Seq(Frame), NEW f \in Frame, NEW r
  PROVE /\ \A ok : InWalk(r, Append(st, f), ok) <=> InWalk(r, st, ok) \/ Walked(r, f, ok)
        /\ InClear(r, Append(st, f)) <=> InClear(r, st) \/ Detached(r, f)
<1> DEFINE t == Append(st, f)
           n == Len(st) + 1
<1>1. /\ Len(t) = n /\ n \in Nat /\ t[n] = f /\ Len(st) \in Nat
      /\ \A k \in 1 .. Len(st) : t[k] = st[k]
  OBVIOUS
<1>2. \A k : k \in 1 .. n <=> k \in 1 .. Len(st) \/ k = n
  BY <1>1
<1> HIDE DEF t, n
<1>3. ASSUME NEW ok
      PROVE InWalk(r, t, ok) <=> InWalk(r, st, ok) \/ Walked(r, f, ok)
  BY <1>1, <1>2 DEF InWalk, Walked
<1>4. InClear(r, t) <=> InClear(r, st) \/ Detached(r, f)
  BY <1>1, <1>2 DEF InClear, Detached
<1> QED BY <1>3, <1>4 DEF t

\* A call without lists adds nothing.
LEMMA PushBare ==
  ASSUME NEW st \in Seq(Frame), NEW f \in Frame, Bare(f), NEW r
  PROVE /\ \A ok : InWalk(r, Append(st, f), ok) <=> InWalk(r, st, ok)
        /\ InClear(r, Append(st, f)) <=> InClear(r, st)
<1>1. (\A ok : ~Walked(r, f, ok)) /\ ~Detached(r, f)
  BY DEF Bare, Listed, Walked, Detached
<1> QED BY <1>1, PushWays

\* The front command and the others.
LEMMA FrontWays ==
  ASSUME NEW q \in Seq(QueuedCommand), q # <<>>, NEW r, NEW s
  PROVE InQueue(r, q, s) <=> \/ Head(q).state = s /\ Listed(r, Head(q).callbacks)
                             \/ InQueue(r, Tail(q), s)
<1> DEFINE u == Tail(q)
<1>1. /\ Len(q) \in Nat /\ Len(q) >= 1 /\ Len(u) = Len(q) - 1 /\ Head(q) = q[1]
      /\ \A k \in 1 .. Len(u) : u[k] = q[k + 1]
  OBVIOUS
<1> HIDE DEF u
<1>2. ASSUME InQueue(r, q, s)
      PROVE (Head(q).state = s /\ Listed(r, Head(q).callbacks)) \/ InQueue(r, u, s)
  <2>1. PICK i \in 1 .. Len(q) : q[i].state = s /\ Listed(r, q[i].callbacks)
    BY <1>2 DEF InQueue
  <2>2. CASE i = 1
    BY <1>1, <2>1, <2>2
  <2>3. CASE i # 1
    <3>1. i - 1 \in 1 .. Len(u) /\ u[i - 1] = q[i]
      BY <1>1, <2>1, <2>3
    <3> QED BY <2>1, <3>1 DEF InQueue
  <2> QED BY <2>2, <2>3
<1>3. ASSUME InQueue(r, u, s) PROVE InQueue(r, q, s)
  <2>1. PICK i \in 1 .. Len(u) : u[i].state = s /\ Listed(r, u[i].callbacks)
    BY <1>3 DEF InQueue
  <2>2. i + 1 \in 1 .. Len(q) /\ q[i + 1] = u[i]
    BY <1>1
  <2> QED BY <2>1, <2>2 DEF InQueue
<1>4. 1 \in 1 .. Len(q)
  BY <1>1
<1>5. Head(q).state = s /\ Listed(r, Head(q).callbacks) => InQueue(r, q, s)
  BY <1>1, <1>4 DEF InQueue
<1> QED BY <1>2, <1>3, <1>5 DEF u

\* Only the front command is on the wire.
LEMMA SentIsFront ==
  ASSUME TypeOK, SingleFlight, NEW r
  PROVE Sent(r, queue) <=> Executing /\ Listed(r, Head(queue).callbacks)
<1>1. /\ queue \in Seq(QueuedCommand) /\ Len(queue) \in Nat
      /\ queue # <<>> => Len(queue) >= 1 /\ Head(queue) = queue[1]
      /\ \A i \in 2 .. Len(queue) : queue[i].state = "PENDING"
  BY DEF TypeOK, SingleFlight
<1>2. \A i \in 1 .. Len(queue) : queue[i].state = "EXECUTING" => i = 1 /\ queue # <<>>
  BY <1>1
<1>3. queue # <<>> => 1 \in 1 .. Len(queue)
  BY <1>1
<1> QED BY <1>1, <1>2, <1>3 DEF Sent, InQueue, Executing

-----------------------------------------------------------------------------
(* Steps of the ledger.                                                    *)

\* What the ledger is of.
Status == [r \in Requester |-> StatusOf(r)]

\* A requester that waits as before has the status it had.
LEMMA StatusSame ==
  ASSUME StatusKnown, StatusKnown', NEW r \in Requester,
         Sent(r, queue') <=> Sent(r, queue), Queued(r, queue') <=> Queued(r, queue),
         Succeeded(r, pending_callback', stack') <=> Succeeded(r, pending_callback, stack),
         Failed(r, stack') <=> Failed(r, stack)
  PROVE StatusOf(r)' = StatusOf(r)
<1>1. /\ StatusOf(r) \in {"idle", "queued", "sent", "succeeded", "failed"}
      /\ StatusOf(r) = "sent" <=> Sent(r, queue)
      /\ StatusOf(r) = "queued" <=> Queued(r, queue)
      /\ StatusOf(r) = "succeeded" <=> Succeeded(r, pending_callback, stack)
      /\ StatusOf(r) = "failed" <=> Failed(r, stack)
  BY DEF StatusKnown
<1>2. /\ StatusOf(r)' \in {"idle", "queued", "sent", "succeeded", "failed"}
      /\ StatusOf(r)' = "sent" <=> Sent(r, queue')
      /\ StatusOf(r)' = "queued" <=> Queued(r, queue')
      /\ StatusOf(r)' = "succeeded" <=> Succeeded(r, pending_callback', stack')
      /\ StatusOf(r)' = "failed" <=> Failed(r, stack')
  BY DEF StatusKnown, Sent, Queued, Succeeded, Failed, InQueue, InWalk, InClear, InDeferred
<1> DEFINE s == StatusOf(r)
           t == StatusOf(r)'
<1>3. s \in {"idle", "queued", "sent", "succeeded", "failed"} /\ t \in {"idle", "queued", "sent", "succeeded", "failed"}
  BY <1>1, <1>2
<1>4. /\ t = "sent" <=> s = "sent"
      /\ t = "queued" <=> s = "queued"
      /\ t = "succeeded" <=> s = "succeeded"
      /\ t = "failed" <=> s = "failed"
  BY <1>1, <1>2
<1> HIDE DEF s, t
<1>5. t = s
  BY <1>3, <1>4
<1> QED BY <1>5 DEF s, t

\* A group of requesters changes its status, the others keep theirs.
LEMMA BecomeGroup ==
  ASSUME NEW G, NEW s,
         \A r \in Requester : StatusOf(r)' = IF r \in G THEN s ELSE StatusOf(r)
  PROVE Ledger!Become(G, s)
  BY DEF Ledger!Become

\* No requester changes its status.
LEMMA StatusStays ==
  ASSUME \A r \in Requester : StatusOf(r)' = StatusOf(r)
  PROVE Status' = Status
  BY DEF Status

\* Two stacks hold the same callbacks in the same ways.
SameStackWays(st, t) ==
  \A r : /\ \A ok : InWalk(r, t, ok) <=> InWalk(r, st, ok)
         /\ InClear(r, t) <=> InClear(r, st)

\* One does after the other.
LEMMA SameWaysTwice ==
  ASSUME NEW s, NEW t, NEW u, SameStackWays(s, t), SameStackWays(t, u)
  PROVE SameStackWays(s, u)
  BY DEF SameStackWays

\* A plain call changes nothing.
LEMMA CallWays ==
  ASSUME NEW st \in Seq(Frame), NEW op \in Operations
  PROVE Append(st, Call(op)) \in Seq(Frame) /\ SameStackWays(st, Append(st, Call(op)))
<1>1. Call(op) \in Frame /\ Bare(Call(op))
  BY CallType DEF Call, Bare
<1> HIDE DEF Call
<1> QED BY <1>1, PushBare, AppendType DEF SameStackWays

\* Nor does the return of a call that has walked its lists.
LEMMA ReturnWays ==
  ASSUME IInv, CallbackInv, stack # <<>>,
         \/ Top.op \notin {"notify", "clear"}
         \/ Top.op = "notify" /\ Top.callbacks = <<>>
         \/ Top.op = "clear" /\ Top.cancelled = <<>>
  PROVE Below \in Seq(Frame) /\ SameStackWays(stack, Below)
<1>1. Below \in Seq(Frame) /\ Top \in Frame /\ stack = Append(Below, Top) /\ FrameShape(Top)
  BY TopShape DEF CallbackInv, IInv
<1>2. Bare(Top)
  BY <1>1 DEF FrameShape, Bare
<1> HIDE DEF Top, Below
<1> QED BY <1>1, <1>2, PushBare DEF SameStackWays

\* Steps that leave queue and deferred notification alone and keep the ways of
\* the stack are no steps of the ledger.
LEMMA QuietStutters ==
  ASSUME StatusKnown, StatusKnown', UNCHANGED <<queue, pending_callback>>,
         SameStackWays(stack, stack')
  PROVE Status' = Status
<1> SUFFICES ASSUME NEW r \in Requester PROVE StatusOf(r)' = StatusOf(r)
  BY StatusStays
<1>1. /\ Sent(r, queue') <=> Sent(r, queue)
      /\ Queued(r, queue') <=> Queued(r, queue)
      /\ Succeeded(r, pending_callback', stack') <=> Succeeded(r, pending_callback, stack)
      /\ Failed(r, stack') <=> Failed(r, stack)
  BY DEF SameStackWays, Succeeded, Failed
<1> QED BY <1>1, StatusSame

\* The steps of calls that tell nobody anything.
LEMMA QuietSteps ==
  ASSUME IInv, CallbackInv,
         \/ TransportUpdateQuiet \/ CheckTimeoutPasses \/ ExecuteNextBlocked \/ SendNothing
         \/ CallbackReturn \/ NotifyDone \/ ClearDone \/ Update \/ Tick
  PROVE UNCHANGED <<queue, pending_callback>> /\ SameStackWays(stack, stack')
<1>1. CASE \/ TransportUpdateQuiet \/ CheckTimeoutPasses \/ ExecuteNextBlocked \/ SendNothing
           \/ CallbackReturn \/ NotifyDone
  <2>1. /\ stack # <<>> /\ stack' = Below /\ UNCHANGED <<queue, pending_callback>>
        /\ Top.op \notin {"notify", "clear"} \/ (Top.op = "notify" /\ Top.callbacks = <<>>)
    BY <1>1 DEF TransportUpdateQuiet, CheckTimeoutPasses, ExecuteNextBlocked, SendNothing,
       CallbackReturn, NotifyDone, Running, queueVars
  <2> QED BY <2>1, ReturnWays
<1>2. CASE ClearDone
  <2>1. /\ stack # <<>> /\ stack' = Append(Below, Call("execute_next"))
        /\ UNCHANGED <<queue, pending_callback>>
        /\ Top.op = "clear" /\ Top.cancelled = <<>>
    BY <1>2 DEF ClearDone, Running, BecomeTop
  <2>2. Below \in Seq(Frame) /\ SameStackWays(stack, Below)
    BY <2>1, ReturnWays
  <2>3. "execute_next" \in Operations
    BY DEF Operations
  <2>4. SameStackWays(Below, Append(Below, Call("execute_next")))
    BY <2>2, <2>3, CallWays
  <2> QED BY <2>1, <2>2, <2>4, SameWaysTwice
<1>3. CASE Update
  <2> DEFINE a == Append(stack, Call("execute_next"))
             b == Append(a, Call("check_timeout"))
             c == Append(b, Call("transport_update"))
  <2>1. stack = <<>> /\ UNCHANGED <<queue, pending_callback>>
        /\ stack' = <<Call("execute_next"), Call("check_timeout"), Call("transport_update")>>
    BY <1>3 DEF Update, queueVars
  <2>2. stack' = c
    BY <2>1
  <2>3. /\ stack \in Seq(Frame) /\ "execute_next" \in Operations /\ "check_timeout" \in Operations
        /\ "transport_update" \in Operations
    BY DEF IInv, TypeOK, Operations
  <2>4. a \in Seq(Frame) /\ SameStackWays(stack, a)
    BY <2>3, CallWays
  <2> HIDE DEF a
  <2>5. b \in Seq(Frame) /\ SameStackWays(a, b)
    BY <2>3, <2>4, CallWays
  <2> HIDE DEF b
  <2>6. SameStackWays(b, c)
    BY <2>3, <2>5, CallWays
  <2> HIDE DEF c
  <2> QED BY <2>1, <2>2, <2>4, <2>5, <2>6, SameWaysTwice
<1>4. CASE Tick
  BY <1>4 DEF Tick, queueVars, SameStackWays
<1> QED BY <1>1, <1>2, <1>3, <1>4

\* What the transport or a time-out ends is over for the requesters of the
\* command that was sent, and only for them.
LEMMA Concludes ==
  ASSUME NEW outcome \in {"succeeded", "failed"},
         \A r \in Requester : StatusOf(r)' = IF StatusOf(r) = "sent" THEN outcome ELSE StatusOf(r)
  PROVE Ledger!LedgerNext \/ Status' = Status
<1> DEFINE G == {r \in Requester : StatusOf(r) = "sent"}
<1>1. Ledger!Having({"sent"}) = G
  BY DEF Ledger!Having
<1>2. \A r \in Requester : r \in G <=> StatusOf(r) = "sent"
  OBVIOUS
<1> HIDE DEF G
<1>3. Ledger!Become(G, outcome)
  BY <1>2, BecomeGroup
<1>4. CASE G = {}
  BY <1>2, <1>4, StatusStays
<1>5. CASE G # {}
  <2>1. Ledger!Conclude(outcome)
    BY <1>1, <1>3, <1>5 DEF Ledger!Conclude
  <2> QED BY <2>1 DEF Ledger!LedgerNext
<1> QED BY <1>4, <1>5

\* The front command leaves the queue.
LEMMA FrontWaysGone ==
  ASSUME IInv, Executing, NEW r
  PROVE /\ Head(queue).callbacks \in Seq(Requester)
        /\ Sent(r, queue) <=> Listed(r, Head(queue).callbacks)
        /\ ~Sent(r, Tail(queue))
        /\ Queued(r, Tail(queue)) <=> Queued(r, queue)
<1>1. queue \in Seq(QueuedCommand) /\ queue # <<>> /\ Head(queue).state = "EXECUTING" /\ TypeOK /\ SingleFlight
  BY DEF IInv, TypeOK, Executing
<1>2. Sent(r, queue) <=> Listed(r, Head(queue).callbacks)
  BY <1>1, SentIsFront
<1>3. Queued(r, Tail(queue)) <=> Queued(r, queue)
  BY <1>1, FrontWays DEF Queued
<1>4. ~Sent(r, Tail(queue))
  <2> DEFINE u == Tail(queue)
  <2>1. \A i \in 1 .. Len(u) : i + 1 \in 2 .. Len(queue) /\ u[i] = queue[i + 1]
    BY <1>1
  <2>2. \A i \in 1 .. Len(u) : u[i].state = "PENDING"
    BY <1>1, <2>1 DEF SingleFlight
  <2> HIDE DEF u
  <2>3. ~Sent(r, u)
    BY <2>2 DEF Sent, InQueue
  <2> QED BY <2>3 DEF u
<1>5. Head(queue).callbacks \in Seq(Requester)
  BY <1>1, FrontType DEF QueuedCommand
<1> QED BY <1>2, <1>3, <1>4, <1>5

\* The command with the motor ends, and its requesters are told at once.
LEMMA TellsNowStep ==
  ASSUME IInv, CallbackInv, StatusKnown, StatusKnown', Executing,
         queue' = Tail(queue), UNCHANGED pending_callback,
         NEW rest \in Seq(Frame), SameStackWays(stack, rest), NEW success \in BOOLEAN,
         stack' = Append(Append(rest, Call("execute_next")), Notify(Head(queue).callbacks, success))
  PROVE Ledger!LedgerNext \/ Status' = Status
<1> DEFINE c == Head(queue).callbacks
           t == Append(rest, Call("execute_next"))
           note == Notify(c, success)
<1>1. t \in Seq(Frame) /\ SameStackWays(rest, t)
  <2>1. "execute_next" \in Operations
    BY DEF Operations
  <2> QED BY <2>1, CallWays
<1>2. c \in Seq(Requester)
  BY FrontWaysGone
<1>3. note \in Frame /\ note.callbacks = c /\ note.cancelled = <<>> /\ note.success = success
  <2>1. TypeOK
    BY DEF IInv
  <2> HIDE DEF c
  <2>2. note \in Frame /\ note.callbacks = c /\ note.cancelled = <<>>
    BY <1>2, <2>1, NotifyFrame
  <2>3. note.success = success
    BY DEF Notify
  <2> QED BY <2>2, <2>3
<1>4. stack' = Append(t, note)
  OBVIOUS
<1>5. \A r : Listed(r, Head(queue).callbacks) <=> Listed(r, c)
  OBVIOUS
<1> HIDE DEF c, t, note
<1>6. SameStackWays(stack, t)
  BY <1>1, SameWaysTwice
<1>7. ASSUME NEW r
      PROVE /\ \A ok : InWalk(r, stack', ok) <=> InWalk(r, stack, ok) \/ (success = ok /\ Listed(r, c))
            /\ InClear(r, stack') <=> InClear(r, stack)
  <2>1. (\A ok : Walked(r, note, ok) <=> success = ok /\ Listed(r, c)) /\ ~Detached(r, note)
    BY <1>3 DEF Walked, Detached
  <2>2. /\ \A ok : InWalk(r, Append(t, note), ok) <=> InWalk(r, t, ok) \/ Walked(r, note, ok)
        /\ InClear(r, Append(t, note)) <=> InClear(r, t) \/ Detached(r, note)
    BY <1>1, <1>3, PushWays
  <2>3. (\A ok : InWalk(r, t, ok) <=> InWalk(r, stack, ok)) /\ (InClear(r, t) <=> InClear(r, stack))
    BY <1>6 DEF SameStackWays
  <2>4. \A ok : InWalk(r, stack', ok) <=> InWalk(r, stack, ok) \/ (success = ok /\ Listed(r, c))
    BY <1>4, <2>1, <2>2, <2>3
  <2>5. InClear(r, stack') <=> InClear(r, stack)
    BY <1>4, <2>1, <2>2, <2>3
  <2> QED BY <2>4, <2>5
<1> DEFINE outcome == IF success THEN "succeeded" ELSE "failed"
<1>8. ASSUME NEW r \in Requester
      PROVE StatusOf(r)' = IF StatusOf(r) = "sent" THEN outcome ELSE StatusOf(r)
  <2>1. /\ Sent(r, queue) <=> Listed(r, c)
        /\ ~Sent(r, queue')
        /\ Queued(r, queue') <=> Queued(r, queue)
    BY <1>5, FrontWaysGone
  <2>2. StatusOf(r) = "sent" <=> Sent(r, queue)
    BY DEF StatusKnown
  <2>3. CASE Listed(r, c)
    <3>1. IF success THEN Succeeded(r, pending_callback', stack') ELSE Failed(r, stack')
      BY <1>7, <2>3 DEF Succeeded, Failed
    <3>2. /\ StatusOf(r)' = "succeeded" <=> Succeeded(r, pending_callback', stack')
          /\ StatusOf(r)' = "failed" <=> Failed(r, stack')
      BY DEF StatusKnown, Succeeded, Failed, InWalk, InClear, InDeferred
    <3>3. StatusOf(r)' = outcome
      BY <3>1, <3>2
    <3> QED BY <2>1, <2>2, <2>3, <3>3
  <2>4. CASE ~Listed(r, c)
    <3>1. /\ Succeeded(r, pending_callback', stack') <=> Succeeded(r, pending_callback, stack)
          /\ Failed(r, stack') <=> Failed(r, stack)
      BY <1>7, <2>4 DEF Succeeded, Failed
    <3>2. StatusOf(r)' = StatusOf(r)
      BY <2>1, <2>4, <3>1, StatusSame
    <3> QED BY <2>1, <2>2, <2>4, <3>2
  <2> QED BY <2>3, <2>4
<1>9. outcome \in {"succeeded", "failed"}
  OBVIOUS
<1> HIDE DEF outcome
<1> QED BY <1>8, <1>9, Concludes

\* The motor answers, and its requesters wait for the recovery delay.
LEMMA TellsLaterStep ==
  ASSUME IInv, CallbackInv, StatusKnown, StatusKnown', Executing,
         queue' = Tail(queue), pending_callback' = <<Head(queue).callbacks>>,
         SameStackWays(stack, stack')
  PROVE Ledger!LedgerNext \/ Status' = Status
<1> DEFINE c == Head(queue).callbacks
<1>1. pending_callback = <<>>
  BY DEF IInv, DeferredSafe
<1>2. \A r : InDeferred(r, pending_callback') <=> Listed(r, c)
  <2>1. pending_callback' = <<c>> /\ Len(<<c>>) = 1 /\ <<c>>[1] = c
    OBVIOUS
  <2> HIDE DEF c
  <2>2. \A i : i \in 1 .. 1 <=> i = 1
    OBVIOUS
  <2> QED BY <2>1, <2>2 DEF InDeferred
<1>3. \A r : ~InDeferred(r, pending_callback)
  BY <1>1 DEF InDeferred
<1>4. \A r : Listed(r, Head(queue).callbacks) <=> Listed(r, c)
  OBVIOUS
<1> HIDE DEF c
<1>5. ASSUME NEW r \in Requester
      PROVE StatusOf(r)' = IF StatusOf(r) = "sent" THEN "succeeded" ELSE StatusOf(r)
  <2>1. /\ Sent(r, queue) <=> Listed(r, c)
        /\ ~Sent(r, queue')
        /\ Queued(r, queue') <=> Queued(r, queue)
    BY <1>4, FrontWaysGone
  <2>2. StatusOf(r) = "sent" <=> Sent(r, queue)
    BY DEF StatusKnown
  <2>3. CASE Listed(r, c)
    <3>1. Succeeded(r, pending_callback', stack')
      BY <1>2, <2>3 DEF Succeeded
    <3>2. StatusOf(r)' = "succeeded" <=> Succeeded(r, pending_callback', stack')
      BY DEF StatusKnown, Succeeded, InWalk, InDeferred
    <3> QED BY <2>1, <2>2, <2>3, <3>1, <3>2
  <2>4. CASE ~Listed(r, c)
    <3>1. /\ Succeeded(r, pending_callback', stack') <=> Succeeded(r, pending_callback, stack)
          /\ Failed(r, stack') <=> Failed(r, stack)
      BY <1>2, <1>3, <2>4 DEF Succeeded, Failed, SameStackWays
    <3>2. StatusOf(r)' = StatusOf(r)
      BY <2>1, <2>4, <3>1, StatusSame
    <3> QED BY <2>1, <2>2, <2>4, <3>2
  <2> QED BY <2>3, <2>4
<1> QED BY <1>5, Concludes

\* Every end of the command with the motor.
LEMMA ConcludingSteps ==
  ASSUME IInv, CallbackInv, StatusKnown, StatusKnown',
         \/ \E t \in Types : OnResponse(t) \/ OnError(t) \/ TransportUpdateError(t)
         \/ CheckTimeoutExpires
  PROVE Ledger!LedgerNext \/ Status' = Status
<1>1. stack \in Seq(Frame) /\ "execute_next" \in Operations /\ SameStackWays(stack, stack)
  BY DEF IInv, TypeOK, Operations, SameStackWays
<1>2. ASSUME NEW t \in Types, OnResponse(t) PROVE Ledger!LedgerNext \/ Status' = Status
  <2>1. /\ Executing /\ queue' = Tail(queue)
        /\ \/ /\ pending_callback' = <<Head(queue).callbacks>>
              /\ stack' = Append(stack, Call("execute_next"))
           \/ /\ UNCHANGED pending_callback
              /\ stack' = Append(Append(stack, Call("execute_next")), Notify(Head(queue).callbacks, TRUE))
    BY <1>2 DEF OnResponse
  <2>2. CASE /\ pending_callback' = <<Head(queue).callbacks>>
             /\ stack' = Append(stack, Call("execute_next"))
    <3>1. SameStackWays(stack, stack')
      BY <1>1, <2>2, CallWays
    <3> QED BY <2>1, <2>2, <3>1, TellsLaterStep
  <2>3. CASE /\ UNCHANGED pending_callback
             /\ stack' = Append(Append(stack, Call("execute_next")), Notify(Head(queue).callbacks, TRUE))
    <3>1. TRUE \in BOOLEAN
      OBVIOUS
    <3> QED BY <1>1, <2>1, <2>3, <3>1, TellsNowStep
  <2> QED BY <2>1, <2>2, <2>3
<1>3. ASSUME NEW t \in Types, OnError(t) PROVE Ledger!LedgerNext \/ Status' = Status
  <2>1. /\ Executing /\ queue' = Tail(queue) /\ UNCHANGED pending_callback
        /\ stack' = Append(Append(stack, Call("execute_next")), Notify(Head(queue).callbacks, FALSE))
    BY <1>3 DEF OnError, Fail
  <2>2. FALSE \in BOOLEAN
    OBVIOUS
  <2> QED BY <1>1, <2>1, <2>2, TellsNowStep
<1>4. ASSUME \/ \E t \in Types : TransportUpdateError(t)
             \/ CheckTimeoutExpires
      PROVE Ledger!LedgerNext \/ Status' = Status
  <2>1. /\ Executing /\ queue' = Tail(queue) /\ UNCHANGED pending_callback
        /\ stack' = Append(Append(Below, Call("execute_next")), Notify(Head(queue).callbacks, FALSE))
        /\ stack # <<>> /\ Top.op \notin {"notify", "clear"}
    BY <1>4 DEF TransportUpdateError, CheckTimeoutExpires, Fail, Running, BecomeTop, TimedOut
  <2>2. Below \in Seq(Frame) /\ SameStackWays(stack, Below) /\ FALSE \in BOOLEAN
    BY <2>1, ReturnWays
  <2> HIDE DEF Below
  <2> QED BY <2>1, <2>2, TellsNowStep
<1> QED BY <1>2, <1>3, <1>4

\* The deferred notification is walked: its requesters keep their success.
LEMMA ProceedingStutters ==
  ASSUME IInv, CallbackInv, StatusKnown, StatusKnown', ExecuteNextProceeds
  PROVE Status' = Status
<1> DEFINE send == Append(Below, Call("send"))
<1>1. /\ TypeOK /\ stack # <<>> /\ Top.op \notin {"notify", "clear"} /\ pending_callback' = <<>>
      /\ UNCHANGED queue
      /\ \/ pending_callback = <<>> /\ stack' = send
         \/ pending_callback # <<>> /\ stack' = Append(send, Notify(Head(pending_callback), TRUE))
  BY DEF IInv, ExecuteNextProceeds, Running, BecomeTop
<1>2. Below \in Seq(Frame) /\ SameStackWays(stack, Below)
  BY <1>1, ReturnWays
<1>3. /\ pending_callback \in Seq(Seq(Requester)) /\ Len(pending_callback) <= 1 /\ "send" \in Operations
  BY <1>1 DEF TypeOK, Operations
<1> HIDE DEF Below
<1>4. send \in Seq(Frame) /\ SameStackWays(Below, send)
  BY <1>2, <1>3, CallWays
<1> HIDE DEF send
<1>5. SameStackWays(stack, send)
  BY <1>2, <1>4, SameWaysTwice
<1>6. CASE pending_callback = <<>> /\ stack' = send
  BY <1>1, <1>5, <1>6, QuietStutters
<1>7. CASE pending_callback # <<>> /\ stack' = Append(send, Notify(Head(pending_callback), TRUE))
  <2> DEFINE c == Head(pending_callback)
             note == Notify(c, TRUE)
  <2>1. c \in Seq(Requester) /\ pending_callback = <<c>> /\ TRUE \in BOOLEAN
    BY <1>3, <1>7, OneElement
  <2>2. stack' = Append(send, note)
    BY <1>7
  <2> HIDE DEF c
  <2>3. note \in Frame /\ note.callbacks = c /\ note.cancelled = <<>> /\ note.success = TRUE
    <3>1. note \in Frame /\ note.callbacks = c /\ note.cancelled = <<>>
      BY <1>1, <2>1, NotifyFrame
    <3>2. note.success = TRUE
      BY DEF Notify
    <3> QED BY <3>1, <3>2
  <2> HIDE DEF note
  <2>4. \A r : /\ InDeferred(r, pending_callback) <=> Listed(r, c)
               /\ ~InDeferred(r, pending_callback')
    <3>1. Len(<<c>>) = 1 /\ <<c>>[1] = c /\ \A i : i \in 1 .. 1 <=> i = 1
      OBVIOUS
    <3> QED BY <1>1, <2>1, <3>1 DEF InDeferred
  <2> SUFFICES ASSUME NEW r \in Requester PROVE StatusOf(r)' = StatusOf(r)
    BY StatusStays
  <2>5. (\A ok : Walked(r, note, ok) <=> note.success = ok /\ Listed(r, c)) /\ ~Detached(r, note)
    BY <2>3 DEF Walked, Detached
  <2>6. /\ \A ok : InWalk(r, Append(send, note), ok) <=> InWalk(r, send, ok) \/ Walked(r, note, ok)
        /\ InClear(r, Append(send, note)) <=> InClear(r, send) \/ Detached(r, note)
    BY <1>4, <2>3, PushWays
  <2>7. /\ \A ok : InWalk(r, stack', ok) <=> InWalk(r, stack, ok) \/ (ok = TRUE /\ Listed(r, c))
        /\ InClear(r, stack') <=> InClear(r, stack)
    BY <1>5, <2>2, <2>3, <2>5, <2>6 DEF SameStackWays
  <2>8. /\ Succeeded(r, pending_callback', stack') <=> Succeeded(r, pending_callback, stack)
        /\ Failed(r, stack') <=> Failed(r, stack)
    BY <2>4, <2>7 DEF Succeeded, Failed
  <2>9. Sent(r, queue') <=> Sent(r, queue)
    BY <1>1
  <2>10. Queued(r, queue') <=> Queued(r, queue)
    BY <1>1
  <2> QED BY <2>8, <2>9, <2>10, StatusSame
<1> QED BY <1>1, <1>6, <1>7

\* A list has its first element and the others.
LEMMA ListedFront ==
  ASSUME NEW S, NEW l \in Seq(S), l # <<>>
  PROVE /\ \A x : (\E i \in DOMAIN l : l[i] = x) <=> x = Head(l) \/ (\E i \in DOMAIN Tail(l) : Tail(l)[i] = x)
        /\ Head(l) \in S /\ Tail(l) \in Seq(S)
<1> DEFINE u == Tail(l)
<1>1. /\ DOMAIN l = 1 .. Len(l) /\ DOMAIN u = 1 .. Len(u) /\ Len(l) \in Nat /\ Len(l) >= 1
      /\ Len(u) = Len(l) - 1 /\ Head(l) = l[1] /\ \A k \in 1 .. Len(u) : u[k] = l[k + 1]
      /\ l[1] \in S /\ u \in Seq(S)
  OBVIOUS
<1> HIDE DEF u
<1>2. ASSUME NEW x PROVE (\E i \in DOMAIN l : l[i] = x) <=> x = Head(l) \/ (\E i \in DOMAIN u : u[i] = x)
  <2>1. ASSUME NEW i \in DOMAIN l, l[i] = x PROVE x = Head(l) \/ \E k \in DOMAIN u : u[k] = x
    <3>1. i # 1 => i - 1 \in 1 .. Len(u) /\ u[i - 1] = l[i]
      BY <1>1
    <3> QED BY <1>1, <2>1, <3>1
  <2>2. ASSUME NEW i \in DOMAIN u, u[i] = x PROVE \E k \in DOMAIN l : l[k] = x
    <3>1. i + 1 \in 1 .. Len(l) /\ l[i + 1] = u[i]
      BY <1>1
    <3> QED BY <1>1, <2>2, <3>1
  <2>3. 1 \in DOMAIN l
    BY <1>1
  <2> QED BY <1>1, <2>1, <2>2, <2>3
<1> QED BY <1>1, <1>2 DEF u

\* clear() begins to walk the callbacks of a cancelled command, which have
\* failed before and after.
LEMMA CancelStutters ==
  ASSUME IInv, CallbackInv, StatusKnown, StatusKnown', ClearCancels
  PROVE Status' = Status
<1> DEFINE rest == [Top EXCEPT !.cancelled = Tail(@)]
           lists == Top.cancelled
           note == Notify(Head(lists), FALSE)
<1>1. /\ stack # <<>> /\ Top.op = "clear" /\ lists # <<>>
      /\ stack' = Append(Append(Below, rest), note)
      /\ UNCHANGED <<queue, pending_callback>>
  BY DEF ClearCancels, Running, BecomeTop
<1>2. /\ Below \in Seq(Frame) /\ Top \in Frame /\ stack = Append(Below, Top) /\ FrameShape(Top)
  BY TopShape DEF CallbackInv, IInv, ClearCancels, Running
<1>3. lists \in Seq(Seq(Requester))
  BY <1>2 DEF Frame
<1>4. Head(lists) \in Seq(Requester) /\ Tail(lists) \in Seq(Seq(Requester))
  BY <1>1, <1>3
<1>5. /\ rest \in Frame /\ rest.cancelled = Tail(lists) /\ rest.callbacks = Top.callbacks
      /\ rest.success = Top.success
  BY <1>1, <1>2, <1>4 DEF Frame
<1>6. Top.callbacks = <<>> /\ Top.cancelled = lists
  BY <1>1, <1>2 DEF FrameShape
<1>7. /\ note \in Frame /\ note.callbacks = Head(lists) /\ note.cancelled = <<>> /\ note.success = FALSE
  <2>1. FALSE \in BOOLEAN /\ TypeOK
    BY DEF IInv
  <2> HIDE DEF lists
  <2>2. note \in Frame /\ note.callbacks = Head(lists) /\ note.cancelled = <<>>
    BY <1>4, <2>1, NotifyFrame
  <2>3. note.success = FALSE
    BY DEF Notify
  <2> QED BY <2>2, <2>3
<1> HIDE DEF rest, lists, note, Below, Top
<1>8. \A r : (\E i \in DOMAIN lists : Listed(r, lists[i])) <=>
               Listed(r, Head(lists)) \/ \E i \in DOMAIN Tail(lists) : Listed(r, Tail(lists)[i])
  <2>1. \A x : (\E i \in DOMAIN lists : lists[i] = x) <=>
                 x = Head(lists) \/ (\E i \in DOMAIN Tail(lists) : Tail(lists)[i] = x)
    BY <1>1, <1>3, ListedFront
  <2> QED BY <2>1
<1>9. ASSUME NEW r
      PROVE /\ \A ok : InWalk(r, stack', ok) <=> InWalk(r, Below, ok) \/ (ok = FALSE /\ Listed(r, Head(lists)))
            /\ InClear(r, stack') <=> InClear(r, Below) \/ \E i \in DOMAIN Tail(lists) : Listed(r, Tail(lists)[i])
            /\ \A ok : InWalk(r, stack, ok) <=> InWalk(r, Below, ok)
            /\ InClear(r, stack) <=> InClear(r, Below) \/ \E i \in DOMAIN lists : Listed(r, lists[i])
  <2> DEFINE t == Append(Below, rest)
  <2>1. /\ \A ok : ~Walked(r, rest, ok) /\ ~Walked(r, Top, ok)
        /\ \A ok : Walked(r, note, ok) <=> note.success = ok /\ Listed(r, Head(lists))
        /\ ~Detached(r, note)
        /\ Detached(r, rest) <=> \E i \in DOMAIN Tail(lists) : Listed(r, Tail(lists)[i])
        /\ Detached(r, Top) <=> \E i \in DOMAIN lists : Listed(r, lists[i])
    <3>1. ~Listed(r, <<>>)
      BY DEF Listed
    <3>2. \A ok : ~Walked(r, rest, ok) /\ ~Walked(r, Top, ok)
      BY <1>5, <1>6, <3>1 DEF Walked
    <3>3. \A ok : Walked(r, note, ok) <=> note.success = ok /\ Listed(r, Head(lists))
      BY <1>7 DEF Walked
    <3>4. ~Detached(r, note)
      BY <1>7 DEF Detached
    <3>5. /\ Detached(r, rest) <=> \E i \in DOMAIN Tail(lists) : Listed(r, Tail(lists)[i])
          /\ Detached(r, Top) <=> \E i \in DOMAIN lists : Listed(r, lists[i])
      BY <1>5, <1>6 DEF Detached
    <3> QED BY <3>2, <3>3, <3>4, <3>5
  <2>2. t \in Seq(Frame)
    BY <1>2, <1>5
  <2>3. /\ \A ok : InWalk(r, t, ok) <=> InWalk(r, Below, ok) \/ Walked(r, rest, ok)
        /\ InClear(r, t) <=> InClear(r, Below) \/ Detached(r, rest)
    BY <1>2, <1>5, PushWays
  <2>4. stack' = Append(t, note)
    BY <1>1
  <2> HIDE DEF t
  <2>5. /\ \A ok : InWalk(r, Append(t, note), ok) <=> InWalk(r, t, ok) \/ Walked(r, note, ok)
        /\ InClear(r, Append(t, note)) <=> InClear(r, t) \/ Detached(r, note)
    BY <1>7, <2>2, PushWays
  <2>6. /\ \A ok : InWalk(r, Append(Below, Top), ok) <=> InWalk(r, Below, ok) \/ Walked(r, Top, ok)
        /\ InClear(r, Append(Below, Top)) <=> InClear(r, Below) \/ Detached(r, Top)
    BY <1>2, PushWays
  <2>7. /\ \A ok : InWalk(r, stack', ok) <=> InWalk(r, Below, ok) \/ (ok = FALSE /\ Listed(r, Head(lists)))
        /\ InClear(r, stack') <=> InClear(r, Below) \/ \E i \in DOMAIN Tail(lists) : Listed(r, Tail(lists)[i])
    BY <1>7, <2>1, <2>3, <2>4, <2>5
  <2>8. /\ \A ok : InWalk(r, stack, ok) <=> InWalk(r, Below, ok)
        /\ InClear(r, stack) <=> InClear(r, Below) \/ \E i \in DOMAIN lists : Listed(r, lists[i])
    BY <1>2, <2>1, <2>6
  <2> QED BY <2>7, <2>8
<1> SUFFICES ASSUME NEW r \in Requester PROVE StatusOf(r)' = StatusOf(r)
  BY StatusStays
<1>10. /\ Succeeded(r, pending_callback', stack') <=> Succeeded(r, pending_callback, stack)
       /\ Failed(r, stack') <=> Failed(r, stack)
  BY <1>1, <1>8, <1>9 DEF Succeeded, Failed
<1>11. Sent(r, queue') <=> Sent(r, queue)
  BY <1>1
<1>12. Queued(r, queue') <=> Queued(r, queue)
  BY <1>1
<1> QED BY <1>10, <1>11, <1>12, StatusSame

\* A callback is called: its requester is told the outcome.
LEMMA CallDelivers ==
  ASSUME IInv, CallbackInv, StatusKnown, StatusKnown', CallCallback
  PROVE Ledger!LedgerNext
<1> DEFINE rest == [Top EXCEPT !.callbacks = Tail(@)]
           c == Top.callbacks
           told == Head(c)
<1>1. /\ stack # <<>> /\ Top.op = "notify" /\ c # <<>>
      /\ stack' = Append(Append(Below, rest), Call("callback"))
      /\ outstanding' = outstanding \ {told}
      /\ UNCHANGED <<queue, pending_callback>>
  BY DEF CallCallback, Running, BecomeTop, queueVars
<1>2. /\ Below \in Seq(Frame) /\ Top \in Frame /\ stack = Append(Below, Top)
  BY TopShape DEF CallbackInv, IInv, CallCallback, Running
<1>3. c \in Seq(Requester) /\ Top.success \in BOOLEAN /\ "callback" \in Operations
  BY <1>2 DEF Frame, Operations
<1>4. /\ \A r : Listed(r, c) <=> r = told \/ Listed(r, Tail(c))
      /\ told \in Requester /\ Tail(c) \in Seq(Requester)
  <2>1. /\ \A x : (\E i \in DOMAIN c : c[i] = x) <=> x = told \/ (\E i \in DOMAIN Tail(c) : Tail(c)[i] = x)
        /\ told \in Requester /\ Tail(c) \in Seq(Requester)
    BY <1>1, <1>3, ListedFront
  <2> QED BY <2>1 DEF Listed
<1>5. /\ rest \in Frame /\ rest.callbacks = Tail(c) /\ rest.cancelled = Top.cancelled
      /\ rest.success = Top.success
  BY <1>1, <1>2, <1>4 DEF Frame
<1>6. Top.callbacks = c
  OBVIOUS
<1> HIDE DEF rest, c, told, Below, Top
<1>7. ASSUME NEW r
      PROVE /\ \A ok : InWalk(r, stack', ok) <=> InWalk(r, Below, ok) \/ (Top.success = ok /\ Listed(r, Tail(c)))
            /\ \A ok : InWalk(r, stack, ok) <=> InWalk(r, Below, ok) \/ (Top.success = ok /\ Listed(r, c))
            /\ InClear(r, stack') <=> InClear(r, stack)
  <2> DEFINE t == Append(Below, rest)
  <2>1. t \in Seq(Frame)
    BY <1>2, <1>5
  <2>2. /\ \A ok : InWalk(r, t, ok) <=> InWalk(r, Below, ok) \/ Walked(r, rest, ok)
        /\ InClear(r, t) <=> InClear(r, Below) \/ Detached(r, rest)
    BY <1>2, <1>5, PushWays
  <2>3. stack' = Append(t, Call("callback"))
    BY <1>1
  <2> HIDE DEF t
  <2>4. SameStackWays(t, stack')
    BY <1>3, <2>1, <2>3, CallWays
  <2>5. /\ \A ok : InWalk(r, Append(Below, Top), ok) <=> InWalk(r, Below, ok) \/ Walked(r, Top, ok)
        /\ InClear(r, Append(Below, Top)) <=> InClear(r, Below) \/ Detached(r, Top)
    BY <1>2, PushWays
  <2>6. /\ \A ok : InWalk(r, stack', ok) <=> InWalk(r, t, ok)
        /\ InClear(r, stack') <=> InClear(r, t)
    BY <2>4 DEF SameStackWays
  <2>7. /\ \A ok : Walked(r, rest, ok) <=> Top.success = ok /\ Listed(r, Tail(c))
        /\ \A ok : Walked(r, Top, ok) <=> Top.success = ok /\ Listed(r, c)
        /\ Detached(r, rest) <=> Detached(r, Top)
    BY <1>5, <1>6 DEF Walked, Detached
  <2> QED BY <1>2, <2>2, <2>5, <2>6, <2>7
<1> PICK who \in Requester : who = told
  BY <1>4
<1>8. StatusOf(who) \in {"succeeded", "failed"}
  <2>1. InWalk(who, stack, Top.success)
    BY <1>4, <1>7
  <2>2. Succeeded(who, pending_callback, stack) \/ Failed(who, stack)
    BY <1>3, <2>1 DEF Succeeded, Failed
  <2> QED BY <1>4, <2>2 DEF StatusKnown
<1>9. StatusOf(who)' = "idle"
  <2>1. who \notin outstanding'
    BY <1>1
  <2>2. \A r \in Requester : StatusOf(r)' = "idle" <=> r \notin outstanding'
    BY DEF StatusKnown
  <2> QED BY <2>1, <2>2
<1>10. ASSUME NEW r \in Requester, r # who PROVE StatusOf(r)' = StatusOf(r)
  <2>1. /\ \A ok : InWalk(r, stack', ok) <=> InWalk(r, stack, ok)
        /\ InClear(r, stack') <=> InClear(r, stack)
    BY <1>4, <1>7, <1>10
  <2>2. /\ Succeeded(r, pending_callback', stack') <=> Succeeded(r, pending_callback, stack)
        /\ Failed(r, stack') <=> Failed(r, stack)
    BY <1>1, <2>1 DEF Succeeded, Failed
  <2>3. Sent(r, queue') <=> Sent(r, queue)
    BY <1>1
  <2>4. Queued(r, queue') <=> Queued(r, queue)
    BY <1>1
  <2> QED BY <2>2, <2>3, <2>4, StatusSame
<1>11. \A r \in Requester : StatusOf(r)' = IF r \in {who} THEN "idle" ELSE StatusOf(r)
  BY <1>9, <1>10
<1>12. Ledger!Become({who}, "idle")
  BY <1>11, BecomeGroup
<1>13. Ledger!Deliver(who)
  BY <1>4, <1>8, <1>12 DEF Ledger!Deliver
<1> QED BY <1>4, <1>13 DEF Ledger!LedgerNext

\* A request joins the queue with the callbacks it was given.
LEMMA JoinSubmits ==
  ASSUME StatusKnown, StatusKnown', NEW cb, GivenNone(cb) \/ \E r : Given(cb, r),
         \A r : (Sent(r, queue') <=> Sent(r, queue)),
         \A r : (Queued(r, queue') <=> Queued(r, queue) \/ Listed(r, cb)),
         UNCHANGED pending_callback, SameStackWays(stack, stack')
  PROVE Ledger!LedgerNext \/ Status' = Status
<1>1. ASSUME NEW r \in Requester, ~Listed(r, cb) PROVE StatusOf(r)' = StatusOf(r)
  <2>1. /\ Succeeded(r, pending_callback', stack') <=> Succeeded(r, pending_callback, stack)
        /\ Failed(r, stack') <=> Failed(r, stack)
    BY DEF SameStackWays, Succeeded, Failed
  <2>2. Sent(r, queue') <=> Sent(r, queue)
    OBVIOUS
  <2>3. Queued(r, queue') <=> Queued(r, queue)
    BY <1>1
  <2> QED BY <2>1, <2>2, <2>3, StatusSame
<1>2. CASE GivenNone(cb)
  <2>1. \A r : ~Listed(r, cb)
    BY <1>2 DEF GivenNone, Listed
  <2> QED BY <1>1, <2>1, StatusStays
<1>3. ASSUME NEW x, Given(cb, x) PROVE Ledger!LedgerNext
  <2>1. x \in Requester /\ x \notin outstanding /\ \A r : Listed(r, cb) <=> r = x
    BY <1>3 DEF Given, Listed
  <2>2. StatusOf(x) = "idle"
    BY <2>1 DEF StatusKnown
  <2>3. StatusOf(x)' = "queued"
    <3>1. StatusOf(x)' = "queued" <=> Queued(x, queue')
      BY <2>1 DEF StatusKnown, Queued, InQueue
    <3> QED BY <2>1, <3>1
  <2>4. \A r \in Requester : StatusOf(r)' = IF r \in {x} THEN "queued" ELSE StatusOf(r)
    BY <1>1, <2>1, <2>3
  <2>5. Ledger!Become({x}, "queued")
    BY <2>4, BecomeGroup
  <2>6. Ledger!Submit(x)
    BY <2>1, <2>2, <2>5 DEF Ledger!Submit
  <2> QED BY <2>1, <2>6 DEF Ledger!LedgerNext
<1> QED BY <1>2, <1>3

\* enqueue() appends a pending command.
LEMMA NewSubmits ==
  ASSUME IInv, CallbackInv, StatusKnown, StatusKnown',
         NEW req \in Requests, NEW cb \in Seq(Requester), EnqueueNew(req, cb),
         GivenNone(cb) \/ \E r : Given(cb, r)
  PROVE Ledger!LedgerNext \/ Status' = Status
<1> DEFINE new == [command |-> req.command, callbacks |-> cb, state |-> "PENDING",
                   priority |-> req.priority, delay |-> req.delay,
                   enqueued_time |-> millis, sent_time |-> 0]
           n == Len(queue) + 1
<1>1. /\ queue' = Append(queue, new) /\ new.callbacks = cb /\ new.state = "PENDING"
      /\ UNCHANGED pending_callback /\ stack' = Append(stack, Call("execute_next"))
  BY DEF EnqueueNew
<1>2. queue \in Seq(QueuedCommand) /\ stack \in Seq(Frame) /\ "execute_next" \in Operations
  BY DEF IInv, TypeOK, Operations
<1> HIDE DEF new
<1>3. /\ Len(queue') = n /\ queue'[n] = new /\ \A k \in 1 .. Len(queue) : queue'[k] = queue[k]
      /\ \A k : k \in 1 .. n <=> k \in 1 .. Len(queue) \/ k = n
  BY <1>1, <1>2
<1> HIDE DEF n
<1>4. \A r, s : InQueue(r, queue', s) <=> InQueue(r, queue, s) \/ (s = "PENDING" /\ Listed(r, cb))
  BY <1>1, <1>3 DEF InQueue
<1>5. SameStackWays(stack, stack')
  BY <1>1, <1>2, CallWays
<1>6. /\ \A r : (Sent(r, queue') <=> Sent(r, queue))
      /\ \A r : (Queued(r, queue') <=> Queued(r, queue) \/ Listed(r, cb))
  BY <1>4 DEF Sent, Queued
<1> QED BY <1>1, <1>5, <1>6, JoinSubmits

\* A callback of two lists put together is a callback of one of them.
LEMMA ListedBoth ==
  ASSUME NEW S, NEW a \in Seq(S), NEW b \in Seq(S), NEW r
  PROVE Listed(r, a \o b) <=> Listed(r, a) \/ Listed(r, b)
<1> DEFINE u == a \o b
<1>1. /\ DOMAIN a = 1 .. Len(a) /\ DOMAIN b = 1 .. Len(b) /\ DOMAIN u = 1 .. Len(u)
      /\ Len(a) \in Nat /\ Len(b) \in Nat /\ Len(u) = Len(a) + Len(b)
      /\ \A i \in 1 .. Len(a) : u[i] = a[i]
      /\ \A i \in 1 .. Len(b) : u[Len(a) + i] = b[i]
  BY ConcatProperties
<1> HIDE DEF u
<1>2. ASSUME NEW i \in DOMAIN u, u[i] = r PROVE Listed(r, a) \/ Listed(r, b)
  <2>1. CASE i \in 1 .. Len(a)
    BY <1>1, <1>2, <2>1 DEF Listed
  <2>2. CASE i \notin 1 .. Len(a)
    <3>1. i - Len(a) \in 1 .. Len(b) /\ Len(a) + (i - Len(a)) = i
      BY <1>1, <2>2
    <3>2. b[i - Len(a)] = r
      BY <1>1, <1>2, <3>1
    <3> QED BY <1>1, <3>1, <3>2 DEF Listed
  <2> QED BY <2>1, <2>2
<1>3. ASSUME NEW i \in 1 .. Len(a), a[i] = r PROVE Listed(r, u)
  <2>1. i \in 1 .. Len(u) /\ u[i] = r
    BY <1>1, <1>3
  <2> QED BY <1>1, <2>1 DEF Listed
<1>4. ASSUME NEW i \in 1 .. Len(b), b[i] = r PROVE Listed(r, u)
  <2>1. Len(a) + i \in 1 .. Len(u) /\ u[Len(a) + i] = r
    BY <1>1, <1>4
  <2> QED BY <1>1, <2>1 DEF Listed
<1>5. Listed(r, u) <=> Listed(r, a) \/ Listed(r, b)
  BY <1>1, <1>2, <1>3, <1>4 DEF Listed
<1> QED BY <1>5 DEF u

\* enqueue() adds the callbacks to those of a command that is pending.
LEMMA DuplicateSubmits ==
  ASSUME IInv, CallbackInv, StatusKnown, StatusKnown',
         NEW req \in Requests, NEW cb \in Seq(Requester), EnqueueDuplicate(req, cb),
         GivenNone(cb) \/ \E r : Given(cb, r)
  PROVE Ledger!LedgerNext \/ Status' = Status
<1>1. PICK m \in 1 .. Len(queue) :
        /\ IsDuplicate(m, req.command)
        /\ queue' = [queue EXCEPT
             ![m].priority = IF req.priority < @ THEN req.priority ELSE @,
             ![m].delay = req.delay,
             ![m].callbacks = @ \o cb]
  BY DEF EnqueueDuplicate
<1> DEFINE merged == [queue[m] EXCEPT
             !.priority = IF req.priority < @ THEN req.priority ELSE @,
             !.delay = req.delay, !.callbacks = @ \o cb]
<1>2. queue[m] \in QueuedCommand /\ queue \in Seq(QueuedCommand) /\ Len(queue) \in Nat
  BY DEF IInv, TypeOK
<1>3. merged \in QueuedCommand
  BY MergedType DEF IInv
<1>4. /\ merged.callbacks = queue[m].callbacks \o cb /\ queue[m].callbacks \in Seq(Requester)
      /\ merged.state = "PENDING" /\ queue[m].state = "PENDING"
  BY <1>1, <1>2 DEF QueuedCommand, IsDuplicate
<1>5. queue' = [queue EXCEPT ![m] = merged]
  BY <1>1, <1>2 DEF QueuedCommand
<1> HIDE DEF merged
<1>6. /\ Len(queue') = Len(queue) /\ queue'[m] = merged
      /\ \A i \in 1 .. Len(queue) : i # m => queue'[i] = queue[i]
  BY <1>2, <1>3, <1>5, ExceptElements
<1>7. \A r : Listed(r, merged.callbacks) <=> Listed(r, queue[m].callbacks) \/ Listed(r, cb)
  BY <1>4, ListedBoth
<1>8. \A r, s : InQueue(r, queue', s) <=> InQueue(r, queue, s) \/ (s = "PENDING" /\ Listed(r, cb))
  <2> TAKE r, s
  <2>1. ASSUME NEW i \in 1 .. Len(queue), queue'[i].state = s, Listed(r, queue'[i].callbacks)
        PROVE InQueue(r, queue, s) \/ (s = "PENDING" /\ Listed(r, cb))
    BY <1>4, <1>6, <1>7, <2>1 DEF InQueue
  <2>2. ASSUME NEW i \in 1 .. Len(queue), queue[i].state = s, Listed(r, queue[i].callbacks)
        PROVE InQueue(r, queue', s)
    BY <1>4, <1>6, <1>7, <2>2 DEF InQueue
  <2>3. s = "PENDING" /\ Listed(r, cb) => InQueue(r, queue', s)
    BY <1>4, <1>6, <1>7 DEF InQueue
  <2> QED BY <1>6, <2>1, <2>2, <2>3 DEF InQueue
<1>9. UNCHANGED <<pending_callback, stack>>
  BY DEF EnqueueDuplicate
<1>10. SameStackWays(stack, stack')
  BY <1>9 DEF SameStackWays
<1>11. /\ \A r : (Sent(r, queue') <=> Sent(r, queue))
       /\ \A r : (Queued(r, queue') <=> Queued(r, queue) \/ Listed(r, cb))
  BY <1>8 DEF Sent, Queued
<1> QED BY <1>9, <1>10, <1>11, JoinSubmits

\* enqueue() submits the request of the callback it was given.
LEMMA EnqueueSubmits ==
  ASSUME IInv, CallbackInv, StatusKnown, StatusKnown', Enqueue
  PROVE Ledger!LedgerNext \/ Status' = Status
<1>1. PICK req \in Requests, cb \in {<<>>} \cup {<<r>> : r \in Requester \ outstanding} :
        /\ EnqueueDuplicate(req, cb) \/ EnqueueNew(req, cb)
        /\ outstanding' = outstanding \cup {cb[k] : k \in DOMAIN cb}
  BY DEF Enqueue
<1>2. cb \in Seq(Requester) /\ (GivenNone(cb) \/ \E r : Given(cb, r))
  <2>1. CASE cb = <<>>
    <3>1. {cb[k] : k \in DOMAIN cb} = {}
      BY <2>1
    <3>2. outstanding' = outstanding
      BY <1>1, <3>1
    <3> QED BY <2>1, <3>2 DEF GivenNone
  <2>2. ASSUME NEW r \in Requester \ outstanding, cb = <<r>>
        PROVE cb \in Seq(Requester) /\ \E x : Given(cb, x)
    <3>1. {cb[k] : k \in DOMAIN cb} = {r}
      BY <2>2
    <3>2. outstanding' = outstanding \cup {r}
      BY <1>1, <3>1
    <3>3. Given(cb, r)
      BY <2>2, <3>2 DEF Given
    <3> QED BY <2>2, <3>3
  <2> QED BY <2>1, <2>2
<1> QED BY <1>1, <1>2, NewSubmits, DuplicateSubmits

\* clear() cancels what was not sent, and leaves the command with the motor.
LEMMA ClearCancelsQueued ==
  ASSUME IInv, CallbackInv, StatusKnown, StatusKnown', Clear
  PROVE Ledger!LedgerNext
<1> DEFINE kept == IF Executing THEN 1 ELSE 0
           lists == [i \in 1 .. Len(queue) - kept |-> queue[i + kept].callbacks]
           walk == ClearCall(lists)
<1>1. /\ queue # <<>> /\ queue' = SubSeq(queue, 1, kept) /\ stack' = Append(stack, walk)
      /\ UNCHANGED pending_callback
  BY DEF Clear
<1>2. /\ queue \in Seq(QueuedCommand) /\ stack \in Seq(Frame) /\ Len(queue) \in Nat /\ Len(queue) >= 1
      /\ kept \in Nat /\ kept <= Len(queue) /\ TypeOK /\ SingleFlight /\ Head(queue) = queue[1]
  BY <1>1 DEF IInv, TypeOK
<1>3. walk \in Frame
  <2>1. TypeOK' /\ Len(stack) \in Nat
    BY <1>2, TypeClear
  <2> HIDE DEF walk
  <2>2. stack'[Len(stack) + 1] = walk /\ Len(stack') = Len(stack) + 1
    BY <1>1, <1>2
  <2> QED BY <2>1, <2>2 DEF TypeOK
<1>4. walk.callbacks = <<>> /\ walk.cancelled = lists
  BY DEF ClearCall
<1>5. /\ DOMAIN lists = 1 .. Len(queue) - kept
      /\ \A i \in 1 .. Len(queue) - kept : lists[i] = queue[i + kept].callbacks
  OBVIOUS
<1>6. \A i \in 1 .. Len(queue) : queue[i].state = IF i <= kept THEN "EXECUTING" ELSE "PENDING"
  <2> SUFFICES ASSUME NEW i \in 1 .. Len(queue)
               PROVE queue[i].state = IF i <= kept THEN "EXECUTING" ELSE "PENDING"
    OBVIOUS
  <2>1. queue[i] \in QueuedCommand
    BY <1>2
  <2>2. queue[i].state \in {"EXECUTING", "PENDING"}
    BY <2>1 DEF QueuedCommand
  <2>3. i \in 2 .. Len(queue) => queue[i].state = "PENDING"
    BY <1>2 DEF SingleFlight
  <2> QED BY <1>1, <1>2, <2>2, <2>3 DEF Executing
<1>7. Len(queue') = kept /\ \A i \in 1 .. kept : queue'[i] = queue[i]
  BY <1>1, <1>2
<1> HIDE DEF walk, lists, kept
<1>8. ASSUME NEW r
      PROVE /\ Sent(r, queue') <=> Sent(r, queue)
            /\ ~Queued(r, queue')
            /\ Queued(r, queue) <=> \E i \in DOMAIN lists : Listed(r, lists[i])
  <2>1. \A i : i \in 1 .. kept <=> i \in 1 .. Len(queue) /\ i <= kept
    BY <1>2
  <2>2. Sent(r, queue') <=> Sent(r, queue)
    BY <1>6, <1>7, <2>1 DEF Sent, InQueue
  <2>3. ~Queued(r, queue')
    BY <1>6, <1>7, <2>1 DEF Queued, InQueue
  <2>4. ASSUME NEW i \in 1 .. Len(queue), queue[i].state = "PENDING", Listed(r, queue[i].callbacks)
        PROVE \E k \in DOMAIN lists : Listed(r, lists[k])
    <3>1. i - kept \in 1 .. Len(queue) - kept /\ (i - kept) + kept = i
      BY <1>2, <1>6, <2>4
    <3> QED BY <1>5, <2>4, <3>1
  <2>5. ASSUME NEW k \in DOMAIN lists, Listed(r, lists[k]) PROVE Queued(r, queue)
    <3>1. k + kept \in 1 .. Len(queue) /\ ~(k + kept <= kept)
      BY <1>2, <1>5
    <3> QED BY <1>5, <1>6, <2>5, <3>1 DEF Queued, InQueue
  <2> QED BY <2>2, <2>3, <2>4, <2>5 DEF Queued, InQueue
<1>9. ASSUME NEW r
      PROVE /\ \A ok : InWalk(r, stack', ok) <=> InWalk(r, stack, ok)
            /\ InClear(r, stack') <=> InClear(r, stack) \/ Queued(r, queue)
  <2>1. /\ \A ok : InWalk(r, Append(stack, walk), ok) <=> InWalk(r, stack, ok) \/ Walked(r, walk, ok)
        /\ InClear(r, Append(stack, walk)) <=> InClear(r, stack) \/ Detached(r, walk)
    BY <1>2, <1>3, PushWays
  <2>2. (\A ok : ~Walked(r, walk, ok)) /\ (Detached(r, walk) <=> Queued(r, queue))
    BY <1>4, <1>8 DEF Listed, Walked, Detached
  <2> QED BY <1>1, <2>1, <2>2
<1> DEFINE G == {r \in Requester : StatusOf(r) = "queued"}
<1>10. \A r \in Requester : r \in G <=> StatusOf(r) = "queued"
  OBVIOUS
<1>11. Ledger!Having({"queued"}) = G
  BY DEF Ledger!Having
<1> HIDE DEF G
<1>12. ASSUME NEW r \in Requester PROVE StatusOf(r)' = IF r \in G THEN "failed" ELSE StatusOf(r)
  <2>1. StatusOf(r) = "queued" <=> Queued(r, queue)
    BY DEF StatusKnown
  <2>2. CASE Queued(r, queue)
    <3>1. StatusOf(r)' = "failed" <=> Failed(r, stack')
      BY DEF StatusKnown, Failed, InWalk, InClear
    <3>2. Failed(r, stack')
      BY <1>9, <2>2 DEF Failed
    <3> QED BY <1>10, <2>1, <2>2, <3>1, <3>2
  <2>3. CASE ~Queued(r, queue)
    <3>1. /\ Succeeded(r, pending_callback', stack') <=> Succeeded(r, pending_callback, stack)
          /\ Failed(r, stack') <=> Failed(r, stack)
      BY <1>1, <1>9, <2>3 DEF Succeeded, Failed
    <3>2. StatusOf(r)' = StatusOf(r)
      BY <1>8, <2>3, <3>1, StatusSame
    <3> QED BY <1>10, <2>1, <2>3, <3>2
  <2> QED BY <2>2, <2>3
<1>13. Ledger!CancelQueued
  <2>1. Ledger!Become(G, "failed")
    BY <1>12, BecomeGroup
  <2> QED BY <1>11, <2>1 DEF Ledger!CancelQueued
<1> QED BY <1>13 DEF Ledger!LedgerNext

\* When a command is sent, no callback waits but in the queue.
LEMMA AllDelivered ==
  ASSUME IInv, CallbackInv, Send
  PROVE \A r : ~Sent(r, queue) /\ ~Succeeded(r, pending_callback, stack) /\ ~Failed(r, stack)
<1>1. stack # <<>> /\ Top.op = "send" /\ stack \in Seq(Frame) /\ TypeOK /\ SingleFlight
  BY DEF Send, Running, IInv, TypeOK
<1>2. Len(stack) \in 1 .. Len(stack) /\ stack[Len(stack)].op = "send"
  BY <1>1 DEF Top
<1>3. pending_callback = <<>> /\ ~Executing
  BY <1>2 DEF IInv, SendReady
<1>4. \A k \in 1 .. Len(stack) : stack[k].callbacks = <<>> /\ stack[k].cancelled = <<>>
  <2>1. \A k \in 1 .. Len(stack) : stack[k].op \notin {"notify", "clear"}
    BY SendOutsideWalks DEF Dispatching
  <2>2. \A k \in 1 .. Len(stack) : FrameShape(stack[k])
    BY DEF CallbackInv, StackShape
  <2> QED BY <2>1, <2>2 DEF FrameShape
<1> TAKE r
<1>5. ~Sent(r, queue)
  BY <1>1, <1>3, SentIsFront
<1>6. ~InDeferred(r, pending_callback)
  BY <1>3 DEF InDeferred
<1>7. (\A ok : ~InWalk(r, stack, ok)) /\ ~InClear(r, stack)
  BY <1>4 DEF InWalk, InClear, Listed
<1> QED BY <1>5, <1>6, <1>7 DEF Succeeded, Failed

\* What a send does to the queue: the next command goes to the front and onto
\* the wire, the others wait in their order.
SentAs(q, u, best) ==
  /\ best \in 1 .. Len(q) /\ Len(u) = Len(q)
  /\ u[1].callbacks = q[best].callbacks /\ u[1].state = "EXECUTING" /\ AskedOf(u[1]) = AskedOf(q[best])
  /\ \A k \in 2 .. Len(q) : u[k] = q[Source(best, k)] /\ Source(best, k) \in 1 .. Len(q)
                            /\ Source(best, k) # best
  /\ \A i \in 1 .. Len(q) :
       i # best => Target(best, i) \in 2 .. Len(q) /\ Source(best, Target(best, i)) = i
  /\ \A i \in 1 .. Len(q) : q[i].state = "PENDING"

\* Send does that.
LEMMA SendElements ==
  ASSUME IInv, Send
  PROVE \E best : IsNext(best) /\ SentAs(queue, queue', best)
<1>1. /\ TypeOK /\ SingleFlight /\ queue \in Seq(QueuedCommand) /\ queue # <<>> /\ stack # <<>> /\ Top.op = "send"
  BY DEF IInv, TypeOK, Send, Running
<1>2. PICK best \in 1 .. Len(queue) :
        /\ IsNext(best)
        /\ queue' = [MoveToFront(best) EXCEPT ![1].state = "EXECUTING", ![1].sent_time = millis]
  BY DEF Send
<1>3. /\ queue' \in Seq(QueuedCommand) /\ Len(queue') = Len(queue) /\ Len(queue) \in Nat /\ Len(queue) >= 1
      /\ \A k \in 2 .. Len(queue) : queue'[k] = MoveToFront(best)[k]
  <2>1. queue' \in Seq(QueuedCommand) /\ Len(queue') = Len(queue)
        /\ \A k \in 2 .. Len(queue) : queue'[k] = MoveToFront(best)[k]
    BY <1>1, <1>2, SentQueue
  <2>2. Len(queue) \in Nat /\ Len(queue) >= 1
    BY <1>1
  <2> QED BY <2>1, <2>2
<1>4. /\ queue'[1].callbacks = queue[best].callbacks /\ queue'[1].state = "EXECUTING"
      /\ AskedOf(queue'[1]) = AskedOf(queue[best])
  <2>1. MoveToFront(best)[1] \in QueuedCommand /\ 1 \in DOMAIN MoveToFront(best)
        /\ MoveToFront(best)[1] = queue[best]
    BY <1>1, <1>2, <1>3 DEF MoveToFront
  <2> HIDE DEF MoveToFront
  <2>2. queue'[1] = [MoveToFront(best)[1] EXCEPT !.state = "EXECUTING", !.sent_time = millis]
    BY <1>2, <2>1
  <2> QED BY <2>1, <2>2 DEF QueuedCommand, AskedOf
<1>5. \A k \in 2 .. Len(queue) : queue'[k] = queue[Source(best, k)] /\ Source(best, k) \in 1 .. Len(queue)
                                 /\ Source(best, k) # best
  <2> SUFFICES ASSUME NEW k \in 2 .. Len(queue)
               PROVE /\ queue'[k] = queue[Source(best, k)] /\ Source(best, k) \in 1 .. Len(queue)
                     /\ Source(best, k) # best
    OBVIOUS
  <2>1. k \in 1 .. Len(queue) /\ k > 1
    BY <1>3
  <2>2. MoveToFront(best)[k] = queue[Source(best, k)]
    BY <2>1 DEF MoveToFront, Source
  <2>3. Source(best, k) \in 1 .. Len(queue) /\ Source(best, k) # best
    BY <1>2, <1>3, <2>1 DEF Source
  <2> QED BY <1>3, <2>2, <2>3
<1>6. \A i \in 1 .. Len(queue) :
        i # best => Target(best, i) \in 2 .. Len(queue) /\ Source(best, Target(best, i)) = i
  BY <1>2, <1>3 DEF Source, Target
<1>7. \A i \in 1 .. Len(queue) : queue[i].state = "PENDING"
  <2> SUFFICES ASSUME NEW i \in 1 .. Len(queue) PROVE queue[i].state = "PENDING"
    OBVIOUS
  <2>1. queue[i] \in QueuedCommand /\ Head(queue) = queue[1]
    BY <1>1
  <2>2. queue[i].state \in {"EXECUTING", "PENDING"}
    BY <2>1 DEF QueuedCommand
  <2>3. ~Executing
    <3>1. stack \in Seq(Frame)
      BY <1>1 DEF TypeOK
    <3>2. Len(stack) \in 1 .. Len(stack) /\ stack[Len(stack)].op = "send"
      BY <1>1, <3>1 DEF Top
    <3> QED BY <3>2 DEF IInv, SendReady
  <2>4. i \in 2 .. Len(queue) => queue[i].state = "PENDING"
    BY <1>1 DEF SingleFlight
  <2> QED BY <1>1, <1>3, <2>1, <2>2, <2>3, <2>4 DEF Executing
<1> QED BY <1>2, <1>3, <1>4, <1>5, <1>6, <1>7 DEF SentAs

\* The requesters of the command that is sent are with the motor, the others
\* stay queued.
LEMMA SendMoves ==
  ASSUME IInv, CallbackInv, Send
  PROVE \E G : \A r : /\ Sent(r, queue') <=> r \in G
                      /\ r \in G => r \in Requester /\ Queued(r, queue)
                      /\ r \notin G => (Queued(r, queue') <=> Queued(r, queue))
<1>1. queue \in Seq(QueuedCommand) /\ queue # <<>>
  BY DEF IInv, TypeOK, Send
<1>2. PICK best : SentAs(queue, queue', best)
  BY SendElements
<1>3. best \in 1 .. Len(queue) /\ Len(queue') = Len(queue) /\ Len(queue) \in Nat /\ Len(queue) >= 1
  BY <1>1, <1>2 DEF SentAs
<1>4. /\ queue'[1].callbacks = queue[best].callbacks /\ queue'[1].state = "EXECUTING"
      /\ AskedOf(queue'[1]) = AskedOf(queue[best])
  BY <1>2 DEF SentAs
<1>5. \A k \in 2 .. Len(queue) : queue'[k] = queue[Source(best, k)] /\ Source(best, k) \in 1 .. Len(queue)
                                 /\ Source(best, k) # best
  BY <1>2 DEF SentAs
<1>6. \A i \in 1 .. Len(queue) :
        i # best => Target(best, i) \in 2 .. Len(queue) /\ Source(best, Target(best, i)) = i
  BY <1>2 DEF SentAs
<1>7. \A i \in 1 .. Len(queue) : queue[i].state = "PENDING"
  BY <1>2 DEF SentAs
<1>8. \A k \in 1 .. Len(queue) : k = 1 \/ k \in 2 .. Len(queue)
  BY <1>3
<1>9. 1 \in 1 .. Len(queue) /\ \A k \in 2 .. Len(queue) : k \in 1 .. Len(queue)
  BY <1>3
<1> DEFINE G == {r \in Requester : Listed(r, queue[best].callbacks)}
<1>10. \A r : r \in G <=> Listed(r, queue[best].callbacks)
  <2>1. queue[best] \in QueuedCommand
    BY <1>1, <1>3
  <2>2. queue[best].callbacks \in Seq(Requester)
    BY <2>1 DEF QueuedCommand
  <2> QED BY <2>2 DEF Listed
<1>11. \A r : r \in G => r \in Requester
  OBVIOUS
<1> HIDE DEF G
<1>12. ASSUME NEW r
       PROVE /\ Sent(r, queue') <=> r \in G
             /\ r \in G => Queued(r, queue)
             /\ r \notin G => (Queued(r, queue') <=> Queued(r, queue))
  <2>1. \A k \in 2 .. Len(queue) : queue'[k].state = "PENDING"
    BY <1>5, <1>7
  <2>2. Sent(r, queue') <=> r \in G
    BY <1>3, <1>4, <1>8, <1>9, <1>10, <2>1 DEF Sent, InQueue
  <2>3. r \in G => Queued(r, queue)
    BY <1>3, <1>7, <1>10 DEF Queued, InQueue
  <2>4. ASSUME Queued(r, queue') PROVE Queued(r, queue)
    <3>1. PICK k \in 1 .. Len(queue) : queue'[k].state = "PENDING" /\ Listed(r, queue'[k].callbacks)
      BY <1>3, <2>4 DEF Queued, InQueue
    <3>2. k \in 2 .. Len(queue)
      BY <1>4, <1>8, <3>1
    <3> QED BY <1>5, <1>7, <3>1, <3>2 DEF Queued, InQueue
  <2>5. ASSUME Queued(r, queue), r \notin G PROVE Queued(r, queue')
    <3>1. PICK i \in 1 .. Len(queue) : Listed(r, queue[i].callbacks)
      BY <2>5 DEF Queued, InQueue
    <3>2. i # best
      BY <1>10, <2>5, <3>1
    <3>3. PICK k \in 2 .. Len(queue) : Source(best, k) = i
      BY <1>6, <3>2
    <3>4. queue'[k] = queue[i] /\ queue'[k].state = "PENDING"
      BY <1>5, <2>1, <3>3
    <3> QED BY <1>3, <1>9, <3>1, <3>4 DEF Queued, InQueue
  <2> QED BY <2>2, <2>3, <2>4, <2>5
<1> QED BY <1>11, <1>12

\* A command is sent: every outcome has been delivered.
LEMMA SendSendsGroup ==
  ASSUME IInv, CallbackInv, StatusKnown, StatusKnown', Send
  PROVE Ledger!LedgerNext
<1>1. PICK G : \A r : /\ Sent(r, queue') <=> r \in G
                      /\ r \in G => r \in Requester /\ Queued(r, queue)
                      /\ r \notin G => (Queued(r, queue') <=> Queued(r, queue))
  BY SendMoves
<1>2. \A r : ~Sent(r, queue) /\ ~Succeeded(r, pending_callback, stack) /\ ~Failed(r, stack)
  BY AllDelivered
<1>3. SameStackWays(stack, stack') /\ UNCHANGED pending_callback
  <2>1. stack # <<>> /\ Top.op \notin {"notify", "clear"} /\ stack' = Below /\ UNCHANGED pending_callback
    BY DEF Send, Running
  <2> QED BY <2>1, ReturnWays
<1>4. ASSUME NEW r \in Requester PROVE StatusOf(r)' = IF r \in G THEN "sent" ELSE StatusOf(r)
  <2>1. CASE r \in G
    <3>1. StatusOf(r)' = "sent" <=> Sent(r, queue')
      BY DEF StatusKnown, Sent, InQueue
    <3> QED BY <1>1, <2>1, <3>1
  <2>2. CASE r \notin G
    <3>1. /\ Succeeded(r, pending_callback', stack') <=> Succeeded(r, pending_callback, stack)
          /\ Failed(r, stack') <=> Failed(r, stack)
      BY <1>3 DEF SameStackWays, Succeeded, Failed
    <3>2. Sent(r, queue') <=> Sent(r, queue)
      BY <1>1, <1>2, <2>2
    <3>3. Queued(r, queue') <=> Queued(r, queue)
      BY <1>1, <2>2
    <3>4. StatusOf(r)' = StatusOf(r)
      BY <3>1, <3>2, <3>3, StatusSame
    <3> QED BY <2>2, <3>4
  <2> QED BY <2>1, <2>2
<1>5. Ledger!Become(G, "sent")
  BY <1>4, BecomeGroup
<1>6. Ledger!Having({"sent", "succeeded", "failed"}) = {}
  <2>1. \A r \in Requester : StatusOf(r) \notin {"sent", "succeeded", "failed"}
    BY <1>2 DEF StatusKnown
  <2> QED BY <2>1 DEF Ledger!Having
<1>7. G \in SUBSET Ledger!Having({"queued"})
  <2>1. \A r \in G : r \in Requester /\ StatusOf(r) = "queued"
    BY <1>1 DEF StatusKnown
  <2> QED BY <2>1 DEF Ledger!Having
<1>8. Ledger!SendGroup(G)
  BY <1>5, <1>6 DEF Ledger!SendGroup
<1> QED BY <1>7, <1>8 DEF Ledger!LedgerNext

-----------------------------------------------------------------------------
(* The theorem.                                                            *)

\* Every step of the queue is a step of the ledger or none.
LEMMA LedgerStep ==
  IInv /\ CallbackInv /\ StatusKnown /\ StatusKnown' /\ [Next]_vars => [Ledger!LedgerNext]_Status
<1> SUFFICES ASSUME IInv, CallbackInv, StatusKnown, StatusKnown', [Next]_vars
             PROVE Ledger!LedgerNext \/ Status' = Status
  OBVIOUS
<1>1. CASE Enqueue BY <1>1, EnqueueSubmits
<1>2. CASE Clear BY <1>2, ClearCancelsQueued
<1>3. CASE Update \/ Tick BY <1>3, QuietSteps, QuietStutters
<1>4. CASE UNCHANGED vars
  <2>1. UNCHANGED <<queue, pending_callback>> /\ SameStackWays(stack, stack')
    BY <1>4 DEF vars, queueVars, SameStackWays
  <2> QED BY <2>1, QuietStutters
<1>5. CASE Internal
  <2>1. CASE CheckTimeoutExpires BY <2>1, ConcludingSteps
  <2>2. CASE CallCallback BY <2>2, CallDelivers
  <2>3. CASE ClearCancels BY <2>3, CancelStutters
  <2>4. CASE ExecuteNextProceeds BY <2>4, ProceedingStutters
  <2>5. CASE Send BY <2>5, SendSendsGroup
  <2>6. CASE \/ TransportUpdateQuiet \/ CheckTimeoutPasses \/ ExecuteNextBlocked \/ SendNothing
             \/ CallbackReturn \/ NotifyDone \/ ClearDone
    BY <2>6, QuietSteps, QuietStutters
  <2> QED BY <1>5, <2>1, <2>2, <2>3, <2>4, <2>5, <2>6 DEF Internal
<1>6. CASE \E t \in Types : OnResponse(t) \/ OnError(t) \/ TransportUpdateError(t)
  BY <1>6, ConcludingSteps
<1> QED BY <1>1, <1>2, <1>3, <1>4, <1>5, <1>6 DEF Next

\* At first every requester is idle.
LEMMA LedgerStart == Init /\ StatusKnown => Ledger!LedgerInit
<1> SUFFICES ASSUME Init, StatusKnown PROVE \A r \in Requester : StatusOf(r) = "idle"
  BY DEF Ledger!LedgerInit
<1> QED BY DEF Init, StatusKnown

\* Refinement: every requester sees the life cycle of RequestLedger.  Success
\* is reported only for a command that was with the motor when it answered, a
\* cancelled or timed-out request never succeeds later, and no command leaves
\* before all outcomes were delivered.
THEOREM QueueImplementsLedger == Spec => ImplementsLedger
<1>1. Spec => []StatusKnown
  BY StatusIsKnown, CallbackInvInit, CallbackInvStep, Invariance, PTL DEF Spec
<1>2. Spec => [](IInv /\ CallbackInv)
  BY CallbackInvInit, CallbackInvStep, Invariance, PTL DEF Spec
<1>3. Init /\ StatusKnown => Ledger!LedgerInit
  BY LedgerStart
<1>4. IInv /\ CallbackInv /\ StatusKnown /\ StatusKnown' /\ [Next]_vars => [Ledger!LedgerNext]_Status
  BY LedgerStep
<1> QED BY <1>1, <1>2, <1>3, <1>4, PTL DEF Spec, ImplementsLedger, Ledger!LedgerSpec, Status

-----------------------------------------------------------------------------
(* The order of sends.                                                     *)

\* The i-th command of q waits, and carries the callback of r.
WaitsIn(q, i) == i \in 1 .. Len(q) /\ q[i].state = "PENDING"
At(r, q, i) == WaitsIn(q, i) /\ Listed(r, q[i].callbacks)

\* A callback waits at one position of the queue at most.
LEMMA PendingAtIs ==
  ASSUME NEW q \in Seq(QueuedCommand), NEW p \in Seq(Seq(Requester)), NEW st \in Seq(Frame),
         NEW out, Once(Held(q, p, st), out), NEW r \in Requester
  PROVE /\ \A i : At(r, q, i) => PendingAt(r, q) = i
        /\ PendingAt(r, q) # 0 => At(r, q, PendingAt(r, q))
<1> DEFINE H == Held(q, p, st)
<1>1. H \in [Slot -> Seq(Requester)]
  BY HeldType
<1>2. \A a \in Nat : H[QueueSlot(a, 0)] = QueueList(q, a, 0) /\ QueueSlot(a, 0) \in Slot
  BY HeldValues, SlotParts
<1>3. \A l, m \in Slot, k, j \in Nat : In(H, l, k, r) /\ In(H, m, j, r) => l = m /\ k = j
  BY DEF Once
<1> HIDE DEF H
<1>4. ASSUME NEW i, At(r, q, i) PROVE i \in Nat /\ \E k \in Nat : In(H, QueueSlot(i, 0), k, r)
  <2>1. i \in 1 .. Len(q) /\ Listed(r, q[i].callbacks) /\ i \in Nat
    BY <1>4 DEF At, WaitsIn
  <2>2. H[QueueSlot(i, 0)] = q[i].callbacks
    BY <1>2, <2>1 DEF QueueList
  <2>3. H[QueueSlot(i, 0)] \in Seq(Requester)
    BY <1>1, <1>2, <2>1
  <2> QED BY <2>1, <2>2, <2>3, ListedIn
<1>5. ASSUME NEW i, NEW j, At(r, q, i), At(r, q, j) PROVE i = j
  <2>1. QueueSlot(i, 0) = QueueSlot(j, 0)
    BY <1>2, <1>3, <1>4, <1>5
  <2> QED BY <2>1 DEF QueueSlot
<1> DEFINE here == {i \in 1 .. Len(q) : q[i].state = "PENDING" /\ \E k \in DOMAIN q[i].callbacks : q[i].callbacks[k] = r}
<1>6. \A i : i \in here <=> At(r, q, i)
  BY DEF At, WaitsIn, Listed
<1>7. PendingAt(r, q) = IF here = {} THEN 0 ELSE CHOOSE i \in here : TRUE
  BY DEF PendingAt
<1> HIDE DEF here
<1>8. here # {} => (CHOOSE i \in here : TRUE) \in here
  OBVIOUS
<1> QED BY <1>5, <1>6, <1>7, <1>8

\* What a step that sends nothing does to the queue q, at time now: it may add
\* a callback or a command, or takes the front command, or all that wait.
Grown(q, u, now) ==
  /\ Len(u) \in {Len(q), Len(q) + 1}
  /\ \A i \in 1 .. Len(q) :
       /\ u[i].enqueued_time = q[i].enqueued_time /\ u[i].state = q[i].state
       /\ \A r : Listed(r, q[i].callbacks) => Listed(r, u[i].callbacks)
  /\ Len(u) = Len(q) + 1 => u[Len(u)].enqueued_time = now

\* enqueue() lets the queue grow.
LEMMA EnqueueGrows ==
  ASSUME IInv, Enqueue PROVE Grown(queue, queue', millis)
<1>1. PICK req \in Requests, cb \in {<<>>} \cup {<<r>> : r \in Requester \ outstanding} :
        EnqueueDuplicate(req, cb) \/ EnqueueNew(req, cb)
  BY DEF Enqueue
<1>2. cb \in Seq(Requester)
  <2>1. CASE cb = <<>>
    BY <2>1
  <2>2. ASSUME NEW r \in Requester, cb = <<r>> PROVE cb \in Seq(Requester)
    BY <2>2
  <2> QED BY <2>1, <2>2
<1>3. queue \in Seq(QueuedCommand) /\ Len(queue) \in Nat
  BY DEF IInv, TypeOK
<1>4. CASE EnqueueNew(req, cb)
  <2> DEFINE new == [command |-> req.command, callbacks |-> cb, state |-> "PENDING",
                     priority |-> req.priority, delay |-> req.delay,
                     enqueued_time |-> millis, sent_time |-> 0]
  <2>1. queue' = Append(queue, new) /\ new.enqueued_time = millis
    BY <1>4 DEF EnqueueNew
  <2> HIDE DEF new
  <2>2. /\ Len(queue') = Len(queue) + 1 /\ queue'[Len(queue) + 1] = new
        /\ \A k \in 1 .. Len(queue) : queue'[k] = queue[k]
    BY <1>3, <2>1
  <2> QED BY <2>1, <2>2 DEF Grown
<1>5. CASE EnqueueDuplicate(req, cb)
  <2>1. PICK m \in 1 .. Len(queue) :
          queue' = [queue EXCEPT
               ![m].priority = IF req.priority < @ THEN req.priority ELSE @,
               ![m].delay = req.delay,
               ![m].callbacks = @ \o cb]
    BY <1>5 DEF EnqueueDuplicate
  <2> DEFINE merged == [queue[m] EXCEPT
               !.priority = IF req.priority < @ THEN req.priority ELSE @,
               !.delay = req.delay, !.callbacks = @ \o cb]
  <2>2. queue[m] \in QueuedCommand
    BY <1>3
  <2>3. merged \in QueuedCommand
    BY <1>2, MergedType DEF IInv
  <2>4. /\ merged.callbacks = queue[m].callbacks \o cb /\ queue[m].callbacks \in Seq(Requester)
        /\ merged.state = queue[m].state /\ merged.enqueued_time = queue[m].enqueued_time
    BY <2>2 DEF QueuedCommand
  <2>5. queue' = [queue EXCEPT ![m] = merged]
    BY <1>3, <2>1, <2>2 DEF QueuedCommand
  <2> HIDE DEF merged
  <2>6. /\ Len(queue') = Len(queue) /\ queue'[m] = merged
        /\ \A i \in 1 .. Len(queue) : i # m => queue'[i] = queue[i]
    BY <1>3, <2>3, <2>5, ExceptElements
  <2>7. \A r : Listed(r, queue[m].callbacks) => Listed(r, merged.callbacks)
    BY <1>2, <2>4, ListedBoth
  <2>8. \A i \in 1 .. Len(queue) :
          /\ queue'[i].enqueued_time = queue[i].enqueued_time /\ queue'[i].state = queue[i].state
          /\ \A r : Listed(r, queue[i].callbacks) => Listed(r, queue'[i].callbacks)
    BY <2>4, <2>6, <2>7
  <2>9. Len(queue') # Len(queue) + 1
    BY <1>3, <2>6
  <2> QED BY <2>6, <2>8, <2>9 DEF Grown
<1> QED BY <1>1, <1>4, <1>5

\* Every step but a send.
LEMMA QueueChanges ==
  ASSUME IInv, [Next]_vars, ~Send
  PROVE \/ Grown(queue, queue', millis)
        \/ Executing /\ queue' = Tail(queue)
        \/ \A i : ~WaitsIn(queue', i)
<1>1. CASE Enqueue
  BY <1>1, EnqueueGrows
<1>2. CASE Clear
  <2> DEFINE kept == IF Executing THEN 1 ELSE 0
  <2>1. /\ queue # <<>> /\ queue' = SubSeq(queue, 1, kept) /\ queue \in Seq(QueuedCommand)
        /\ Len(queue) \in Nat /\ Len(queue) >= 1
    BY <1>2 DEF Clear, IInv, TypeOK
  <2>2. CASE Executing
    <3>1. Len(queue') = 1 /\ queue'[1] = queue[1] /\ Head(queue) = queue[1]
      BY <2>1, <2>2
    <3>2. queue[1].state = "EXECUTING" /\ \A i : i \in 1 .. 1 => i = 1
      BY <2>2, <3>1 DEF Executing
    <3> QED BY <3>1, <3>2 DEF WaitsIn
  <2>3. CASE ~Executing
    <3>1. Len(queue') = 0 /\ \A i : i \notin 1 .. 0
      BY <2>1, <2>3
    <3> QED BY <3>1 DEF WaitsIn
  <2> QED BY <2>2, <2>3
<1>3. CASE queue' = queue
  BY <1>3 DEF Grown
<1>4. CASE CheckTimeoutExpires \/ \E t \in Types : OnResponse(t) \/ OnError(t) \/ TransportUpdateError(t)
  BY <1>4 DEF CheckTimeoutExpires, OnResponse, OnError, TransportUpdateError, Fail, TimedOut
<1>5. CASE UNCHANGED vars
  <2>1. queue' = queue
    BY <1>5 DEF vars, queueVars
  <2> QED BY <1>3, <2>1
<1>6. CASE \/ Update \/ Tick \/ TransportUpdateQuiet \/ CheckTimeoutPasses \/ CallCallback \/ CallbackReturn
           \/ NotifyDone \/ ClearCancels \/ ClearDone \/ ExecuteNextBlocked \/ ExecuteNextProceeds \/ SendNothing
  <2>1. queue' = queue
    BY <1>6 DEF Update, Tick, TransportUpdateQuiet, CheckTimeoutPasses, CallCallback, CallbackReturn,
       NotifyDone, ClearCancels, ClearDone, ExecuteNextBlocked, ExecuteNextProceeds, SendNothing, queueVars
  <2> QED BY <1>3, <2>1
<1> QED BY <1>1, <1>2, <1>4, <1>5, <1>6 DEF Next, Internal

-----------------------------------------------------------------------------
(* Commands wait in the order of their ages.                               *)

AgeAt(cmd, now) == (now - cmd.enqueued_time) % ClockWrap
AgesOrdered(q, now) ==
  \A i, j : WaitsIn(q, i) /\ WaitsIn(q, j) /\ i < j => AgeAt(q[j], now) <= AgeAt(q[i], now)
AgeInv == AgesOrdered(queue, millis)

\* Ages are numbers, and a command that comes now has none.
LEMMA AgeNat ==
  ASSUME NEW now \in 0 .. ClockWrap - 1, NEW cmd \in QueuedCommand
  PROVE AgeAt(cmd, now) \in Nat /\ (cmd.enqueued_time = now => AgeAt(cmd, now) = 0)
<1>1. cmd.enqueued_time \in 0 .. ClockWrap - 1
  BY DEF QueuedCommand
<1> QED BY <1>1, ElapsedTick, ElapsedNow DEF AgeAt

\* Ages that have not come round grow by one with a tick of the clock.
LEMMA AgeGrows ==
  ASSUME NEW now \in 0 .. ClockWrap - 1, NEW cmd \in QueuedCommand, AgeAt(cmd, now) < ClockWrap - 1
  PROVE AgeAt(cmd, (now + 1) % ClockWrap) = AgeAt(cmd, now) + 1
<1> DEFINE since == cmd.enqueued_time
<1>1. since \in 0 .. ClockWrap - 1
  BY DEF QueuedCommand
<1>2. ClockWrap \in Nat /\ ClockWrap > 0
  BY ConstantsAssumption DEF ConstantsAssumption
<1>3. (now - since) % ClockWrap < ClockWrap - 1
  BY DEF AgeAt
<1> HIDE DEF since
<1>4. (((now + 1) % ClockWrap) - since) % ClockWrap = ((now - since) % ClockWrap) + 1
  BY <1>1, <1>2, <1>3
<1> QED BY <1>4 DEF AgeAt, since

\* The order outlives every step.
LEMMA AgeStep == IInv /\ IInv' /\ AgeInv /\ [Next]_vars => AgeInv'
<1> SUFFICES ASSUME IInv, IInv', AgeInv, [Next]_vars PROVE AgesOrdered(queue', millis')
  BY DEF AgeInv
<1>1. /\ queue \in Seq(QueuedCommand) /\ queue' \in Seq(QueuedCommand) /\ millis \in 0 .. ClockWrap - 1
      /\ Len(queue) \in Nat
  BY DEF IInv, TypeOK
<1>2. \A i : (WaitsIn(queue, i) => queue[i] \in QueuedCommand /\ i \in Nat)
             /\ (WaitsIn(queue', i) => queue'[i] \in QueuedCommand /\ i \in Nat)
  BY <1>1 DEF WaitsIn
<1>3. \A i : WaitsIn(queue, i) => AgeAt(queue[i], millis) \in Nat
  BY <1>1, <1>2, AgeNat
<1>4. CASE Tick
  <2>1. queue' = queue /\ millis' = (millis + 1) % ClockWrap /\ WithinClockCycle
    BY <1>4 DEF Tick, queueVars
  <2>2. \A i : WaitsIn(queue, i) => AgeAt(queue[i], millis) < ClockWrap - 1
    BY <2>1 DEF WithinClockCycle, WaitsIn, AgeAt, Elapsed
  <2>3. \A i : WaitsIn(queue, i) => AgeAt(queue[i], (millis + 1) % ClockWrap) = AgeAt(queue[i], millis) + 1
    BY <1>1, <1>2, <2>2, AgeGrows
  <2>4. AgesOrdered(queue, (millis + 1) % ClockWrap)
    <3> SUFFICES ASSUME NEW i, NEW j, WaitsIn(queue, i), WaitsIn(queue, j), i < j
                 PROVE AgeAt(queue[j], (millis + 1) % ClockWrap) <= AgeAt(queue[i], (millis + 1) % ClockWrap)
      BY DEF AgesOrdered
    <3>1. AgeAt(queue[j], millis) <= AgeAt(queue[i], millis)
      BY DEF AgeInv, AgesOrdered
    <3> QED BY <1>3, <2>3, <3>1
  <2> QED BY <2>1, <2>4
<1>5. CASE ~Tick
  <2>1. millis' = millis
    BY <1>5 DEF Next, Enqueue, EnqueueNew, EnqueueDuplicate, Clear, Update, Internal,
       TransportUpdateQuiet, CheckTimeoutExpires, CheckTimeoutPasses, CallCallback,
       CallbackReturn, NotifyDone, ClearCancels, ClearDone, ExecuteNextBlocked,
       ExecuteNextProceeds, SendNothing, Send, queueVars, OnResponse, OnError,
       TransportUpdateError, Fail, vars
  <2> SUFFICES ASSUME NEW i, NEW j, WaitsIn(queue', i), WaitsIn(queue', j), i < j
               PROVE AgeAt(queue'[j], millis) <= AgeAt(queue'[i], millis)
    BY <2>1 DEF AgesOrdered
  <2>2. /\ i \in 1 .. Len(queue') /\ j \in 1 .. Len(queue') /\ queue'[i] \in QueuedCommand
        /\ queue'[i].state = "PENDING" /\ queue'[j].state = "PENDING" /\ queue'[j] \in QueuedCommand
    BY <1>2 DEF WaitsIn
  <2>3. \A a, b : WaitsIn(queue, a) /\ WaitsIn(queue, b) /\ a < b =>
                    AgeAt(queue[b], millis) <= AgeAt(queue[a], millis)
    BY DEF AgeInv, AgesOrdered
  <2>4. CASE Grown(queue, queue', millis)
    <3>1. CASE j \in 1 .. Len(queue)
      <4>1. i \in 1 .. Len(queue)
        BY <2>2, <3>1
      <4>2. WaitsIn(queue, i) /\ WaitsIn(queue, j)
        BY <2>2, <2>4, <3>1, <4>1 DEF Grown, WaitsIn
      <4>3. AgeAt(queue'[i], millis) = AgeAt(queue[i], millis) /\ AgeAt(queue'[j], millis) = AgeAt(queue[j], millis)
        BY <2>4, <3>1, <4>1 DEF Grown, AgeAt
      <4> QED BY <2>3, <4>2, <4>3
    <3>2. CASE j \notin 1 .. Len(queue)
      <4>1. queue'[j].enqueued_time = millis
        BY <1>1, <2>2, <2>4, <3>2 DEF Grown
      <4>2. AgeAt(queue'[j], millis) = 0 /\ AgeAt(queue'[i], millis) \in Nat
        BY <1>1, <2>2, <4>1, AgeNat
      <4> QED BY <4>2
    <3> QED BY <3>1, <3>2
  <2>5. CASE Executing /\ queue' = Tail(queue)
    <3>1. /\ queue'[i] = queue[i + 1] /\ i + 1 \in 1 .. Len(queue)
          /\ queue'[j] = queue[j + 1] /\ j + 1 \in 1 .. Len(queue) /\ i + 1 < j + 1
      BY <1>1, <2>2, <2>5 DEF Executing
    <3>2. WaitsIn(queue, i + 1) /\ WaitsIn(queue, j + 1)
      BY <2>2, <3>1 DEF WaitsIn
    <3> QED BY <2>3, <3>1, <3>2
  <2>6. CASE Send
    <3>1. PICK best : SentAs(queue, queue', best)
      BY <2>6, SendElements
    <3>2. /\ Len(queue') = Len(queue) /\ best \in 1 .. Len(queue) /\ queue'[1].state = "EXECUTING"
          /\ \A k \in 2 .. Len(queue) : queue'[k] = queue[Source(best, k)] /\ Source(best, k) \in 1 .. Len(queue)
          /\ \A k \in 1 .. Len(queue) : queue[k].state = "PENDING"
      BY <3>1 DEF SentAs
    <3>3. i \in 2 .. Len(queue) /\ j \in 2 .. Len(queue)
      BY <1>1, <2>2, <3>2
    <3>4. Source(best, i) < Source(best, j)
      BY <3>2, <3>3 DEF Source
    <3>5. WaitsIn(queue, Source(best, i)) /\ WaitsIn(queue, Source(best, j))
      BY <3>2, <3>3 DEF WaitsIn
    <3> QED BY <2>3, <3>2, <3>3, <3>4, <3>5
  <2> QED BY <2>2, <2>4, <2>5, <2>6, QueueChanges
<1> QED BY <1>4, <1>5

-----------------------------------------------------------------------------
(* Where a callback waits after a step.                                    *)

\* PendingAt is the one place where r waits in q.
WaitsOnce(r, q) ==
  /\ \A i : At(r, q, i) => PendingAt(r, q) = i
  /\ PendingAt(r, q) # 0 => At(r, q, PendingAt(r, q))

\* The next command goes to the front, those before it move back by one.
LEMMA SentPositions ==
  ASSUME NEW q, NEW u, NEW best, NEW r, NEW i, Len(q) \in Nat, SentAs(q, u, best),
         WaitsOnce(r, q), WaitsOnce(r, u), At(r, q, i)
  PROVE PendingAt(r, u) = IF i = best THEN 0 ELSE Target(best, i)
<1>1. i \in 1 .. Len(q) /\ Listed(r, q[i].callbacks) /\ q[i].state = "PENDING"
  BY DEF At, WaitsIn
<1>2. CASE i # best
  <2>1. Target(best, i) \in 2 .. Len(q) /\ Source(best, Target(best, i)) = i /\ Len(u) = Len(q)
    BY <1>1, <1>2 DEF SentAs
  <2>2. u[Target(best, i)] = q[i] /\ Target(best, i) \in 1 .. Len(u)
    BY <2>1 DEF SentAs
  <2>3. At(r, u, Target(best, i))
    BY <1>1, <2>2 DEF At, WaitsIn
  <2> QED BY <1>2, <2>3 DEF WaitsOnce
<1>3. CASE i = best
  <2> SUFFICES ASSUME PendingAt(r, u) # 0 PROVE FALSE
    BY <1>3
  <2>1. PICK k : k = PendingAt(r, u) /\ At(r, u, k)
    BY DEF WaitsOnce
  <2>2. k \in 1 .. Len(q) /\ u[k].state = "PENDING" /\ Listed(r, u[k].callbacks) /\ u[1].state = "EXECUTING"
    BY <2>1 DEF At, WaitsIn, SentAs
  <2>3. k \in 2 .. Len(q)
    BY <2>2
  <2>4. u[k] = q[Source(best, k)] /\ Source(best, k) \in 1 .. Len(q) /\ Source(best, k) # best
    BY <2>3 DEF SentAs
  <2>5. At(r, q, Source(best, k))
    BY <2>2, <2>4 DEF At, WaitsIn
  <2> QED BY <1>3, <2>4, <2>5 DEF WaitsOnce
<1> QED BY <1>2, <1>3

\* No other step changes the order, and none but a send puts a command on the
\* wire.
LEMMA OtherPositions ==
  ASSUME IInv, IInv', [Next]_vars, ~Send, NEW r, NEW s, NEW i, NEW j,
         WaitsOnce(r, queue), WaitsOnce(s, queue), WaitsOnce(r, queue'), WaitsOnce(s, queue'),
         At(r, queue, i), At(s, queue, j)
  PROVE \/ PendingAt(r, queue') = i /\ PendingAt(s, queue') = j
        \/ PendingAt(r, queue') = i - 1 /\ PendingAt(s, queue') = j - 1
        \/ PendingAt(r, queue') = 0 /\ PendingAt(s, queue') = 0
<1>1. /\ queue \in Seq(QueuedCommand) /\ Len(queue) \in Nat /\ queue' \in Seq(QueuedCommand)
      /\ Len(queue') \in Nat
  BY DEF IInv, TypeOK
<1>2. /\ i \in 1 .. Len(queue) /\ queue[i].state = "PENDING" /\ Listed(r, queue[i].callbacks)
      /\ j \in 1 .. Len(queue) /\ queue[j].state = "PENDING" /\ Listed(s, queue[j].callbacks)
  BY DEF At, WaitsIn
<1>3. CASE Grown(queue, queue', millis)
  <2>1. i \in 1 .. Len(queue') /\ j \in 1 .. Len(queue')
    BY <1>1, <1>2, <1>3 DEF Grown
  <2>2. At(r, queue', i) /\ At(s, queue', j)
    BY <1>2, <1>3, <2>1 DEF Grown, At, WaitsIn
  <2> QED BY <2>2 DEF WaitsOnce
<1>4. CASE Executing /\ queue' = Tail(queue)
  <2>1. queue # <<>> /\ queue[1].state = "EXECUTING"
    BY <1>1, <1>4 DEF Executing
  <2>2. i > 1 /\ j > 1
    BY <1>1, <1>2, <2>1
  <2>3. /\ i - 1 \in 1 .. Len(queue') /\ queue'[i - 1] = queue[i]
        /\ j - 1 \in 1 .. Len(queue') /\ queue'[j - 1] = queue[j]
    BY <1>1, <1>2, <1>4, <2>1, <2>2
  <2>4. At(r, queue', i - 1) /\ At(s, queue', j - 1)
    BY <1>2, <2>3 DEF At, WaitsIn
  <2> QED BY <2>4 DEF WaitsOnce
<1>5. CASE \A k : ~WaitsIn(queue', k)
  BY <1>5 DEF WaitsOnce, At
<1> QED BY <1>3, <1>4, <1>5, QueueChanges

-----------------------------------------------------------------------------
(* Which command is next.                                                  *)

\* The head start that other commands get of one with priority p.
Penalty(p) == CASE p = BACKGROUND -> BackgroundPenalty [] p = IDLE -> IdlePenalty [] OTHER -> 0

\* The effective time is the head start less the age.
LEMMA EffectiveTimeIs ==
  ASSUME NEW cmd
  PROVE EffectiveTime(cmd) = Penalty(cmd.priority) - AgeAt(cmd, millis) /\ Penalty(cmd.priority) \in Int
<1>1. BackgroundPenalty \in Int /\ IdlePenalty \in Int /\ 0 \in Int
  BY ConstantsAssumption DEF ConstantsAssumption
<1>2. Penalty(cmd.priority) \in Int
  BY <1>1 DEF Penalty, BACKGROUND, IDLE
<1>3. EffectiveTime(cmd) = Penalty(cmd.priority) - AgeAt(cmd, millis)
  BY DEF EffectiveTime, Penalty, AgeAt, Elapsed
<1> QED BY <1>2, <1>3

\* Of two commands with the same priority the one that waited longer is next.
LEMMA NextIsEldest ==
  ASSUME IInv, AgeInv, NEW i, NEW best, WaitsIn(queue, i), WaitsIn(queue, best), IsNext(best),
         i < best, queue[i].priority = queue[best].priority
  PROVE FALSE
<1>1. /\ i \in 1 .. Len(queue) /\ best \in 1 .. Len(queue) /\ queue \in Seq(QueuedCommand)
      /\ millis \in 0 .. ClockWrap - 1
  BY DEF WaitsIn, IInv, TypeOK
<1>2. queue[i] \in QueuedCommand /\ queue[best] \in QueuedCommand
  BY <1>1
<1>3. AgeAt(queue[i], millis) \in Nat /\ AgeAt(queue[best], millis) \in Nat
  BY <1>1, <1>2, AgeNat
<1>4. AgeAt(queue[best], millis) <= AgeAt(queue[i], millis)
  BY DEF AgeInv, AgesOrdered
<1>5. queue[i].priority \in 0 .. 4 /\ queue[best].priority \in 0 .. 4
  BY <1>2 DEF QueuedCommand, Priority, CRITICAL, IDLE
<1>6. Precedes(queue[best], queue[i])
  BY <1>1 DEF IsNext
<1>7. queue[i].priority < NORMAL => FALSE
  BY <1>5, <1>6 DEF Precedes
<1>8. ~(queue[i].priority < NORMAL) => EffectiveTime(queue[best]) < EffectiveTime(queue[i])
  BY <1>6 DEF Precedes
<1> DEFINE p == Penalty(queue[i].priority)
<1>9. /\ EffectiveTime(queue[best]) = p - AgeAt(queue[best], millis) /\ p \in Int
      /\ EffectiveTime(queue[i]) = p - AgeAt(queue[i], millis)
  BY EffectiveTimeIs
<1> HIDE DEF p
<1> QED BY <1>3, <1>4, <1>7, <1>8, <1>9

\* A CRITICAL or SETUP command is next before every less urgent one.
LEMMA NextIsUrgent ==
  ASSUME NEW i \in 1 .. Len(queue), NEW best, IsNext(best),
         queue[i].priority < NORMAL, queue[i].priority < queue[best].priority
  PROVE FALSE
<1>1. ~Precedes(queue[i], queue[best])
  BY DEF IsNext
<1> QED BY <1>1 DEF Precedes

\* The order of two callbacks that wait.
OrderKept(r, s) ==
  LET i == PendingAt(r, queue)   i1 == PendingAt(r, queue')
      j == PendingAt(s, queue)   j1 == PendingAt(s, queue')
      sent == Sends /\ j1 = 0 /\ i1 # 0
  IN i # 0 /\ j # 0 /\ i # j =>
       /\ i1 # 0 /\ j1 # 0 /\ i < j => i1 < j1
       /\ i < j /\ queue[i].priority = queue[j].priority => ~sent
       /\ queue[i].priority < NORMAL /\ queue[i].priority < queue[j].priority => ~sent

\* Every step keeps it.
LEMMA OrderStep ==
  ASSUME IInv, IInv', CallbackInv, CallbackInv', AgeInv, Next, NEW r \in Requester, NEW s \in Requester
  PROVE OrderKept(r, s)
<1>1. /\ queue \in Seq(QueuedCommand) /\ pending_callback \in Seq(Seq(Requester)) /\ stack \in Seq(Frame)
      /\ queue' \in Seq(QueuedCommand) /\ pending_callback' \in Seq(Seq(Requester)) /\ stack' \in Seq(Frame)
      /\ Len(queue) \in Nat
  BY DEF IInv, TypeOK
<1>2. WaitsOnce(r, queue) /\ WaitsOnce(s, queue)
  BY <1>1, PendingAtIs DEF WaitsOnce, CallbackInv
<1>3. WaitsOnce(r, queue') /\ WaitsOnce(s, queue')
  <2>1. Once(Held(queue', pending_callback', stack'), outstanding')
    BY DEF CallbackInv
  <2> QED BY <1>1, <2>1, PendingAtIs DEF WaitsOnce
<1>4. PICK i : i = PendingAt(r, queue)
  OBVIOUS
<1>5. PICK j : j = PendingAt(s, queue)
  OBVIOUS
<1>6. PICK i1 : i1 = PendingAt(r, queue')
  OBVIOUS
<1>7. PICK j1 : j1 = PendingAt(s, queue')
  OBVIOUS
<1> SUFFICES ASSUME i # 0, j # 0, i # j
             PROVE /\ i1 # 0 /\ j1 # 0 /\ i < j => i1 < j1
                   /\ i < j /\ queue[i].priority = queue[j].priority => ~(Sends /\ j1 = 0 /\ i1 # 0)
                   /\ queue[i].priority < NORMAL /\ queue[i].priority < queue[j].priority =>
                        ~(Sends /\ j1 = 0 /\ i1 # 0)
  BY <1>4, <1>5, <1>6, <1>7 DEF OrderKept
<1>8. At(r, queue, i) /\ At(s, queue, j)
  BY <1>2, <1>4, <1>5 DEF WaitsOnce
<1>9. WaitsIn(queue, i) /\ WaitsIn(queue, j) /\ i \in 1 .. Len(queue) /\ j \in 1 .. Len(queue)
  BY <1>8 DEF At, WaitsIn
<1>10. CASE ~Send
  <2>1. ~Sends
    BY <1>10, OnlySendSends
  <2>2. (i1 = i /\ j1 = j) \/ (i1 = i - 1 /\ j1 = j - 1) \/ (i1 = 0 /\ j1 = 0)
    BY <1>2, <1>3, <1>6, <1>7, <1>8, <1>10, OtherPositions
  <2> QED BY <1>1, <1>9, <2>1, <2>2
<1>11. CASE Send
  <2>1. PICK best : IsNext(best) /\ SentAs(queue, queue', best)
    BY <1>11, SendElements
  <2>2. i1 = (IF i = best THEN 0 ELSE Target(best, i)) /\ j1 = (IF j = best THEN 0 ELSE Target(best, j))
    BY <1>1, <1>2, <1>3, <1>6, <1>7, <1>8, <2>1, SentPositions
  <2>3. best \in 1 .. Len(queue) /\ WaitsIn(queue, best)
    BY <2>1 DEF SentAs, WaitsIn
  <2>4. i # best /\ j # best /\ i < j => i1 < j1
    BY <1>1, <1>9, <2>2, <2>3 DEF Target
  <2>5. j1 = 0 => j = best
    BY <1>9, <2>1, <2>2 DEF SentAs
  <2>6. ~(i < j /\ queue[i].priority = queue[j].priority /\ j = best)
    BY <1>9, <2>1, NextIsEldest
  <2>7. ~(queue[i].priority < NORMAL /\ queue[i].priority < queue[j].priority /\ j = best)
    BY <1>9, <2>1, NextIsUrgent
  <2> QED BY <2>2, <2>4, <2>5, <2>6, <2>7
<1> QED BY <1>10, <1>11

\* Commands of one priority leave for the wire in the order of their requests,
\* CRITICAL and SETUP commands before all others, and nothing changes the
\* order of those that wait.
THEOREM SendsInOrder == Spec => SendOrder
<1>1. Init => AgeInv
  BY DEF Init, AgeInv, AgesOrdered, WaitsIn
<1>2. Spec => [](IInv /\ CallbackInv)
  BY CallbackInvInit, CallbackInvStep, Invariance, PTL DEF Spec
<1>3. IInv /\ IInv' /\ AgeInv /\ [Next]_vars => AgeInv'
  BY AgeStep
<1>4. Spec => [](IInv /\ CallbackInv /\ AgeInv)
  BY <1>1, <1>2, <1>3, PTL DEF Spec
<1>5. IInv /\ IInv' /\ CallbackInv /\ CallbackInv' /\ AgeInv /\ [Next]_vars =>
        [\A r, s \in Requester : OrderKept(r, s)]_vars
  BY OrderStep
<1> QED BY <1>4, <1>5, PTL DEF Spec, SendOrder, OrderKept
=============================================================================
