----------------------- MODULE CommandQueueCallbacks ------------------------
(***************************************************************************)
(* Proof that CommandQueue loses no completion callback and calls none     *)
(* twice (CallbackConservation), for any commands, requests, requesters,   *)
(* time-outs, clock width and depth of nested calls.                       *)
(*                                                                         *)
(* A callback waits in a list, and the lists are in named slots: those of  *)
(* the queued commands, the deferred notification, and those of the calls  *)
(* that walk lists (Held).  A step moves whole lists from slot to slot     *)
(* (Moved), adds the callback of a request (Put), or calls the first one   *)
(* of a list (Called); calls that carry no list change nothing (HeldPush). *)
(***************************************************************************)
EXTENDS CommandQueueProofs, FiniteSetTheorems

\* Slots: the i-th queued command, the deferred notification, the list that
\* the i-th call notifies, and the j-th list that the i-th call cancels.
Kind == {"queue", "pending", "notify", "clear"}
Slot == Kind \X Nat \X Nat
QueueSlot(i, j) == <<"queue", i, j>>
PendingSlot(i, j) == <<"pending", i, j>>
NotifySlot(i, j) == <<"notify", i, j>>
ClearSlot(i, j) == <<"clear", i, j>>

\* The list of callbacks in slot l of a queue, a deferred notification and a
\* stack of calls.
ListIn(q, p, st, l) ==
  CASE l[1] = "queue" /\ l[2] \in 1 .. Len(q) /\ l[3] = 0 -> q[l[2]].callbacks
    [] l[1] = "pending" /\ l[2] \in 1 .. Len(p) /\ l[3] = 0 -> p[l[2]]
    [] l[1] = "notify" /\ l[2] \in 1 .. Len(st) /\ l[3] = 0 -> st[l[2]].callbacks
    [] l[1] = "clear" /\ l[2] \in 1 .. Len(st) /\ l[3] \in 1 .. Len(st[l[2]].cancelled) ->
         st[l[2]].cancelled[l[3]]
    [] OTHER -> <<>>
Held(q, p, st) == [l \in Slot |-> ListIn(q, p, st, l)]

In(H, l, k, r) == k \in 1 .. Len(H[l]) /\ H[l][k] = r

\* The callbacks in out are held in one place each, the others in none.
Once(H, out) ==
  \A r \in Requester :
    /\ r \in out <=> \E l \in Slot, k \in Nat : In(H, l, k, r)
    /\ \A l, m \in Slot, k, j \in Nat : In(H, l, k, r) /\ In(H, m, j, r) => l = m /\ k = j

\* The slots hold lists of callbacks.
LEMMA HeldType ==
  ASSUME NEW q \in Seq(QueuedCommand), NEW p \in Seq(Seq(Requester)), NEW st \in Seq(Frame)
  PROVE Held(q, p, st) \in [Slot -> Seq(Requester)]
<1> SUFFICES ASSUME NEW l \in Slot PROVE ListIn(q, p, st, l) \in Seq(Requester)
  BY DEF Held
<1>1. ASSUME NEW i \in 1 .. Len(q) PROVE q[i].callbacks \in Seq(Requester)
  <2>1. q[i] \in QueuedCommand
    OBVIOUS
  <2> QED BY <2>1 DEF QueuedCommand
<1>2. \A i \in 1 .. Len(p) : p[i] \in Seq(Requester)
  OBVIOUS
<1>3. ASSUME NEW i \in 1 .. Len(st)
      PROVE /\ st[i].callbacks \in Seq(Requester)
            /\ \A k \in 1 .. Len(st[i].cancelled) : st[i].cancelled[k] \in Seq(Requester)
  <2>1. st[i] \in Frame
    OBVIOUS
  <2>2. st[i].callbacks \in Seq(Requester) /\ st[i].cancelled \in Seq(Seq(Requester))
    BY <2>1 DEF Frame
  <2> QED BY <2>2
<1>4. <<>> \in Seq(Requester)
  OBVIOUS
<1> QED BY <1>1, <1>2, <1>3, <1>4 DEF ListIn

\* Lists that only change their slots keep their callbacks.
LEMMA Moved ==
  ASSUME NEW H \in [Slot -> Seq(Requester)], NEW G \in [Slot -> Seq(Requester)],
         NEW from \in [Slot -> Slot], NEW to \in [Slot -> Slot], NEW out, Once(H, out),
         \A l \in Slot : G[l] # <<>> => G[l] = H[from[l]] /\ to[from[l]] = l,
         \A m \in Slot : H[m] # <<>> => G[to[m]] = H[m]
  PROVE Once(G, out)
<1> SUFFICES ASSUME NEW r \in Requester
             PROVE /\ r \in out <=> \E l \in Slot, k \in Nat : In(G, l, k, r)
                   /\ \A l, m \in Slot, k, j \in Nat : In(G, l, k, r) /\ In(G, m, j, r) => l = m /\ k = j
  BY DEF Once
<1>1. \A l \in Slot, k \in Nat : In(G, l, k, r) => In(H, from[l], k, r) /\ to[from[l]] = l /\ from[l] \in Slot
  BY DEF In
<1>2. \A m \in Slot, k \in Nat : In(H, m, k, r) => In(G, to[m], k, r) /\ to[m] \in Slot
  BY DEF In
<1>3. /\ r \in out <=> \E l \in Slot, k \in Nat : In(H, l, k, r)
      /\ \A l, m \in Slot, k, j \in Nat : In(H, l, k, r) /\ In(H, m, j, r) => l = m /\ k = j
  BY DEF Once
<1>4. r \in out <=> \E l \in Slot, k \in Nat : In(G, l, k, r)
  BY <1>1, <1>2, <1>3
<1>5. ASSUME NEW l \in Slot, NEW m \in Slot, NEW k \in Nat, NEW j \in Nat, In(G, l, k, r), In(G, m, j, r)
      PROVE l = m /\ k = j
  <2>1. In(H, from[l], k, r) /\ In(H, from[m], j, r) /\ from[l] \in Slot /\ from[m] \in Slot
    BY <1>1, <1>5
  <2>2. from[l] = from[m] /\ k = j
    BY <1>3, <2>1
  <2> QED BY <2>2, <1>1, <1>5
<1> QED BY <1>4, <1>5

\* A callback that is not waiting is put at the end of a list.
LEMMA Put ==
  ASSUME NEW H \in [Slot -> Seq(Requester)], NEW G \in [Slot -> Seq(Requester)],
         NEW at \in Slot, NEW r \in Requester, NEW out, r \notin out, Once(H, out),
         G[at] = Append(H[at], r), \A l \in Slot : l # at => G[l] = H[l]
  PROVE Once(G, out \cup {r})
<1>1. ASSUME NEW s \in Requester, NEW l \in Slot, NEW k \in Nat
      PROVE In(G, l, k, s) <=> In(H, l, k, s) \/ (s = r /\ l = at /\ k = Len(H[at]) + 1)
  <2> DEFINE h == H[at]
  <2>1. h \in Seq(Requester) /\ G[at] = Append(h, r)
    OBVIOUS
  <2> HIDE DEF h
  <2>2. CASE l = at
    <3>1. k \in 1 .. Len(Append(h, r)) /\ Append(h, r)[k] = s
            <=> (k \in 1 .. Len(h) /\ h[k] = s) \/ (s = r /\ k = Len(h) + 1)
      BY <2>1
    <3> QED BY <2>1, <2>2, <3>1 DEF In, h
  <2>3. CASE l # at
    BY <2>3 DEF In
  <2> QED BY <2>2, <2>3
<1>2. Len(H[at]) + 1 \in Nat
  OBVIOUS
<1>3. \A l \in Slot, k \in Nat : ~In(H, l, k, r)
  BY DEF Once
<1> QED BY <1>1, <1>2, <1>3 DEF Once

\* The first callback of a list is called.
LEMMA Called ==
  ASSUME NEW H \in [Slot -> Seq(Requester)], NEW G \in [Slot -> Seq(Requester)],
         NEW at \in Slot, NEW out, Once(H, out), H[at] # <<>>,
         G[at] = Tail(H[at]), \A l \in Slot : l # at => G[l] = H[l]
  PROVE Once(G, out \ {Head(H[at])})
<1>1. ASSUME NEW s \in Requester, NEW l \in Slot, NEW k \in Nat
      PROVE In(G, l, k, s) <=> IF l = at THEN k > 0 /\ In(H, l, k + 1, s) ELSE In(H, l, k, s)
  <2> DEFINE h == H[at]
  <2>1. h \in Seq(Requester) /\ G[at] = Tail(h) /\ h # <<>>
    OBVIOUS
  <2> HIDE DEF h
  <2>2. CASE l = at
    <3>1. k \in 1 .. Len(Tail(h)) /\ Tail(h)[k] = s
            <=> k > 0 /\ k + 1 \in 1 .. Len(h) /\ h[k + 1] = s
      BY <2>1
    <3> QED BY <2>1, <2>2, <3>1 DEF In, h
  <2>3. CASE l # at
    BY <2>3 DEF In
  <2> QED BY <2>2, <2>3
<1>2. Head(H[at]) \in Requester /\ In(H, at, 1, Head(H[at]))
  BY DEF In
<1>3. ASSUME NEW s \in Requester, s # Head(H[at])
      PROVE s \in out <=> \E l \in Slot, k \in Nat : In(G, l, k, s)
  <2>1. ~In(H, at, 1, s)
    BY <1>3 DEF In
  <2>2. ASSUME NEW l \in Slot, NEW k \in Nat, In(H, l, k, s) PROVE \E j \in Nat : In(G, l, j, s)
    <3>1. CASE l = at
      <4>1. k > 1
        BY <2>1, <2>2, <3>1 DEF In
      <4>2. k - 1 \in Nat /\ (k - 1) + 1 = k /\ k - 1 > 0
        BY <4>1
      <4> QED BY <1>1, <2>2, <3>1, <4>2
    <3> QED BY <1>1, <2>2, <3>1
  <2>3. \A l \in Slot, k \in Nat : In(G, l, k, s) => \E j \in Nat : In(H, l, j, s)
    BY <1>1
  <2> QED BY <2>2, <2>3 DEF Once
<1>4. \A l \in Slot, k \in Nat : ~In(G, l, k, Head(H[at]))
  BY <1>1, <1>2 DEF Once
<1>5. \A s \in Requester, l, m \in Slot, k, j \in Nat :
        In(G, l, k, s) /\ In(G, m, j, s) => l = m /\ k = j
  <2> TAKE s \in Requester, l \in Slot, m \in Slot, k \in Nat, j \in Nat
  <2> HAVE In(G, l, k, s) /\ In(G, m, j, s)
  <2>1. \A a, b \in Slot, c, d \in Nat : In(H, a, c, s) /\ In(H, b, d, s) => a = b /\ c = d
    BY DEF Once
  <2>2. k + 1 \in Nat /\ j + 1 \in Nat
    OBVIOUS
  <2>3. l = m
    BY <1>1, <2>1, <2>2
  <2> QED BY <1>1, <2>1, <2>2, <2>3
<1> QED BY <1>3, <1>4, <1>5 DEF Once

-----------------------------------------------------------------------------
(* The slots by kind.                                                      *)

QueueList(q, i, j) == IF i \in 1 .. Len(q) /\ j = 0 THEN q[i].callbacks ELSE <<>>
PendingList(p, i, j) == IF i \in 1 .. Len(p) /\ j = 0 THEN p[i] ELSE <<>>
NotifyList(st, i, j) == IF i \in 1 .. Len(st) /\ j = 0 THEN st[i].callbacks ELSE <<>>
ClearList(st, i, j) ==
  IF i \in 1 .. Len(st) /\ j \in 1 .. Len(st[i].cancelled) THEN st[i].cancelled[j] ELSE <<>>

\* What the slots hold.
LEMMA HeldValues ==
  ASSUME NEW q, NEW p, NEW st, NEW a \in Nat, NEW b \in Nat
  PROVE /\ Held(q, p, st)[QueueSlot(a, b)] = QueueList(q, a, b)
        /\ Held(q, p, st)[PendingSlot(a, b)] = PendingList(p, a, b)
        /\ Held(q, p, st)[NotifySlot(a, b)] = NotifyList(st, a, b)
        /\ Held(q, p, st)[ClearSlot(a, b)] = ClearList(st, a, b)
<1>1. \A kind \in Kind : <<kind, a, b>> \in Slot
  BY DEF Slot
<1>2. \A kind \in Kind : Held(q, p, st)[<<kind, a, b>>] = ListIn(q, p, st, <<kind, a, b>>)
  BY <1>1 DEF Held
<1> QED BY <1>2 DEF ListIn, Kind, QueueSlot, PendingSlot, NotifySlot, ClearSlot,
                    QueueList, PendingList, NotifyList, ClearList

\* A slot is named by a kind and two numbers.
LEMMA SlotParts ==
  /\ \A l \in Slot : \E a, b \in Nat :
       l = QueueSlot(a, b) \/ l = PendingSlot(a, b) \/ l = NotifySlot(a, b) \/ l = ClearSlot(a, b)
  /\ \A a, b \in Nat :
       /\ QueueSlot(a, b) \in Slot /\ PendingSlot(a, b) \in Slot
       /\ NotifySlot(a, b) \in Slot /\ ClearSlot(a, b) \in Slot
  BY DEF Slot, Kind, QueueSlot, PendingSlot, NotifySlot, ClearSlot

\* What a new call changes: its own slots.
LEMMA PushedLists ==
  ASSUME NEW st \in Seq(Frame), NEW f \in Frame, NEW a \in Nat, NEW b \in Nat
  PROVE LET n == Len(st) + 1
            t == Append(st, f)
        IN /\ a # n => NotifyList(t, a, b) = NotifyList(st, a, b) /\ ClearList(t, a, b) = ClearList(st, a, b)
           /\ a = n => /\ NotifyList(st, a, b) = <<>> /\ ClearList(st, a, b) = <<>>
                       /\ NotifyList(t, a, b) = IF b = 0 THEN f.callbacks ELSE <<>>
                       /\ ClearList(t, a, b) = IF b \in 1 .. Len(f.cancelled) THEN f.cancelled[b] ELSE <<>>
<1> DEFINE t == Append(st, f)
<1>1. /\ Len(t) = Len(st) + 1 /\ Len(st) \in Nat /\ t[Len(st) + 1] = f
      /\ \A k \in 1 .. Len(st) : t[k] = st[k]
  OBVIOUS
<1> HIDE DEF t
<1>2. a # Len(st) + 1 => NotifyList(t, a, b) = NotifyList(st, a, b) /\ ClearList(t, a, b) = ClearList(st, a, b)
  BY <1>1 DEF NotifyList, ClearList
<1>3. a = Len(st) + 1 =>
        /\ NotifyList(st, a, b) = <<>> /\ ClearList(st, a, b) = <<>>
        /\ NotifyList(t, a, b) = IF b = 0 THEN f.callbacks ELSE <<>>
        /\ ClearList(t, a, b) = IF b \in 1 .. Len(f.cancelled) THEN f.cancelled[b] ELSE <<>>
  BY <1>1 DEF NotifyList, ClearList
<1> QED BY <1>2, <1>3 DEF t

ListAt(lists, b) == IF b \in 1 .. Len(lists) THEN lists[b] ELSE <<>>

\* The same, for the slots of the older calls ...
LEMMA PushedOther ==
  ASSUME NEW st \in Seq(Frame), NEW f \in Frame, NEW a \in Nat, NEW b \in Nat, a # Len(st) + 1
  PROVE /\ NotifyList(Append(st, f), a, b) = NotifyList(st, a, b)
        /\ ClearList(Append(st, f), a, b) = ClearList(st, a, b)
  BY PushedLists

\* ... and for its own.
LEMMA PushedOwn ==
  ASSUME NEW st \in Seq(Frame), NEW f \in Frame, NEW b \in Nat
  PROVE /\ NotifyList(st, Len(st) + 1, b) = <<>> /\ ClearList(st, Len(st) + 1, b) = <<>>
        /\ NotifyList(Append(st, f), Len(st) + 1, 0) = f.callbacks
        /\ b # 0 => NotifyList(Append(st, f), Len(st) + 1, b) = <<>>
        /\ ClearList(Append(st, f), Len(st) + 1, b) = ListAt(f.cancelled, b)
<1>1. Len(st) + 1 \in Nat
  OBVIOUS
<1> QED BY <1>1, PushedLists DEF ListAt

\* When the front command leaves, the others move up.
LEMMA TailLists ==
  ASSUME NEW q \in Seq(QueuedCommand), q # <<>>
  PROVE /\ \A i \in Nat : i # 0 => QueueList(Tail(q), i, 0) = QueueList(q, i + 1, 0)
        /\ QueueList(q, 1, 0) = Head(q).callbacks
<1> DEFINE u == Tail(q)
<1>1. /\ Len(u) = Len(q) - 1 /\ Len(q) \in Nat /\ Len(q) >= 1 /\ q[1] = Head(q)
      /\ \A k \in 1 .. Len(u) : u[k] = q[k + 1]
  OBVIOUS
<1> HIDE DEF u
<1>2. ASSUME NEW i \in Nat, i # 0 PROVE QueueList(u, i, 0) = QueueList(q, i + 1, 0)
  BY <1>1, <1>2 DEF QueueList
<1>3. QueueList(q, 1, 0) = Head(q).callbacks
  BY <1>1 DEF QueueList
<1> QED BY <1>2, <1>3 DEF u

\* The slots that are always empty.
LEMMA EmptyLists ==
  ASSUME NEW x, NEW a \in Nat, NEW b \in Nat
  PROVE /\ b # 0 => QueueList(x, a, b) = <<>> /\ PendingList(x, a, b) = <<>> /\ NotifyList(x, a, b) = <<>>
        /\ QueueList(x, 0, 0) = <<>> /\ PendingList(x, 0, 0) = <<>> /\ ClearList(x, a, 0) = <<>>
  BY DEF QueueList, PendingList, NotifyList, ClearList

\* The deferred notification.
LEMMA PendingLists ==
  ASSUME NEW c, NEW a \in Nat, NEW b \in Nat
  PROVE /\ PendingList(<<>>, a, b) = <<>>
        /\ PendingList(<<c>>, 1, 0) = c
        /\ a # 1 \/ b # 0 => PendingList(<<c>>, a, b) = <<>>
  BY DEF PendingList

Bare(f) == f.callbacks = <<>> /\ f.cancelled = <<>>

\* A call without lists holds none.
LEMMA HeldPush ==
  ASSUME NEW q \in Seq(QueuedCommand), NEW p \in Seq(Seq(Requester)),
         NEW st \in Seq(Frame), NEW f \in Frame, Bare(f)
  PROVE Held(q, p, Append(st, f)) = Held(q, p, st)
<1> DEFINE H == Held(q, p, st)
           t == Append(st, f)
           G == Held(q, p, t)
<1>1. t \in Seq(Frame)
  OBVIOUS
<1>2. H \in [Slot -> Seq(Requester)] /\ G \in [Slot -> Seq(Requester)]
  BY <1>1, HeldType
<1>3. ASSUME NEW a \in Nat, NEW b \in Nat
      PROVE /\ G[QueueSlot(a, b)] = H[QueueSlot(a, b)] /\ G[PendingSlot(a, b)] = H[PendingSlot(a, b)]
            /\ G[NotifySlot(a, b)] = H[NotifySlot(a, b)] /\ G[ClearSlot(a, b)] = H[ClearSlot(a, b)]
  <2>1. NotifyList(t, a, b) = NotifyList(st, a, b) /\ ClearList(t, a, b) = ClearList(st, a, b)
    <3> DEFINE n == Len(st) + 1
    <3>1. /\ a # n => NotifyList(t, a, b) = NotifyList(st, a, b) /\ ClearList(t, a, b) = ClearList(st, a, b)
          /\ a = n => /\ NotifyList(st, a, b) = <<>> /\ ClearList(st, a, b) = <<>>
                      /\ NotifyList(t, a, b) = IF b = 0 THEN f.callbacks ELSE <<>>
                      /\ ClearList(t, a, b) = IF b \in 1 .. Len(f.cancelled) THEN f.cancelled[b] ELSE <<>>
      BY PushedLists
    <3>2. f.callbacks = <<>> /\ f.cancelled = <<>> /\ b \notin 1 .. Len(f.cancelled)
      BY DEF Bare
    <3> HIDE DEF t, n
    <3> QED BY <3>1, <3>2
  <2> HIDE DEF t
  <2>2. /\ H[QueueSlot(a, b)] = QueueList(q, a, b) /\ H[PendingSlot(a, b)] = PendingList(p, a, b)
        /\ H[NotifySlot(a, b)] = NotifyList(st, a, b) /\ H[ClearSlot(a, b)] = ClearList(st, a, b)
    BY HeldValues
  <2>3. /\ G[QueueSlot(a, b)] = QueueList(q, a, b) /\ G[PendingSlot(a, b)] = PendingList(p, a, b)
        /\ G[NotifySlot(a, b)] = NotifyList(t, a, b) /\ G[ClearSlot(a, b)] = ClearList(t, a, b)
    BY HeldValues
  <2> HIDE DEF H, G
  <2> QED BY <2>1, <2>2, <2>3
<1> HIDE DEF H, G
<1>4. ASSUME NEW l \in Slot PROVE G[l] = H[l]
  <2>1. PICK a \in Nat, b \in Nat :
          l = QueueSlot(a, b) \/ l = PendingSlot(a, b) \/ l = NotifySlot(a, b) \/ l = ClearSlot(a, b)
    BY SlotParts
  <2> QED BY <1>3, <2>1
<1>5. G = H
  BY <1>2, <1>4
<1> QED BY <1>5 DEF G, H

-----------------------------------------------------------------------------
(* Families of slots.                                                      *)

\* A family of slots: no two indices name the same one.
Family(fam) == fam \in [Nat -> Slot] /\ \A i, j \in Nat : fam[i] = fam[j] => i = j
Outside(l, fam) == \A i \in Nat : l # fam[i]

\* The index of a slot in its family.
LEMMA FamilyIndex ==
  ASSUME NEW fam, Family(fam), NEW i \in Nat
  PROVE (CHOOSE j \in Nat : fam[i] = fam[j]) = i
  BY DEF Family

\* The first list of a family goes elsewhere, the others move up.
LEMMA FirstMoves ==
  ASSUME NEW H \in [Slot -> Seq(Requester)], NEW G \in [Slot -> Seq(Requester)],
         NEW out, Once(H, out),
         NEW fam, Family(fam), NEW d \in Slot, Outside(d, fam),
         H[fam[0]] = <<>>, G[fam[0]] = <<>>, H[d] = <<>>, G[d] = H[fam[1]],
         \A i \in Nat : i # 0 => G[fam[i]] = H[fam[i + 1]],
         \A l \in Slot : l # d /\ Outside(l, fam) => G[l] = H[l]
  PROVE Once(G, out)
<1> DEFINE Index(l) == CHOOSE i \in Nat : l = fam[i]
           from == [l \in Slot |->
             IF l = d THEN fam[1] ELSE IF \E i \in Nat : l = fam[i] THEN fam[Index(l) + 1] ELSE l]
           to == [l \in Slot |->
             IF l = fam[1] THEN d
             ELSE IF \E i \in Nat : l = fam[i] /\ i # 0 THEN fam[Index(l) - 1] ELSE l]
<1>1. \A i \in Nat : fam[i] \in Slot /\ Index(fam[i]) = i /\ fam[i] # d
  BY FamilyIndex DEF Family, Outside
<1>2. \A i, j \in Nat : fam[i] = fam[j] => i = j
  BY DEF Family
<1> HIDE DEF Index
<1>3. from[d] = fam[1] /\ to[d] = d
  BY <1>1
<1>4. ASSUME NEW i \in Nat
      PROVE /\ from[fam[i]] = fam[i + 1]
            /\ i = 1 => to[fam[i]] = d
            /\ i > 1 => to[fam[i]] = fam[i - 1]
  <2>1. fam[i] \in Slot /\ fam[i] # d /\ Index(fam[i]) = i
    BY <1>1
  <2>2. from[fam[i]] = fam[i + 1]
    BY <2>1
  <2>3. i = 1 => to[fam[i]] = d
    BY <2>1
  <2>4. i > 1 => to[fam[i]] = fam[i - 1]
    <3>1. i > 1 => i # 0 /\ fam[i] # fam[1]
      BY <1>2
    <3> QED BY <2>1, <3>1
  <2> QED BY <2>2, <2>3, <2>4
<1>5. ASSUME NEW l \in Slot, l # d, Outside(l, fam)
      PROVE from[l] = l /\ to[l] = l
  BY <1>1, <1>5 DEF Outside
<1>6. from \in [Slot -> Slot] /\ to \in [Slot -> Slot]
  <2>1. \A l \in Slot : from[l] \in Slot /\ to[l] \in Slot
    <3> TAKE l \in Slot
    <3>1. CASE l = d
      BY <1>1, <1>3, <3>1
    <3>2. CASE l # d /\ Outside(l, fam)
      BY <1>5, <3>2
    <3>3. ASSUME NEW i \in Nat, l = fam[i]
          PROVE from[l] \in Slot /\ to[l] \in Slot
      <4>1. CASE i = 0
        <5>1. from[l] = fam[1] /\ fam[1] \in Slot /\ l = fam[0] /\ l # d
          BY <1>1, <1>4, <3>3, <4>1
        <5>2. ~\E k \in Nat : l = fam[k] /\ k # 0
          BY <1>2, <5>1
        <5>3. l # fam[1]
          BY <1>2, <5>1
        <5>4. to[l] = l
          BY <5>1, <5>2, <5>3
        <5> QED BY <5>1, <5>4
      <4>2. CASE i > 0
        <5>1. i - 1 \in Nat /\ i + 1 \in Nat
          BY <4>2
        <5>2. from[l] = fam[i + 1] /\ fam[i + 1] \in Slot
          BY <1>1, <1>4, <3>3, <5>1
        <5>3. to[l] = d \/ (to[l] = fam[i - 1] /\ fam[i - 1] \in Slot)
          <6>1. i = 1 \/ i > 1
            BY <4>2
          <6>2. CASE i = 1
            BY <1>4, <3>3, <6>2
          <6>3. CASE i > 1
            <7>1. to[fam[i]] = fam[i - 1]
              BY <1>4, <6>3
            <7> QED BY <1>1, <3>3, <5>1, <7>1
          <6> QED BY <6>1, <6>2, <6>3
        <5> QED BY <5>2, <5>3
      <4> QED BY <4>1, <4>2
    <3> QED BY <3>1, <3>2, <3>3 DEF Outside
  <2> QED BY <2>1
<1> HIDE DEF from, to
<1>7. ASSUME NEW l \in Slot, G[l] # <<>>
      PROVE G[l] = H[from[l]] /\ to[from[l]] = l
  <2>1. CASE l = d
    BY <1>3, <1>4, <2>1
  <2>2. CASE l # d /\ Outside(l, fam)
    BY <1>5, <2>2
  <2>3. ASSUME NEW i \in Nat, l = fam[i]
        PROVE G[l] = H[from[l]] /\ to[from[l]] = l
    <3>0. i # 0
      BY <1>7, <2>3
    <3>1. i + 1 \in Nat /\ i + 1 > 1 /\ (i + 1) - 1 = i
      BY <3>0
    <3>2. from[l] = fam[i + 1] /\ to[fam[i + 1]] = fam[i]
      BY <1>4, <2>3, <3>1
    <3> QED BY <2>3, <3>0, <3>2
  <2> QED BY <2>1, <2>2, <2>3 DEF Outside
<1>8. ASSUME NEW m \in Slot, H[m] # <<>>
      PROVE G[to[m]] = H[m]
  <2>1. CASE m = d
    BY <1>8, <2>1
  <2>2. CASE m # d /\ Outside(m, fam)
    BY <1>5, <2>2
  <2>3. ASSUME NEW i \in Nat, m = fam[i]
        PROVE G[to[m]] = H[m]
    <3>1. CASE i = 1
      BY <1>4, <2>3, <3>1
    <3>2. CASE i # 1
      <4>1. i # 0
        BY <1>8, <2>3
      <4>2. i > 1 /\ i - 1 \in Nat /\ i - 1 # 0 /\ (i - 1) + 1 = i
        BY <3>2, <4>1
      <4> QED BY <1>4, <2>3, <4>2
    <3> QED BY <3>1, <3>2
  <2> QED BY <2>1, <2>2, <2>3 DEF Outside
<1> QED BY <1>6, <1>7, <1>8, Moved

\* The lists of a family go to the slots of another one.
LEMMA FamilyMoves ==
  ASSUME NEW H \in [Slot -> Seq(Requester)], NEW G \in [Slot -> Seq(Requester)],
         NEW out, Once(H, out),
         NEW fam, Family(fam), NEW dest, Family(dest), \A i \in Nat : Outside(dest[i], fam),
         \A i \in Nat : H[dest[i]] = <<>> /\ G[dest[i]] = H[fam[i]] /\ G[fam[i]] = <<>>,
         \A l \in Slot : Outside(l, fam) /\ Outside(l, dest) => G[l] = H[l]
  PROVE Once(G, out)
<1> DEFINE Index(l, f) == CHOOSE i \in Nat : l = f[i]
           from == [l \in Slot |-> IF \E i \in Nat : l = dest[i] THEN fam[Index(l, dest)] ELSE l]
           to == [l \in Slot |-> IF \E i \in Nat : l = fam[i] THEN dest[Index(l, fam)] ELSE l]
<1>1. \A i \in Nat : /\ fam[i] \in Slot /\ Index(fam[i], fam) = i
                     /\ dest[i] \in Slot /\ Index(dest[i], dest) = i
  BY FamilyIndex DEF Family
<1> HIDE DEF Index
<1>2. \A i \in Nat : from[dest[i]] = fam[i] /\ to[fam[i]] = dest[i]
  BY <1>1
<1>3. /\ \A l \in Slot : Outside(l, dest) => from[l] = l
      /\ \A l \in Slot : Outside(l, fam) => to[l] = l
  BY DEF Outside
<1>4. from \in [Slot -> Slot] /\ to \in [Slot -> Slot]
  BY <1>1
<1> HIDE DEF from, to
<1>5. ASSUME NEW l \in Slot, G[l] # <<>>
      PROVE G[l] = H[from[l]] /\ to[from[l]] = l
  <2>1. Outside(l, fam)
    BY <1>5 DEF Outside
  <2>2. CASE Outside(l, dest)
    BY <1>3, <2>1, <2>2
  <2>3. CASE ~Outside(l, dest)
    BY <1>2, <2>3 DEF Outside
  <2> QED BY <2>2, <2>3
<1>6. ASSUME NEW m \in Slot, H[m] # <<>>
      PROVE G[to[m]] = H[m]
  <2>1. Outside(m, dest)
    BY <1>6 DEF Outside
  <2>2. CASE Outside(m, fam)
    BY <1>3, <2>1, <2>2
  <2>3. CASE ~Outside(m, fam)
    BY <1>2, <2>3 DEF Outside
  <2> QED BY <2>2, <2>3
<1> QED BY <1>4, <1>5, <1>6, Moved

\* perm changes the places of lists and back puts them back.
Permutes(perm, back) ==
  /\ perm \in [Nat -> Nat] /\ back \in [Nat -> Nat]
  /\ \A i \in Nat : perm[back[i]] = i /\ back[perm[i]] = i

\* The lists of a family change places, the others stay.
PermutedBy(H, G, fam, perm, back) ==
  /\ Family(fam) /\ Permutes(perm, back)
  /\ \A i \in Nat : G[fam[i]] = H[fam[perm[i]]]
  /\ \A l \in Slot : Outside(l, fam) => G[l] = H[l]

\* Such a change keeps every callback in one place.
LEMMA FamilyPermuted ==
  ASSUME NEW H \in [Slot -> Seq(Requester)], NEW G \in [Slot -> Seq(Requester)],
         NEW out, Once(H, out),
         NEW fam, NEW perm, NEW back, PermutedBy(H, G, fam, perm, back)
  PROVE Once(G, out)
<1>9. /\ Family(fam) /\ Permutes(perm, back)
      /\ \A i \in Nat : G[fam[i]] = H[fam[perm[i]]]
      /\ \A l \in Slot : Outside(l, fam) => G[l] = H[l]
  BY DEF PermutedBy
<1> DEFINE Index(l) == CHOOSE i \in Nat : l = fam[i]
           from == [l \in Slot |-> IF \E i \in Nat : l = fam[i] THEN fam[perm[Index(l)]] ELSE l]
           to == [l \in Slot |-> IF \E i \in Nat : l = fam[i] THEN fam[back[Index(l)]] ELSE l]
<1>0. /\ \A i \in Nat : perm[i] \in Nat /\ back[i] \in Nat
      /\ \A i \in Nat : perm[back[i]] = i /\ back[perm[i]] = i
  BY <1>9 DEF Permutes
<1>1. \A i \in Nat : fam[i] \in Slot /\ Index(fam[i]) = i
  BY <1>9, FamilyIndex DEF Family
<1> HIDE DEF Index
<1>2. \A i \in Nat : from[fam[i]] = fam[perm[i]] /\ to[fam[i]] = fam[back[i]]
  BY <1>1
<1>3. \A l \in Slot : Outside(l, fam) => from[l] = l /\ to[l] = l
  BY DEF Outside
<1>4. from \in [Slot -> Slot] /\ to \in [Slot -> Slot]
  <2>1. ASSUME NEW l \in Slot PROVE from[l] \in Slot /\ to[l] \in Slot
    <3>1. CASE Outside(l, fam)
      BY <1>3, <3>1
    <3>2. ASSUME NEW i \in Nat, l = fam[i] PROVE from[l] \in Slot /\ to[l] \in Slot
      <4>1. perm[i] \in Nat /\ back[i] \in Nat
        BY <1>0
      <4> QED BY <1>1, <1>2, <3>2, <4>1
    <3> QED BY <3>1, <3>2 DEF Outside
  <2> QED BY <2>1
<1> HIDE DEF from, to
<1>5. ASSUME NEW l \in Slot
      PROVE G[l] = H[from[l]] /\ to[from[l]] = l /\ G[to[l]] = H[l]
  <2>1. CASE Outside(l, fam)
    BY <1>3, <1>9, <2>1
  <2>2. ASSUME NEW i \in Nat, l = fam[i]
        PROVE G[l] = H[from[l]] /\ to[from[l]] = l /\ G[to[l]] = H[l]
    <3>1. perm[i] \in Nat /\ back[i] \in Nat
      BY <1>0
    <3>2. from[l] = fam[perm[i]] /\ to[l] = fam[back[i]]
      BY <1>2, <2>2
    <3>3. to[fam[perm[i]]] = fam[i]
      BY <1>0, <1>2, <3>1
    <3>4. G[fam[i]] = H[fam[perm[i]]] /\ G[fam[back[i]]] = H[fam[i]]
      BY <1>0, <1>9, <3>1
    <3> QED BY <2>2, <3>2, <3>3, <3>4
  <2> QED BY <2>1, <2>2 DEF Outside
<1> QED BY <1>4, <1>5, Moved

QueueFamily == [i \in Nat |-> QueueSlot(i, 0)]
PendingFamily == [i \in Nat |-> PendingSlot(i, 0)]
ClearFamily(n) == [i \in Nat |-> ClearSlot(n, i)]

\* They are families, and disjoint ones.
LEMMA Families ==
  ASSUME NEW n \in Nat
  PROVE /\ Family(QueueFamily) /\ Family(PendingFamily) /\ Family(ClearFamily(n))
        /\ \A a, b \in Nat :
             /\ Outside(NotifySlot(a, b), QueueFamily) /\ Outside(NotifySlot(a, b), PendingFamily)
             /\ Outside(NotifySlot(a, b), ClearFamily(n)) /\ Outside(PendingSlot(a, b), QueueFamily)
<1>1. Family(QueueFamily) /\ Family(PendingFamily) /\ Family(ClearFamily(n))
  BY DEF Family, QueueFamily, PendingFamily, ClearFamily, QueueSlot, PendingSlot, ClearSlot, Slot, Kind
<1>2. ASSUME NEW a \in Nat, NEW b \in Nat
      PROVE /\ Outside(NotifySlot(a, b), QueueFamily) /\ Outside(NotifySlot(a, b), PendingFamily)
            /\ Outside(NotifySlot(a, b), ClearFamily(n)) /\ Outside(PendingSlot(a, b), QueueFamily)
  BY DEF Outside, QueueFamily, PendingFamily, ClearFamily, QueueSlot, PendingSlot, NotifySlot, ClearSlot
<1> QED BY <1>1, <1>2

-----------------------------------------------------------------------------
(* What the steps do to the lists.                                         *)

\* The callbacks of the command on the wire go to a call that walks them.
LEMMA FrontToWalk ==
  ASSUME NEW q \in Seq(QueuedCommand), q # <<>>, NEW p \in Seq(Seq(Requester)),
         NEW st \in Seq(Frame), NEW f \in Frame,
         f.callbacks = Head(q).callbacks, f.cancelled = <<>>,
         NEW out, Once(Held(q, p, st), out)
  PROVE Once(Held(Tail(q), p, Append(st, f)), out)
<1> DEFINE H == Held(q, p, st)
           t == Append(st, f)
           u == Tail(q)
           G == Held(u, p, t)
           n == Len(st) + 1
           d == NotifySlot(n, 0)
<1>1. n \in Nat /\ u \in Seq(QueuedCommand) /\ t \in Seq(Frame)
  OBVIOUS
<1>2. H \in [Slot -> Seq(Requester)] /\ G \in [Slot -> Seq(Requester)]
  BY <1>1, HeldType
<1>3. ASSUME NEW a \in Nat, NEW b \in Nat
      PROVE /\ NotifyList(t, a, b) = IF a = n /\ b = 0 THEN QueueList(q, 1, 0) ELSE NotifyList(st, a, b)
            /\ ClearList(t, a, b) = ClearList(st, a, b)
            /\ NotifyList(st, n, b) = <<>>
  <2>1. /\ a # n => NotifyList(t, a, b) = NotifyList(st, a, b) /\ ClearList(t, a, b) = ClearList(st, a, b)
        /\ a = n => /\ NotifyList(st, a, b) = <<>> /\ ClearList(st, a, b) = <<>>
                    /\ NotifyList(t, a, b) = IF b = 0 THEN f.callbacks ELSE <<>>
                    /\ ClearList(t, a, b) = <<>>
    BY PushedLists
  <2>2. NotifyList(st, n, b) = <<>>
    BY <1>1, PushedLists
  <2>3. QueueList(q, 1, 0) = f.callbacks
    BY TailLists
  <2> HIDE DEF t, n
  <2> QED BY <2>1, <2>2, <2>3
<1>4. \A i \in Nat : i # 0 => QueueList(u, i, 0) = QueueList(q, i + 1, 0)
  BY TailLists
<1> HIDE DEF t, u, n
<1>5. ASSUME NEW a \in Nat, NEW b \in Nat
      PROVE /\ H[QueueSlot(a, b)] = QueueList(q, a, b) /\ H[PendingSlot(a, b)] = PendingList(p, a, b)
            /\ H[NotifySlot(a, b)] = NotifyList(st, a, b) /\ H[ClearSlot(a, b)] = ClearList(st, a, b)
            /\ G[QueueSlot(a, b)] = QueueList(u, a, b) /\ G[PendingSlot(a, b)] = PendingList(p, a, b)
            /\ G[NotifySlot(a, b)] = NotifyList(t, a, b) /\ G[ClearSlot(a, b)] = ClearList(t, a, b)
  <2>1. /\ H[QueueSlot(a, b)] = QueueList(q, a, b) /\ H[PendingSlot(a, b)] = PendingList(p, a, b)
        /\ H[NotifySlot(a, b)] = NotifyList(st, a, b) /\ H[ClearSlot(a, b)] = ClearList(st, a, b)
    BY HeldValues
  <2>2. /\ G[QueueSlot(a, b)] = QueueList(u, a, b) /\ G[PendingSlot(a, b)] = PendingList(p, a, b)
        /\ G[NotifySlot(a, b)] = NotifyList(t, a, b) /\ G[ClearSlot(a, b)] = ClearList(t, a, b)
    BY HeldValues
  <2> QED BY <2>1, <2>2
<1> HIDE DEF H, G
<1>6. \A i \in Nat : QueueFamily[i] = QueueSlot(i, 0)
  BY DEF QueueFamily
<1>7. H[d] = <<>> /\ G[d] = H[QueueFamily[1]] /\ d \in Slot /\ Outside(d, QueueFamily) /\ Family(QueueFamily)
  BY <1>1, <1>3, <1>5, <1>6, SlotParts, Families
<1>8. H[QueueFamily[0]] = <<>> /\ G[QueueFamily[0]] = <<>>
  <2>1. QueueFamily[0] = QueueSlot(0, 0)
    BY <1>6
  <2>2. H[QueueSlot(0, 0)] = QueueList(q, 0, 0) /\ G[QueueSlot(0, 0)] = QueueList(u, 0, 0)
    BY <1>5
  <2> QED BY <2>1, <2>2, EmptyLists
<1>9. ASSUME NEW i \in Nat, i # 0 PROVE G[QueueFamily[i]] = H[QueueFamily[i + 1]]
  <2>1. i + 1 \in Nat
    OBVIOUS
  <2>2. QueueFamily[i] = QueueSlot(i, 0) /\ QueueFamily[i + 1] = QueueSlot(i + 1, 0)
    BY <1>6, <2>1
  <2>3. G[QueueSlot(i, 0)] = QueueList(u, i, 0) /\ H[QueueSlot(i + 1, 0)] = QueueList(q, i + 1, 0)
    BY <1>5, <2>1
  <2> QED BY <1>4, <1>9, <2>2, <2>3
<1>10. ASSUME NEW l \in Slot, l # d, Outside(l, QueueFamily) PROVE G[l] = H[l]
  <2>1. PICK a \in Nat, b \in Nat :
          l = QueueSlot(a, b) \/ l = PendingSlot(a, b) \/ l = NotifySlot(a, b) \/ l = ClearSlot(a, b)
    BY SlotParts
  <2>2. CASE l = QueueSlot(a, b)
    <3>1. b # 0
      BY <1>6, <1>10, <2>2 DEF Outside
    <3>2. QueueList(q, a, b) = <<>> /\ QueueList(u, a, b) = <<>>
      BY <3>1, EmptyLists
    <3> QED BY <1>5, <2>2, <3>2
  <2>3. CASE l = PendingSlot(a, b)
    BY <1>5, <2>3
  <2>4. CASE l = NotifySlot(a, b)
    BY <1>3, <1>5, <1>10, <2>4
  <2>5. CASE l = ClearSlot(a, b)
    BY <1>3, <1>5, <2>5
  <2> QED BY <2>1, <2>2, <2>3, <2>4, <2>5
<1>11. Once(G, out)
  BY <1>2, <1>7, <1>8, <1>9, <1>10, FirstMoves DEF H
<1> QED BY <1>11 DEF G, t, u

\* The callbacks of the command on the wire are deferred.
LEMMA FrontToPending ==
  ASSUME NEW q \in Seq(QueuedCommand), q # <<>>, NEW st \in Seq(Frame),
         NEW out, Once(Held(q, <<>>, st), out)
  PROVE Once(Held(Tail(q), <<Head(q).callbacks>>, st), out)
<1> DEFINE u == Tail(q)
           c == Head(q).callbacks
           one == <<c>>
           H == Held(q, <<>>, st)
           G == Held(u, one, st)
           d == PendingSlot(1, 0)
<1>1. u \in Seq(QueuedCommand) /\ one \in Seq(Seq(Requester)) /\ <<>> \in Seq(Seq(Requester))
  <2>1. Head(q) \in QueuedCommand
    OBVIOUS
  <2>2. c \in Seq(Requester)
    BY <2>1 DEF QueuedCommand
  <2> HIDE DEF c
  <2> QED BY <2>2
<1>2. H \in [Slot -> Seq(Requester)] /\ G \in [Slot -> Seq(Requester)]
  BY <1>1, HeldType
<1>3. ASSUME NEW a \in Nat, NEW b \in Nat
      PROVE /\ PendingList(<<>>, a, b) = <<>>
            /\ PendingList(one, a, b) = IF a = 1 /\ b = 0 THEN QueueList(q, 1, 0) ELSE <<>>
  <2>1. QueueList(q, 1, 0) = c
    BY TailLists
  <2>2. /\ PendingList(<<>>, a, b) = <<>> /\ PendingList(one, 1, 0) = c
        /\ a # 1 \/ b # 0 => PendingList(one, a, b) = <<>>
    BY PendingLists
  <2> HIDE DEF one, c
  <2> QED BY <2>1, <2>2
<1>4. \A i \in Nat : i # 0 => QueueList(u, i, 0) = QueueList(q, i + 1, 0)
  BY TailLists
<1> HIDE DEF u, one
<1>5. ASSUME NEW a \in Nat, NEW b \in Nat
      PROVE /\ H[QueueSlot(a, b)] = QueueList(q, a, b) /\ H[PendingSlot(a, b)] = PendingList(<<>>, a, b)
            /\ H[NotifySlot(a, b)] = NotifyList(st, a, b) /\ H[ClearSlot(a, b)] = ClearList(st, a, b)
            /\ G[QueueSlot(a, b)] = QueueList(u, a, b) /\ G[PendingSlot(a, b)] = PendingList(one, a, b)
            /\ G[NotifySlot(a, b)] = NotifyList(st, a, b) /\ G[ClearSlot(a, b)] = ClearList(st, a, b)
  <2>1. /\ H[QueueSlot(a, b)] = QueueList(q, a, b) /\ H[PendingSlot(a, b)] = PendingList(<<>>, a, b)
        /\ H[NotifySlot(a, b)] = NotifyList(st, a, b) /\ H[ClearSlot(a, b)] = ClearList(st, a, b)
    BY HeldValues
  <2>2. /\ G[QueueSlot(a, b)] = QueueList(u, a, b) /\ G[PendingSlot(a, b)] = PendingList(one, a, b)
        /\ G[NotifySlot(a, b)] = NotifyList(st, a, b) /\ G[ClearSlot(a, b)] = ClearList(st, a, b)
    BY HeldValues
  <2> QED BY <2>1, <2>2
<1> HIDE DEF H, G
<1>6. \A i \in Nat : QueueFamily[i] = QueueSlot(i, 0)
  BY DEF QueueFamily
<1>7. H[d] = <<>> /\ G[d] = H[QueueFamily[1]] /\ d \in Slot /\ Outside(d, QueueFamily) /\ Family(QueueFamily)
  <2>1. d \in Slot /\ Outside(d, QueueFamily) /\ Family(QueueFamily)
    BY SlotParts, Families
  <2>2. H[d] = PendingList(<<>>, 1, 0) /\ G[d] = PendingList(one, 1, 0)
    BY <1>5
  <2>3. H[QueueFamily[1]] = QueueList(q, 1, 0)
    BY <1>5, <1>6
  <2> QED BY <1>3, <2>1, <2>2, <2>3
<1>8. H[QueueFamily[0]] = <<>> /\ G[QueueFamily[0]] = <<>>
  <2>1. QueueFamily[0] = QueueSlot(0, 0)
    BY <1>6
  <2>2. H[QueueSlot(0, 0)] = QueueList(q, 0, 0) /\ G[QueueSlot(0, 0)] = QueueList(u, 0, 0)
    BY <1>5
  <2> QED BY <2>1, <2>2, EmptyLists
<1>9. ASSUME NEW i \in Nat, i # 0 PROVE G[QueueFamily[i]] = H[QueueFamily[i + 1]]
  <2>1. i + 1 \in Nat
    OBVIOUS
  <2>2. QueueFamily[i] = QueueSlot(i, 0) /\ QueueFamily[i + 1] = QueueSlot(i + 1, 0)
    BY <1>6, <2>1
  <2>3. G[QueueSlot(i, 0)] = QueueList(u, i, 0) /\ H[QueueSlot(i + 1, 0)] = QueueList(q, i + 1, 0)
    BY <1>5, <2>1
  <2> QED BY <1>4, <1>9, <2>2, <2>3
<1>10. ASSUME NEW l \in Slot, l # d, Outside(l, QueueFamily) PROVE G[l] = H[l]
  <2>1. PICK a \in Nat, b \in Nat :
          l = QueueSlot(a, b) \/ l = PendingSlot(a, b) \/ l = NotifySlot(a, b) \/ l = ClearSlot(a, b)
    BY SlotParts
  <2>2. CASE l = QueueSlot(a, b)
    <3>1. b # 0
      BY <1>6, <1>10, <2>2 DEF Outside
    <3>2. QueueList(q, a, b) = <<>> /\ QueueList(u, a, b) = <<>>
      BY <3>1, EmptyLists
    <3> QED BY <1>5, <2>2, <3>2
  <2>3. CASE l = PendingSlot(a, b)
    <3>1. ~(a = 1 /\ b = 0)
      BY <1>10, <2>3
    <3> QED BY <1>3, <1>5, <2>3, <3>1
  <2>4. CASE l = NotifySlot(a, b) \/ l = ClearSlot(a, b)
    BY <1>5, <2>4
  <2> QED BY <2>1, <2>2, <2>3, <2>4
<1>11. Once(G, out)
  BY <1>2, <1>7, <1>8, <1>9, <1>10, FirstMoves DEF H
<1> QED BY <1>11 DEF G, u, one

\* The deferred callbacks go to a call that walks them.
LEMMA PendingToWalk ==
  ASSUME NEW q \in Seq(QueuedCommand), NEW st \in Seq(Frame), NEW c \in Seq(Requester),
         NEW f \in Frame, f.callbacks = c, f.cancelled = <<>>,
         NEW out, Once(Held(q, <<c>>, st), out)
  PROVE Once(Held(q, <<>>, Append(st, f)), out)
<1> DEFINE one == <<c>>
           t == Append(st, f)
           n == Len(st) + 1
           H == Held(q, one, st)
           G == Held(q, <<>>, t)
           d == NotifySlot(n, 0)
<1>1. n \in Nat /\ t \in Seq(Frame) /\ one \in Seq(Seq(Requester)) /\ <<>> \in Seq(Seq(Requester))
  OBVIOUS
<1>2. H \in [Slot -> Seq(Requester)] /\ G \in [Slot -> Seq(Requester)]
  BY <1>1, HeldType
<1>3. ASSUME NEW a \in Nat, NEW b \in Nat
      PROVE /\ NotifyList(t, a, b) = IF a = n /\ b = 0 THEN c ELSE NotifyList(st, a, b)
            /\ ClearList(t, a, b) = ClearList(st, a, b)
            /\ NotifyList(st, n, b) = <<>>
  <2>1. /\ a # n => NotifyList(t, a, b) = NotifyList(st, a, b) /\ ClearList(t, a, b) = ClearList(st, a, b)
        /\ a = n => /\ NotifyList(st, a, b) = <<>> /\ ClearList(st, a, b) = <<>>
                    /\ NotifyList(t, a, b) = IF b = 0 THEN f.callbacks ELSE <<>>
                    /\ ClearList(t, a, b) = <<>>
    BY PushedLists
  <2>2. NotifyList(st, n, b) = <<>>
    BY <1>1, PushedLists
  <2> HIDE DEF t, n
  <2> QED BY <2>1, <2>2
<1>4. ASSUME NEW a \in Nat, NEW b \in Nat
      PROVE /\ PendingList(<<>>, a, b) = <<>>
            /\ PendingList(one, a, b) = IF a = 1 /\ b = 0 THEN c ELSE <<>>
  <2>1. /\ PendingList(<<>>, a, b) = <<>> /\ PendingList(one, 1, 0) = c
        /\ a # 1 \/ b # 0 => PendingList(one, a, b) = <<>>
    BY PendingLists
  <2> HIDE DEF one
  <2> QED BY <2>1
<1>0. Once(H, out)
  OBVIOUS
<1> HIDE DEF t, n, one
<1>5. ASSUME NEW a \in Nat, NEW b \in Nat
      PROVE /\ H[QueueSlot(a, b)] = QueueList(q, a, b) /\ H[PendingSlot(a, b)] = PendingList(one, a, b)
            /\ H[NotifySlot(a, b)] = NotifyList(st, a, b) /\ H[ClearSlot(a, b)] = ClearList(st, a, b)
            /\ G[QueueSlot(a, b)] = QueueList(q, a, b) /\ G[PendingSlot(a, b)] = PendingList(<<>>, a, b)
            /\ G[NotifySlot(a, b)] = NotifyList(t, a, b) /\ G[ClearSlot(a, b)] = ClearList(t, a, b)
  <2>1. /\ H[QueueSlot(a, b)] = QueueList(q, a, b) /\ H[PendingSlot(a, b)] = PendingList(one, a, b)
        /\ H[NotifySlot(a, b)] = NotifyList(st, a, b) /\ H[ClearSlot(a, b)] = ClearList(st, a, b)
    BY HeldValues
  <2>2. /\ G[QueueSlot(a, b)] = QueueList(q, a, b) /\ G[PendingSlot(a, b)] = PendingList(<<>>, a, b)
        /\ G[NotifySlot(a, b)] = NotifyList(t, a, b) /\ G[ClearSlot(a, b)] = ClearList(t, a, b)
    BY HeldValues
  <2> QED BY <2>1, <2>2
<1> HIDE DEF H, G
<1>6. \A i \in Nat : PendingFamily[i] = PendingSlot(i, 0)
  BY DEF PendingFamily
<1>7. H[d] = <<>> /\ G[d] = H[PendingFamily[1]] /\ d \in Slot /\ Outside(d, PendingFamily) /\ Family(PendingFamily)
  BY <1>1, <1>3, <1>4, <1>5, <1>6, SlotParts, Families
<1>8. H[PendingFamily[0]] = <<>> /\ \A i \in Nat : G[PendingFamily[i]] = <<>>
  BY <1>4, <1>5, <1>6
<1>9. ASSUME NEW i \in Nat, i # 0 PROVE G[PendingFamily[i]] = H[PendingFamily[i + 1]]
  <2>1. i + 1 \in Nat /\ i + 1 # 1
    BY <1>9
  <2>2. PendingFamily[i + 1] = PendingSlot(i + 1, 0)
    BY <1>6, <2>1
  <2>3. H[PendingSlot(i + 1, 0)] = PendingList(one, i + 1, 0)
    BY <1>5, <2>1
  <2>4. PendingList(one, i + 1, 0) = <<>>
    BY <1>4, <2>1
  <2> QED BY <1>8, <2>2, <2>3, <2>4
<1>10. ASSUME NEW l \in Slot, l # d, Outside(l, PendingFamily) PROVE G[l] = H[l]
  <2>1. PICK a \in Nat, b \in Nat :
          l = QueueSlot(a, b) \/ l = PendingSlot(a, b) \/ l = NotifySlot(a, b) \/ l = ClearSlot(a, b)
    BY SlotParts
  <2>2. CASE l = QueueSlot(a, b)
    BY <1>5, <2>2
  <2>3. CASE l = PendingSlot(a, b)
    <3>1. b # 0
      BY <1>6, <1>10, <2>3 DEF Outside
    <3>2. PendingList(one, a, b) = <<>> /\ PendingList(<<>>, a, b) = <<>>
      BY <1>4, <3>1
    <3> QED BY <1>5, <2>3, <3>2
  <2>4. CASE l = NotifySlot(a, b)
    BY <1>3, <1>5, <1>10, <2>4
  <2>5. CASE l = ClearSlot(a, b)
    BY <1>3, <1>5, <2>5
  <2> QED BY <2>1, <2>2, <2>3, <2>4, <2>5
<1>11. G[PendingFamily[0]] = <<>>
  BY <1>8
<1>12. Once(G, out)
  BY <1>0, <1>2, <1>7, <1>8, <1>9, <1>10, <1>11, FirstMoves
<1> QED BY <1>12 DEF G, t

\* clear() turns to the next cancelled command.
LEMMA CancelledToWalk ==
  ASSUME NEW q \in Seq(QueuedCommand), NEW p \in Seq(Seq(Requester)), NEW st \in Seq(Frame),
         NEW f \in Frame, f.callbacks = <<>>, f.cancelled # <<>>,
         NEW rest \in Frame, rest.callbacks = <<>>, rest.cancelled = Tail(f.cancelled),
         NEW g \in Frame, g.callbacks = Head(f.cancelled), g.cancelled = <<>>,
         NEW out, Once(Held(q, p, Append(st, f)), out)
  PROVE Once(Held(q, p, Append(Append(st, rest), g)), out)
<1> DEFINE s == Append(st, f)
           t == Append(st, rest)
           u == Append(t, g)
           n == Len(st) + 1
           H == Held(q, p, s)
           G == Held(q, p, u)
           d == NotifySlot(n + 1, 0)
           fam == ClearFamily(n)
           Lists == f.cancelled
<1>1. n \in Nat /\ s \in Seq(Frame) /\ t \in Seq(Frame) /\ u \in Seq(Frame) /\ Len(t) = n /\ Len(s) = n
  OBVIOUS
<1>2. H \in [Slot -> Seq(Requester)] /\ G \in [Slot -> Seq(Requester)]
  BY <1>1, HeldType
<1>3. /\ Lists \in Seq(Seq(Requester)) /\ Lists # <<>>
      /\ Len(Tail(Lists)) = Len(Lists) - 1 /\ Len(Lists) \in Nat /\ Len(Lists) >= 1
      /\ \A i \in 1 .. Len(Lists) - 1 : Tail(Lists)[i] = Lists[i + 1]
      /\ Head(Lists) = Lists[1]
  <2>1. Lists \in Seq(Seq(Requester))
    BY DEF Frame
  <2> HIDE DEF Lists
  <2>2. Lists # <<>>
    BY DEF Lists
  <2> QED BY <2>1, <2>2
<1>0. Once(H, out)
  OBVIOUS
<1>13. /\ s = Append(st, f) /\ t = Append(st, rest) /\ u = Append(t, g) /\ n = Len(st) + 1 /\ n + 1 = Len(t) + 1
       /\ f.callbacks = <<>> /\ f.cancelled = Lists /\ rest.callbacks = <<>> /\ rest.cancelled = Tail(Lists)
       /\ g.callbacks = Lists[1] /\ g.cancelled = <<>>
  BY <1>1, <1>3
<1> HIDE DEF s, t, u, n, Lists
<1>8. n + 1 \in Nat /\ n + 1 # n
  BY <1>1
<1>4. ASSUME NEW a \in Nat, NEW b \in Nat
      PROVE /\ a # n => NotifyList(s, a, b) = NotifyList(st, a, b) /\ ClearList(s, a, b) = ClearList(st, a, b)
            /\ NotifyList(s, n, b) = <<>> /\ ClearList(s, n, b) = ListAt(Lists, b)
            /\ a # n => NotifyList(t, a, b) = NotifyList(st, a, b) /\ ClearList(t, a, b) = ClearList(st, a, b)
            /\ NotifyList(t, n, b) = <<>> /\ ClearList(t, n, b) = ListAt(Tail(Lists), b)
            /\ a # n + 1 => NotifyList(u, a, b) = NotifyList(t, a, b) /\ ClearList(u, a, b) = ClearList(t, a, b)
            /\ NotifyList(t, n + 1, b) = <<>> /\ ClearList(t, n + 1, b) = <<>>
            /\ NotifyList(u, n + 1, 0) = Lists[1]
            /\ b # 0 => NotifyList(u, n + 1, b) = <<>>
            /\ ClearList(u, n + 1, b) = <<>>
  <2>1. a # n => NotifyList(s, a, b) = NotifyList(st, a, b) /\ ClearList(s, a, b) = ClearList(st, a, b)
    BY <1>13, PushedOther
  <2>2. NotifyList(s, n, 0) = <<>> /\ (b # 0 => NotifyList(s, n, b) = <<>>) /\ ClearList(s, n, b) = ListAt(Lists, b)
    BY <1>13, PushedOwn
  <2>3. a # n => NotifyList(t, a, b) = NotifyList(st, a, b) /\ ClearList(t, a, b) = ClearList(st, a, b)
    BY <1>13, PushedOther
  <2>4. NotifyList(t, n, 0) = <<>> /\ (b # 0 => NotifyList(t, n, b) = <<>>) /\ ClearList(t, n, b) = ListAt(Tail(Lists), b)
    <3>1. /\ NotifyList(Append(st, rest), Len(st) + 1, 0) = rest.callbacks
          /\ b # 0 => NotifyList(Append(st, rest), Len(st) + 1, b) = <<>>
          /\ ClearList(Append(st, rest), Len(st) + 1, b) = ListAt(rest.cancelled, b)
      BY PushedOwn
    <3> QED BY <1>13, <3>1
  <2>5. a # n + 1 => NotifyList(u, a, b) = NotifyList(t, a, b) /\ ClearList(u, a, b) = ClearList(t, a, b)
    <3>1. a # Len(t) + 1 => /\ NotifyList(Append(t, g), a, b) = NotifyList(t, a, b)
                            /\ ClearList(Append(t, g), a, b) = ClearList(t, a, b)
      BY <1>1, PushedOther
    <3> QED BY <1>13, <3>1
  <2>6. /\ NotifyList(t, n + 1, b) = <<>> /\ ClearList(t, n + 1, b) = <<>>
        /\ NotifyList(u, n + 1, 0) = Lists[1] /\ (b # 0 => NotifyList(u, n + 1, b) = <<>>)
        /\ ClearList(u, n + 1, b) = ListAt(<<>>, b)
    <3>1. /\ NotifyList(t, Len(t) + 1, b) = <<>> /\ ClearList(t, Len(t) + 1, b) = <<>>
          /\ NotifyList(Append(t, g), Len(t) + 1, 0) = g.callbacks
          /\ b # 0 => NotifyList(Append(t, g), Len(t) + 1, b) = <<>>
          /\ ClearList(Append(t, g), Len(t) + 1, b) = ListAt(g.cancelled, b)
      BY <1>1, PushedOwn
    <3> QED BY <1>13, <3>1
  <2>7. ListAt(<<>>, b) = <<>>
    BY DEF ListAt
  <2> QED BY <2>1, <2>2, <2>3, <2>4, <2>5, <2>6, <2>7
<1>15. /\ ListAt(Lists, 1) = Lists[1]
       /\ \A i \in Nat : i # 0 => ListAt(Tail(Lists), i) = ListAt(Lists, i + 1)
  <2>1. ListAt(Lists, 1) = Lists[1]
    BY <1>3 DEF ListAt
  <2>2. ASSUME NEW i \in Nat, i # 0 PROVE ListAt(Tail(Lists), i) = ListAt(Lists, i + 1)
    <3>1. i \in 1 .. Len(Tail(Lists)) <=> i + 1 \in 1 .. Len(Lists)
      BY <1>3, <2>2
    <3>2. i \in 1 .. Len(Tail(Lists)) => Tail(Lists)[i] = Lists[i + 1]
      BY <1>3
    <3> QED BY <3>1, <3>2 DEF ListAt
  <2> QED BY <2>1, <2>2
<1>5. ASSUME NEW a \in Nat, NEW b \in Nat
      PROVE /\ H[QueueSlot(a, b)] = QueueList(q, a, b) /\ H[PendingSlot(a, b)] = PendingList(p, a, b)
            /\ H[NotifySlot(a, b)] = NotifyList(s, a, b) /\ H[ClearSlot(a, b)] = ClearList(s, a, b)
            /\ G[QueueSlot(a, b)] = QueueList(q, a, b) /\ G[PendingSlot(a, b)] = PendingList(p, a, b)
            /\ G[NotifySlot(a, b)] = NotifyList(u, a, b) /\ G[ClearSlot(a, b)] = ClearList(u, a, b)
  <2>1. /\ H[QueueSlot(a, b)] = QueueList(q, a, b) /\ H[PendingSlot(a, b)] = PendingList(p, a, b)
        /\ H[NotifySlot(a, b)] = NotifyList(s, a, b) /\ H[ClearSlot(a, b)] = ClearList(s, a, b)
    BY HeldValues
  <2>2. /\ G[QueueSlot(a, b)] = QueueList(q, a, b) /\ G[PendingSlot(a, b)] = PendingList(p, a, b)
        /\ G[NotifySlot(a, b)] = NotifyList(u, a, b) /\ G[ClearSlot(a, b)] = ClearList(u, a, b)
    BY HeldValues
  <2> QED BY <2>1, <2>2
<1> HIDE DEF H, G
<1>6. \A i \in Nat : fam[i] = ClearSlot(n, i)
  BY DEF ClearFamily
<1>7. d \in Slot /\ Outside(d, fam) /\ Family(fam)
  BY <1>1, <1>8, SlotParts, Families
<1> HIDE DEF fam
<1>9. H[d] = <<>> /\ G[d] = H[fam[1]]
  <2>1. H[d] = NotifyList(s, n + 1, 0) /\ G[d] = NotifyList(u, n + 1, 0)
    BY <1>5, <1>8
  <2>2. H[fam[1]] = ClearList(s, n, 1)
    BY <1>1, <1>5, <1>6
  <2>3. NotifyList(s, n + 1, 0) = NotifyList(t, n + 1, 0)
    BY <1>4, <1>8
  <2>4. NotifyList(t, n + 1, 0) = <<>> /\ NotifyList(u, n + 1, 0) = Lists[1]
    BY <1>4
  <2>5. ClearList(s, n, 1) = Lists[1]
    BY <1>4, <1>15
  <2> QED BY <2>1, <2>2, <2>3, <2>4, <2>5
<1>10. H[fam[0]] = <<>> /\ G[fam[0]] = <<>>
  <2>1. fam[0] = ClearSlot(n, 0)
    BY <1>6
  <2>2. H[ClearSlot(n, 0)] = ClearList(s, n, 0) /\ G[ClearSlot(n, 0)] = ClearList(u, n, 0)
    BY <1>1, <1>5
  <2> QED BY <1>1, <2>1, <2>2, EmptyLists
<1>11. ASSUME NEW i \in Nat, i # 0 PROVE G[fam[i]] = H[fam[i + 1]]
  <2>1. i + 1 \in Nat /\ n # n + 1
    BY <1>8
  <2>2. fam[i] = ClearSlot(n, i) /\ fam[i + 1] = ClearSlot(n, i + 1)
    BY <1>6, <2>1
  <2>3. G[ClearSlot(n, i)] = ClearList(u, n, i) /\ H[ClearSlot(n, i + 1)] = ClearList(s, n, i + 1)
    BY <1>1, <1>5, <2>1
  <2>4. ClearList(u, n, i) = ClearList(t, n, i)
    BY <1>1, <1>4, <2>1
  <2>5. ClearList(t, n, i) = ListAt(Tail(Lists), i) /\ ClearList(s, n, i + 1) = ListAt(Lists, i + 1)
    BY <1>4, <2>1
  <2>6. ListAt(Tail(Lists), i) = ListAt(Lists, i + 1)
    BY <1>11, <1>15
  <2> QED BY <2>2, <2>3, <2>4, <2>5, <2>6
<1>12. ASSUME NEW l \in Slot, l # d, Outside(l, fam) PROVE G[l] = H[l]
  <2>1. PICK a \in Nat, b \in Nat :
          l = QueueSlot(a, b) \/ l = PendingSlot(a, b) \/ l = NotifySlot(a, b) \/ l = ClearSlot(a, b)
    BY SlotParts
  <2>0. ASSUME a # n, a # n + 1
        PROVE NotifyList(u, a, b) = NotifyList(s, a, b) /\ ClearList(u, a, b) = ClearList(s, a, b)
    BY <1>4, <2>0
  <2>2. CASE l = QueueSlot(a, b) \/ l = PendingSlot(a, b)
    <3>1. H[QueueSlot(a, b)] = QueueList(q, a, b) /\ G[QueueSlot(a, b)] = QueueList(q, a, b)
      BY <1>5
    <3>2. H[PendingSlot(a, b)] = PendingList(p, a, b) /\ G[PendingSlot(a, b)] = PendingList(p, a, b)
      BY <1>5
    <3> QED BY <2>2, <3>1, <3>2
  <2>3. CASE l = NotifySlot(a, b)
    <3>1. NotifyList(u, a, b) = NotifyList(s, a, b)
      <4>1. CASE a = n
        BY <1>4, <1>8, <4>1
      <4>2. CASE a = n + 1
        <5>1. b # 0
          BY <1>12, <2>3, <4>2
        <5>2. NotifyList(u, n + 1, b) = <<>> /\ NotifyList(s, n + 1, b) = NotifyList(t, n + 1, b)
          BY <1>4, <1>8, <5>1
        <5> QED BY <1>4, <4>2, <5>2
      <4> QED BY <2>0, <4>1, <4>2
    <3> QED BY <1>5, <2>3, <3>1
  <2>4. CASE l = ClearSlot(a, b)
    <3>1. a # n
      BY <1>6, <1>12, <2>4 DEF Outside
    <3>2. ClearList(u, a, b) = ClearList(s, a, b)
      <4>1. CASE a = n + 1
        <5>1. ClearList(u, n + 1, b) = <<>> /\ ClearList(s, n + 1, b) = ClearList(t, n + 1, b)
          BY <1>4, <1>8
        <5> QED BY <1>4, <4>1, <5>1
      <4> QED BY <2>0, <3>1, <4>1
    <3> QED BY <1>5, <2>4, <3>2
  <2> QED BY <2>1, <2>2, <2>3, <2>4
<1>14. Once(G, out)
  BY <1>0, <1>2, <1>7, <1>9, <1>10, <1>11, <1>12, FirstMoves
<1> QED BY <1>14 DEF G, t, u

\* The lists of the commands behind the first kept ones.
ListsBehind(q, kept, lists) ==
  /\ Len(lists) = Len(q) - kept
  /\ \A i \in 1 .. Len(q) - kept : lists[i] = q[i + kept].callbacks

\* clear() takes over the lists of the commands it cancels.
LEMMA QueueToClear ==
  ASSUME NEW q \in Seq(QueuedCommand), q # <<>>, NEW kept \in Nat, kept <= Len(q),
         NEW p \in Seq(Seq(Requester)), NEW st \in Seq(Frame), NEW f \in Frame,
         f.callbacks = <<>>, ListsBehind(q, kept, f.cancelled),
         NEW out, Once(Held(q, p, st), out)
  PROVE Once(Held(SubSeq(q, 1, kept), p, Append(st, f)), out)
<1> DEFINE u == SubSeq(q, 1, kept)
           t == Append(st, f)
           n == Len(st) + 1
           Lists == f.cancelled
           H == Held(q, p, st)
           G == Held(u, p, t)
           fam == [i \in Nat |-> QueueSlot(kept + 1 + i, 0)]
           dest == [i \in Nat |-> ClearSlot(n, i + 1)]
<1>0. Once(H, out)
  OBVIOUS
<1>1. n \in Nat /\ u \in Seq(QueuedCommand) /\ t \in Seq(Frame)
  OBVIOUS
<1>2. H \in [Slot -> Seq(Requester)] /\ G \in [Slot -> Seq(Requester)]
  BY <1>1, HeldType
<1>3. Len(q) \in Nat /\ Len(u) = kept /\ \A i \in 1 .. kept : u[i] = q[i]
  OBVIOUS
<1>4. /\ Len(Lists) = Len(q) - kept
      /\ \A i \in 1 .. Len(q) - kept : Lists[i] = q[i + kept].callbacks
  BY DEF ListsBehind
<1> HIDE DEF Lists
<1>5. ASSUME NEW i \in Nat
      PROVE /\ ListAt(Lists, i + 1) = QueueList(q, kept + 1 + i, 0)
            /\ QueueList(u, kept + 1 + i, 0) = <<>>
  <2>1. i + 1 \in 1 .. Len(Lists) <=> kept + 1 + i \in 1 .. Len(q)
    BY <1>3, <1>4
  <2>2. i + 1 \in 1 .. Len(Lists) => Lists[i + 1] = q[kept + 1 + i].callbacks
    <3>1. (i + 1) + kept = kept + 1 + i
      OBVIOUS
    <3> QED BY <1>4, <3>1
  <2>3. kept + 1 + i \notin 1 .. Len(u)
    BY <1>3
  <2>4. ListAt(Lists, i + 1) = QueueList(q, kept + 1 + i, 0)
    BY <2>1, <2>2 DEF ListAt, QueueList
  <2>5. QueueList(u, kept + 1 + i, 0) = <<>>
    BY <2>3 DEF QueueList
  <2> QED BY <2>4, <2>5
<1>6. ASSUME NEW a \in Nat, a <= kept PROVE QueueList(u, a, 0) = QueueList(q, a, 0)
  <2>1. a \in 1 .. Len(u) <=> a \in 1 .. Len(q)
    BY <1>3, <1>6
  <2>2. a \in 1 .. Len(u) => u[a] = q[a]
    BY <1>3
  <2> QED BY <2>1, <2>2 DEF QueueList
<1>7. t = Append(st, f) /\ n = Len(st) + 1 /\ f.callbacks = <<>> /\ f.cancelled = Lists
  BY DEF Lists
<1> HIDE DEF t, u, n
<1>8. ASSUME NEW a \in Nat, NEW b \in Nat
      PROVE /\ NotifyList(t, a, b) = NotifyList(st, a, b)
            /\ a # n => ClearList(t, a, b) = ClearList(st, a, b)
            /\ ClearList(st, n, b) = <<>> /\ ClearList(t, n, b) = ListAt(Lists, b)
  <2>1. /\ NotifyList(st, n, b) = <<>> /\ ClearList(st, n, b) = <<>>
        /\ NotifyList(t, n, 0) = <<>> /\ (b # 0 => NotifyList(t, n, b) = <<>>)
        /\ ClearList(t, n, b) = ListAt(Lists, b)
    <3>1. /\ NotifyList(st, Len(st) + 1, b) = <<>> /\ ClearList(st, Len(st) + 1, b) = <<>>
          /\ NotifyList(Append(st, f), Len(st) + 1, 0) = f.callbacks
          /\ b # 0 => NotifyList(Append(st, f), Len(st) + 1, b) = <<>>
          /\ ClearList(Append(st, f), Len(st) + 1, b) = ListAt(f.cancelled, b)
      BY PushedOwn
    <3> QED BY <1>7, <3>1
  <2>2. a # n => NotifyList(t, a, b) = NotifyList(st, a, b) /\ ClearList(t, a, b) = ClearList(st, a, b)
    <3>1. a # Len(st) + 1 => /\ NotifyList(Append(st, f), a, b) = NotifyList(st, a, b)
                             /\ ClearList(Append(st, f), a, b) = ClearList(st, a, b)
      BY PushedOther
    <3> QED BY <1>7, <3>1
  <2> QED BY <2>1, <2>2
<1> HIDE DEF H, G
<1>9. ASSUME NEW a \in Nat, NEW b \in Nat
      PROVE /\ H[QueueSlot(a, b)] = QueueList(q, a, b) /\ H[PendingSlot(a, b)] = PendingList(p, a, b)
            /\ H[NotifySlot(a, b)] = NotifyList(st, a, b) /\ H[ClearSlot(a, b)] = ClearList(st, a, b)
            /\ G[QueueSlot(a, b)] = QueueList(u, a, b) /\ G[PendingSlot(a, b)] = PendingList(p, a, b)
            /\ G[NotifySlot(a, b)] = NotifyList(t, a, b) /\ G[ClearSlot(a, b)] = ClearList(t, a, b)
  <2>1. /\ H[QueueSlot(a, b)] = QueueList(q, a, b) /\ H[PendingSlot(a, b)] = PendingList(p, a, b)
        /\ H[NotifySlot(a, b)] = NotifyList(st, a, b) /\ H[ClearSlot(a, b)] = ClearList(st, a, b)
    BY HeldValues DEF H
  <2>2. /\ G[QueueSlot(a, b)] = QueueList(u, a, b) /\ G[PendingSlot(a, b)] = PendingList(p, a, b)
        /\ G[NotifySlot(a, b)] = NotifyList(t, a, b) /\ G[ClearSlot(a, b)] = ClearList(t, a, b)
    BY HeldValues DEF G
  <2> QED BY <2>1, <2>2
<1>10. ASSUME NEW i \in Nat PROVE kept + 1 + i \in Nat /\ i + 1 \in Nat
  OBVIOUS
<1>11. \A i \in Nat : fam[i] = QueueSlot(kept + 1 + i, 0) /\ dest[i] = ClearSlot(n, i + 1)
  OBVIOUS
<1>12. Family(fam) /\ Family(dest) /\ \A i \in Nat : Outside(dest[i], fam)
  <2>1. fam \in [Nat -> Slot] /\ dest \in [Nat -> Slot]
    BY <1>1, <1>10, SlotParts
  <2>2. \A i, j \in Nat : fam[i] = fam[j] => i = j
    BY DEF QueueSlot
  <2>3. \A i, j \in Nat : dest[i] = dest[j] => i = j
    BY DEF ClearSlot
  <2>4. \A i, j \in Nat : dest[i] # fam[j]
    BY DEF ClearSlot, QueueSlot
  <2> QED BY <2>1, <2>2, <2>3, <2>4 DEF Family, Outside
<1> HIDE DEF fam, dest
<1>13. ASSUME NEW i \in Nat
       PROVE H[dest[i]] = <<>> /\ G[dest[i]] = H[fam[i]] /\ G[fam[i]] = <<>>
  <2> DEFINE j == kept + 1 + i
             k == i + 1
  <2>0. j \in Nat /\ k \in Nat /\ fam[i] = QueueSlot(j, 0) /\ dest[i] = ClearSlot(n, k) /\ 0 \in Nat
    BY <1>10, <1>11
  <2> HIDE DEF j, k
  <2>1. H[ClearSlot(n, k)] = ClearList(st, n, k) /\ G[ClearSlot(n, k)] = ClearList(t, n, k)
    BY <1>1, <1>9, <2>0
  <2>2. H[QueueSlot(j, 0)] = QueueList(q, j, 0) /\ G[QueueSlot(j, 0)] = QueueList(u, j, 0)
    BY <1>9, <2>0
  <2>3. ClearList(st, n, k) = <<>> /\ ClearList(t, n, k) = ListAt(Lists, k)
    BY <1>8, <2>0
  <2>4. ListAt(Lists, k) = QueueList(q, j, 0) /\ QueueList(u, j, 0) = <<>>
    BY <1>5 DEF j, k
  <2> QED BY <2>0, <2>1, <2>2, <2>3, <2>4
<1>14. ASSUME NEW l \in Slot, Outside(l, fam), Outside(l, dest) PROVE G[l] = H[l]
  <2>1. PICK a \in Nat, b \in Nat :
          l = QueueSlot(a, b) \/ l = PendingSlot(a, b) \/ l = NotifySlot(a, b) \/ l = ClearSlot(a, b)
    BY SlotParts
  <2>2. CASE l = QueueSlot(a, b)
    <3>1. CASE b # 0
      <4>1. QueueList(q, a, b) = <<>> /\ QueueList(u, a, b) = <<>>
        BY <3>1, EmptyLists
      <4> QED BY <1>9, <2>2, <4>1
    <3>2. CASE b = 0
      <4>1. a <= kept
        <5> SUFFICES ASSUME a > kept PROVE FALSE
          OBVIOUS
        <5>1. a - kept - 1 \in Nat /\ kept + 1 + (a - kept - 1) = a
          OBVIOUS
        <5> QED BY <1>11, <1>14, <2>2, <3>2, <5>1 DEF Outside
      <4> QED BY <1>6, <1>9, <2>2, <3>2, <4>1
    <3> QED BY <3>1, <3>2
  <2>3. CASE l = PendingSlot(a, b)
    BY <1>9, <2>3
  <2>4. CASE l = NotifySlot(a, b)
    BY <1>8, <1>9, <2>4
  <2>5. CASE l = ClearSlot(a, b)
    <3>1. CASE a # n
      BY <1>8, <1>9, <2>5, <3>1
    <3>2. CASE a = n
      <4>1. b = 0
        <5> SUFFICES ASSUME b # 0 PROVE FALSE
          OBVIOUS
        <5>1. b - 1 \in Nat /\ (b - 1) + 1 = b
          OBVIOUS
        <5> QED BY <1>11, <1>14, <2>5, <3>2, <5>1 DEF Outside
      <4>2. ClearList(st, a, 0) = <<>> /\ ClearList(t, a, 0) = <<>>
        BY EmptyLists
      <4> QED BY <1>9, <2>5, <4>1, <4>2
    <3> QED BY <3>1, <3>2
  <2> QED BY <2>1, <2>2, <2>3, <2>4, <2>5
<1>15. Once(G, out)
  BY <1>0, <1>2, <1>12, <1>13, <1>14, FamilyMoves
<1> QED BY <1>15 DEF G, u, t

\* Two queues whose commands hold the same lists.
LEMMA QueueSame ==
  ASSUME NEW q \in Seq(QueuedCommand), NEW u \in Seq(QueuedCommand), NEW p \in Seq(Seq(Requester)),
         NEW st \in Seq(Frame), \A a \in Nat : QueueList(u, a, 0) = QueueList(q, a, 0)
  PROVE Held(u, p, st) = Held(q, p, st)
<1> DEFINE H == Held(q, p, st)
           G == Held(u, p, st)
<1>1. H \in [Slot -> Seq(Requester)] /\ G \in [Slot -> Seq(Requester)]
  BY HeldType
<1>2. ASSUME NEW a \in Nat, NEW b \in Nat
      PROVE /\ G[QueueSlot(a, b)] = H[QueueSlot(a, b)] /\ G[PendingSlot(a, b)] = H[PendingSlot(a, b)]
            /\ G[NotifySlot(a, b)] = H[NotifySlot(a, b)] /\ G[ClearSlot(a, b)] = H[ClearSlot(a, b)]
  <2>1. QueueList(u, a, b) = QueueList(q, a, b)
    <3>1. b # 0 => QueueList(u, a, b) = <<>> /\ QueueList(q, a, b) = <<>>
      BY EmptyLists
    <3> QED BY <3>1
  <2>2. /\ H[QueueSlot(a, b)] = QueueList(q, a, b) /\ H[PendingSlot(a, b)] = PendingList(p, a, b)
        /\ H[NotifySlot(a, b)] = NotifyList(st, a, b) /\ H[ClearSlot(a, b)] = ClearList(st, a, b)
    BY HeldValues
  <2>3. /\ G[QueueSlot(a, b)] = QueueList(u, a, b) /\ G[PendingSlot(a, b)] = PendingList(p, a, b)
        /\ G[NotifySlot(a, b)] = NotifyList(st, a, b) /\ G[ClearSlot(a, b)] = ClearList(st, a, b)
    BY HeldValues
  <2> HIDE DEF H, G
  <2> QED BY <2>1, <2>2, <2>3
<1> HIDE DEF H, G
<1>3. ASSUME NEW l \in Slot PROVE G[l] = H[l]
  <2>1. PICK a \in Nat, b \in Nat :
          l = QueueSlot(a, b) \/ l = PendingSlot(a, b) \/ l = NotifySlot(a, b) \/ l = ClearSlot(a, b)
    BY SlotParts
  <2> QED BY <1>2, <2>1
<1>4. G = H
  BY <1>1, <1>3
<1> QED BY <1>4 DEF G, H

\* A queued command takes one more callback.
LEMMA QueuePut ==
  ASSUME NEW q \in Seq(QueuedCommand), NEW u \in Seq(QueuedCommand), NEW p \in Seq(Seq(Requester)),
         NEW st \in Seq(Frame), NEW i \in Nat, NEW r \in Requester, NEW out, r \notin out,
         Once(Held(q, p, st), out),
         QueueList(u, i, 0) = Append(QueueList(q, i, 0), r),
         \A a \in Nat : a # i => QueueList(u, a, 0) = QueueList(q, a, 0)
  PROVE Once(Held(u, p, st), out \cup {r})
<1> DEFINE H == Held(q, p, st)
           G == Held(u, p, st)
           at == QueueSlot(i, 0)
<1>0. Once(H, out)
  OBVIOUS
<1>1. H \in [Slot -> Seq(Requester)] /\ G \in [Slot -> Seq(Requester)]
  BY HeldType
<1> HIDE DEF H, G
<1>2. ASSUME NEW a \in Nat, NEW b \in Nat
      PROVE /\ H[QueueSlot(a, b)] = QueueList(q, a, b) /\ G[QueueSlot(a, b)] = QueueList(u, a, b)
            /\ G[PendingSlot(a, b)] = H[PendingSlot(a, b)] /\ G[NotifySlot(a, b)] = H[NotifySlot(a, b)]
            /\ G[ClearSlot(a, b)] = H[ClearSlot(a, b)]
  BY HeldValues DEF H, G
<1>3. at \in Slot /\ G[at] = Append(H[at], r)
  BY <1>2, SlotParts
<1>4. ASSUME NEW l \in Slot, l # at PROVE G[l] = H[l]
  <2>1. PICK a \in Nat, b \in Nat :
          l = QueueSlot(a, b) \/ l = PendingSlot(a, b) \/ l = NotifySlot(a, b) \/ l = ClearSlot(a, b)
    BY SlotParts
  <2>2. CASE l = QueueSlot(a, b)
    <3>1. CASE b # 0
      <4>1. QueueList(q, a, b) = <<>> /\ QueueList(u, a, b) = <<>>
        BY <3>1, EmptyLists
      <4> QED BY <1>2, <2>2, <4>1
    <3>2. CASE b = 0
      <4>1. a # i
        BY <1>4, <2>2, <3>2
      <4>2. QueueList(u, a, 0) = QueueList(q, a, 0)
        BY <4>1
      <4>3. H[QueueSlot(a, 0)] = QueueList(q, a, 0) /\ G[QueueSlot(a, 0)] = QueueList(u, a, 0)
        BY <1>2
      <4>4. l = QueueSlot(a, 0)
        BY <2>2, <3>2, Zenon
      <4> QED BY <4>2, <4>3, <4>4, Zenon
    <3> QED BY <3>1, <3>2
  <2> QED BY <1>2, <2>1, <2>2
<1> HIDE DEF at
<1>5. Once(G, out \cup {r})
  BY <1>0, <1>1, <1>3, <1>4, Put
<1> QED BY <1>5 DEF G

\* The place a list comes from when the command at best moves to the front,
\* and the place it goes to.
Source(best, k) == IF k = 1 THEN best ELSE IF k > 1 /\ k <= best THEN k - 1 ELSE k
Target(best, k) == IF k = best THEN 1 ELSE IF k >= 1 /\ k < best THEN k + 1 ELSE k

Reordered(q, u, best) == \A a \in Nat : QueueList(u, a, 0) = QueueList(q, Source(best, a), 0)

\* The command to send moves to the front.
LEMMA QueueReordered ==
  ASSUME NEW q \in Seq(QueuedCommand), NEW u \in Seq(QueuedCommand), NEW p \in Seq(Seq(Requester)),
         NEW st \in Seq(Frame), NEW best \in Nat, best > 0, NEW out, Once(Held(q, p, st), out),
         Reordered(q, u, best)
  PROVE Once(Held(u, p, st), out)
<1> DEFINE H == Held(q, p, st)
           G == Held(u, p, st)
           perm == [i \in Nat |-> Source(best, i)]
           back == [i \in Nat |-> Target(best, i)]
<1>0. Once(H, out)
  OBVIOUS
<1>1. H \in [Slot -> Seq(Requester)] /\ G \in [Slot -> Seq(Requester)]
  BY HeldType
<1> HIDE DEF H, G
<1>2. ASSUME NEW i \in Nat
      PROVE /\ Source(best, i) \in Nat /\ Target(best, i) \in Nat
            /\ Source(best, Target(best, i)) = i /\ Target(best, Source(best, i)) = i
  BY DEF Source, Target
<1>3. /\ perm \in [Nat -> Nat] /\ back \in [Nat -> Nat]
      /\ \A i \in Nat : perm[back[i]] = i /\ back[perm[i]] = i /\ perm[i] = Source(best, i)
  BY <1>2
<1> HIDE DEF perm, back
<1>4. ASSUME NEW a \in Nat, NEW b \in Nat
      PROVE /\ H[QueueSlot(a, b)] = QueueList(q, a, b) /\ G[QueueSlot(a, b)] = QueueList(u, a, b)
            /\ G[PendingSlot(a, b)] = H[PendingSlot(a, b)] /\ G[NotifySlot(a, b)] = H[NotifySlot(a, b)]
            /\ G[ClearSlot(a, b)] = H[ClearSlot(a, b)]
  BY HeldValues DEF H, G
<1>5. \A i \in Nat : QueueFamily[i] = QueueSlot(i, 0)
  BY DEF QueueFamily
<1>6. ASSUME NEW i \in Nat PROVE G[QueueFamily[i]] = H[QueueFamily[perm[i]]]
  <2> DEFINE j == perm[i]
  <2>1. j \in Nat /\ j = Source(best, i)
    BY <1>3
  <2>2. G[QueueFamily[i]] = QueueList(u, i, 0) /\ H[QueueFamily[j]] = QueueList(q, j, 0)
    BY <1>4, <1>5, <2>1
  <2>3. QueueList(u, i, 0) = QueueList(q, j, 0)
    BY <2>1 DEF Reordered
  <2> QED BY <2>2, <2>3
<1>7. ASSUME NEW l \in Slot, Outside(l, QueueFamily) PROVE G[l] = H[l]
  <2>1. PICK a \in Nat, b \in Nat :
          l = QueueSlot(a, b) \/ l = PendingSlot(a, b) \/ l = NotifySlot(a, b) \/ l = ClearSlot(a, b)
    BY SlotParts
  <2>2. CASE l = QueueSlot(a, b)
    <3>1. b # 0
      BY <1>5, <1>7, <2>2 DEF Outside
    <3>2. QueueList(q, a, b) = <<>> /\ QueueList(u, a, b) = <<>>
      BY <3>1, EmptyLists
    <3> QED BY <1>4, <2>2, <3>2
  <2> QED BY <1>4, <2>1, <2>2
<1>8. Family(QueueFamily)
  <2>1. 0 \in Nat
    OBVIOUS
  <2> QED BY <2>1, Families
<1>9. Once(G, out)
  <2>1. Permutes(perm, back)
    BY <1>3 DEF Permutes
  <2>2. PermutedBy(H, G, QueueFamily, perm, back)
    BY <1>6, <1>7, <1>8, <2>1 DEF PermutedBy
  <2> QED BY <1>0, <1>1, <2>2, FamilyPermuted
<1> QED BY <1>9 DEF G

\* The innermost call takes the first callback of its list.
LEMMA WalkCalls ==
  ASSUME NEW q \in Seq(QueuedCommand), NEW p \in Seq(Seq(Requester)), NEW st \in Seq(Frame),
         NEW f \in Frame, f.callbacks # <<>>, f.cancelled = <<>>,
         NEW g \in Frame, g.callbacks = Tail(f.callbacks), g.cancelled = <<>>,
         NEW out, Once(Held(q, p, Append(st, f)), out)
  PROVE Once(Held(q, p, Append(st, g)), out \ {Head(f.callbacks)})
<1> DEFINE s == Append(st, f)
           t == Append(st, g)
           n == Len(st) + 1
           c == f.callbacks
           H == Held(q, p, s)
           G == Held(q, p, t)
           at == NotifySlot(n, 0)
<1>0. Once(H, out)
  OBVIOUS
<1>1. n \in Nat /\ s \in Seq(Frame) /\ t \in Seq(Frame)
  OBVIOUS
<1>2. H \in [Slot -> Seq(Requester)] /\ G \in [Slot -> Seq(Requester)]
  BY <1>1, HeldType
<1>3. s = Append(st, f) /\ t = Append(st, g) /\ n = Len(st) + 1 /\ f.callbacks = c /\ g.callbacks = Tail(c) /\ c # <<>>
  OBVIOUS
<1> HIDE DEF s, t, n, c, H, G
<1>4. ASSUME NEW a \in Nat, NEW b \in Nat
      PROVE /\ a # n => NotifyList(s, a, b) = NotifyList(t, a, b) /\ ClearList(s, a, b) = ClearList(t, a, b)
            /\ NotifyList(s, n, 0) = c /\ NotifyList(t, n, 0) = Tail(c)
            /\ b # 0 => NotifyList(s, n, b) = NotifyList(t, n, b)
            /\ ClearList(s, n, b) = ClearList(t, n, b)
  <2>1. a # n => /\ NotifyList(Append(st, f), a, b) = NotifyList(st, a, b)
                 /\ ClearList(Append(st, f), a, b) = ClearList(st, a, b)
    BY <1>3, PushedOther
  <2>2. a # n => /\ NotifyList(Append(st, g), a, b) = NotifyList(st, a, b)
                 /\ ClearList(Append(st, g), a, b) = ClearList(st, a, b)
    BY <1>3, PushedOther
  <2>3. /\ NotifyList(Append(st, f), Len(st) + 1, 0) = f.callbacks
        /\ b # 0 => NotifyList(Append(st, f), Len(st) + 1, b) = <<>>
        /\ ClearList(Append(st, f), Len(st) + 1, b) = ListAt(f.cancelled, b)
    BY PushedOwn
  <2>4. /\ NotifyList(Append(st, g), Len(st) + 1, 0) = g.callbacks
        /\ b # 0 => NotifyList(Append(st, g), Len(st) + 1, b) = <<>>
        /\ ClearList(Append(st, g), Len(st) + 1, b) = ListAt(g.cancelled, b)
    BY PushedOwn
  <2> QED BY <1>3, <2>1, <2>2, <2>3, <2>4
<1>5. ASSUME NEW a \in Nat, NEW b \in Nat
      PROVE /\ G[QueueSlot(a, b)] = H[QueueSlot(a, b)] /\ G[PendingSlot(a, b)] = H[PendingSlot(a, b)]
            /\ H[NotifySlot(a, b)] = NotifyList(s, a, b) /\ H[ClearSlot(a, b)] = ClearList(s, a, b)
            /\ G[NotifySlot(a, b)] = NotifyList(t, a, b) /\ G[ClearSlot(a, b)] = ClearList(t, a, b)
  BY HeldValues DEF H, G
<1>6. at \in Slot /\ H[at] = c /\ G[at] = Tail(c)
  BY <1>1, <1>4, <1>5, SlotParts
<1>7. ASSUME NEW l \in Slot, l # at PROVE G[l] = H[l]
  <2>1. PICK a \in Nat, b \in Nat :
          l = QueueSlot(a, b) \/ l = PendingSlot(a, b) \/ l = NotifySlot(a, b) \/ l = ClearSlot(a, b)
    BY SlotParts
  <2>2. CASE l = NotifySlot(a, b)
    <3>1. a # n \/ b # 0
      BY <1>7, <2>2
    <3>2. NotifyList(s, a, b) = NotifyList(t, a, b)
      <4>1. CASE a = n
        BY <1>4, <3>1, <4>1
      <4> QED BY <1>4, <4>1
    <3> QED BY <1>5, <2>2, <3>2
  <2>3. CASE l = ClearSlot(a, b)
    <3>1. ClearList(s, a, b) = ClearList(t, a, b)
      <4>1. CASE a = n
        BY <1>4, <4>1
      <4> QED BY <1>4, <4>1
    <3> QED BY <1>5, <2>3, <3>1
  <2> QED BY <1>5, <2>1, <2>2, <2>3
<1> HIDE DEF at
<1>8. Once(G, out \ {Head(c)})
  BY <1>0, <1>2, <1>3, <1>6, <1>7, Called
<1> QED BY <1>8 DEF G, t, c

-----------------------------------------------------------------------------
(* The steps.                                                              *)

\* Only notify_callbacks() has callbacks left, only clear() cancelled commands.
FrameShape(f) ==
  /\ f.op # "notify" => f.callbacks = <<>>
  /\ f.op # "clear" => f.cancelled = <<>>
StackShape(st) == \A k \in 1 .. Len(st) : FrameShape(st[k])

CallbackInv == StackShape(stack) /\ Once(Held(queue, pending_callback, stack), outstanding)

\* A frame with this shape is added to a stack.
LEMMA ShapeAppend ==
  ASSUME NEW st \in Seq(Frame), NEW f \in Frame
  PROVE StackShape(Append(st, f)) <=> StackShape(st) /\ FrameShape(f)
<1> DEFINE t == Append(st, f)
<1>1. /\ Len(t) = Len(st) + 1 /\ Len(st) \in Nat /\ t[Len(st) + 1] = f
      /\ \A k \in 1 .. Len(st) : t[k] = st[k]
  OBVIOUS
<1> HIDE DEF t
<1>2. StackShape(t) <=> StackShape(st) /\ FrameShape(f)
  BY <1>1 DEF StackShape
<1> QED BY <1>2 DEF t

\* The calls that hold no callbacks are pushed without an effect on them.
LEMMA PushedCall ==
  ASSUME NEW q \in Seq(QueuedCommand), NEW p \in Seq(Seq(Requester)), NEW st \in Seq(Frame),
         NEW op \in Operations
  PROVE /\ Append(st, Call(op)) \in Seq(Frame)
        /\ Held(q, p, Append(st, Call(op))) = Held(q, p, st)
        /\ StackShape(Append(st, Call(op))) <=> StackShape(st)
<1>1. Call(op) \in Frame /\ Bare(Call(op)) /\ FrameShape(Call(op))
  BY CallType DEF Call, Bare, FrameShape
<1> HIDE DEF Call
<1> QED BY <1>1, AppendType, HeldPush, ShapeAppend

\* The innermost call and the others keep their shapes.
LEMMA TopShape ==
  ASSUME TypeOK, StackShape(stack), stack # <<>>
  PROVE /\ Below \in Seq(Frame) /\ Top \in Frame /\ stack = Append(Below, Top)
        /\ StackShape(Below) /\ FrameShape(Top)
<1>1. Below \in Seq(Frame) /\ Top \in Frame /\ stack = Append(Below, Top)
  BY TopType, StackIsAppend
<1> HIDE DEF Below, Top
<1>2. StackShape(Append(Below, Top))
  BY <1>1
<1> QED BY <1>1, <1>2, ShapeAppend

\* A call that holds no callbacks returns.
LEMMA PoppedCall ==
  ASSUME TypeOK, CallbackInv, stack # <<>>,
         \/ Top.op \notin {"notify", "clear"}
         \/ Top.op = "notify" /\ Top.callbacks = <<>>
         \/ Top.op = "clear" /\ Top.cancelled = <<>>
  PROVE /\ Below \in Seq(Frame) /\ StackShape(Below)
        /\ Once(Held(queue, pending_callback, Below), outstanding)
<1>1. /\ Below \in Seq(Frame) /\ Top \in Frame /\ stack = Append(Below, Top)
      /\ StackShape(Below) /\ FrameShape(Top)
  BY TopShape DEF CallbackInv
<1>2. Bare(Top)
  BY <1>1 DEF Bare, FrameShape
<1>3. queue \in Seq(QueuedCommand) /\ pending_callback \in Seq(Seq(Requester))
  BY DEF TypeOK
<1> HIDE DEF Below, Top
<1>4. Held(queue, pending_callback, Append(Below, Top)) = Held(queue, pending_callback, Below)
  BY <1>1, <1>2, <1>3, HeldPush
<1>5. Held(queue, pending_callback, stack) = Held(queue, pending_callback, Below)
  BY <1>1, <1>4
<1> QED BY <1>1, <1>5 DEF CallbackInv

\* A call that holds no callbacks returns, and nothing else.
LEMMA KeptByReturn ==
  ASSUME IInv, CallbackInv,
         \/ TransportUpdateQuiet \/ CheckTimeoutPasses \/ ExecuteNextBlocked \/ SendNothing
         \/ CallbackReturn \/ NotifyDone
  PROVE CallbackInv'
<1>1. /\ TypeOK /\ stack # <<>> /\ stack' = Below
      /\ UNCHANGED <<queue, pending_callback, outstanding>>
      /\ Top.op \notin {"notify", "clear"} \/ (Top.op = "notify" /\ Top.callbacks = <<>>)
  BY DEF IInv, TransportUpdateQuiet, CheckTimeoutPasses, ExecuteNextBlocked, SendNothing,
         CallbackReturn, NotifyDone, Running, queueVars
<1>2. StackShape(Below) /\ Once(Held(queue, pending_callback, Below), outstanding)
  BY <1>1, PoppedCall
<1> HIDE DEF Below
<1> QED BY <1>1, <1>2 DEF CallbackInv

\* clear() goes on with execute_next().
LEMMA KeptByClearDone ==
  ASSUME IInv, CallbackInv, ClearDone PROVE CallbackInv'
<1>1. /\ TypeOK /\ stack # <<>> /\ stack' = Append(Below, Call("execute_next"))
      /\ UNCHANGED <<queue, pending_callback, outstanding>>
      /\ Top.op = "clear" /\ Top.cancelled = <<>>
  BY DEF IInv, ClearDone, Running, BecomeTop
<1>2. /\ Below \in Seq(Frame) /\ StackShape(Below)
      /\ Once(Held(queue, pending_callback, Below), outstanding)
  BY <1>1, PoppedCall
<1>3. queue \in Seq(QueuedCommand) /\ pending_callback \in Seq(Seq(Requester)) /\ "execute_next" \in Operations
  BY <1>1 DEF TypeOK, Operations
<1> HIDE DEF Below
<1>4. /\ StackShape(Append(Below, Call("execute_next")))
      /\ Held(queue, pending_callback, Append(Below, Call("execute_next"))) = Held(queue, pending_callback, Below)
  BY <1>2, <1>3, PushedCall
<1> QED BY <1>1, <1>2, <1>4 DEF CallbackInv

\* update() calls three functions.
LEMMA KeptByUpdate ==
  ASSUME IInv, CallbackInv, Update PROVE CallbackInv'
<1> DEFINE a == Append(stack, Call("execute_next"))
           b == Append(a, Call("check_timeout"))
           c == Append(b, Call("transport_update"))
<1>1. UNCHANGED <<queue, pending_callback, outstanding>> /\ stack' = c
  BY DEF Update, queueVars
<1>2. /\ queue \in Seq(QueuedCommand) /\ pending_callback \in Seq(Seq(Requester)) /\ stack \in Seq(Frame)
      /\ {"execute_next", "check_timeout", "transport_update"} \subseteq Operations
  BY DEF IInv, TypeOK, Operations
<1>3. /\ a \in Seq(Frame) /\ (StackShape(a) <=> StackShape(stack))
      /\ Held(queue, pending_callback, a) = Held(queue, pending_callback, stack)
  BY <1>2, PushedCall
<1> HIDE DEF a
<1>4. /\ b \in Seq(Frame) /\ (StackShape(b) <=> StackShape(a))
      /\ Held(queue, pending_callback, b) = Held(queue, pending_callback, a)
  BY <1>2, <1>3, PushedCall
<1> HIDE DEF b
<1>5. /\ (StackShape(c) <=> StackShape(b))
      /\ Held(queue, pending_callback, c) = Held(queue, pending_callback, b)
  BY <1>2, <1>4, PushedCall
<1> HIDE DEF c
<1> QED BY <1>1, <1>3, <1>4, <1>5 DEF CallbackInv

\* The frame of notify_callbacks() holds the list it was given.
LEMMA NotifyFrame ==
  ASSUME TypeOK, NEW c \in Seq(Requester), NEW success \in BOOLEAN
  PROVE /\ Notify(c, success) \in Frame /\ FrameShape(Notify(c, success))
        /\ Notify(c, success).callbacks = c /\ Notify(c, success).cancelled = <<>>
  BY NotifyType DEF Notify, FrameShape

\* The command on the wire leaves, and its callbacks are walked.
LEMMA KeptByLeaving ==
  ASSUME IInv, queue # <<>>, queue' = Tail(queue), UNCHANGED <<pending_callback, outstanding>>,
         NEW rest \in Seq(Frame), StackShape(rest), NEW success \in BOOLEAN,
         Once(Held(queue, pending_callback, rest), outstanding),
         stack' = Append(Append(rest, Call("execute_next")),
                         Notify(Head(queue).callbacks, success))
  PROVE CallbackInv'
<1> DEFINE next == Append(rest, Call("execute_next"))
           note == Notify(Head(queue).callbacks, success)
<1>1. queue \in Seq(QueuedCommand) /\ pending_callback \in Seq(Seq(Requester)) /\ "execute_next" \in Operations
  BY DEF IInv, TypeOK, Operations
<1>2. /\ next \in Seq(Frame) /\ StackShape(next)
      /\ Held(queue, pending_callback, next) = Held(queue, pending_callback, rest)
  BY <1>1, PushedCall
<1>3. /\ note \in Frame /\ FrameShape(note)
      /\ note.callbacks = Head(queue).callbacks /\ note.cancelled = <<>>
  <2>1. Head(queue).callbacks \in Seq(Requester)
    BY FrontType DEF IInv, QueuedCommand
  <2>2. TypeOK
    BY DEF IInv
  <2> QED BY <2>1, <2>2, NotifyFrame
<1>4. stack' = Append(next, note)
  OBVIOUS
<1> HIDE DEF next, note
<1>5. Once(Held(queue, pending_callback, next), outstanding)
  BY <1>2
<1>6. Once(Held(Tail(queue), pending_callback, Append(next, note)), outstanding)
  BY <1>1, <1>2, <1>3, <1>5, FrontToWalk
<1>7. StackShape(Append(next, note))
  BY <1>2, <1>3, ShapeAppend
<1> QED BY <1>4, <1>6, <1>7 DEF CallbackInv

\* An error or a time-out.
LEMMA KeptByFailure ==
  ASSUME IInv, CallbackInv,
         \/ \E t \in Types : OnError(t) \/ TransportUpdateError(t)
         \/ CheckTimeoutExpires
  PROVE CallbackInv'
<1>0. TypeOK
  BY DEF IInv
<1>1. CASE \E t \in Types : OnError(t)
  <2>1. /\ stack = <<>> /\ queue # <<>> /\ queue' = Tail(queue)
        /\ UNCHANGED <<pending_callback, outstanding>>
        /\ stack' = Append(Append(stack, Call("execute_next")), Notify(Head(queue).callbacks, FALSE))
    BY <1>1 DEF OnError, Fail, Executing
  <2>2. /\ stack \in Seq(Frame) /\ StackShape(stack)
        /\ Once(Held(queue, pending_callback, stack), outstanding) /\ FALSE \in BOOLEAN
    BY <1>0 DEF CallbackInv, TypeOK
  <2> QED BY <2>1, <2>2, KeptByLeaving
<1>2. CASE CheckTimeoutExpires \/ \E t \in Types : TransportUpdateError(t)
  <2>1. /\ stack # <<>> /\ Top.op \notin {"notify", "clear"} /\ queue # <<>> /\ queue' = Tail(queue)
        /\ UNCHANGED <<pending_callback, outstanding>>
        /\ stack' = Append(Append(Below, Call("execute_next")), Notify(Head(queue).callbacks, FALSE))
    BY <1>2 DEF CheckTimeoutExpires, TransportUpdateError, Fail, Executing, TimedOut, Running, BecomeTop
  <2>2. /\ Below \in Seq(Frame) /\ StackShape(Below)
        /\ Once(Held(queue, pending_callback, Below), outstanding) /\ FALSE \in BOOLEAN
    BY <1>0, <2>1, PoppedCall
  <2> HIDE DEF Below
  <2> QED BY <2>1, <2>2, KeptByLeaving
<1> QED BY <1>1, <1>2

\* The transport answers: the callbacks are walked now or deferred.
LEMMA KeptByResponse ==
  ASSUME IInv, CallbackInv, NEW t \in Types, OnResponse(t) PROVE CallbackInv'
<1>1. /\ stack = <<>> /\ Executing /\ queue # <<>> /\ queue' = Tail(queue) /\ UNCHANGED outstanding
      /\ stack \in Seq(Frame) /\ queue \in Seq(QueuedCommand)
  BY DEF OnResponse, Executing, IInv, TypeOK
<1>2. \/ /\ pending_callback' = <<Head(queue).callbacks>>
         /\ stack' = Append(stack, Call("execute_next"))
      \/ /\ stack' = Append(Append(stack, Call("execute_next")), Notify(Head(queue).callbacks, TRUE))
         /\ UNCHANGED pending_callback
  BY Zenon DEF OnResponse
<1>3. StackShape(stack) /\ Once(Held(queue, pending_callback, stack), outstanding) /\ TRUE \in BOOLEAN
  BY DEF CallbackInv
<1>4. pending_callback = <<>>
  BY <1>1 DEF IInv, DeferredSafe
<1>5. CASE /\ stack' = Append(Append(stack, Call("execute_next")), Notify(Head(queue).callbacks, TRUE))
           /\ UNCHANGED pending_callback
  BY <1>1, <1>3, <1>5, KeptByLeaving
<1>6. CASE /\ pending_callback' = <<Head(queue).callbacks>>
           /\ stack' = Append(stack, Call("execute_next"))
  <2> DEFINE one == <<Head(queue).callbacks>>
  <2>1. Once(Held(Tail(queue), one, stack), outstanding)
    BY <1>1, <1>3, <1>4, FrontToPending
  <2>2. Tail(queue) \in Seq(QueuedCommand) /\ one \in Seq(Seq(Requester)) /\ "execute_next" \in Operations
    <3>1. Head(queue).callbacks \in Seq(Requester)
      BY <1>1, FrontType DEF IInv, QueuedCommand
    <3>2. Tail(queue) \in Seq(QueuedCommand)
      BY <1>1
    <3> QED BY <3>1, <3>2 DEF Operations
  <2> HIDE DEF one
  <2>3. /\ StackShape(Append(stack, Call("execute_next")))
        /\ Held(Tail(queue), one, Append(stack, Call("execute_next"))) = Held(Tail(queue), one, stack)
    BY <1>1, <1>3, <2>2, PushedCall
  <2>4. pending_callback' = one
    BY <1>6 DEF one
  <2> QED BY <1>1, <1>6, <2>1, <2>3, <2>4 DEF CallbackInv
<1> QED BY <1>2, <1>5, <1>6

\* notify_callbacks() calls the next callback.
LEMMA KeptByCall ==
  ASSUME IInv, CallbackInv, CallCallback PROVE CallbackInv'
<1> DEFINE rest == [Top EXCEPT !.callbacks = Tail(@)]
           c == Top.callbacks
<1>1. /\ stack # <<>> /\ Top.op = "notify" /\ c # <<>>
      /\ stack' = Append(Append(Below, rest), Call("callback"))
      /\ outstanding' = outstanding \ {Head(c)}
      /\ UNCHANGED <<queue, pending_callback>>
  BY DEF CallCallback, Running, BecomeTop, queueVars
<1>2. /\ Below \in Seq(Frame) /\ Top \in Frame /\ stack = Append(Below, Top)
      /\ StackShape(Below) /\ FrameShape(Top)
  BY TopShape DEF CallbackInv, IInv, CallCallback, Running
<1>3. queue \in Seq(QueuedCommand) /\ pending_callback \in Seq(Seq(Requester)) /\ "callback" \in Operations
  BY DEF IInv, TypeOK, Operations
<1>4. /\ rest \in Frame /\ rest.callbacks = Tail(c) /\ rest.cancelled = Top.cancelled /\ rest.op = "notify"
  <2>1. Tail(c) \in Seq(Requester)
    BY <1>1, <1>2 DEF Frame
  <2> QED BY <1>1, <1>2, <2>1 DEF Frame
<1>5. Top.cancelled = <<>>
  BY <1>1, <1>2 DEF FrameShape
<1>6. Once(Held(queue, pending_callback, Append(Below, Top)), outstanding)
  BY <1>2 DEF CallbackInv
<1>7. Top.callbacks = c
  OBVIOUS
<1> HIDE DEF rest, c, Below, Top
<1>8. Once(Held(queue, pending_callback, Append(Below, rest)), outstanding \ {Head(c)})
  BY <1>1, <1>2, <1>3, <1>4, <1>5, <1>6, <1>7, WalkCalls
<1>9. Append(Below, rest) \in Seq(Frame) /\ StackShape(Append(Below, rest))
  <2>1. FrameShape(rest)
    BY <1>4, <1>5 DEF FrameShape
  <2> QED BY <1>2, <1>4, <2>1, ShapeAppend
<1> DEFINE t == Append(Below, rest)
<1>10. t \in Seq(Frame) /\ StackShape(t) /\ stack' = Append(t, Call("callback"))
       /\ Once(Held(queue, pending_callback, t), outstanding')
  BY <1>1, <1>8, <1>9
<1> HIDE DEF t
<1>11. /\ StackShape(Append(t, Call("callback")))
       /\ Held(queue, pending_callback, Append(t, Call("callback"))) = Held(queue, pending_callback, t)
  BY <1>3, <1>10, PushedCall
<1> QED BY <1>1, <1>10, <1>11 DEF CallbackInv

\* clear() begins to walk the callbacks of a cancelled command.
LEMMA KeptByCancel ==
  ASSUME IInv, CallbackInv, ClearCancels PROVE CallbackInv'
<1> DEFINE rest == [Top EXCEPT !.cancelled = Tail(@)]
           lists == Top.cancelled
           note == Notify(Head(lists), FALSE)
<1>1. /\ stack # <<>> /\ Top.op = "clear" /\ lists # <<>>
      /\ stack' = Append(Append(Below, rest), note)
      /\ UNCHANGED <<queue, pending_callback, outstanding>>
  BY DEF ClearCancels, Running, BecomeTop
<1>2. /\ Below \in Seq(Frame) /\ Top \in Frame /\ stack = Append(Below, Top)
      /\ StackShape(Below) /\ FrameShape(Top)
  BY TopShape DEF CallbackInv, IInv, ClearCancels, Running
<1>3. queue \in Seq(QueuedCommand) /\ pending_callback \in Seq(Seq(Requester))
  BY DEF IInv, TypeOK
<1>4. lists \in Seq(Seq(Requester))
  BY <1>2 DEF Frame
<1>5. /\ rest \in Frame /\ rest.cancelled = Tail(lists) /\ rest.callbacks = Top.callbacks /\ rest.op = "clear"
  <2>1. Tail(lists) \in Seq(Seq(Requester))
    BY <1>1, <1>4
  <2> QED BY <1>1, <1>2, <2>1 DEF Frame
<1>6. Top.callbacks = <<>>
  BY <1>1, <1>2 DEF FrameShape
<1>7. /\ note \in Frame /\ FrameShape(note) /\ note.callbacks = Head(lists) /\ note.cancelled = <<>>
  <2>1. Head(lists) \in Seq(Requester) /\ FALSE \in BOOLEAN
    BY <1>1, <1>4
  <2>2. TypeOK
    BY DEF IInv
  <2> HIDE DEF lists
  <2> QED BY <2>1, <2>2, NotifyFrame
<1>8. Once(Held(queue, pending_callback, Append(Below, Top)), outstanding) /\ Top.cancelled = lists
  BY <1>2 DEF CallbackInv
<1> HIDE DEF rest, lists, note, Below, Top
<1>9. Once(Held(queue, pending_callback, Append(Append(Below, rest), note)), outstanding)
  BY <1>1, <1>2, <1>3, <1>5, <1>6, <1>7, <1>8, CancelledToWalk
<1>10. StackShape(Append(Append(Below, rest), note))
  <2>1. FrameShape(rest)
    BY <1>5, <1>6 DEF FrameShape
  <2>2. Append(Below, rest) \in Seq(Frame) /\ StackShape(Append(Below, rest))
    BY <1>2, <1>5, <2>1, ShapeAppend
  <2> QED BY <1>7, <2>2, ShapeAppend
<1> QED BY <1>1, <1>9, <1>10 DEF CallbackInv

\* A sequence of at most one element.
LEMMA OneElement ==
  ASSUME NEW S, NEW s \in Seq(S), Len(s) <= 1, s # <<>>
  PROVE Head(s) \in S /\ s = <<Head(s)>>
<1>1. Len(s) \in Nat /\ Len(s) # 0
  <2>1. Len(s) # 0
    <3> SUFFICES ASSUME Len(s) = 0 PROVE s = <<>>
      OBVIOUS
    <3>1. <<>> \in Seq(S) /\ Len(<<>>) = 0
      OBVIOUS
    <3>2. \A i \in 1 .. Len(s) : s[i] = <<>>[i]
      OBVIOUS
    <3> QED BY <3>1, <3>2, SeqEqual
  <2> QED BY <2>1
<1>2. Len(s) = 1 /\ s[1] \in S /\ Head(s) = s[1]
  <2>1. Len(s) = 1
    BY <1>1
  <2> QED BY <2>1
<1>3. <<s[1]>> \in Seq(S) /\ Len(<<s[1]>>) = 1 /\ <<s[1]>>[1] = s[1]
  BY <1>2
<1>4. s = <<s[1]>>
  BY <1>2, <1>3, SeqEqual
<1> QED BY <1>2, <1>4

\* execute_next() passes its early returns; a deferred notification is walked.
LEMMA KeptByProceeding ==
  ASSUME IInv, CallbackInv, ExecuteNextProceeds PROVE CallbackInv'
<1> DEFINE send == Append(Below, Call("send"))
<1>1. /\ TypeOK /\ stack # <<>> /\ Top.op \notin {"notify", "clear"} /\ pending_callback' = <<>>
      /\ UNCHANGED <<queue, outstanding>>
      /\ \/ pending_callback = <<>> /\ stack' = send
         \/ pending_callback # <<>> /\ stack' = Append(send, Notify(Head(pending_callback), TRUE))
  BY DEF IInv, ExecuteNextProceeds, Running, BecomeTop
<1>2. /\ Below \in Seq(Frame) /\ StackShape(Below)
      /\ Once(Held(queue, pending_callback, Below), outstanding)
  BY <1>1, PoppedCall
<1>3. /\ queue \in Seq(QueuedCommand) /\ pending_callback \in Seq(Seq(Requester))
      /\ Len(pending_callback) <= 1 /\ "send" \in Operations
  BY <1>1 DEF TypeOK, Operations
<1> HIDE DEF Below
<1>4. /\ send \in Seq(Frame) /\ StackShape(send)
      /\ Once(Held(queue, pending_callback, send), outstanding)
  BY <1>2, <1>3, PushedCall
<1> HIDE DEF send
<1>5. CASE pending_callback = <<>> /\ stack' = send
  BY <1>1, <1>4, <1>5 DEF CallbackInv
<1>6. CASE pending_callback # <<>> /\ stack' = Append(send, Notify(Head(pending_callback), TRUE))
  <2> DEFINE c == Head(pending_callback)
             note == Notify(c, TRUE)
  <2>1. c \in Seq(Requester) /\ pending_callback = <<c>> /\ TRUE \in BOOLEAN
    BY <1>3, <1>6, OneElement
  <2>2. stack' = Append(send, note)
    BY <1>6
  <2> HIDE DEF c
  <2>3. note \in Frame /\ FrameShape(note) /\ note.callbacks = c /\ note.cancelled = <<>>
    BY <1>1, <2>1, NotifyFrame
  <2> HIDE DEF note
  <2>4. Once(Held(queue, <<c>>, send), outstanding)
    BY <1>4, <2>1
  <2>5. Once(Held(queue, <<>>, Append(send, note)), outstanding)
    BY <1>3, <1>4, <2>1, <2>3, <2>4, PendingToWalk
  <2>6. StackShape(Append(send, note))
    BY <1>4, <2>3, ShapeAppend
  <2> QED BY <1>1, <2>2, <2>5, <2>6 DEF CallbackInv
<1> QED BY <1>1, <1>5, <1>6

\* The command to send moves to the front with its callbacks.
LEMMA KeptBySend ==
  ASSUME IInv, CallbackInv, Send PROVE CallbackInv'
<1>1. /\ TypeOK /\ stack # <<>> /\ Top.op \notin {"notify", "clear"} /\ stack' = Below /\ queue # <<>>
      /\ UNCHANGED <<pending_callback, outstanding>>
  BY DEF IInv, Send, Running
<1>2. /\ Below \in Seq(Frame) /\ StackShape(Below)
      /\ Once(Held(queue, pending_callback, Below), outstanding)
  BY <1>1, PoppedCall
<1>3. PICK best \in 1 .. Len(queue) :
        queue' = [MoveToFront(best) EXCEPT ![1].state = "EXECUTING", ![1].sent_time = millis]
  BY DEF Send
<1>4. /\ queue' \in Seq(QueuedCommand) /\ Len(queue') = Len(queue) /\ Len(queue) \in Nat
      /\ \A k \in 2 .. Len(queue) : queue'[k] = MoveToFront(best)[k]
  <2>1. queue' \in Seq(QueuedCommand) /\ Len(queue') = Len(queue)
        /\ \A k \in 2 .. Len(queue) : queue'[k] = MoveToFront(best)[k]
    BY <1>1, <1>3, SentQueue
  <2>2. Len(queue) \in Nat
    BY <1>1 DEF TypeOK
  <2> QED BY <2>1, <2>2
<1>5. queue'[1].callbacks = MoveToFront(best)[1].callbacks
  <2>1. MoveToFront(best)[1] \in QueuedCommand /\ 1 \in DOMAIN MoveToFront(best)
    BY <1>1, <1>3, <1>4 DEF MoveToFront, TypeOK
  <2> HIDE DEF MoveToFront
  <2>2. queue'[1] = [MoveToFront(best)[1] EXCEPT !.state = "EXECUTING", !.sent_time = millis]
    BY <1>3, <2>1
  <2> QED BY <2>1, <2>2 DEF QueuedCommand
<1>6. ASSUME NEW k \in 1 .. Len(queue)
      PROVE queue'[k].callbacks = queue[Source(best, k)].callbacks /\ Source(best, k) \in 1 .. Len(queue)
  <2>1. MoveToFront(best)[k] = queue[Source(best, k)]
    BY <1>3, <1>4 DEF MoveToFront, Source
  <2>2. Source(best, k) \in 1 .. Len(queue)
    BY <1>3, <1>4 DEF Source
  <2>3. queue'[k].callbacks = MoveToFront(best)[k].callbacks
    <3>1. k = 1 \/ k \in 2 .. Len(queue)
      BY <1>4
    <3> QED BY <1>4, <1>5, <3>1
  <2> QED BY <2>1, <2>2, <2>3
<1>7. Reordered(queue, queue', best)
  <2> SUFFICES ASSUME NEW a \in Nat PROVE QueueList(queue', a, 0) = QueueList(queue, Source(best, a), 0)
    BY DEF Reordered
  <2>1. CASE a \in 1 .. Len(queue)
    BY <1>4, <1>6, <2>1 DEF QueueList
  <2>2. CASE a \notin 1 .. Len(queue)
    <3>1. Source(best, a) = a
      BY <1>3, <1>4, <2>2 DEF Source
    <3> QED BY <1>4, <2>2, <3>1 DEF QueueList
  <2> QED BY <2>1, <2>2
<1>8. /\ queue \in Seq(QueuedCommand) /\ pending_callback \in Seq(Seq(Requester))
      /\ best \in Nat /\ best > 0
  BY <1>1, <1>3 DEF TypeOK
<1> HIDE DEF Below
<1>9. Once(Held(queue', pending_callback, Below), outstanding)
  BY <1>2, <1>4, <1>7, <1>8, QueueReordered
<1> QED BY <1>1, <1>2, <1>9 DEF CallbackInv

\* clear() takes over the lists of the commands it cancels.
LEMMA KeptByClear ==
  ASSUME IInv, CallbackInv, Clear PROVE CallbackInv'
<1> DEFINE kept == IF Executing THEN 1 ELSE 0
           lists == [i \in 1 .. Len(queue) - kept |-> queue[i + kept].callbacks]
           walk == ClearCall(lists)
<1>1. /\ queue # <<>> /\ queue' = SubSeq(queue, 1, kept) /\ stack' = Append(stack, walk)
      /\ UNCHANGED <<pending_callback, outstanding>>
  BY DEF Clear
<1>2. /\ queue \in Seq(QueuedCommand) /\ pending_callback \in Seq(Seq(Requester)) /\ stack \in Seq(Frame)
      /\ Len(queue) \in Nat /\ Len(queue) >= 1 /\ kept \in Nat /\ kept <= Len(queue)
  BY <1>1 DEF IInv, TypeOK
<1>3. walk \in Frame
  <2>1. TypeOK' /\ Len(stack) \in Nat
    BY TypeClear DEF IInv, TypeOK
  <2> HIDE DEF walk
  <2>2. stack'[Len(stack) + 1] = walk /\ Len(stack') = Len(stack) + 1
    BY <1>1, <1>2
  <2> QED BY <2>1, <2>2 DEF TypeOK
<1>4. walk.callbacks = <<>> /\ walk.cancelled = lists /\ FrameShape(walk)
  BY DEF ClearCall, FrameShape
<1>5. ListsBehind(queue, kept, walk.cancelled)
  <2>1. Len(lists) = Len(queue) - kept
    <3>1. Len(queue) - kept \in Nat
      BY <1>2
    <3> HIDE DEF kept
    <3> QED BY <3>1
  <2> QED BY <1>4, <2>1 DEF ListsBehind
<1> HIDE DEF walk, lists, kept
<1>6. Once(Held(queue, pending_callback, stack), outstanding) /\ StackShape(stack)
  BY DEF CallbackInv
<1>7. Once(Held(SubSeq(queue, 1, kept), pending_callback, Append(stack, walk)), outstanding)
  BY <1>1, <1>2, <1>3, <1>4, <1>5, <1>6, QueueToClear
<1>8. StackShape(Append(stack, walk))
  BY <1>2, <1>3, <1>4, <1>6, ShapeAppend
<1> QED BY <1>1, <1>7, <1>8 DEF CallbackInv

\* What enqueue() is given: no callback, or one that is not outstanding.
Given(cb, r) == cb = <<r>> /\ r \in Requester /\ r \notin outstanding /\ outstanding' = outstanding \cup {r}
GivenNone(cb) == cb = <<>> /\ outstanding' = outstanding

\* A queued command takes the callbacks that enqueue() was given.
LEMMA TakesCallback ==
  ASSUME NEW q \in Seq(QueuedCommand), NEW u \in Seq(QueuedCommand), NEW p \in Seq(Seq(Requester)),
         NEW st \in Seq(Frame), NEW i \in Nat, NEW cb, GivenNone(cb) \/ \E r : Given(cb, r),
         Once(Held(q, p, st), outstanding), QueueList(q, i, 0) \in Seq(Requester),
         QueueList(u, i, 0) = QueueList(q, i, 0) \o cb,
         \A a \in Nat : a # i => QueueList(u, a, 0) = QueueList(q, a, 0)
  PROVE Once(Held(u, p, st), outstanding')
<1>1. CASE GivenNone(cb)
  <2>1. QueueList(u, i, 0) = QueueList(q, i, 0)
    BY <1>1 DEF GivenNone
  <2>2. \A a \in Nat : QueueList(u, a, 0) = QueueList(q, a, 0)
    BY <2>1
  <2>3. Held(u, p, st) = Held(q, p, st)
    BY <2>2, QueueSame
  <2> QED BY <1>1, <2>3 DEF GivenNone
<1>2. ASSUME NEW r, Given(cb, r) PROVE Once(Held(u, p, st), outstanding')
  <2> DEFINE x == QueueList(q, i, 0)
  <2>1. x \in Seq(Requester) /\ r \in Requester /\ QueueList(u, i, 0) = x \o <<r>>
    BY <1>2 DEF Given
  <2> HIDE DEF x
  <2>2. x \o <<r>> = Append(x, r)
    BY <2>1, AppendIsConcat
  <2>3. QueueList(u, i, 0) = Append(QueueList(q, i, 0), r)
    BY <2>1, <2>2 DEF x
  <2>4. r \in Requester /\ r \notin outstanding /\ outstanding' = outstanding \cup {r}
    BY <1>2 DEF Given
  <2>5. Once(Held(u, p, st), outstanding \cup {r})
    BY <2>3, <2>4, QueuePut
  <2> QED BY <2>4, <2>5
<1> QED BY <1>1, <1>2

\* enqueue() appends a command with the callbacks it was given.
LEMMA KeptByNew ==
  ASSUME IInv, CallbackInv, NEW req \in Requests, NEW cb \in Seq(Requester), EnqueueNew(req, cb),
         GivenNone(cb) \/ \E r : Given(cb, r), queue' \in Seq(QueuedCommand)
  PROVE CallbackInv'
<1> DEFINE new == [command |-> req.command, callbacks |-> cb, state |-> "PENDING",
                   priority |-> req.priority, delay |-> req.delay,
                   enqueued_time |-> millis, sent_time |-> 0]
           n == Len(queue) + 1
<1>1. /\ queue' = Append(queue, new) /\ new.callbacks = cb /\ UNCHANGED pending_callback
      /\ stack' = Append(stack, Call("execute_next"))
  BY DEF EnqueueNew
<1>2. /\ queue \in Seq(QueuedCommand) /\ pending_callback \in Seq(Seq(Requester)) /\ stack \in Seq(Frame)
      /\ "execute_next" \in Operations /\ Len(queue) \in Nat /\ n \in Nat
  BY DEF IInv, TypeOK, Operations
<1> HIDE DEF new
<1>3. /\ Len(queue') = n /\ queue'[n] = new /\ \A k \in 1 .. Len(queue) : queue'[k] = queue[k]
  BY <1>1, <1>2
<1>4. QueueList(queue, n, 0) = <<>> /\ QueueList(queue', n, 0) = cb
  BY <1>1, <1>2, <1>3 DEF QueueList
<1>5. ASSUME NEW a \in Nat, a # n PROVE QueueList(queue', a, 0) = QueueList(queue, a, 0)
  <2>1. a \in 1 .. Len(queue') <=> a \in 1 .. Len(queue)
    BY <1>2, <1>3, <1>5
  <2> QED BY <1>3, <2>1 DEF QueueList
<1>6. QueueList(queue, n, 0) \in Seq(Requester) /\ QueueList(queue', n, 0) = QueueList(queue, n, 0) \o cb
  <2>1. <<>> \in Seq(Requester) /\ cb = <<>> \o cb
    OBVIOUS
  <2> QED BY <1>4, <2>1
<1> HIDE DEF n
<1>7. Once(Held(queue, pending_callback, stack), outstanding) /\ StackShape(stack)
  BY DEF CallbackInv
<1>8. Once(Held(queue', pending_callback, stack), outstanding')
  BY <1>2, <1>5, <1>6, <1>7, TakesCallback
<1>9. /\ StackShape(Append(stack, Call("execute_next")))
      /\ Held(queue', pending_callback, Append(stack, Call("execute_next"))) = Held(queue', pending_callback, stack)
  BY <1>2, <1>7, PushedCall
<1> QED BY <1>1, <1>8, <1>9 DEF CallbackInv

\* enqueue() adds the callbacks it was given to a command that is pending.
LEMMA KeptByDuplicate ==
  ASSUME IInv, CallbackInv, NEW req \in Requests, NEW cb \in Seq(Requester), EnqueueDuplicate(req, cb),
         GivenNone(cb) \/ \E r : Given(cb, r), queue' \in Seq(QueuedCommand)
  PROVE CallbackInv'
<1>1. PICK m \in 1 .. Len(queue) :
        queue' = [queue EXCEPT
             ![m].priority = IF req.priority < @ THEN req.priority ELSE @,
             ![m].delay = req.delay,
             ![m].callbacks = @ \o cb]
  BY DEF EnqueueDuplicate
<1> DEFINE merged == [queue[m] EXCEPT
             !.priority = IF req.priority < @ THEN req.priority ELSE @,
             !.delay = req.delay, !.callbacks = @ \o cb]
<1>2. /\ queue[m] \in QueuedCommand /\ queue \in Seq(QueuedCommand) /\ Len(queue) \in Nat /\ m \in Nat
      /\ pending_callback \in Seq(Seq(Requester)) /\ stack \in Seq(Frame)
  BY DEF IInv, TypeOK
<1>3. merged \in QueuedCommand
  BY MergedType DEF IInv
<1>4. merged.callbacks = queue[m].callbacks \o cb /\ queue[m].callbacks \in Seq(Requester)
  BY <1>2 DEF QueuedCommand
<1>5. queue' = [queue EXCEPT ![m] = merged]
  BY <1>1, <1>2 DEF QueuedCommand
<1> HIDE DEF merged
<1>6. /\ Len(queue') = Len(queue) /\ queue'[m] = merged
      /\ \A i \in 1 .. Len(queue) : i # m => queue'[i] = queue[i]
  BY <1>2, <1>3, <1>5, ExceptElements
<1>7. QueueList(queue, m, 0) = queue[m].callbacks /\ QueueList(queue', m, 0) = merged.callbacks
  BY <1>2, <1>6 DEF QueueList
<1>8. ASSUME NEW a \in Nat, a # m PROVE QueueList(queue', a, 0) = QueueList(queue, a, 0)
  BY <1>2, <1>6, <1>8 DEF QueueList
<1>9. /\ QueueList(queue, m, 0) \in Seq(Requester)
      /\ QueueList(queue', m, 0) = QueueList(queue, m, 0) \o cb
  BY <1>4, <1>7
<1>10. Once(Held(queue, pending_callback, stack), outstanding) /\ StackShape(stack)
  BY DEF CallbackInv
<1>11. Once(Held(queue', pending_callback, stack), outstanding')
  BY <1>2, <1>8, <1>9, <1>10, TakesCallback
<1>12. UNCHANGED <<pending_callback, stack>>
  BY DEF EnqueueDuplicate
<1> QED BY <1>10, <1>11, <1>12 DEF CallbackInv

\* enqueue() takes over the callback it was given.
LEMMA KeptByEnqueue ==
  ASSUME IInv, CallbackInv, Enqueue PROVE CallbackInv'
<1>1. PICK req \in Requests, cb \in {<<>>} \cup {<<r>> : r \in Requester \ outstanding} :
        /\ EnqueueDuplicate(req, cb) \/ EnqueueNew(req, cb)
        /\ outstanding' = outstanding \cup {cb[k] : k \in DOMAIN cb}
  BY DEF Enqueue
<1>2. cb \in Seq(Requester) /\ (GivenNone(cb) \/ \E r : Given(cb, r))
  <2>1. CASE cb = <<>>
    <3>1. {cb[k] : k \in DOMAIN cb} = {}
      BY <2>1
    <3>2. outstanding' = outstanding
      BY <1>1, <3>1
    <3> QED BY <2>1, <3>2 DEF GivenNone
  <2>2. ASSUME NEW r \in Requester \ outstanding, cb = <<r>>
        PROVE cb \in Seq(Requester) /\ \E x : Given(cb, x)
    <3>1. {cb[k] : k \in DOMAIN cb} = {r}
      BY <2>2
    <3>2. outstanding' = outstanding \cup {r}
      BY <1>1, <3>1
    <3>3. Given(cb, r)
      BY <2>2, <3>2 DEF Given
    <3> QED BY <2>2, <3>3
  <2> QED BY <2>1, <2>2
<1>3. queue' \in Seq(QueuedCommand)
  BY EnqueueStep DEF IInv, TypeOK
<1> QED BY <1>1, <1>2, <1>3, KeptByNew, KeptByDuplicate

\* Every step keeps every callback in one place.
LEMMA CallbackInvStep == IInv /\ CallbackInv /\ [Next]_vars => CallbackInv'
<1> SUFFICES ASSUME IInv, CallbackInv, [Next]_vars PROVE CallbackInv'
  OBVIOUS
<1>1. CASE Enqueue BY <1>1, KeptByEnqueue
<1>2. CASE Clear BY <1>2, KeptByClear
<1>3. CASE Update BY <1>3, KeptByUpdate
<1>4. CASE Tick \/ UNCHANGED vars
  <2>1. UNCHANGED <<queue, pending_callback, stack, outstanding>>
    BY <1>4 DEF Tick, vars, queueVars
  <2> QED BY <2>1 DEF CallbackInv
<1>5. CASE Internal
  <2>1. CASE CheckTimeoutExpires BY <2>1, KeptByFailure
  <2>2. CASE CallCallback BY <2>2, KeptByCall
  <2>3. CASE ClearCancels BY <2>3, KeptByCancel
  <2>4. CASE ClearDone BY <2>4, KeptByClearDone
  <2>5. CASE ExecuteNextProceeds BY <2>5, KeptByProceeding
  <2>6. CASE Send BY <2>6, KeptBySend
  <2>7. CASE \/ TransportUpdateQuiet \/ CheckTimeoutPasses \/ ExecuteNextBlocked \/ SendNothing
             \/ CallbackReturn \/ NotifyDone
    BY <2>7, KeptByReturn
  <2> QED BY <1>5, <2>1, <2>2, <2>3, <2>4, <2>5, <2>6, <2>7 DEF Internal
<1>6. CASE \E t \in Types : OnResponse(t) \/ OnError(t) \/ TransportUpdateError(t)
  BY <1>6, KeptByResponse, KeptByFailure
<1> QED BY <1>1, <1>2, <1>3, <1>4, <1>5, <1>6 DEF Next

\* At first no slot holds a callback.
LEMMA CallbackInvInit == Init => CallbackInv
<1> SUFFICES ASSUME Init PROVE CallbackInv
  OBVIOUS
<1>1. queue = <<>> /\ pending_callback = <<>> /\ stack = <<>> /\ outstanding = {}
  BY DEF Init
<1>2. StackShape(<<>>)
  BY DEF StackShape
<1> DEFINE H == Held(<<>>, <<>>, <<>>)
<1>3. \A l \in Slot : H[l] = <<>>
  <2> TAKE l \in Slot
  <2>1. H[l] = ListIn(<<>>, <<>>, <<>>, l)
    BY DEF Held
  <2>2. \A i : i \notin 1 .. Len(<<>>)
    OBVIOUS
  <2>3. ListIn(<<>>, <<>>, <<>>, l) = <<>>
    BY <2>2 DEF ListIn
  <2> QED BY <2>1, <2>3
<1> HIDE DEF H
<1>4. \A r : \A l \in Slot, k \in Nat : ~In(H, l, k, r)
  BY <1>3 DEF In
<1>5. Once(H, {})
  BY <1>4 DEF Once
<1> QED BY <1>1, <1>2, <1>5 DEF CallbackInv, H

-----------------------------------------------------------------------------
(* The theorem.                                                            *)

\* x is the place of the k-th callback in slot l.
PlaceOf(x, l, k) ==
  \E i, j \in Nat :
    \/ l = QueueSlot(i, j) /\ x = <<"queue", i, k>>
    \/ l = PendingSlot(i, j) /\ x = <<"pending", i, k>>
    \/ l = NotifySlot(i, j) /\ x = <<"notify", i, k>>
    \/ l = ClearSlot(i, j) /\ x = <<"clear", i, j, k>>

\* Each callback in a slot has one place.
LEMMA OnePlace ==
  ASSUME NEW x, NEW y, NEW l, NEW k, PlaceOf(x, l, k), PlaceOf(y, l, k)
  PROVE x = y
  BY DEF PlaceOf, QueueSlot, PendingSlot, NotifySlot, ClearSlot

\* The places of r are those of its callbacks in slots.
LEMMA PlacesAreSlots ==
  ASSUME TypeOK, NEW r \in Requester
  PROVE LET H == Held(queue, pending_callback, stack)
        IN /\ \A x \in Places(r) : \E l \in Slot, k \in Nat : In(H, l, k, r) /\ PlaceOf(x, l, k)
           /\ \A l \in Slot, k \in Nat :
                In(H, l, k, r) => \E x \in Places(r) : PlaceOf(x, l, k)
<1> DEFINE H == Held(queue, pending_callback, stack)
<1>1. /\ queue \in Seq(QueuedCommand) /\ pending_callback \in Seq(Seq(Requester)) /\ stack \in Seq(Frame)
      /\ Len(queue) \in Nat /\ Len(pending_callback) \in Nat /\ Len(stack) \in Nat
  BY DEF TypeOK
<1> DEFINE Q == UNION {{<<"queue", i, n>> : n \in {k \in DOMAIN queue[i].callbacks : queue[i].callbacks[k] = r}}
                         : i \in DOMAIN queue}
           P == UNION {{<<"pending", i, n>> : n \in {k \in DOMAIN pending_callback[i] : pending_callback[i][k] = r}}
                         : i \in DOMAIN pending_callback}
           N == UNION {{<<"notify", f, n>> : n \in {k \in DOMAIN stack[f].callbacks : stack[f].callbacks[k] = r}}
                         : f \in DOMAIN stack}
           D(f) == UNION {{<<"clear", f, i, n>> :
                             n \in {k \in DOMAIN stack[f].cancelled[i] : stack[f].cancelled[i][k] = r}}
                           : i \in DOMAIN stack[f].cancelled}
           C == UNION {D(f) : f \in DOMAIN stack}
<1>2. \A x : x \in Places(r) <=> x \in Q \/ x \in P \/ x \in N \/ x \in C
  BY DEF Places
<1>3. \A x : x \in Q <=> \E i \in DOMAIN queue : \E k \in DOMAIN queue[i].callbacks :
                            queue[i].callbacks[k] = r /\ x = <<"queue", i, k>>
  OBVIOUS
<1>4. \A x : x \in P <=> \E i \in DOMAIN pending_callback : \E k \in DOMAIN pending_callback[i] :
                            pending_callback[i][k] = r /\ x = <<"pending", i, k>>
  OBVIOUS
<1>5. \A x : x \in N <=> \E i \in DOMAIN stack : \E k \in DOMAIN stack[i].callbacks :
                            stack[i].callbacks[k] = r /\ x = <<"notify", i, k>>
  OBVIOUS
<1>6. \A x : x \in C <=> \E i \in DOMAIN stack : \E j \in DOMAIN stack[i].cancelled :
                            \E k \in DOMAIN stack[i].cancelled[j] :
                              stack[i].cancelled[j][k] = r /\ x = <<"clear", i, j, k>>
  <2>1. ASSUME NEW i
        PROVE \A x : x \in D(i) <=> \E j \in DOMAIN stack[i].cancelled :
                                    \E k \in DOMAIN stack[i].cancelled[j] :
                                      stack[i].cancelled[j][k] = r /\ x = <<"clear", i, j, k>>
    OBVIOUS
  <2>2. \A x : x \in C <=> \E i \in DOMAIN stack : x \in D(i)
    <3> HIDE DEF D
    <3> QED OBVIOUS
  <2> HIDE DEF D, C
  <2> QED BY <2>1, <2>2
<1> HIDE DEF Q, P, N, D, C
<1>7. ASSUME NEW i \in DOMAIN queue
      PROVE i \in Nat /\ i \in 1 .. Len(queue) /\ queue[i].callbacks \in Seq(Requester)
  <2>1. i \in Nat /\ i \in 1 .. Len(queue) /\ queue[i] \in QueuedCommand
    BY <1>1
  <2> QED BY <2>1 DEF QueuedCommand
<1>8. \A i \in DOMAIN pending_callback :
        i \in Nat /\ i \in 1 .. Len(pending_callback) /\ pending_callback[i] \in Seq(Requester)
  BY <1>1
<1>9. ASSUME NEW i \in DOMAIN stack
      PROVE /\ i \in Nat /\ i \in 1 .. Len(stack)
            /\ stack[i].callbacks \in Seq(Requester) /\ stack[i].cancelled \in Seq(Seq(Requester))
  <2>1. i \in Nat /\ i \in 1 .. Len(stack) /\ stack[i] \in Frame
    BY <1>1
  <2> QED BY <2>1 DEF Frame
<1>10. ASSUME NEW i \in Nat, NEW j \in Nat
       PROVE /\ H[QueueSlot(i, j)] = QueueList(queue, i, j)
             /\ H[PendingSlot(i, j)] = PendingList(pending_callback, i, j)
             /\ H[NotifySlot(i, j)] = NotifyList(stack, i, j)
             /\ H[ClearSlot(i, j)] = ClearList(stack, i, j)
  BY HeldValues
<1> HIDE DEF H
<1>11. ASSUME NEW x \in Places(r)
       PROVE \E l \in Slot, k \in Nat : In(H, l, k, r) /\ PlaceOf(x, l, k)
  <2>1. CASE x \in Q
    <3>0. PICK i \in DOMAIN queue : \E k \in DOMAIN queue[i].callbacks : queue[i].callbacks[k] = r /\ x = <<"queue", i, k>>
      BY <1>3, <2>1
    <3>1. PICK k \in DOMAIN queue[i].callbacks : queue[i].callbacks[k] = r /\ x = <<"queue", i, k>>
      BY <3>0
    <3>2. H[QueueSlot(i, 0)] = queue[i].callbacks /\ i \in Nat
      BY <1>7, <1>10 DEF QueueList
    <3>3. k \in Nat /\ k \in 1 .. Len(queue[i].callbacks)
      BY <1>7
    <3>4. PlaceOf(x, QueueSlot(i, 0), k)
      BY <3>1, <3>2 DEF PlaceOf
    <3> QED BY <3>1, <3>2, <3>3, <3>4, SlotParts DEF In
  <2>2. CASE x \in P
    <3>0. PICK i \in DOMAIN pending_callback : \E k \in DOMAIN pending_callback[i] : pending_callback[i][k] = r /\ x = <<"pending", i, k>>
      BY <1>4, <2>2
    <3>1. PICK k \in DOMAIN pending_callback[i] : pending_callback[i][k] = r /\ x = <<"pending", i, k>>
      BY <3>0
    <3>2. H[PendingSlot(i, 0)] = pending_callback[i] /\ i \in Nat
      BY <1>8, <1>10 DEF PendingList
    <3>3. k \in Nat /\ k \in 1 .. Len(pending_callback[i])
      BY <1>8
    <3>4. PlaceOf(x, PendingSlot(i, 0), k)
      BY <3>1, <3>2 DEF PlaceOf
    <3> QED BY <3>1, <3>2, <3>3, <3>4, SlotParts DEF In
  <2>3. CASE x \in N
    <3>0. PICK i \in DOMAIN stack : \E k \in DOMAIN stack[i].callbacks : stack[i].callbacks[k] = r /\ x = <<"notify", i, k>>
      BY <1>5, <2>3
    <3>1. PICK k \in DOMAIN stack[i].callbacks : stack[i].callbacks[k] = r /\ x = <<"notify", i, k>>
      BY <3>0
    <3>2. H[NotifySlot(i, 0)] = stack[i].callbacks /\ i \in Nat
      BY <1>9, <1>10 DEF NotifyList
    <3>3. k \in Nat /\ k \in 1 .. Len(stack[i].callbacks)
      BY <1>9
    <3>4. PlaceOf(x, NotifySlot(i, 0), k)
      BY <3>1, <3>2 DEF PlaceOf
    <3> QED BY <3>1, <3>2, <3>3, <3>4, SlotParts DEF In
  <2>4. CASE x \in C
    <3> DEFINE R(i, j, k) == stack[i].cancelled[j][k] = r /\ x = <<"clear", i, j, k>>
    <3>7. PICK i \in DOMAIN stack : \E j \in DOMAIN stack[i].cancelled :
                                       \E k \in DOMAIN stack[i].cancelled[j] : R(i, j, k)
      BY <1>6, <2>4
    <3>0. PICK j \in DOMAIN stack[i].cancelled : \E k \in DOMAIN stack[i].cancelled[j] : R(i, j, k)
      BY <3>7
    <3>1. PICK k \in DOMAIN stack[i].cancelled[j] : R(i, j, k)
      BY <3>0
    <3>2. j \in Nat /\ j \in 1 .. Len(stack[i].cancelled) /\ stack[i].cancelled[j] \in Seq(Requester)
      BY <1>9
    <3>3. H[ClearSlot(i, j)] = stack[i].cancelled[j] /\ i \in Nat
      BY <1>9, <1>10, <3>2 DEF ClearList
    <3>4. k \in Nat /\ k \in 1 .. Len(stack[i].cancelled[j])
      BY <3>2
    <3>5. PlaceOf(x, ClearSlot(i, j), k)
      BY <3>1, <3>2, <3>3 DEF PlaceOf
    <3> QED BY <3>1, <3>2, <3>3, <3>4, <3>5, SlotParts DEF In
  <2> QED BY <1>2, <2>1, <2>2, <2>3, <2>4
<1>12. ASSUME NEW l \in Slot, NEW k \in Nat, In(H, l, k, r)
       PROVE \E x \in Places(r) : PlaceOf(x, l, k)
  <2>1. PICK i \in Nat, j \in Nat :
          l = QueueSlot(i, j) \/ l = PendingSlot(i, j) \/ l = NotifySlot(i, j) \/ l = ClearSlot(i, j)
    BY SlotParts
  <2>2. H[l] # <<>> /\ k \in 1 .. Len(H[l]) /\ H[l][k] = r
    BY <1>12 DEF In
  <2>3. CASE l = QueueSlot(i, j)
    <3>1. i \in DOMAIN queue /\ H[l] = queue[i].callbacks
      BY <1>1, <1>10, <2>2, <2>3 DEF QueueList
    <3>2. k \in DOMAIN queue[i].callbacks
      BY <1>7, <2>2, <3>1
    <3>3. <<"queue", i, k>> \in Places(r)
      BY <1>2, <1>3, <2>2, <3>1, <3>2
    <3> QED BY <2>3, <3>3 DEF PlaceOf
  <2>4. CASE l = PendingSlot(i, j)
    <3>1. i \in DOMAIN pending_callback /\ H[l] = pending_callback[i]
      BY <1>1, <1>10, <2>2, <2>4 DEF PendingList
    <3>2. k \in DOMAIN pending_callback[i]
      BY <1>8, <2>2, <3>1
    <3>3. <<"pending", i, k>> \in Places(r)
      BY <1>2, <1>4, <2>2, <3>1, <3>2
    <3> QED BY <2>4, <3>3 DEF PlaceOf
  <2>5. CASE l = NotifySlot(i, j)
    <3>1. i \in DOMAIN stack /\ H[l] = stack[i].callbacks
      BY <1>1, <1>10, <2>2, <2>5 DEF NotifyList
    <3>2. k \in DOMAIN stack[i].callbacks
      BY <1>9, <2>2, <3>1
    <3>3. <<"notify", i, k>> \in Places(r)
      BY <1>2, <1>5, <2>2, <3>1, <3>2
    <3> QED BY <2>5, <3>3 DEF PlaceOf
  <2>6. CASE l = ClearSlot(i, j)
    <3>1. i \in DOMAIN stack /\ j \in 1 .. Len(stack[i].cancelled) /\ H[l] = stack[i].cancelled[j]
      BY <1>1, <1>10, <2>2, <2>6 DEF ClearList
    <3>2. j \in DOMAIN stack[i].cancelled /\ k \in DOMAIN stack[i].cancelled[j]
      <4>1. stack[i].cancelled \in Seq(Seq(Requester))
        BY <1>9, <3>1
      <4> QED BY <2>2, <3>1, <4>1
    <3>3. <<"clear", i, j, k>> \in Places(r)
      BY <1>2, <1>6, <2>2, <3>1, <3>2
    <3> QED BY <2>6, <3>3 DEF PlaceOf
  <2> QED BY <2>1, <2>3, <2>4, <2>5, <2>6
<1> QED BY <1>11, <1>12 DEF H

\* A callback is notified exactly once, also for a deduplicated request
\* (.h:100): as long as it was not called it is held in exactly one place, and
\* from then on in none, whatever callbacks enqueue and clear while lists of
\* callbacks are being walked.
THEOREM NoCallbackLost == Spec => []CallbackConservation
<1>1. IInv /\ CallbackInv => CallbackConservation
  <2> SUFFICES ASSUME IInv, CallbackInv, NEW r \in Requester
               PROVE Cardinality(Places(r)) = IF r \in outstanding THEN 1 ELSE 0
    BY DEF CallbackConservation
  <2> DEFINE H == Held(queue, pending_callback, stack)
  <2>1. /\ \A x \in Places(r) : \E l \in Slot, k \in Nat : In(H, l, k, r) /\ PlaceOf(x, l, k)
        /\ \A l \in Slot, k \in Nat : In(H, l, k, r) => \E x \in Places(r) : PlaceOf(x, l, k)
    BY PlacesAreSlots DEF IInv
  <2>2. /\ r \in outstanding <=> \E l \in Slot, k \in Nat : In(H, l, k, r)
        /\ \A l, m \in Slot, k, j \in Nat : In(H, l, k, r) /\ In(H, m, j, r) => l = m /\ k = j
    BY DEF CallbackInv, Once
  <2> HIDE DEF H
  <2>3. CASE r \notin outstanding
    <3>1. Places(r) = {}
      BY <2>1, <2>2, <2>3
    <3> QED BY <2>3, <3>1, FS_EmptySet
  <2>4. CASE r \in outstanding
    <3>1. PICK l \in Slot, k \in Nat : In(H, l, k, r)
      BY <2>2, <2>4
    <3>2. PICK x \in Places(r) : PlaceOf(x, l, k)
      BY <2>1, <3>1
    <3>3. ASSUME NEW y \in Places(r) PROVE y = x
      <4>1. PICK m \in Slot, j \in Nat : In(H, m, j, r) /\ PlaceOf(y, m, j)
        BY <2>1
      <4>2. m = l /\ j = k
        BY <2>2, <3>1, <4>1
      <4> QED BY <3>2, <4>1, <4>2, OnePlace
    <3>4. Places(r) = {x}
      BY <3>3
    <3> QED BY <2>4, <3>4, FS_Singleton
  <2> QED BY <2>3, <2>4
<1> QED BY <1>1, CallbackInvInit, CallbackInvStep, Invariance, PTL DEF Spec
=============================================================================
