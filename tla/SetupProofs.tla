----------------------------- MODULE SetupProofs -----------------------------
(***************************************************************************)
(* Proofs about Setup, for any YAML files, registers, automations and      *)
(* arguments.                                                              *)
(*                                                                         *)
(* That the motor is configured when nothing is outstanding                *)
(* (SettledAgrees) is inductive together with one fact about the requests: *)
(* a write that waits or is with the motor carries what the configuration  *)
(* says now, or its setting is open (Fresh).  A step then matters only     *)
(* through the reads and writes it leaves outstanding (Demands), so the    *)
(* lemmas say of the queue which these are, and the rest is about sets.    *)
(***************************************************************************)
EXTENDS Setup, TLAPS

\* The reads and writes among q, and those that wait or are with the motor.
RW(q) == {x \in Range(q) : x.request \in {"read", "write"}}
Demands == RW(wire) \cup RW(setups)

\* The part of SetupTypeOK that is about the queue.
QueueOK ==
  /\ IsRequests(setups) /\ IsRequests(others) /\ IsRequests(wire)
  /\ \A x \in Range(others) : x.request \notin {"read", "write"}
  /\ Len(wire) <= 1
  /\ wire = << >> => setups = << >> /\ others = << >>

Fresh ==
  \A x \in Demands :
    x.request = "write" =>
      x.value = Payload(device, config, x.setting) \/ x.setting \in open

\* Fields of the configuration that nothing changes at runtime.
ConfigKept ==
  /\ config["nolimit"] = DefaultConfig["nolimit"]
  /\ device.homing_mode = "ENDSTOP" => config["homing"] = device.homing

-----------------------------------------------------------------------------
(* Sequences of requests.                                                  *)

LEMMA EmptyRange == IsRequests(<< >>) /\ Range(<< >>) = {} /\ RW(<< >>) = {}
BY DEF IsRequests, Range, RW

LEMMA OneRequest ==
  ASSUME NEW x, IsItem(x)
  PROVE IsRequests(<<x>>) /\ Range(<<x>>) = {x} /\ <<x>> # << >>
<1>1. Range(<<x>>) = {x}
  BY DEF Range
<1>2. <<x>> \in Seq({x}) /\ <<x>> # << >>
  OBVIOUS
<1> QED BY <1>1, <1>2 DEF IsRequests

LEMMA RangeInside ==
  ASSUME NEW q, NEW S, q \in Seq(S)
  PROVE Range(q) \subseteq S /\ q \in Seq(Range(q))
<1>1. /\ Len(q) \in Nat /\ DOMAIN q = 1 .. Len(q)
      /\ \A i \in 1 .. Len(q) : q[i] \in S
  OBVIOUS
<1> QED BY <1>1 DEF Range

LEMMA ConcatRequests ==
  ASSUME NEW p, IsRequests(p), NEW q, IsRequests(q)
  PROVE IsRequests(p \o q) /\ Range(p \o q) = Range(p) \cup Range(q)
<1> DEFINE S == Range(p) \cup Range(q)
           r == p \o q
<1>1. p \in Seq(S) /\ q \in Seq(S)
  BY DEF IsRequests
<1>2. /\ r \in Seq(S) /\ Len(r) = Len(p) + Len(q) /\ Len(p) \in Nat /\ Len(q) \in Nat
      /\ \A i \in 1 .. Len(p) : r[i] = p[i]
      /\ \A i \in 1 .. Len(q) : r[Len(p) + i] = q[i]
      /\ DOMAIN r = 1 .. Len(r) /\ DOMAIN p = 1 .. Len(p) /\ DOMAIN q = 1 .. Len(q)
  BY <1>1
<1>3. Range(r) \subseteq S /\ r \in Seq(Range(r))
  BY <1>2, RangeInside
<1>4. ASSUME NEW x \in Range(p) PROVE x \in Range(r)
  <2>1. PICK i \in 1 .. Len(p) : p[i] = x
    BY <1>2, <1>4 DEF Range
  <2>2. i \in DOMAIN r /\ r[i] = x
    BY <1>2, <2>1
  <2> QED BY <2>2 DEF Range
<1>5. ASSUME NEW x \in Range(q) PROVE x \in Range(r)
  <2>1. PICK i \in 1 .. Len(q) : q[i] = x
    BY <1>2, <1>5 DEF Range
  <2>2. Len(p) + i \in DOMAIN r /\ r[Len(p) + i] = x
    BY <1>2, <2>1
  <2> QED BY <2>2 DEF Range
<1> HIDE DEF r
<1>6. Range(r) = S
  BY <1>3, <1>4, <1>5
<1>7. IsRequests(r)
  BY <1>3, <1>6 DEF IsRequests
<1> QED BY <1>6, <1>7 DEF r

LEMMA AppendRequests ==
  ASSUME NEW p, IsRequests(p), NEW x, IsItem(x)
  PROVE IsRequests(Append(p, x)) /\ Range(Append(p, x)) = Range(p) \cup {x}
<1>1. Append(p, x) = p \o <<x>>
  BY DEF IsRequests
<1> QED BY <1>1, OneRequest, ConcatRequests

LEMMA FirstRequest ==
  ASSUME NEW p, IsRequests(p), p # << >>
  PROVE /\ IsItem(Head(p)) /\ IsRequests(Tail(p))
        /\ Range(p) = {Head(p)} \cup Range(Tail(p))
<1> DEFINE S == Range(p)
           t == Tail(p)
<1>1. p \in Seq(S)
  BY DEF IsRequests
<1>2. /\ Len(p) \in Nat /\ Len(p) > 0 /\ DOMAIN p = 1 .. Len(p)
      /\ Head(p) = p[1]
      /\ t \in Seq(S) /\ Len(t) = Len(p) - 1 /\ DOMAIN t = 1 .. Len(t)
      /\ \A i \in 1 .. Len(t) : t[i] = p[i + 1]
  BY <1>1
<1>3. Range(t) \subseteq S /\ t \in Seq(Range(t))
  BY <1>2, RangeInside
<1>4. Head(p) \in S
  BY <1>2 DEF Range
<1>5. ASSUME NEW x \in S, x # Head(p) PROVE x \in Range(t)
  <2>1. PICK i \in 1 .. Len(p) : p[i] = x
    BY <1>2, <1>5 DEF Range
  <2>2. i # 1 /\ i - 1 \in 1 .. Len(t)
    BY <1>2, <1>5, <2>1
  <2>3. i - 1 \in DOMAIN t /\ t[i - 1] = x
    BY <1>2, <2>1, <2>2
  <2> HIDE DEF t
  <2> QED BY <2>3 DEF Range
<1> HIDE DEF t
<1>6. IsRequests(t)
  BY <1>3 DEF IsRequests
<1> QED BY <1>3, <1>4, <1>5, <1>6 DEF IsRequests, t

-----------------------------------------------------------------------------
(* The queue.                                                              *)

LEMMA OneSent ==
  ASSUME NEW x, NEW q, IsItem(x), wire' = <<x>>
  PROVE IsRequests(wire)' /\ RW(wire)' = RW(<<x>>) /\ Range(wire)' = {x}
        /\ Len(wire') <= 1 /\ wire' # << >>
<1>1. Len(<<x>>) = 1
  OBVIOUS
<1> QED BY <1>1, OneRequest DEF IsRequests, RW

\* What is sent next was waiting, and nothing else is lost or added.
LEMMA SendNextKeeps ==
  ASSUME NEW p, IsRequests(p), NEW q, IsRequests(q),
         \A x \in Range(q) : x.request \notin {"read", "write"},
         SendNext(p, q)
  PROVE QueueOK' /\ Demands' = RW(p)
<1>0. IsRequests(<< >>) /\ Range(<< >>) = {} /\ RW(<< >>) = {} /\ Len(<< >>) = 0
  BY EmptyRange
<1>1. CASE p # << >> /\ wire' = <<Head(p)>> /\ setups' = Tail(p) /\ others' = q
  <2>1. /\ IsItem(Head(p)) /\ IsRequests(Tail(p))
        /\ Range(p) = {Head(p)} \cup Range(Tail(p))
    BY <1>1, FirstRequest
  <2>2. IsRequests(wire)' /\ Range(wire)' = {Head(p)} /\ Len(wire') <= 1 /\ wire' # << >>
    BY <1>1, <2>1, OneSent
  <2>3. QueueOK'
    BY <1>1, <2>1, <2>2 DEF QueueOK, IsRequests, Range
  <2>4. Demands' = RW(p)
    BY <1>1, <2>1, <2>2 DEF Demands, RW, Range
  <2> QED BY <2>3, <2>4
<1>2. CASE p = << >> /\ q # << >> /\ wire' = <<Head(q)>> /\ setups' = p /\ others' = Tail(q)
  <2>1. /\ IsItem(Head(q)) /\ IsRequests(Tail(q))
        /\ Range(q) = {Head(q)} \cup Range(Tail(q))
    BY <1>2, FirstRequest
  <2>2. IsRequests(wire)' /\ Range(wire)' = {Head(q)} /\ Len(wire') <= 1 /\ wire' # << >>
    BY <1>2, <2>1, OneSent
  <2>3. QueueOK'
    BY <1>2, <2>1, <2>2 DEF QueueOK, IsRequests, Range
  <2>4. Head(q).request \notin {"read", "write"}
    BY <2>1
  <2>5. Demands' = RW(p)
    BY <1>0, <1>2, <2>2, <2>4 DEF Demands, RW, Range
  <2> QED BY <2>3, <2>5
<1>3. CASE p = << >> /\ q = << >> /\ wire' = << >> /\ setups' = p /\ others' = q
  BY <1>0, <1>3 DEF QueueOK, Demands, IsRequests, Range, RW
<1> QED BY <1>1, <1>2, <1>3 DEF SendNext

\* enqueue() adds what is asked for.
LEMMA EnqueueKeeps ==
  ASSUME QueueOK,
         NEW p, IsRequests(p), NEW q, IsRequests(q),
         \A x \in Range(q) : x.request \notin {"read", "write"},
         Enqueue(p, q)
  PROVE QueueOK' /\ Demands' = RW(wire) \cup RW(p)
<1>1. CASE wire = << >> /\ SendNext(p, q)
  BY <1>1, SendNextKeeps, EmptyRange
<1>2. CASE wire # << >> /\ setups' = p /\ others' = q /\ UNCHANGED wire
  BY <1>2 DEF QueueOK, Demands, IsRequests, Range, RW
<1> QED BY <1>1, <1>2 DEF Enqueue

\* clear() leaves the request with the motor.
LEMMA ClearKeeps ==
  ASSUME QueueOK, setups' = << >>, others' = << >>, UNCHANGED wire
  PROVE QueueOK' /\ Demands' = RW(wire)
BY EmptyRange DEF QueueOK, Demands, IsRequests, Range, RW

-----------------------------------------------------------------------------
(* What set-up writes.                                                     *)

\* The writes of a set-up are those of the settings that have changed.
LEMMA UpdateWritesAre ==
  ASSUME NEW d, NEW current, NEW desired,
         \A s \in Setting : InRange(s, Payload(d, desired, s))
  PROVE LET w == UpdateWrites(d, current, desired)
        IN /\ IsRequests(w)
           /\ Range(w) = {Write(s, Payload(d, desired, s)) :
                            s \in Changed(current, desired) \cap Written(d.homing_mode)}
<1> DEFINE Needed == Changed(current, desired) \cap Written(d.homing_mode)
           W(s) == Write(s, Payload(d, desired, s))
           If(s) == IF s \in Needed THEN <<W(s)>> ELSE << >>
           Are(r, K) == IsRequests(r) /\ Range(r) = {W(s) : s \in Needed \cap K}
<1>0. Needed \subseteq Setting
  BY DEF Changed, Written, Setting
<1>w. \A s \in Needed : IsItem(W(s))
  BY <1>0 DEF IsItem, Write, Request
<1> HIDE DEF Needed, W
<1>1. ASSUME NEW p, NEW K, Are(p, K), NEW t
      PROVE Are(p \o If(t), K \cup {t})
  <2>1. CASE t \in Needed
    <3>1. IsRequests(<<W(t)>>) /\ Range(<<W(t)>>) = {W(t)}
      BY <1>w, <2>1, OneRequest
    <3>2. IsRequests(p \o <<W(t)>>) /\ Range(p \o <<W(t)>>) = Range(p) \cup {W(t)}
      BY <1>1, <3>1, ConcatRequests
    <3>3. {W(s) : s \in Needed \cap (K \cup {t})} = {W(s) : s \in Needed \cap K} \cup {W(t)}
      BY <2>1
    <3> QED BY <1>1, <2>1, <3>2, <3>3
  <2>2. CASE t \notin Needed
    <3>1. IsRequests(p \o << >>) /\ Range(p \o << >>) = Range(p)
      BY <1>1, EmptyRange, ConcatRequests
    <3>2. Needed \cap (K \cup {t}) = Needed \cap K
      BY <2>2
    <3> QED BY <1>1, <2>2, <3>1, <3>2
  <2> QED BY <2>1, <2>2
<1>2. Are(<< >>, {})
  BY EmptyRange
<1> HIDE DEF Are
<1>a. If("subdivision") = << >> \o If("subdivision")
  OBVIOUS
<1> HIDE DEF If
<1> DEFINE K1 == {} \cup {"subdivision"}             r1 == If("subdivision")
           K2 == K1 \cup {"en_pin_active"}     r2 == r1 \o If("en_pin_active")
           K3 == K2 \cup {"direction"}         r3 == r2 \o If("direction")
           K4 == K3 \cup {"screen_mode"}       r4 == r3 \o If("screen_mode")
           K5 == K4 \cup {"keypad_lock"}       r5 == r4 \o If("keypad_lock")
           K6 == K5 \cup {"protection"}        r6 == r5 \o If("protection")
           K7 == K6 \cup {"en_trigger"}        r7 == r6 \o If("en_trigger")
           K8 == K7 \cup {"mode"}              r8 == r7 \o If("mode")
           K9 == K8 \cup {"working_current_ma"}
           r9 == r8 \o If("working_current_ma")
           K10 == K9 \cup {"holding_current_percent"}
           r10 == r9 \o If("holding_current_percent")
           K11 == K10 \cup {"homing"}          r11 == r10 \o If("homing")
           K12 == K11 \cup {"nolimit"}         r12 == r11 \o If("nolimit")
<1>3. Are(r6, K6)
  <2>1. Are(r1, K1) BY <1>1, <1>2, <1>a
  <2>2. Are(r2, K2) BY <1>1, <2>1
  <2>3. Are(r3, K3) BY <1>1, <2>2
  <2>4. Are(r4, K4) BY <1>1, <2>3
  <2>5. Are(r5, K5) BY <1>1, <2>4
  <2> QED BY <1>1, <2>5
<1>4. Are(r12, K12)
  <2> HIDE DEF r6, K6
  <2>1. Are(r7, K7) BY <1>1, <1>3
  <2>2. Are(r8, K8) BY <1>1, <2>1
  <2>3. Are(r9, K9) BY <1>1, <2>2
  <2>4. Are(r10, K10) BY <1>1, <2>3
  <2>5. Are(r11, K11) BY <1>1, <2>4
  <2> QED BY <1>1, <2>5
<1>5. UpdateWrites(d, current, desired) = r12
  BY DEF UpdateWrites, If, W, Needed
<1>6. Needed \cap K12 = Needed
  BY DEF Needed, Written, Setting
<1> QED BY <1>4, <1>5, <1>6 DEF Are, W, Needed

-----------------------------------------------------------------------------
(* Configurations and registers.                                           *)

LEMMA HoldingLevelRange ==
  ASSUME NEW percent \in Int
  PROVE HoldingLevel(percent) \in 0 .. 8
<1> DEFINE x == ((percent + 5) \div 10) * 10
<1>1. x \in Int
  OBVIOUS
<1> HIDE DEF x
<1>2. Clamped(x, 10, 90) \in 10 .. 90
  BY <1>1 DEF Clamped
<1> DEFINE c == Clamped(x, 10, 90)
<1> HIDE DEF c
<1>3. c \in 10 .. 90 => (c - 10) \div 10 \in 0 .. 8
  OBVIOUS
<1> QED BY <1>2, <1>3 DEF HoldingLevel, x, c

\* What the device begins with.
LEMMA SynchronizedIs ==
  ASSUME SetupAssumption, NEW d \in Devices
  PROVE LET c == Synchronized(d)
        IN /\ IsConfiguration(c) /\ c["holding_current_percent"] \in 0 .. 8
           /\ c["nolimit"] = DefaultConfig["nolimit"]
           /\ d.homing_mode = "ENDSTOP" => c["homing"] = d.homing
<1>1. PICK y \in YamlFiles : d = Device(y)
  BY DEF Devices
<1>2. HoldingLevel(y.holding_current_percent) \in 0 .. 8
  BY HoldingLevelRange DEF SetupAssumption
<1>3. /\ IsConfiguration(d.config) /\ d.config["holding_current_percent"] \in 0 .. 8
      /\ d.config["nolimit"] = DefaultConfig["nolimit"]
  <2>1. IsConfiguration(DefaultConfig)
    BY DEF IsConfiguration, DefaultConfig, Setting
  <2>2. d.config = [ DefaultConfig EXCEPT
          !["subdivision"] = y.microsteps,
          !["mode"] = y.control_mode,
          !["working_current_ma"] = WorkingCurrent(y),
          !["holding_current_percent"] = HoldingLevel(y.holding_current_percent),
          !["en_pin_active"] = y.en_pin_active,
          !["screen_mode"] = y.auto_screen_off,
          !["keypad_lock"] = y.lock_keys_at_startup ]
    BY <1>1 DEF Device
  <2> QED BY <1>2, <2>1, <2>2 DEF IsConfiguration, Setting
<1>4. CASE d.homing_mode = "ENDSTOP"
  <2>1. Synchronized(d) = [d.config EXCEPT !["homing"] = d.homing]
    BY <1>4 DEF Synchronized
  <2> QED BY <1>3, <2>1 DEF IsConfiguration, Setting
<1>5. CASE d.homing_mode # "ENDSTOP"
  BY <1>3, <1>5 DEF Synchronized
<1> QED BY <1>4, <1>5

LEMMA PayloadRange ==
  ASSUME ConfigKept, config["holding_current_percent"] \in 0 .. 8
  PROVE \A s \in Setting : InRange(s, Payload(device, config, s))
<1>1. DefaultConfig["nolimit"].reverse_angle = 0
  BY DEF DefaultConfig
<1>2. Payload(device, config, "nolimit").reverse_angle = 2000
  BY <1>1 DEF ConfigKept, Payload
<1>3. InRange("nolimit", Payload(device, config, "nolimit"))
  BY <1>2 DEF InRange
<1>4. ASSUME NEW s \in Setting, s # "nolimit"
      PROVE InRange(s, Payload(device, config, s))
  BY <1>4 DEF InRange, Payload
<1> QED BY <1>3, <1>4

\* A write changes its own setting and at most the end stop limit.
LEMMA StoredIs ==
  ASSUME NEW c, IsConfiguration(c), \A t \in Setting : InRange(t, c[t]),
         NEW s \in Setting, NEW v, InRange(s, v)
  PROVE LET r == Stored(c, s, v)
        IN /\ IsConfiguration(r) /\ \A t \in Setting : InRange(t, r[t])
           /\ r[s] = v
           /\ \A t \in Setting \ {s, "endstop_limit"} : r[t] = c[t]
<1>1. CASE s # "homing"
  <2>1. Stored(c, s, v) = [c EXCEPT ![s] = v]
    BY <1>1 DEF Stored
  <2> QED BY <2>1 DEF IsConfiguration
<1>2. CASE s = "homing"
  <2>1. Stored(c, s, v) = [c EXCEPT ![s] = v, !["endstop_limit"] = "LIMIT_OFF"]
    BY <1>2 DEF Stored
  <2>2. InRange("endstop_limit", "LIMIT_OFF")
    BY DEF InRange
  <2> QED BY <1>2, <2>1, <2>2 DEF IsConfiguration, Setting
<1> QED BY <1>1, <1>2

\* A setting that set-up would write and finds unchanged is in force.
LEMMA UnchangedIsInForce ==
  ASSUME ConfigKept, IsConfiguration(motor), \A t \in Setting : InRange(t, motor[t]),
         NEW s \in Written(device.homing_mode), s \notin Changed(Decoded(motor), config)
  PROVE InForce(s) \/ ReadAlike(s)
<1> DEFINE found == Decoded(motor)
<1>1. s \in Setting /\ s # "en_trigger" /\ found[s] = config[s] /\ s # "zero"
      /\ (s = "homing" => device.homing_mode = "ENDSTOP")
  BY DEF Written, Changed, Setting
<1>2. /\ found["subdivision"] = IF motor["subdivision"] = 256 THEN 1 ELSE motor["subdivision"]
      /\ found["holding_current_percent"] =
           IF motor["holding_current_percent"] > 8 THEN 8 ELSE motor["holding_current_percent"]
      /\ found["nolimit"] =
           [reverse_angle |-> motor["nolimit"].reverse_angle % 65536, limit |-> "WITH_LIMIT",
            current_ma |-> motor["nolimit"].current_ma]
      /\ s \notin {"subdivision", "holding_current_percent", "nolimit"} => found[s] = motor[s]
  BY <1>1 DEF Decoded, IsConfiguration, Setting
<1> HIDE DEF found
<1>3. CASE s = "subdivision"
  BY <1>1, <1>2, <1>3 DEF InForce, ReadAlike, Payload
<1>4. CASE s = "holding_current_percent"
  <2>1. motor[s] \in 0 .. 255
    BY <1>1, <1>4 DEF InRange
  <2>2. CASE motor[s] <= 8
    BY <1>1, <1>2, <1>4, <2>1, <2>2 DEF InForce, Payload
  <2>3. CASE motor[s] > 8
    BY <1>1, <1>2, <1>4, <2>1, <2>3 DEF ReadAlike
  <2> QED BY <2>1, <2>2, <2>3
<1>5. CASE s = "nolimit"
  <2>1. /\ found[s].reverse_angle = motor[s].reverse_angle % 65536
        /\ found[s].current_ma = motor[s].current_ma
    BY <1>2, <1>5
  <2> QED BY <1>1, <1>5, <2>1 DEF ReadAlike
<1>6. CASE s \notin {"subdivision", "holding_current_percent", "nolimit"}
  BY <1>1, <1>2, <1>6 DEF InForce, Payload, ConfigKept
<1> QED BY <1>3, <1>4, <1>5, <1>6

-----------------------------------------------------------------------------
(* The inductive invariant.                                                *)

\* The part of SetupTypeOK that is not about the queue.
DataOK ==
  /\ device \in Devices
  /\ IsConfiguration(config) /\ config["holding_current_percent"] \in 0 .. 8
  /\ IsConfiguration(motor) /\ \A s \in Setting : InRange(s, motor[s])
  /\ state \in {"SettingUp", "Idle", "Homing", "Error"}
  /\ setup_state \in {"IN_PROGRESS", "COMPLETED", "FAILED"}
  /\ failed \in BOOLEAN
  /\ open \subseteq Setting

LEMMA TypeIs == SetupTypeOK <=> DataOK /\ QueueOK
BY DEF SetupTypeOK, DataOK, QueueOK

SInv == DataOK /\ QueueOK /\ ConfigKept /\ Fresh /\ SettledAgrees

LEMMA OutstandingIs ==
  /\ ReadOutstanding <=> \E x \in Demands : x.request = "read"
  /\ \A s : WriteOutstanding(s) <=> \E x \in Demands : x.request = "write" /\ x.setting = s
  /\ Reads(setups) <=> \E x \in RW(setups) : x.request = "read"
  /\ \A s : Writes(setups, s) <=> \E x \in RW(setups) : x.request = "write" /\ x.setting = s
BY DEF ReadOutstanding, WriteOutstanding, Reads, Writes, Demands, RW

LEMMA WrittenAre == \A mode : Written(mode) \subseteq Setting
BY DEF Written, Setting

LEMMA DemandsAre ==
  ASSUME QueueOK, NEW x \in Demands, x.request = "write"
  PROVE x.setting \in Setting /\ InRange(x.setting, x.value)
BY DEF QueueOK, IsRequests, IsItem, Demands, RW

\* Steps that add no read and no write and leave the configuration alone: what
\* is lost must be open or in force, and the registers may change only for the
\* better.
LEMMA NothingNew ==
  ASSUME SInv, UNCHANGED <<device, config>>, open \subseteq open', Demands' \subseteq Demands,
         \A x \in Demands :
           \/ x \in Demands'
           \/ Setting \subseteq open'
           \/ x.request = "write" /\ (x.setting \in open' \/ InForce(x.setting)'),
         \A s \in Written(device.homing_mode) :
           s \in open' \/ ReadOutstanding' \/ InForce(s)' \/ motor'[s] = motor[s]
  PROVE ConfigKept' /\ Fresh' /\ SettledAgrees'
<1>1. ConfigKept'
  BY DEF SInv, ConfigKept
<1>2. Fresh'
  <2> SUFFICES ASSUME NEW x \in Demands', x.request = "write"
               PROVE x.value = Payload(device, config, x.setting)' \/ x.setting \in open'
    BY DEF Fresh
  <2>1. x \in Demands
    OBVIOUS
  <2>2. x.value = Payload(device, config, x.setting) \/ x.setting \in open
    BY <2>1 DEF SInv, Fresh
  <2> QED BY <2>2
<1>3. SettledAgrees'
  <2> SUFFICES ASSUME ~ReadOutstanding',
                      NEW s \in Written(device.homing_mode), s \notin open',
                      ~InForce(s)', ~WriteOutstanding(s)'
               PROVE ReadAlike(s)'
    BY DEF SettledAgrees
  <2>1. s \in Setting /\ s \notin open /\ motor'[s] = motor[s]
    BY WrittenAre
  <2>2. ReadOutstanding' <=> \E x \in Demands' : x.request = "read"
    BY DEF ReadOutstanding, Reads, Demands, RW
  <2>3. WriteOutstanding(s)' <=> \E x \in Demands' : x.request = "write" /\ x.setting = s
    BY DEF WriteOutstanding, Writes, Demands, RW
  <2>4. ~ReadOutstanding
    BY <2>1, <2>2, OutstandingIs
  <2>5. ~WriteOutstanding(s)
    BY <2>1, <2>3, OutstandingIs
  <2>6. ~InForce(s)
    BY <2>1 DEF InForce
  <2>7. ReadAlike(s)
    BY <2>1, <2>4, <2>5, <2>6 DEF SInv, SettledAgrees
  <2> QED BY <2>1, <2>7 DEF ReadAlike
<1> QED BY <1>1, <1>2, <1>3

\* clear() opens the settings whose requests it cancels.
LEMMA ClearOpens ==
  ASSUME SInv
  PROVE /\ open \subseteq OpenAfterClear /\ OpenAfterClear \subseteq Setting
        /\ \A x \in RW(setups) :
             \/ Setting \subseteq OpenAfterClear
             \/ x.request = "write" /\ x.setting \in OpenAfterClear
<1>1. open \subseteq Setting
  BY DEF SInv, DataOK
<1>2. ASSUME NEW x \in RW(setups), ~Reads(setups)
      PROVE x.request = "write" /\ x.setting \in Setting /\ Writes(setups, x.setting)
  <2>1. x.request = "write" /\ x \in Demands
    BY <1>2, OutstandingIs DEF RW, Demands
  <2> QED BY <1>2, <2>1, OutstandingIs, DemandsAre DEF SInv
<1> QED BY <1>1, <1>2 DEF OpenAfterClear

\* The request that ends.
LEMMA EndsIs ==
  ASSUME SInv, NEW r, Ends(r)
  PROVE LET x == wire[1]
        IN /\ IsItem(x) /\ x.request = r
           /\ RW(wire) = IF r \in {"read", "write"} THEN {x} ELSE {}
<1>1. wire \in Seq(Range(wire)) /\ wire # << >> /\ Len(wire) <= 1
  BY DEF SInv, QueueOK, IsRequests, Ends
<1>2. DOMAIN wire = {1}
  <2>1. Len(wire) \in Nat /\ Len(wire) # 0 /\ DOMAIN wire = 1 .. Len(wire)
    BY <1>1
  <2>2. Len(wire) = 1
    BY <1>1, <2>1
  <2> QED BY <2>1, <2>2
<1>3. Range(wire) = {wire[1]}
  BY <1>2 DEF Range
<1> QED BY <1>3 DEF SInv, QueueOK, IsRequests, RW, Ends

LEMMA PlainItem ==
  ASSUME NEW r \in Request \ {"write", "key_lock"}
  PROVE IsItem(Item(r)) /\ Item(r).request = r
BY DEF Item, IsItem

-----------------------------------------------------------------------------
(* Kinds of steps.                                                         *)

\* A request that is no read and no write ends, and none is added.
LEMMA QuietEnd ==
  ASSUME SInv, UNCHANGED <<device, config, motor, open>>,
         NEW r, r \notin {"read", "write"}, Ends(r),
         NEW p, IsRequests(p), RW(p) = RW(setups), SendNext(p, others)
  PROVE QueueOK' /\ ConfigKept' /\ Fresh' /\ SettledAgrees'
<1>1. QueueOK' /\ Demands' = RW(p)
  BY SendNextKeeps DEF SInv, QueueOK
<1>2. RW(wire) = {}
  BY EndsIs
<1>3. Demands' = Demands
  BY <1>1, <1>2 DEF Demands
<1> QED BY <1>1, <1>3, NothingNew

\* What waits is cancelled; the request with the motor stays, or is no read and
\* no write and ends.
LEMMA Cleared ==
  ASSUME SInv, UNCHANGED <<device, config, motor>>,
         QueueOK', Demands' = RW(wire), open' = OpenAfterClear
  PROVE ConfigKept' /\ Fresh' /\ SettledAgrees'
BY NothingNew, ClearOpens DEF Demands

\* enqueue() of requests that are no reads and no writes.
LEMMA QuietCall ==
  ASSUME SInv, UNCHANGED <<device, config, motor, open>>,
         NEW p, IsRequests(p), RW(p) = RW(setups),
         NEW q, IsRequests(q), \A x \in Range(q) : x.request \notin {"read", "write"},
         Enqueue(p, q)
  PROVE QueueOK' /\ ConfigKept' /\ Fresh' /\ SettledAgrees'
<1>1. QueueOK' /\ Demands' = RW(wire) \cup RW(p)
  BY EnqueueKeeps DEF SInv
<1> QED BY <1>1, NothingNew DEF Demands

LEMMA WithPlain ==
  ASSUME NEW q, IsRequests(q), NEW r \in Request \ {"read", "write", "key_lock"}
  PROVE /\ IsRequests(Append(q, Item(r))) /\ IsRequests(q \o <<Item(r)>>)
        /\ RW(Append(q, Item(r))) = RW(q) /\ RW(q \o <<Item(r)>>) = RW(q)
        /\ Range(Append(q, Item(r))) = Range(q) \cup {Item(r)}
        /\ Item(r).request = r
<1>1. IsItem(Item(r)) /\ Item(r).request = r
  BY PlainItem
<1>2. IsRequests(<<Item(r)>>) /\ Range(<<Item(r)>>) = {Item(r)}
  BY <1>1, OneRequest
<1>3. /\ IsRequests(Append(q, Item(r))) /\ Range(Append(q, Item(r))) = Range(q) \cup {Item(r)}
      /\ IsRequests(q \o <<Item(r)>>) /\ Range(q \o <<Item(r)>>) = Range(q) \cup {Item(r)}
  BY <1>1, <1>2, AppendRequests, ConcatRequests
<1> QED BY <1>1, <1>3 DEF RW

LEMMA HomeRequestsAre ==
  ASSUME NEW q, IsRequests(q)
  PROVE IsRequests(q \o HomeRequests) /\ RW(q \o HomeRequests) = RW(q)
<1>1. CASE device.homing_mode = "ENDSTOP"
  BY <1>1, WithPlain DEF HomeRequests, Request
<1>2. CASE device.homing_mode # "ENDSTOP"
  <2>1. IsRequests(q \o << >>) /\ Range(q \o << >>) = Range(q)
    BY EmptyRange, ConcatRequests
  <2> QED BY <1>2, <2>1 DEF HomeRequests, RW
<1> QED BY <1>1, <1>2

-----------------------------------------------------------------------------
(* Requests end.                                                           *)

LEMMA EndsUnheededKeeps == SInv /\ EndsUnheeded => SInv'
<1> SUFFICES ASSUME SInv, EndsUnheeded PROVE SInv'
  OBVIOUS
<1>1. PICK r \in {"restart", "emergency_stop", "release_protection", "setup_go_home",
                   "recovery"} : Ends(r)
  BY DEF EndsUnheeded
<1>2. QueueOK' /\ ConfigKept' /\ Fresh' /\ SettledAgrees'
  BY <1>1, QuietEnd DEF EndsUnheeded, SInv, QueueOK
<1> QED BY <1>2 DEF SInv, DataOK, EndsUnheeded, stateVars

\* transition_to() in the callback of a request that is no read and no write.
LEMMA GoToKeeps ==
  ASSUME SInv, NEW r, r \notin {"read", "write"}, Ends(r),
         NEW s \in {"Idle", "Homing", "Error"}, GoTo(s),
         UNCHANGED <<device, config, motor, setup_state>>
  PROVE SInv'
<1>1. CASE s = "Error" /\ state # "Error" /\ EnterError /\ SendNext(<< >>, << >>)
  <2>1. QueueOK' /\ Demands' = {}
    BY <1>1, SendNextKeeps, EmptyRange
  <2>2. Demands' = RW(wire)
    BY <2>1, EndsIs
  <2>3. open' = OpenAfterClear /\ state' = "Error" /\ failed' \in BOOLEAN
    BY <1>1 DEF EnterError
  <2>4. ConfigKept' /\ Fresh' /\ SettledAgrees'
    BY <2>1, <2>2, <2>3, Cleared
  <2>5. open' \subseteq Setting
    BY <2>3, ClearOpens
  <2> QED BY <2>1, <2>3, <2>4, <2>5 DEF SInv, DataOK
<1>2. CASE state' = s /\ SendNext(setups, others) /\ UNCHANGED <<failed, open>>
  <2>1. QueueOK' /\ ConfigKept' /\ Fresh' /\ SettledAgrees'
    BY <1>2, QuietEnd DEF SInv, QueueOK
  <2> QED BY <1>2, <2>1 DEF SInv, DataOK
<1> QED BY <1>1, <1>2 DEF GoTo

LEMMA OtherEndsKeeps == SInv /\ OtherEnds => SInv'
<1> SUFFICES ASSUME SInv, OtherEnds PROVE SInv'
  OBVIOUS
<1>1. CASE GoTo("Error")
  BY <1>1, GoToKeeps DEF OtherEnds
<1>2. CASE /\ state' \in {state} \cup (IF state = "SettingUp" THEN {} ELSE {"Homing", "Idle"})
           /\ SendNext(setups, others)
           /\ UNCHANGED <<failed, open>>
  <2>1. QueueOK' /\ ConfigKept' /\ Fresh' /\ SettledAgrees'
    BY <1>2, QuietEnd DEF OtherEnds, SInv, QueueOK
  <2> QED BY <1>2, <2>1 DEF SInv, DataOK, OtherEnds
<1> QED BY <1>1, <1>2 DEF OtherEnds

LEMMA GoHomeKeeps == SInv /\ (GoHomeSucceeds \/ GoHomeFails) => SInv'
<1>1. SInv /\ GoHomeSucceeds => SInv'
  BY GoToKeeps DEF GoHomeSucceeds
<1>2. SInv /\ GoHomeFails => SInv'
  BY GoToKeeps DEF GoHomeFails
<1> QED BY <1>1, <1>2

LEMMA RecoverySucceedsKeeps == SInv /\ RecoverySucceeds => SInv'
<1> SUFFICES ASSUME SInv, RecoverySucceeds PROVE SInv'
  OBVIOUS
<1>1. PICK more \in {<< >>, HomeRequests} : SendNext(setups \o more, others)
  BY DEF RecoverySucceeds
<1>2. IsRequests(setups \o more) /\ RW(setups \o more) = RW(setups)
  <2>1. IsRequests(setups)
    BY DEF SInv, QueueOK
  <2>2. IsRequests(setups \o << >>) /\ Range(setups \o << >>) = Range(setups)
    BY <2>1, EmptyRange, ConcatRequests
  <2> QED BY <1>1, <2>1, <2>2, HomeRequestsAre DEF RW
<1>3. QueueOK' /\ ConfigKept' /\ Fresh' /\ SettledAgrees'
  BY <1>1, <1>2, QuietEnd DEF RecoverySucceeds
<1> QED BY <1>3 DEF SInv, DataOK, RecoverySucceeds

LEMMA DoneSucceedsKeeps == SInv /\ DoneSucceeds => SInv'
<1> SUFFICES ASSUME SInv, DoneSucceeds PROVE SInv'
  OBVIOUS
<1>0. IsRequests(setups) /\ Ends("done") /\ UNCHANGED <<device, config, motor, open>>
  BY DEF DoneSucceeds, SInv, QueueOK
<1>1. PICK p \in {setups, setups \o HomeRequests} : SendNext(p, others)
  BY DEF DoneSucceeds
<1>2. IsRequests(p) /\ RW(p) = RW(setups)
  BY <1>0, <1>1, HomeRequestsAre
<1>3. QueueOK' /\ ConfigKept' /\ Fresh' /\ SettledAgrees'
  BY <1>0, <1>1, <1>2, QuietEnd
<1>4. DataOK'
  BY <1>0 DEF SInv, DataOK, DoneSucceeds, stateVars
<1> QED BY <1>3, <1>4 DEF SInv

LEMMA DoneFailsKeeps == SInv /\ DoneFails => SInv'
<1> SUFFICES ASSUME SInv, DoneFails PROVE SInv'
  OBVIOUS
<1>0. Ends("done") /\ UNCHANGED <<device, config, motor>>
  BY DEF DoneFails
<1>1. CASE SendNext(setups, others) /\ UNCHANGED <<stateVars, open>>
  <2>1. QueueOK' /\ ConfigKept' /\ Fresh' /\ SettledAgrees'
    BY <1>0, <1>1, QuietEnd DEF SInv, QueueOK
  <2> QED BY <1>0, <1>1, <2>1 DEF SInv, DataOK, stateVars
<1>2. CASE Abort({}) /\ setup_state' = "FAILED"
  <2>1. QueueOK' /\ Demands' = RW(wire) /\ open' = OpenAfterClear
    BY <1>0, <1>2, SendNextKeeps, EmptyRange, EndsIs DEF Abort
  <2>2. ConfigKept' /\ Fresh' /\ SettledAgrees'
    BY <1>0, <2>1, Cleared
  <2>3. open' \subseteq Setting
    BY <2>1, ClearOpens
  <2> QED BY <1>0, <1>2, <2>1, <2>2, <2>3 DEF SInv, DataOK, Abort
<1> QED BY <1>1, <1>2 DEF DoneFails

\* Keys locked by an automation: open, or to be found out.
LEMMA KeyLockEndsKeeps == SInv /\ KeyLockEnds => SInv'
<1> SUFFICES ASSUME SInv, KeyLockEnds PROVE SInv'
  OBVIOUS
<1>0. Ends("key_lock") /\ SendNext(setups, others) /\ UNCHANGED <<device, config, stateVars>>
  BY DEF KeyLockEnds
<1>1. CASE UNCHANGED <<motor, open>>
  <2>1. QueueOK' /\ ConfigKept' /\ Fresh' /\ SettledAgrees'
    BY <1>0, <1>1, QuietEnd DEF SInv, QueueOK
  <2> QED BY <1>0, <1>1, <2>1 DEF SInv, DataOK, stateVars
<1>2. CASE /\ motor' = Stored(motor, "keypad_lock", wire[1].value)
           /\ open' = OpenAfterChange("keypad_lock")
  <2>1. QueueOK' /\ Demands' = Demands
    <3>1. QueueOK' /\ Demands' = RW(setups)
      BY <1>0, SendNextKeeps DEF SInv, QueueOK
    <3>2. RW(wire) = {}
      BY <1>0, EndsIs
    <3> QED BY <3>1, <3>2 DEF Demands
  <2>2. InRange("keypad_lock", wire[1].value) /\ "keypad_lock" \in Setting
    BY DEF InRange, Setting
  <2>3. /\ IsConfiguration(motor)' /\ \A t \in Setting : InRange(t, motor'[t])
        /\ \A t \in Setting \ {"keypad_lock", "endstop_limit"} : motor'[t] = motor[t]
    BY <1>2, <2>2, StoredIs DEF SInv, DataOK
  <2>4. open \subseteq open' /\ open' \subseteq Setting
        /\ (ReadOutstanding \/ "keypad_lock" \in open')
    BY <1>2, <2>2 DEF OpenAfterChange, SInv, DataOK
  <2>5. ReadOutstanding' <=> ReadOutstanding
    BY <2>1, OutstandingIs DEF ReadOutstanding, Reads, Demands, RW
  <2>6. \A s \in Written(device.homing_mode) :
          s \in open' \/ ReadOutstanding' \/ motor'[s] = motor[s]
    BY <2>3, <2>4, <2>5 DEF Written, Setting
  <2>7. ConfigKept' /\ Fresh' /\ SettledAgrees'
    BY <1>0, <2>1, <2>4, <2>6, NothingNew
  <2> QED BY <1>0, <2>1, <2>3, <2>4, <2>7 DEF SInv, DataOK, stateVars
<1> QED BY <1>1, <1>2 DEF KeyLockEnds

LEMMA ReadFailsKeeps == SInv /\ ReadFails => SInv'
<1> SUFFICES ASSUME SInv, ReadFails PROVE SInv'
  OBVIOUS
<1>1. QueueOK' /\ Demands' = {}
  BY SendNextKeeps, EmptyRange DEF ReadFails, Abort
<1>2. open' = Setting
  BY ClearOpens DEF ReadFails, Abort
<1>3. ConfigKept' /\ Fresh' /\ SettledAgrees'
  <2>1. open \subseteq open' /\ UNCHANGED <<device, config, motor>>
    BY <1>2 DEF SInv, DataOK, ReadFails
  <2> QED BY <1>1, <1>2, <2>1, NothingNew, WrittenAre
<1> QED BY <1>1, <1>2, <1>3 DEF SInv, DataOK, ReadFails, Abort

LEMMA WriteSucceedsKeeps == SInv /\ WriteSucceeds => SInv'
<1> SUFFICES ASSUME SInv, WriteSucceeds PROVE SInv'
  OBVIOUS
<1>0. PICK x : x = wire[1]
  OBVIOUS
<1>1. /\ Ends("write") /\ UNCHANGED <<device, config, stateVars, open>>
      /\ motor' = Stored(motor, x.setting, x.value)
  BY <1>0 DEF WriteSucceeds
<1>2. x.request = "write" /\ RW(wire) = {x} /\ x \in Demands
  BY <1>0, <1>1, EndsIs DEF Demands
<1>3. x.setting \in Setting /\ InRange(x.setting, x.value)
  BY <1>2, DemandsAre DEF SInv
<1>4. /\ IsConfiguration(motor)' /\ \A t \in Setting : InRange(t, motor'[t])
      /\ motor'[x.setting] = x.value
      /\ \A t \in Setting \ {x.setting, "endstop_limit"} : motor'[t] = motor[t]
  BY <1>1, <1>3, StoredIs DEF SInv, DataOK
<1>5. InForce(x.setting)' \/ x.setting \in open'
  <2>1. x.value = Payload(device, config, x.setting) \/ x.setting \in open
    BY <1>2 DEF SInv, Fresh
  <2> QED BY <1>1, <1>4, <2>1 DEF InForce
<1>6. PICK p \in {setups, Append(setups, Item("setup_go_home"))} : SendNext(p, others)
  BY DEF WriteSucceeds
<1>7. IsRequests(p) /\ RW(p) = RW(setups)
  <2>1. IsRequests(setups) /\ "setup_go_home" \in Request \ {"read", "write", "key_lock"}
    BY DEF SInv, QueueOK, Request
  <2>2. /\ IsRequests(Append(setups, Item("setup_go_home")))
        /\ RW(Append(setups, Item("setup_go_home"))) = RW(setups)
    BY <2>1, WithPlain
  <2> QED BY <1>6, <2>1, <2>2
<1>8. QueueOK' /\ Demands' = RW(setups)
  BY <1>6, <1>7, SendNextKeeps DEF SInv, QueueOK
<1>9. ConfigKept' /\ Fresh' /\ SettledAgrees'
  <2>1. \A y \in Demands : y \in Demands' \/ y = x
    BY <1>2, <1>8 DEF Demands
  <2>2. \A s \in Written(device.homing_mode) :
          s \in open' \/ InForce(s)' \/ motor'[s] = motor[s]
    <3> SUFFICES ASSUME NEW s \in Written(device.homing_mode)
                 PROVE s \in open' \/ InForce(s)' \/ motor'[s] = motor[s]
      OBVIOUS
    <3>1. s \in Setting \ {"endstop_limit"}
      BY DEF Written, Setting
    <3> QED BY <1>4, <1>5, <3>1
  <2>3. Demands' \subseteq Demands /\ open \subseteq open'
    BY <1>1, <1>8 DEF Demands
  <2> QED BY <1>1, <1>2, <1>5, <2>1, <2>2, <2>3, NothingNew
<1> QED BY <1>1, <1>4, <1>8, <1>9 DEF SInv, DataOK, stateVars

LEMMA WriteFailsKeeps == SInv /\ WriteFails => SInv'
<1> SUFFICES ASSUME SInv, WriteFails PROVE SInv'
  OBVIOUS
<1> DEFINE x == wire[1]
<1>1. /\ Ends("write") /\ UNCHANGED <<device, config, setup_state>>
      /\ motor' \in {motor, Stored(motor, x.setting, x.value)}
  BY DEF WriteFails
<1>2. x.request = "write" /\ RW(wire) = {x} /\ x \in Demands
  BY <1>1, EndsIs DEF Demands
<1>3. x.setting \in Setting /\ InRange(x.setting, x.value)
  BY <1>2, DemandsAre DEF SInv
<1>4. /\ IsConfiguration(motor)' /\ \A t \in Setting : InRange(t, motor'[t])
      /\ \A t \in Setting \ {x.setting, "endstop_limit"} : motor'[t] = motor[t]
  <2>1. CASE motor' = motor
    BY <2>1 DEF SInv, DataOK
  <2>2. CASE motor' = Stored(motor, x.setting, x.value)
    BY <2>2, <1>3, StoredIs DEF SInv, DataOK
  <2> QED BY <1>1, <2>1, <2>2
<1>5. /\ QueueOK' /\ Demands' \subseteq Demands
      /\ open \subseteq open' /\ open' \subseteq Setting /\ x.setting \in open'
      /\ \A y \in Demands : \/ y \in Demands' \/ y = x \/ Setting \subseteq open'
                            \/ y.request = "write" /\ y.setting \in open'
      /\ state' \in {state, "Error"} /\ failed' \in BOOLEAN
  <2>1. CASE state # "Error" /\ Abort({x.setting})
    <3>1. QueueOK' /\ Demands' = {}
      BY <2>1, SendNextKeeps, EmptyRange DEF Abort
    <3>2. open' = OpenAfterClear \cup {x.setting}
      BY <2>1 DEF Abort
    <3>3. open \subseteq open' /\ open' \subseteq Setting /\ x.setting \in open'
      BY <1>3, <3>2, ClearOpens
    <3>4. \A y \in Demands : \/ y = x \/ Setting \subseteq open'
                             \/ y.request = "write" /\ y.setting \in open'
      BY <1>2, <3>2, ClearOpens DEF Demands
    <3>5. state' = "Error" /\ failed' \in BOOLEAN
      BY <2>1 DEF Abort
    <3> HIDE DEF x
    <3> QED BY <3>1, <3>3, <3>4, <3>5
  <2>2. CASE /\ SendNext(setups, others) /\ open' = open \cup {x.setting}
             /\ UNCHANGED <<state, failed>>
    <3>1. QueueOK' /\ Demands' = RW(setups)
      BY <2>2, SendNextKeeps DEF SInv, QueueOK
    <3> QED BY <1>2, <1>3, <2>2, <3>1 DEF Demands, SInv, DataOK
  <2> QED BY <2>1, <2>2 DEF WriteFails
<1> HIDE DEF x
<1>6. ConfigKept' /\ Fresh' /\ SettledAgrees'
  <2>1. \A s \in Written(device.homing_mode) : s \in open' \/ motor'[s] = motor[s]
    BY <1>4, <1>5 DEF Written, Setting
  <2> QED BY <1>1, <1>2, <1>5, <2>1, NothingNew
<1> QED BY <1>1, <1>4, <1>5, <1>6 DEF SInv, DataOK

\* The read of a set-up adds the writes of what differs.
LEMMA ReadAdds ==
  ASSUME SInv, ReadSucceeds
  PROVE /\ QueueOK'
        /\ Demands' = RW(setups) \cup
             {Write(s, Payload(device, config, s)) :
                s \in Changed(Decoded(motor), config) \cap Written(device.homing_mode)}
<1>0. PICK w : w = UpdateWrites(device, Decoded(motor), config)
  OBVIOUS
<1>1. SendNext(setups \o w \o <<Item("done")>>, others)
  BY <1>0 DEF ReadSucceeds
<1> DEFINE Needed == Changed(Decoded(motor), config) \cap Written(device.homing_mode)
           W(s) == Write(s, Payload(device, config, s))
<1>2. IsRequests(w) /\ Range(w) = {W(s) : s \in Needed}
  <2>1. \A s \in Setting : InRange(s, Payload(device, config, s))
    BY PayloadRange DEF SInv, DataOK
  <2> QED BY <1>0, <2>1, UpdateWritesAre
<1>3. IsRequests(setups) /\ IsRequests(others) /\ \A x \in Range(others) : x.request \notin {"read", "write"}
  BY DEF SInv, QueueOK
<1>4. IsRequests(setups \o w) /\ Range(setups \o w) = Range(setups) \cup Range(w)
  BY <1>2, <1>3, ConcatRequests
<1>5. PICK p : p = setups \o w \o <<Item("done")>>
  OBVIOUS
<1>6. IsRequests(p) /\ RW(p) = RW(setups \o w)
  <2>1. "done" \in Request \ {"read", "write", "key_lock"}
    BY DEF Request
  <2> QED BY <1>4, <1>5, <2>1, WithPlain
<1>7. QueueOK' /\ Demands' = RW(p)
  BY <1>1, <1>3, <1>5, <1>6, SendNextKeeps
<1>8. Demands' = RW(setups) \cup {W(s) : s \in Needed}
  <2>1. \A s \in Needed : W(s).request = "write"
    BY DEF Write
  <2>2. RW(setups \o w) = RW(setups) \cup RW(w)
    BY <1>4 DEF RW
  <2>3. RW(w) = Range(w)
    BY <1>2, <2>1 DEF RW
  <2> QED BY <1>2, <1>6, <1>7, <2>2, <2>3
<1> QED BY <1>7, <1>8

\* The read of a set-up: what differs is going to be written, and what is open
\* stays so only if an older write is still to come.
LEMMA ReadSucceedsKeeps == SInv /\ ReadSucceeds => SInv'
<1> SUFFICES ASSUME SInv, ReadSucceeds PROVE SInv'
  OBVIOUS
<1>1. /\ UNCHANGED <<device, config, motor, stateVars>>
      /\ open' = {s \in open : Writes(setups, s)}
  BY DEF ReadSucceeds
<1> DEFINE Needed == Changed(Decoded(motor), config) \cap Written(device.homing_mode)
           W(s) == Write(s, Payload(device, config, s))
<1>2. QueueOK' /\ Demands' = RW(setups) \cup {W(s) : s \in Needed}
  BY ReadAdds
<1> HIDE DEF W, Needed
<1>3. Fresh'
  <2> SUFFICES ASSUME NEW x \in Demands', x.request = "write"
               PROVE x.value = Payload(device, config, x.setting) \/ x.setting \in open'
    BY <1>1 DEF Fresh
  <2>1. CASE x \in RW(setups)
    <3>1. x.value = Payload(device, config, x.setting) \/ x.setting \in open
      BY <2>1 DEF SInv, Fresh, Demands
    <3>2. Writes(setups, x.setting)
      BY <2>1, OutstandingIs
    <3> QED BY <1>1, <3>1, <3>2
  <2>2. CASE \E s \in Needed : x = W(s)
    BY <2>2 DEF W, Write
  <2> QED BY <1>2, <2>1, <2>2
<1>4. SettledAgrees'
  <2> SUFFICES ASSUME NEW s \in Written(device.homing_mode), ~WriteOutstanding(s)'
               PROVE (InForce(s) \/ ReadAlike(s))'
    BY <1>1 DEF SettledAgrees
  <2>1. WriteOutstanding(s)' <=> \E x \in Demands' : x.request = "write" /\ x.setting = s
    BY DEF WriteOutstanding, Writes, Demands, RW
  <2>2. W(s).request = "write" /\ W(s).setting = s
    BY DEF W, Write
  <2>3. s \notin Needed
    BY <1>2, <2>1, <2>2
  <2>4. s \notin Changed(Decoded(motor), config)
    BY <2>3 DEF Needed
  <2>5. InForce(s) \/ ReadAlike(s)
    BY <2>4, UnchangedIsInForce DEF SInv, DataOK
  <2> QED BY <1>1, <2>5 DEF InForce, ReadAlike
<1>5. DataOK' /\ ConfigKept'
  BY <1>1 DEF SInv, DataOK, ConfigKept, stateVars
<1> QED BY <1>2, <1>3, <1>4, <1>5 DEF SInv

LEMMA RequestEndsKeeps == SInv /\ RequestEnds => SInv'
BY EndsUnheededKeeps, OtherEndsKeeps, RecoverySucceedsKeeps, ReadSucceedsKeeps, ReadFailsKeeps,
   WriteSucceedsKeeps, WriteFailsKeeps, GoHomeKeeps, DoneSucceedsKeeps, DoneFailsKeeps,
   KeyLockEndsKeeps
DEF RequestEnds

-----------------------------------------------------------------------------
(* Calls.                                                                  *)

\* A setter: the new value is open, or a read is still to find it out.
LEMMA StoreKeeps ==
  ASSUME SInv, NEW s \in Setting \ {"nolimit", "homing"}, NEW v,
         s = "holding_current_percent" => v \in 0 .. 8,
         Store(s, v),
         QueueOK', Demands \subseteq Demands',
         \A x \in Demands' : x \in Demands \/ x.request = "read",
         state' \in {state, "SettingUp"}
  PROVE SInv'
<1>1. /\ config' = [config EXCEPT ![s] = v]
      /\ UNCHANGED <<device, motor, setup_state, failed>>
      /\ open' = OpenAfterChange(s)
  BY DEF Store
<1>2. IsConfiguration(config)' /\ config'[s] = v /\ \A t \in Setting \ {s} : config'[t] = config[t]
  BY <1>1 DEF SInv, DataOK, IsConfiguration
<1>3. /\ open \subseteq open' /\ open' \subseteq Setting
      /\ s \in open' \/ (ReadOutstanding /\ ~WriteOutstanding(s))
  BY <1>1 DEF OpenAfterChange, SInv, DataOK
<1>4. DataOK'
  <2>1. config'["holding_current_percent"] \in 0 .. 8
    BY <1>2 DEF SInv, DataOK, Setting
  <2> QED BY <1>1, <1>2, <1>3, <2>1 DEF SInv, DataOK
<1>5. ConfigKept'
  BY <1>1, <1>2 DEF SInv, ConfigKept, Setting
<1>6. \A t \in Setting \ {s} : Payload(device, config', t) = Payload(device, config, t)
  BY <1>2 DEF Payload, Setting
<1>7. Fresh'
  <2> SUFFICES ASSUME NEW x \in Demands', x.request = "write"
               PROVE x.value = Payload(device, config', x.setting) \/ x.setting \in open'
    BY <1>1 DEF Fresh
  <2>1. x \in Demands /\ x.setting \in Setting
    BY DemandsAre DEF SInv
  <2>2. x.value = Payload(device, config, x.setting) \/ x.setting \in open
    BY <2>1 DEF SInv, Fresh
  <2>3. WriteOutstanding(x.setting)
    BY <2>1, OutstandingIs
  <2> QED BY <1>3, <1>6, <2>1, <2>2, <2>3
<1>8. SettledAgrees'
  <2> SUFFICES ASSUME ~ReadOutstanding',
                      NEW t \in Written(device.homing_mode), t \notin open', ~WriteOutstanding(t)'
               PROVE (InForce(t) \/ ReadAlike(t))'
    BY <1>1 DEF SettledAgrees
  <2>1. ReadOutstanding' <=> \E x \in Demands' : x.request = "read"
    BY DEF ReadOutstanding, Reads, Demands, RW
  <2>2. WriteOutstanding(t)' <=> \E x \in Demands' : x.request = "write" /\ x.setting = t
    BY DEF WriteOutstanding, Writes, Demands, RW
  <2>3. ~ReadOutstanding /\ ~WriteOutstanding(t)
    BY <2>1, <2>2, OutstandingIs
  <2>4. t \in Setting /\ t # s /\ t \notin open
    BY <1>3, <2>3, WrittenAre
  <2>5. InForce(t) \/ ReadAlike(t)
    BY <2>3, <2>4 DEF SInv, SettledAgrees
  <2>6. InForce(t) => InForce(t)'
    BY <1>1, <1>6, <2>4 DEF InForce
  <2>7. ReadAlike(t) => ReadAlike(t)'
    <3>1. config'[t] = config[t]
      BY <1>2, <2>4
    <3> QED BY <1>1, <3>1 DEF ReadAlike
  <2> QED BY <2>5, <2>6, <2>7
<1> QED BY <1>4, <1>5, <1>7, <1>8 DEF SInv

\* setup_motor() adds a read.
LEMMA SetupMotorKeeps ==
  ASSUME QueueOK, SetupMotor
  PROVE QueueOK' /\ Demands' = Demands \cup {Item("read")} /\ state' = "SettingUp"
<1>1. PICK p : p = <<Item("restart"), Item("read")>>
  OBVIOUS
<1>2. IsItem(Item("restart")) /\ IsItem(Item("read"))
      /\ Item("restart").request = "restart" /\ Item("read").request = "read"
  BY PlainItem DEF Request
<1>3. IsRequests(p) /\ Range(p) = {Item("restart"), Item("read")}
  <2>1. p = <<Item("restart")>> \o <<Item("read")>>
    BY <1>1
  <2> QED BY <1>2, <2>1, OneRequest, ConcatRequests
<1>4. IsRequests(setups \o p) /\ Range(setups \o p) = Range(setups) \cup Range(p)
  BY <1>3, ConcatRequests DEF QueueOK
<1>5. RW(setups \o p) = RW(setups) \cup {Item("read")}
  BY <1>2, <1>3, <1>4 DEF RW
<1>6. Enqueue(setups \o p, others) /\ state' = "SettingUp"
  BY <1>1 DEF SetupMotor
<1>7. QueueOK' /\ Demands' = RW(wire) \cup RW(setups \o p)
  BY <1>4, <1>6, EnqueueKeeps DEF QueueOK
<1> QED BY <1>5, <1>6, <1>7 DEF Demands

LEMMA NoSetupKeeps ==
  ASSUME QueueOK, NoSetup
  PROVE QueueOK' /\ Demands' = Demands /\ state' = state
BY DEF NoSetup, queueVars, QueueOK, Demands, IsRequests, Range, RW

LEMMA SettersKeep ==
  ASSUME SetupAssumption, SInv,
         SetMicrosteps \/ SetControlMode \/ SetWorkingCurrent \/ SetHoldingCurrent
  PROVE SInv'
<1>1. Item("read").request = "read"
  BY DEF Item
<1>2. SetupMotor \/ NoSetup
  BY DEF SetMicrosteps, SetControlMode, SetWorkingCurrent, SetHoldingCurrent
<1>3. /\ QueueOK' /\ Demands \subseteq Demands' /\ state' \in {state, "SettingUp"}
      /\ \A x \in Demands' : x \in Demands \/ x.request = "read"
  BY <1>1, <1>2, SetupMotorKeeps, NoSetupKeeps DEF SInv
<1>4. PICK s \in Setting \ {"nolimit", "homing"} : \E v :
        Store(s, v) /\ (s = "holding_current_percent" => v \in 0 .. 8)
  <2>1. /\ {"subdivision", "mode", "working_current_ma", "holding_current_percent"}
             \subseteq Setting \ {"nolimit", "homing"}
    BY DEF Setting
  <2>2. CASE SetMicrosteps
    <3>1. PICK n : Store("subdivision", n)
      BY <2>2 DEF SetMicrosteps
    <3> QED BY <2>1, <3>1
  <2>3. CASE SetControlMode
    <3>1. PICK mode : Store("mode", mode)
      BY <2>3 DEF SetControlMode
    <3> QED BY <2>1, <3>1
  <2>4. CASE SetWorkingCurrent
    <3>1. PICK c : Store("working_current_ma", c)
      BY <2>4 DEF SetWorkingCurrent
    <3> QED BY <2>1, <3>1
  <2>5. CASE SetHoldingCurrent
    <3>1. PICK percent \in Percents : Store("holding_current_percent", HoldingLevel(percent))
      BY <2>5 DEF SetHoldingCurrent
    <3>2. HoldingLevel(percent) \in 0 .. 8
      BY <3>1, HoldingLevelRange DEF SetupAssumption
    <3> QED BY <2>1, <3>1, <3>2
  <2> QED BY <2>2, <2>3, <2>4, <2>5
<1> QED BY <1>3, <1>4, StoreKeeps

LEMMA PlainCallsKeep ==
  ASSUME SInv, KeyLock \/ Home \/ Another \/ ReleaseProtection \/ Recover
  PROVE SInv'
<1>0. IsRequests(setups) /\ IsRequests(others) /\ \A x \in Range(others) : x.request \notin {"read", "write"}
  BY DEF SInv, QueueOK
<1>1. CASE KeyLock
  <2>1. PICK v : Enqueue(setups, Append(others, KeyLockItem(v)))
    BY <1>1 DEF KeyLock
  <2>2. IsItem(KeyLockItem(v)) /\ KeyLockItem(v).request = "key_lock"
    BY DEF KeyLockItem, IsItem, Request, InRange, Setting
  <2>3. /\ IsRequests(Append(others, KeyLockItem(v)))
        /\ \A x \in Range(Append(others, KeyLockItem(v))) : x.request \notin {"read", "write"}
    BY <1>0, <2>2, AppendRequests
  <2>4. QueueOK' /\ ConfigKept' /\ Fresh' /\ SettledAgrees'
    BY <1>0, <1>1, <2>1, <2>3, QuietCall DEF KeyLock
  <2> QED BY <1>1, <2>4 DEF SInv, DataOK, KeyLock, stateVars
<1>2. CASE Home
  <2>1. IsRequests(setups \o HomeRequests) /\ RW(setups \o HomeRequests) = RW(setups)
    BY <1>0, HomeRequestsAre
  <2>2. QueueOK' /\ ConfigKept' /\ Fresh' /\ SettledAgrees'
    BY <1>0, <1>2, <2>1, QuietCall DEF Home
  <2> QED BY <1>2, <2>2 DEF SInv, DataOK, Home, stateVars
<1>3. ASSUME NEW r \in {"other", "release_protection"},
             Enqueue(setups, Append(others, Item(r))),
             UNCHANGED <<device, config, motor, setup_state, failed, open>>,
             state' \in {state, "Idle"}
      PROVE SInv'
  <2>1. /\ IsRequests(Append(others, Item(r)))
        /\ \A x \in Range(Append(others, Item(r))) : x.request \notin {"read", "write"}
    <3>1. r \in Request \ {"read", "write", "key_lock"}
      BY <1>3 DEF Request
    <3>2. /\ IsRequests(Append(others, Item(r))) /\ Item(r).request = r
          /\ Range(Append(others, Item(r))) = Range(others) \cup {Item(r)}
      BY <1>0, <3>1, WithPlain
    <3> QED BY <1>0, <3>1, <3>2
  <2>2. QueueOK' /\ ConfigKept' /\ Fresh' /\ SettledAgrees'
    BY <1>0, <1>3, <2>1, QuietCall
  <2> QED BY <1>3, <2>2 DEF SInv, DataOK
<1>4. CASE Another
  BY <1>3, <1>4 DEF Another, stateVars
<1>5. CASE ReleaseProtection
  BY <1>3, <1>5 DEF ReleaseProtection
<1>6. CASE Recover
  <2>1. /\ IsRequests(Append(setups, Item("recovery")))
        /\ RW(Append(setups, Item("recovery"))) = RW(setups)
    BY <1>0, WithPlain DEF Request
  <2>2. QueueOK' /\ ConfigKept' /\ Fresh' /\ SettledAgrees'
    BY <1>0, <1>6, <2>1, QuietCall DEF Recover
  <2> QED BY <1>6, <2>2 DEF SInv, DataOK, Recover, stateVars
<1> QED BY <1>1, <1>2, <1>4, <1>5, <1>6

\* What an emergency stop, a restart and an expired state have in common.
LEMMA ClearingKeeps ==
  ASSUME SInv, UNCHANGED <<device, config, motor>>, open' = OpenAfterClear,
         QueueOK', Demands' = RW(wire),
         state' \in {"Error", "Idle"}, failed' \in BOOLEAN,
         setup_state' \in {setup_state, "FAILED"}
  PROVE SInv'
<1>1. ConfigKept' /\ Fresh' /\ SettledAgrees'
  BY Cleared
<1>2. open' \subseteq Setting
  BY ClearOpens
<1> QED BY <1>1, <1>2 DEF SInv, DataOK

LEMMA ClearingCallsKeep ==
  ASSUME SInv, EmergencyStop \/ Restart \/ StateExpires
  PROVE SInv'
<1>1. ASSUME NEW r \in {"emergency_stop", "restart"}
      PROVE /\ IsRequests(<<Item(r)>>) /\ RW(<<Item(r)>>) = {}
            /\ \A x \in Range(<<Item(r)>>) : x.request \notin {"read", "write"}
  <2>1. IsItem(Item(r)) /\ Item(r).request = r
    BY PlainItem DEF Request
  <2> QED BY <2>1, OneRequest DEF RW
<1>2. UNCHANGED <<device, config, motor>> /\ open' = OpenAfterClear
  BY DEF EmergencyStop, Restart, StateExpires, ClearCallbacks, EnterError
<1>3. state' \in {"Error", "Idle"} /\ setup_state' \in {setup_state, "FAILED"}
  BY DEF EmergencyStop, Restart, StateExpires, ClearCallbacks, EnterError
<1>4. failed' \in BOOLEAN
  BY DEF EmergencyStop, Restart, StateExpires, ClearCallbacks, EnterError, SInv, DataOK
<1>5. QueueOK' /\ Demands' = RW(wire)
  <2>0. QueueOK
    BY DEF SInv
  <2>1. CASE setups' = << >> /\ others' = << >> /\ UNCHANGED wire
    BY <2>0, <2>1, ClearKeeps
  <2>2. CASE Enqueue(<<Item("emergency_stop")>>, << >>)
    BY <1>1, <2>0, <2>2, EnqueueKeeps, EmptyRange
  <2>3. CASE Enqueue(<< >>, <<Item("restart")>>)
    BY <1>1, <2>0, <2>3, EnqueueKeeps, EmptyRange
  <2> QED BY <2>1, <2>2, <2>3 DEF EmergencyStop, Restart, StateExpires
<1> QED BY <1>2, <1>3, <1>4, <1>5, ClearingKeeps

LEMMA CallKeeps == SetupAssumption /\ SInv /\ Call => SInv'
BY SettersKeep, PlainCallsKeep, ClearingCallsKeep DEF Call

-----------------------------------------------------------------------------
(* The main loop, and restarts.                                            *)

LEMMA QuietKeeps ==
  ASSUME SInv, UNCHANGED <<device, config, motor, state, queueVars, open>>,
         setup_state' \in {setup_state, "FAILED"}, failed' \in {failed, TRUE}
  PROVE SInv'
<1>1. QueueOK' /\ Demands' = Demands
  BY DEF SInv, QueueOK, Demands, RW, IsRequests, Range, queueVars
<1>2. ConfigKept' /\ Fresh' /\ SettledAgrees'
  BY <1>1, NothingNew
<1> QED BY <1>1, <1>2 DEF SInv, DataOK

\* A driver that has just started: the read is still to come.
LEMMA JustStarted ==
  ASSUME SetupAssumption, device \in Devices, config = Synchronized(device),
         IsConfiguration(motor), \A s \in Setting : InRange(s, motor[s]),
         state = "SettingUp", setup_state = "IN_PROGRESS", failed = FALSE,
         wire = <<Item("restart")>>, setups = <<Item("read")>>, others = << >>, open = {}
  PROVE SInv
<1>1. IsItem(Item("restart")) /\ IsItem(Item("read"))
      /\ Item("restart").request = "restart" /\ Item("read").request = "read"
  BY PlainItem DEF Request
<1>2. /\ IsRequests(wire) /\ Range(wire) = {Item("restart")} /\ wire # << >>
      /\ IsRequests(setups) /\ Range(setups) = {Item("read")}
      /\ IsRequests(others) /\ Range(others) = {}
  BY <1>1, OneRequest, EmptyRange
<1>3. Len(wire) <= 1
  OBVIOUS
<1>4. QueueOK
  BY <1>2, <1>3 DEF QueueOK
<1>5. DataOK /\ ConfigKept
  BY SynchronizedIs DEF DataOK, ConfigKept
<1>6. Demands = {Item("read")}
  BY <1>1, <1>2 DEF Demands, RW
<1>7. Fresh
  BY <1>1, <1>6 DEF Fresh
<1>8. SettledAgrees
  BY <1>1, <1>6, OutstandingIs DEF SettledAgrees
<1> QED BY <1>4, <1>5, <1>7, <1>8 DEF SInv

\* The same of the next state, after a restart of ESPHome.
LEMMA StartedKeeps ==
  ASSUME SetupAssumption, device' \in Devices, Started,
         IsConfiguration(motor)', \A s \in Setting : InRange(s, motor'[s]), UNCHANGED device
  PROVE SInv'
<1>0. /\ config' = Synchronized(device) /\ device \in Devices
      /\ state' = "SettingUp" /\ setup_state' = "IN_PROGRESS" /\ failed' = FALSE
      /\ wire' = <<Item("restart")>> /\ setups' = <<Item("read")>> /\ others' = << >> /\ open' = {}
  BY DEF Started
<1>1. IsItem(Item("restart")) /\ IsItem(Item("read"))
      /\ Item("restart").request = "restart" /\ Item("read").request = "read"
  BY PlainItem DEF Request
<1>2. /\ IsRequests(wire)' /\ Range(wire)' = {Item("restart")} /\ wire' # << >>
      /\ IsRequests(setups)' /\ Range(setups)' = {Item("read")}
      /\ IsRequests(others)' /\ Range(others)' = {}
  <2>1. /\ IsRequests(<<Item("restart")>>) /\ Range(<<Item("restart")>>) = {Item("restart")}
        /\ IsRequests(<<Item("read")>>) /\ Range(<<Item("read")>>) = {Item("read")}
        /\ <<Item("restart")>> # << >>
    BY <1>1, OneRequest
  <2> QED BY <1>0, <2>1, EmptyRange DEF IsRequests, Range
<1>3. Len(wire') <= 1
  BY <1>0
<1>4. QueueOK'
  BY <1>2, <1>3 DEF QueueOK
<1>5. DataOK' /\ ConfigKept'
  BY <1>0, SynchronizedIs DEF DataOK, ConfigKept
<1>6. Demands' = {Item("read")}
  BY <1>1, <1>2 DEF Demands, RW
<1>7. Fresh'
  BY <1>1, <1>6 DEF Fresh
<1>8. SettledAgrees'
  <2>1. ReadOutstanding' <=> \E x \in Demands' : x.request = "read"
    BY DEF ReadOutstanding, Reads, Demands, RW
  <2> QED BY <1>1, <1>6, <2>1 DEF SettledAgrees
<1> QED BY <1>4, <1>5, <1>7, <1>8 DEF SInv

LEMMA RebootKeeps == SetupAssumption /\ SInv /\ Reboot => SInv'
<1> SUFFICES ASSUME SetupAssumption, SInv, Reboot PROVE SInv'
  OBVIOUS
<1>0. PICK x : x = wire[1]
  OBVIOUS
<1>1. motor' = motor \/ \E r \in {"write", "key_lock"} : Ends(r) /\ motor' = Stored(motor, x.setting, x.value)
  BY <1>0 DEF Reboot
<1>2. IsConfiguration(motor)' /\ \A s \in Setting : InRange(s, motor'[s])
  <2>1. CASE motor' = motor
    BY <2>1 DEF SInv, DataOK
  <2>2. ASSUME NEW r \in {"write", "key_lock"}, Ends(r), motor' = Stored(motor, x.setting, x.value)
        PROVE IsConfiguration(motor)' /\ \A s \in Setting : InRange(s, motor'[s])
    <3>1. x.setting \in Setting /\ InRange(x.setting, x.value)
      BY <1>0, <2>2, EndsIs DEF IsItem
    <3> QED BY <2>2, <3>1, StoredIs DEF SInv, DataOK
  <2> QED BY <1>1, <2>1, <2>2
<1> QED BY <1>2, StartedKeeps DEF Reboot, SInv, DataOK

-----------------------------------------------------------------------------
(* The theorems.                                                           *)

\* SInv is inductive: it holds when the driver starts for the first time, and no
\* step breaks it.
THEOREM SetupInvariant == Spec => []SInv
<1> USE SetupAssumption
<1>1. Init => SInv
  BY JustStarted DEF Init, SetupAssumption
<1>2. SInv /\ [Next]_vars => SInv'
  <2> SUFFICES ASSUME SInv, [Next]_vars PROVE SInv'
    OBVIOUS
  <2>1. CASE RequestEnds
    BY <2>1, RequestEndsKeeps
  <2>2. CASE Call
    BY <2>2, CallKeeps
  <2>3. CASE StateExpires \/ Recover
    BY <2>3, PlainCallsKeep, ClearingCallsKeep
  <2>4. CASE SetupOverdue
    BY <2>4, QuietKeeps DEF SetupOverdue
  <2>5. CASE Reboot
    BY <2>5, RebootKeeps
  <2>6. CASE UNCHANGED vars
    BY <2>6, QuietKeeps DEF vars, stateVars
  <2> QED BY <2>1, <2>2, <2>3, <2>4, <2>5, <2>6 DEF Next
<1> QED BY <1>1, <1>2, PTL DEF Spec

\* The registers of the motor keep to their ranges, reads and writes come with
\* the priority of set-up, and nothing waits while the motor is free, whatever
\* is called and fails (servoxxd_command_queue.cpp:122-160).
THEOREM SetupTypeCorrect == Spec => []SetupTypeOK
<1>1. SInv => SetupTypeOK
  BY TypeIs DEF SInv
<1> QED BY <1>1, SetupInvariant, PTL

\* A motor for which nothing is outstanding has every setting that set-up
\* writes, as the configuration is now, but for the open ones and for those that
\* are read as another (ReadAlike): whatever its registers contained, however
\* many set-ups overlap, whatever is called meanwhile, and whenever requests fail
\* or ESPHome restarts (servoxxd_stepper_engine.cpp:122-533).
THEOREM SettledMotorAgrees == Spec => []SettledAgrees
<1>1. SInv => SettledAgrees
  BY DEF SInv
<1> QED BY <1>1, SetupInvariant, PTL

\* A set-up does not write again what the motor has, but for what it cannot
\* read back (servoxxd.h:350, servoxxd.cpp:505-571): as the values it would
\* write are within the range of the registers, it reads them as they are.
THEOREM SetupIsQuiet == Spec => QuietSetup
<1>1. ASSUME SInv, ReadSucceeds, NEW s \in Setting,
             InForce(s), ~Rewritten(s), ~Writes(setups, s)
      PROVE ~WriteOutstanding(s)'
  <2>1. CASE s \in Changed(Decoded(motor), config) \cap Written(device.homing_mode)
    <3>1. s # "en_trigger" /\ s # "nolimit" /\ s # "zero" /\ Decoded(motor)[s] # config[s]
          /\ (s = "homing" => device.homing_mode = "ENDSTOP")
      BY <1>1, <2>1 DEF Changed, Rewritten, Written, Setting
    <3>2. motor[s] = config[s]
      BY <1>1, <3>1 DEF InForce, Payload, SInv, ConfigKept
    <3>3. s = "holding_current_percent" => motor[s] \in 0 .. 8
      BY <1>1, <3>2 DEF SInv, DataOK
    <3>4. Decoded(motor)[s] = motor[s]
      <4>1. /\ s = "subdivision" =>
                 Decoded(motor)[s] = IF motor[s] = 256 THEN 1 ELSE motor[s]
            /\ s = "holding_current_percent" =>
                 Decoded(motor)[s] = IF motor[s] > 8 THEN 8 ELSE motor[s]
            /\ s \notin {"subdivision", "holding_current_percent"} => Decoded(motor)[s] = motor[s]
        BY <1>1, <3>1 DEF Decoded, IsConfiguration, SInv, DataOK, Setting
      <4>2. s = "subdivision" => motor[s] # 256
        BY <1>1, <3>2 DEF Rewritten
      <4> QED BY <3>3, <4>1, <4>2
    <3> QED BY <3>1, <3>2, <3>4
  <2>2. CASE s \notin Changed(Decoded(motor), config) \cap Written(device.homing_mode)
    <3>1. \A x \in Demands' : x.request = "write" => x \in RW(setups) \/ x.setting # s
      BY <1>1, <2>2, ReadAdds DEF Write
    <3>2. WriteOutstanding(s)' <=> \E x \in Demands' : x.request = "write" /\ x.setting = s
      BY DEF WriteOutstanding, Writes, Demands, RW
    <3> QED BY <1>1, <3>1, <3>2, OutstandingIs
  <2> QED BY <2>1, <2>2
<1>2. SInv =>
        (ReadSucceeds =>
           \A s \in Setting :
             InForce(s) /\ ~Rewritten(s) /\ ~Writes(setups, s) => ~WriteOutstanding(s)')
  BY <1>1
<1> QED BY <1>2, SetupInvariant, PTL DEF QuietSetup, Spec
=============================================================================
