----------------------------- MODULE Intervals -----------------------------
(***************************************************************************)
(* The arithmetic of transmit intervals and detection times, in the        *)
(* integer widths of the code.  Intervals are uint32_t, in microseconds.   *)
(*                                                                         *)
(* TLC cannot count to 2^32, and the interesting values are those next to  *)
(* it: what is said here is proved.                                        *)
(***************************************************************************)
EXTENDS Integers, TLAPS

U32 == 256 * 256 * 256 * 256
MaxU32 == U32 - 1
Uint32 == 0 .. MaxU32

(* detect_mult is an uint8_t; 0 is refused (SessionConf, BfdSession). *)
Mults == 1 .. 255

(* Slow intervals, bbdd_prog_slow_interval_us *)
SlowInterval == 1000 * 1000

Larger(a, b) == IF a > b THEN a ELSE b

-----------------------------------------------------------------------------
(* __bbdd_bpf_session_update: what the session may wait between packets,   *)
(* where tx is the effective DesiredMinTxInterval and rx is the            *)
(* RequiredMinRxInterval of the peer.                                      *)

IntervalUs(down, tx, rx) == IF down THEN SlowInterval ELSE Larger(tx, rx)

MinIntervalUs(down, interval) ==
  IF down THEN interval ELSE ((interval * 75) % U32) \div 100

MaxIntervalUs(down, interval, mult) ==
  IF down THEN interval
  ELSE IF mult = 1 THEN ((interval * 90) % U32) \div 100
  ELSE interval

(* bbdd_xmit_veth_tx: the delay of the next packet.  The difference wraps  *)
(* in 32 bits; the product with a random number has 64 of them.            *)
Spread(min, max) == (max - min) % U32

DelayUs(min, max, random) == (random * Spread(min, max)) \div MaxU32 + min

(* bbdd_bpf_session_detect_time_us, where rx is the effective              *)
(* RequiredMinRxInterval and tx and mult are what the peer announces.      *)
DetectTimeUs(rx, tx, mult) ==
  IF Larger(rx, tx) > MaxU32 \div mult THEN MaxU32
  ELSE (Larger(rx, tx) * mult) % U32

-----------------------------------------------------------------------------
(* The greatest intervals whose products with 75 and with 90 fit:          *)
(* 57 266 230 and 47 721 858 microseconds.                                 *)
SafeInterval == MaxU32 \div 75
SafeInterval1 == MaxU32 \div 90

(* The constants of the widths are numbers, as the steps below use them. *)
LEMMA Widths ==
  /\ MaxU32 \in Nat /\ MaxU32 > 0
  /\ U32 = MaxU32 + 1
  /\ \A n \in Uint32 : n \in Nat /\ n <= MaxU32
<1>1. U32 \in Nat /\ U32 > 1
  BY DEF U32
<1>2. MaxU32 \in Nat /\ MaxU32 > 0 /\ U32 = MaxU32 + 1
  BY <1>1 DEF MaxU32
<1> QED BY <1>2 DEF Uint32

(* Scaling keeps the order of two intervals. *)
LEMMA TimesMonotonic ==
  ASSUME NEW a \in Nat, NEW b \in Nat, NEW c \in Nat, a <= b
  PROVE  a * c \in Nat /\ b * c \in Nat /\ a * c <= b * c
<1> DEFINE d == b - a
<1>1. d \in Nat /\ b = a + d
  OBVIOUS
<1> HIDE DEF d
<1>2. b * c = a * c + d * c
  BY <1>1
<1>3. a * c \in Nat /\ d * c \in Nat
  BY <1>1
<1> QED BY <1>2, <1>3

(* What the integer division of C computes. *)
LEMMA Quotient ==
  ASSUME NEW a \in Nat, NEW b \in Nat, b > 0
  PROVE  /\ a \div b \in Nat
         /\ (a \div b) * b <= a
         /\ a < ((a \div b) + 1) * b
<1>1. a \div b \in Nat
  OBVIOUS
<1>2. a = (a \div b) * b + (a % b) /\ a % b \in 0 .. b - 1
  OBVIOUS
<1>3. ((a \div b) + 1) * b = (a \div b) * b + b
  BY <1>1
<1>4. (a \div b) * b \in Nat
  BY <1>1
<1> QED BY <1>1, <1>2, <1>3, <1>4

(* A fraction r / MaxU32 of d, rounded down, is at most d. *)
LEMMA ScaledDown ==
  ASSUME NEW r \in Uint32, NEW d \in Nat
  PROVE  /\ (r * d) \div MaxU32 \in Nat
         /\ (r * d) \div MaxU32 <= d
<1> DEFINE p == r * d
           q == p \div MaxU32
<1>1. p \in Nat /\ p <= MaxU32 * d
  BY Widths, TimesMonotonic
<1> HIDE DEF p
<1>2. q \in Nat /\ q * MaxU32 <= p
  BY <1>1, Widths, Quotient
<1> HIDE DEF q
<1>3. q <= d
  <2> SUFFICES ASSUME d + 1 <= q PROVE FALSE
    BY <1>2
  <2>1. (d + 1) * MaxU32 <= q * MaxU32
    BY <1>2, Widths, TimesMonotonic
  <2>2. (d + 1) * MaxU32 = MaxU32 * d + MaxU32
    BY Widths
  <2>3. q * MaxU32 \in Nat /\ MaxU32 * d \in Nat
    BY <1>2, Widths
  <2> QED BY <1>1, <1>2, <2>1, <2>2, <2>3, Widths
<1> QED BY <1>2, <1>3 DEF p, q

(* For an interval of up to 57.2 s (47.7 s with a detect_mult of 1) the    *)
(* looper waits between three quarters of the interval, rounded down, and  *)
(* the interval, or nine tenths of it if detect_mult is 1, whatever the    *)
(* random number ("system MUST NOT transmit BFD Control packets at an      *)
(* interval less than the larger of [...], less applied jitter").          *)
THEOREM JitterIsApplied ==
  ASSUME NEW interval \in Nat, NEW mult \in Mults, NEW random \in Uint32,
         interval <= IF mult = 1 THEN SafeInterval1 ELSE SafeInterval
  PROVE  LET delay == DelayUs(MinIntervalUs(FALSE, interval),
                              MaxIntervalUs(FALSE, interval, mult), random)
         IN  /\ 100 * (delay + 1) > 75 * interval
             /\ delay <= interval
             /\ mult = 1 => 100 * delay <= 90 * interval
<1> DEFINE min == MinIntervalUs(FALSE, interval)
           max == MaxIntervalUs(FALSE, interval, mult)
           s == Spread(min, max)
           e == (random * s) \div MaxU32
<1>1. /\ min \in Nat
      /\ 100 * min <= 75 * interval
      /\ 100 * (min + 1) > 75 * interval
  BY DEF MinIntervalUs, SafeInterval, SafeInterval1, MaxU32, U32
<1>2. /\ max \in Nat /\ max < U32
      /\ max <= interval
      /\ mult = 1 => 100 * max <= 90 * interval
      /\ min <= max
  BY <1>1 DEF MinIntervalUs, MaxIntervalUs, SafeInterval, SafeInterval1, MaxU32, U32
<1> HIDE DEF min, max
<1>3. s = max - min /\ s \in Nat
  BY <1>1, <1>2 DEF Spread, U32
<1> HIDE DEF s
<1>4. e \in Nat /\ e <= s
  BY <1>3, ScaledDown
<1> HIDE DEF e
<1>5. e + min >= min /\ e + min <= max /\ e + min \in Nat
  BY <1>1, <1>2, <1>3, <1>4
<1>6. DelayUs(min, max, random) = e + min
  BY DEF DelayUs, e, s
<1> HIDE DEF e
<1>7. /\ 100 * (e + min + 1) > 75 * interval
      /\ e + min <= interval
      /\ mult = 1 => 100 * (e + min) <= 90 * interval
  BY <1>1, <1>2, <1>5
<1> QED BY <1>6, <1>7 DEF min, max

(* One microsecond above that bound the product wraps: a session with an   *)
(* interval of 57.3 s may send its next packet at once.                    *)
THEOREM JitterWraps ==
  DelayUs(MinIntervalUs(FALSE, SafeInterval + 1),
          MaxIntervalUs(FALSE, SafeInterval + 1, 3), 0) = 0
<1>1. MinIntervalUs(FALSE, SafeInterval + 1) = 0
  BY DEF MinIntervalUs, SafeInterval, MaxU32, U32
<1>2. MaxIntervalUs(FALSE, SafeInterval + 1, 3) = SafeInterval + 1
  BY DEF MaxIntervalUs
<1>3. Spread(0, SafeInterval + 1) \in Nat
  BY DEF Spread, SafeInterval, MaxU32, U32
<1>4. 0 * Spread(0, SafeInterval + 1) = 0
  BY <1>3
<1>5. 0 \div MaxU32 = 0
  BY Widths
<1>6. DelayUs(0, SafeInterval + 1, 0) = 0
  BY <1>4, <1>5 DEF DelayUs
<1> QED BY <1>1, <1>2, <1>6

(* The slow rate of a session that is down is kept exactly. *)
THEOREM SlowRateIsExact ==
  ASSUME NEW tx \in Uint32, NEW rx \in Uint32, NEW mult \in Mults,
         NEW random \in Uint32
  PROVE  LET interval == IntervalUs(TRUE, tx, rx)
         IN  DelayUs(MinIntervalUs(TRUE, interval),
                     MaxIntervalUs(TRUE, interval, mult), random)
               = SlowInterval
<1>1. Spread(SlowInterval, SlowInterval) = 0
  BY DEF Spread, SlowInterval, U32
<1>2. random * 0 = 0 /\ 0 \div MaxU32 = 0
  BY Widths
<1>3. SlowInterval \in Nat
  BY DEF SlowInterval
<1>4. DelayUs(SlowInterval, SlowInterval, random) = SlowInterval
  BY <1>1, <1>2, <1>3 DEF DelayUs
<1> QED BY <1>4 DEF IntervalUs, MinIntervalUs, MaxIntervalUs

(* The detection time is the agreed interval times the multiplier of the   *)
(* peer, or UINT32_MAX if that does not fit: it saturates and never wraps, *)
(* so that it is never shorter than the agreed interval.                   *)
THEOREM DetectTimeSaturates ==
  ASSUME NEW rx \in Uint32, NEW tx \in Uint32, NEW mult \in Mults
  PROVE  LET agreed == Larger(rx, tx)
             time == DetectTimeUs(rx, tx, mult)
         IN  /\ time = IF agreed * mult > MaxU32 THEN MaxU32 ELSE agreed * mult
             /\ time >= agreed
<1> DEFINE agreed == Larger(rx, tx)
           limit == MaxU32 \div mult
           p == agreed * mult
<1>1. agreed \in Nat /\ agreed <= MaxU32 /\ mult \in Nat /\ mult >= 1
  BY Widths DEF Larger, Mults
<1>2. limit \in Nat /\ limit * mult <= MaxU32 /\ MaxU32 < (limit + 1) * mult
  BY Widths, Quotient DEF Mults
<1> HIDE DEF agreed, limit
<1>3. p \in Nat /\ p >= agreed
  <2>1. 1 * agreed <= mult * agreed /\ mult * agreed \in Nat
    BY <1>1, TimesMonotonic
  <2>2. mult * agreed = agreed * mult
    BY <1>1
  <2> QED BY <1>1, <2>1, <2>2
<1>4. agreed > limit <=> p > MaxU32
  <2>1. ASSUME agreed > limit PROVE p > MaxU32
    <3>1. limit + 1 <= agreed
      BY <1>1, <1>2, <2>1
    <3>2. (limit + 1) * mult \in Nat /\ (limit + 1) * mult <= agreed * mult
      BY <1>1, <1>2, <3>1, TimesMonotonic
    <3> QED BY <1>1, <1>2, <1>3, <3>2, Widths
  <2>2. ASSUME agreed <= limit PROVE p <= MaxU32
    <3>1. limit * mult \in Nat /\ agreed * mult <= limit * mult
      BY <1>1, <1>2, <2>2, TimesMonotonic
    <3> QED BY <1>1, <1>2, <1>3, <3>1, Widths
  <2> HIDE DEF p
  <2> QED BY <1>1, <1>2, <1>3, <2>1, <2>2, Widths
<1>5. DetectTimeUs(rx, tx, mult) = IF agreed > limit THEN MaxU32 ELSE p % U32
  BY DEF DetectTimeUs, agreed, limit
<1> HIDE DEF p
<1>6. p <= MaxU32 => p % U32 = p
  BY <1>3, Widths
<1>7. DetectTimeUs(rx, tx, mult) = IF p > MaxU32 THEN MaxU32 ELSE p
  BY <1>3, <1>4, <1>5, <1>6, Widths
<1>8. DetectTimeUs(rx, tx, mult) >= agreed
  BY <1>1, <1>3, <1>7, Widths
<1> QED BY <1>7, <1>8 DEF p, agreed
=============================================================================
