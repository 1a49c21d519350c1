---------------------------- MODULE TimersProofs ----------------------------
(***************************************************************************)
(* Proofs about the timers, for any set of timers, any delays and any      *)
(* bound on the clock: the walk is safe, the timerfd is armed, and the     *)
(* implementation refines the alarm clock.                                 *)
(***************************************************************************)
EXTENDS Timers, SequenceTheorems, TLAPS

(* A step that names no prover is left to Z3 or Zenon. *)
USE SMTT(15), ZenonT(15), Z3T(30)

-----------------------------------------------------------------------------
(* The inductive invariant *)

(* The list is in the order of the deadlines. *)
Sorted ==
  \A i, j \in DOMAIN list : i < j => deadline[list[i]] <= deadline[list[j]]

(* The walk has come as far as x, or to the end if x is None: the timers   *)
(* that are due rang if and only if they come before x.                    *)
WalkedTo(x) ==
  /\ x \in Listed \cup {None}
  /\ \A i \in DOMAIN list :
       Due(list[i]) =>
         (fate[list[i]] = "none" <=> \E j \in 1 .. i : list[j] = x)

(* The timers up to the k-th rang, and no other did. *)
RangUpTo(k) ==
  /\ \A i \in 1 .. k : Due(list[i]) /\ fate[list[i]] = "rung"
  /\ \A i \in k + 1 .. Len(list) : fate[list[i]] = "none"

InWalk ==
  phase = "walk" => WalkedTo(timer) /\ failed = None

InCallback ==
  phase = "callback" =>
    /\ WalkedTo(tmp)
    /\ failed = None
    /\ timer # None
    /\ \A k \in DOMAIN list :
         list[k] = timer /\ fate[timer] = "rung" => RangUpTo(k)

InReap ==
  phase = "reap" =>
    /\ failed = None =>
         \A i \in DOMAIN list : Due(list[i]) => fate[list[i]] = "rung"
    /\ failed # None => \E k \in DOMAIN list : list[k] = failed /\ RangUpTo(k)

InIdle ==
  phase = "idle" => failed = None /\ \A t \in Listed : fate[t] = "none"

Fates ==
  phase # "idle" =>
    /\ now_ns <= now
    /\ \A t \in Listed :
         fate[t] = "none" \/ (fate[t] = "rung" /\ Due(t))

IInv ==
  /\ TypeOK
  /\ Sorted
  /\ Fates
  /\ InWalk
  /\ InCallback
  /\ InReap
  /\ InIdle
  /\ ArmedForHead

-----------------------------------------------------------------------------
(* What the operations do to the list, position by position *)

NoRepeat(s) == \A i, j \in DOMAIN s : s[i] = s[j] => i = j

(* DL_INSERT_INORDER shifts the timers from the k-th on. *)
LEMMA InsertAt ==
  ASSUME NEW k \in 1 .. Len(list) + 1, NEW t \in Timer,
         list \in Seq(Timer)
  PROVE  LET s == Insert(k, t)
         IN  /\ s \in Seq(Timer)
             /\ Len(s) = Len(list) + 1
             /\ DOMAIN s = 1 .. Len(list) + 1
             /\ \A i \in 1 .. k - 1 : s[i] = list[i]
             /\ s[k] = t
             /\ \A i \in k + 1 .. Len(list) + 1 : s[i] = list[i - 1]
<1> DEFINE n == Len(list)
           a == SubSeq(list, 1, k - 1)
           c == SubSeq(list, k, n)
           b == a \o <<t>>
           s == b \o c
<1>1. n \in Nat /\ \A i \in 1 .. n : list[i] \in Timer
  OBVIOUS
<1>2. /\ a \in Seq(Timer)
      /\ Len(a) = k - 1
      /\ \A i \in 1 .. k - 1 : a[i] = list[i]
  <2>1. \A i \in 1 .. k - 1 : list[i] \in Timer
    BY <1>1
  <2>2. Len(a) = IF 1 <= k - 1 THEN k - 1 - 1 + 1 ELSE 0
    BY <2>1, SubSeqProperties
  <2>3. a \in Seq(Timer) /\ \A i \in 1 .. k - 1 - 1 + 1 : a[i] = list[1 + i - 1]
    BY <2>1, SubSeqProperties
  <2> QED BY <2>2, <2>3
<1>3. /\ c \in Seq(Timer)
      /\ Len(c) = n - k + 1
      /\ \A i \in 1 .. n - k + 1 : c[i] = list[k + i - 1]
  <2>1. \A i \in k .. n : list[i] \in Timer
    BY <1>1
  <2>2. Len(c) = IF k <= n THEN n - k + 1 ELSE 0
    BY <1>1, <2>1, SubSeqProperties
  <2>3. c \in Seq(Timer) /\ \A i \in 1 .. n - k + 1 : c[i] = list[k + i - 1]
    BY <1>1, <2>1, SubSeqProperties
  <2> QED BY <1>1, <2>2, <2>3
<1>4. <<t>> \in Seq(Timer) /\ Len(<<t>>) = 1 /\ <<t>>[1] = t
  OBVIOUS
<1> HIDE DEF a, c
<1>5. /\ b \in Seq(Timer)
      /\ Len(b) = k
      /\ \A i \in 1 .. k : b[i] = IF i <= k - 1 THEN a[i] ELSE <<t>>[i - (k - 1)]
  <2>1. Len(b) = Len(a) + 1 /\ b \in Seq(Timer)
    BY <1>2, <1>4, ConcatProperties
  <2>2. \A i \in 1 .. Len(a) + Len(<<t>>) :
          b[i] = IF i <= Len(a) THEN a[i] ELSE <<t>>[i - Len(a)]
    BY <1>2, <1>4, ConcatProperties
  <2> QED BY <1>2, <1>4, <2>1, <2>2
<1> HIDE DEF b
<1>6. /\ s \in Seq(Timer)
      /\ Len(s) = n + 1
      /\ \A i \in 1 .. n + 1 : s[i] = IF i <= k THEN b[i] ELSE c[i - k]
  <2>1. Len(s) = Len(b) + Len(c) /\ s \in Seq(Timer)
    BY <1>3, <1>5, ConcatProperties, Zenon
  <2>2. \A i \in 1 .. Len(b) + Len(c) :
          s[i] = IF i <= Len(b) THEN b[i] ELSE c[i - Len(b)]
    BY <1>3, <1>5, ConcatProperties
  <2>3. Len(b) + Len(c) = n + 1
    BY <1>1, <1>3, <1>5
  <2> QED BY <1>5, <2>1, <2>2, <2>3
<1>7. s = Insert(k, t)
  BY DEF Insert, a, b, c
<1> HIDE DEF s
<1>8. \A i \in 1 .. k - 1 : s[i] = list[i]
  BY <1>1, <1>2, <1>5, <1>6
<1>9. s[k] = t
  BY <1>1, <1>4, <1>5, <1>6
<1>10. \A i \in k + 1 .. n + 1 : s[i] = list[i - 1]
  <2> SUFFICES ASSUME NEW i \in k + 1 .. n + 1 PROVE s[i] = list[i - 1]
    OBVIOUS
  <2>1. s[i] = c[i - k]
    BY <1>1, <1>6
  <2>2. i - k \in 1 .. n - k + 1 /\ k + (i - k) - 1 = i - 1
    BY <1>1
  <2> QED BY <1>3, <2>1, <2>2
<1>11. DOMAIN s = 1 .. n + 1
  BY <1>6
<1> QED BY <1>6, <1>7, <1>8, <1>9, <1>10, <1>11

(* The position of a timer that is on the list *)
LEMMA PosIs ==
  ASSUME NEW t \in Listed
  PROVE  Pos(t) \in DOMAIN list /\ list[Pos(t)] = t
BY DEF Listed, Pos

(* DL_DELETE closes the gap. *)
LEMMA DeleteAt ==
  ASSUME NEW t \in Listed, list \in Seq(Timer)
  PROVE  LET s == Delete(t)
             p == Pos(t)
         IN  /\ s \in Seq(Timer)
             /\ Len(s) = Len(list) - 1
             /\ DOMAIN s = 1 .. Len(list) - 1
             /\ \A i \in 1 .. p - 1 : s[i] = list[i]
             /\ \A i \in p .. Len(list) - 1 : s[i] = list[i + 1]
<1> DEFINE n == Len(list)
           p == Pos(t)
           a == SubSeq(list, 1, p - 1)
           c == SubSeq(list, p + 1, n)
           s == a \o c
<1>1. n \in Nat /\ \A i \in 1 .. n : list[i] \in Timer
  OBVIOUS
<1>2. p \in 1 .. n
  BY PosIs
<1>3. s = Delete(t)
  BY DEF Delete
<1> HIDE DEF p
<1>4. /\ a \in Seq(Timer)
      /\ Len(a) = p - 1
      /\ \A i \in 1 .. p - 1 : a[i] = list[i]
  <2>1. \A i \in 1 .. p - 1 : list[i] \in Timer
    BY <1>1, <1>2
  <2>2. Len(a) = IF 1 <= p - 1 THEN p - 1 - 1 + 1 ELSE 0
    BY <1>2, <2>1, SubSeqProperties
  <2>3. a \in Seq(Timer) /\ \A i \in 1 .. p - 1 - 1 + 1 : a[i] = list[1 + i - 1]
    BY <1>2, <2>1, SubSeqProperties
  <2> QED BY <1>2, <2>2, <2>3
<1>5. /\ c \in Seq(Timer)
      /\ Len(c) = n - p
      /\ \A i \in 1 .. n - p : c[i] = list[p + i]
  <2>1. \A i \in p + 1 .. n : list[i] \in Timer
    BY <1>1, <1>2
  <2>2. Len(c) = IF p + 1 <= n THEN n - (p + 1) + 1 ELSE 0
    BY <1>1, <1>2, <2>1, SubSeqProperties
  <2>3. /\ c \in Seq(Timer)
        /\ \A i \in 1 .. n - (p + 1) + 1 : c[i] = list[p + 1 + i - 1]
    BY <1>1, <1>2, <2>1, SubSeqProperties
  <2>4. \A i \in 1 .. n - p : i \in 1 .. n - (p + 1) + 1 /\ p + 1 + i - 1 = p + i
    BY <1>1, <1>2
  <2> QED BY <1>1, <1>2, <2>2, <2>3, <2>4
<1> HIDE DEF a, c
<1>6. /\ s \in Seq(Timer)
      /\ Len(s) = n - 1
      /\ \A i \in 1 .. n - 1 : s[i] = IF i <= p - 1 THEN a[i] ELSE c[i - (p - 1)]
  <2>1. Len(s) = Len(a) + Len(c) /\ s \in Seq(Timer)
    BY <1>4, <1>5, ConcatProperties
  <2>2. \A i \in 1 .. Len(a) + Len(c) :
          s[i] = IF i <= Len(a) THEN a[i] ELSE c[i - Len(a)]
    BY <1>4, <1>5, ConcatProperties
  <2>3. Len(a) + Len(c) = n - 1
    BY <1>1, <1>2, <1>4, <1>5
  <2> QED BY <1>4, <2>1, <2>2, <2>3
<1> HIDE DEF s
<1>7. \A i \in 1 .. p - 1 : s[i] = list[i]
  <2> SUFFICES ASSUME NEW i \in 1 .. p - 1 PROVE s[i] = list[i]
    OBVIOUS
  <2>1. i \in 1 .. n - 1 /\ i <= p - 1
    BY <1>1, <1>2
  <2>2. s[i] = a[i]
    BY <1>6, <2>1
  <2> QED BY <1>4, <2>2
<1>8. \A i \in p .. n - 1 : s[i] = list[i + 1]
  <2> SUFFICES ASSUME NEW i \in p .. n - 1 PROVE s[i] = list[i + 1]
    OBVIOUS
  <2>0. i \in 1 .. n - 1 /\ ~(i <= p - 1)
    BY <1>1, <1>2
  <2>1. s[i] = c[i - (p - 1)]
    BY <1>6, <2>0
  <2>2. i - (p - 1) \in 1 .. n - p /\ p + (i - (p - 1)) = i + 1
    BY <1>1, <1>2
  <2> QED BY <1>5, <2>1, <2>2
<1>9. DOMAIN s = 1 .. n - 1
  BY <1>1, <1>2, <1>6
<1> HIDE DEF n
<1>10. /\ s \in Seq(Timer)
       /\ Len(s) = n - 1
       /\ DOMAIN s = 1 .. n - 1
       /\ \A i \in 1 .. p - 1 : s[i] = list[i]
       /\ \A i \in p .. n - 1 : s[i] = list[i + 1]
  BY <1>6, <1>7, <1>8, <1>9
<1> QED BY <1>3, <1>10, Zenon DEF n, p

(* The second pass drops the first n timers. *)
LEMMA SuffixAt ==
  ASSUME NEW n \in 0 .. Len(list), list \in Seq(Timer)
  PROVE  LET s == SubSeq(list, n + 1, Len(list))
         IN  /\ s \in Seq(Timer)
             /\ Len(s) = Len(list) - n
             /\ DOMAIN s = 1 .. Len(list) - n
             /\ \A i \in 1 .. Len(list) - n : s[i] = list[i + n]
<1> DEFINE m == Len(list)
           s == SubSeq(list, n + 1, m)
<1>1. m \in Nat /\ \A i \in 1 .. m : list[i] \in Timer
  OBVIOUS
<1>2. \A i \in n + 1 .. m : list[i] \in Timer
  BY <1>1
<1>3. Len(s) = IF n + 1 <= m THEN m - (n + 1) + 1 ELSE 0
  BY <1>1, <1>2, SubSeqProperties
<1>4. /\ s \in Seq(Timer)
      /\ \A i \in 1 .. m - (n + 1) + 1 : s[i] = list[n + 1 + i - 1]
  BY <1>1, <1>2, SubSeqProperties
<1> HIDE DEF s
<1>5. \A i \in 1 .. m - n : i \in 1 .. m - (n + 1) + 1 /\ n + 1 + i - 1 = i + n
  BY <1>1
<1>6. Len(s) = m - n
  BY <1>1, <1>3
<1>7. DOMAIN s = 1 .. m - n
  BY <1>4, <1>6
<1> QED BY <1>4, <1>5, <1>6, <1>7 DEF s

-----------------------------------------------------------------------------
(* The operations on the list keep it sorted and free of repetitions. *)

Inserted(k, t) ==
  /\ list' \in Seq(Timer)
  /\ Len(list') = Len(list) + 1
  /\ DOMAIN list' = 1 .. Len(list) + 1
  /\ \A i \in 1 .. k - 1 : list'[i] = list[i]
  /\ list'[k] = t
  /\ \A i \in k + 1 .. Len(list) + 1 : list'[i] = list[i - 1]

Removed(p) ==
  /\ list' \in Seq(Timer)
  /\ Len(list') = Len(list) - 1
  /\ DOMAIN list' = 1 .. Len(list) - 1
  /\ \A i \in 1 .. p - 1 : list'[i] = list[i]
  /\ \A i \in p .. Len(list) - 1 : list'[i] = list[i + 1]

Dropped(n) ==
  /\ list' \in Seq(Timer)
  /\ Len(list') = Len(list) - n
  /\ DOMAIN list' = 1 .. Len(list) - n
  /\ \A i \in 1 .. Len(list) - n : list'[i] = list[i + n]

(* bbdd_timer_set: the new timer is where its deadline puts it. *)
LEMMA EnlistStep ==
  ASSUME TypeOK, Sorted, NEW t \in Timer, t \notin Listed,
         NEW at \in 0 .. MaxTime, Enlist(t, at)
  PROVE  /\ \E k \in 1 .. Len(list) + 1 : InsertPoint(k, at) /\ Inserted(k, t)
         /\ NoRepeat(list')
         /\ Sorted'
         /\ Listed' = Listed \cup {t}
         /\ deadline' \in [Timer -> 0 .. MaxTime]
         /\ deadline'[t] = at
         /\ \A x \in Timer \ {t} : deadline'[x] = deadline[x]
<1>1. /\ list \in Seq(Timer)
      /\ Len(list) \in Nat
      /\ DOMAIN list = 1 .. Len(list)
      /\ \A i, j \in 1 .. Len(list) : list[i] = list[j] => i = j
      /\ \A i \in 1 .. Len(list) : list[i] \in Timer /\ list[i] # t
      /\ deadline \in [Timer -> 0 .. MaxTime]
  BY DEF TypeOK, Listed
<1>2. /\ deadline' \in [Timer -> 0 .. MaxTime]
      /\ deadline'[t] = at
      /\ \A x \in Timer \ {t} : deadline'[x] = deadline[x]
  BY <1>1 DEF Enlist
<1>3. PICK k \in 1 .. Len(list) + 1 : InsertPoint(k, at) /\ list' = Insert(k, t)
  BY DEF Enlist
<1>4. Inserted(k, t)
  <2> DEFINE s == Insert(k, t)
  <2>1. /\ s \in Seq(Timer)
        /\ Len(s) = Len(list) + 1
        /\ DOMAIN s = 1 .. Len(list) + 1
        /\ \A i \in 1 .. k - 1 : s[i] = list[i]
        /\ s[k] = t
        /\ \A i \in k + 1 .. Len(list) + 1 : s[i] = list[i - 1]
    BY <1>1, InsertAt
  <2>2. list' = s
    BY <1>3
  <2> HIDE DEF s
  <2> QED BY <2>1, <2>2 DEF Inserted
<1> DEFINE n == Len(list)
           old(i) == IF i < k THEN i ELSE i - 1
<1>5. \A i \in 1 .. n + 1 :
        /\ i = k => list'[i] = t
        /\ i # k => old(i) \in 1 .. n /\ list'[i] = list[old(i)]
  <2> SUFFICES ASSUME NEW i \in 1 .. n + 1
               PROVE  /\ i = k => list'[i] = t
                      /\ i # k => old(i) \in 1 .. n /\ list'[i] = list[old(i)]
    OBVIOUS
  <2>1. CASE i < k
    BY <1>1, <1>4, <2>1 DEF Inserted
  <2>2. CASE i = k
    BY <1>4, <2>2 DEF Inserted
  <2>3. CASE i > k
    BY <1>1, <1>4, <2>3 DEF Inserted
  <2> QED BY <2>1, <2>2, <2>3
<1>6. DOMAIN list' = 1 .. n + 1
  BY <1>4 DEF Inserted
<1>7. NoRepeat(list')
  <2> SUFFICES ASSUME NEW i \in 1 .. n + 1, NEW j \in 1 .. n + 1,
                      list'[i] = list'[j]
               PROVE  i = j
    BY <1>6 DEF NoRepeat
  <2>1. CASE i = k \/ j = k
    BY <1>1, <1>5, <2>1
  <2>2. CASE i # k /\ j # k
    <3>1. old(i) = old(j)
      BY <1>1, <1>5, <2>2, Zenon
    <3> QED BY <1>1, <2>2, <3>1
  <2> QED BY <2>1, <2>2
<1>8. Listed' = Listed \cup {t}
  <2>1. ASSUME NEW x \in Listed' PROVE x \in Listed \cup {t}
    <3>1. PICK i \in 1 .. n + 1 : x = list'[i]
      BY <1>6 DEF Listed
    <3>2. CASE i = k
      BY <1>5, <3>1, <3>2, Zenon
    <3>3. CASE i # k
      <4>1. old(i) \in DOMAIN list /\ x = list[old(i)]
        BY <1>1, <1>5, <3>1, <3>3, Zenon
      <4> QED BY <4>1, Zenon DEF Listed
    <3> QED BY <3>2, <3>3, Zenon
  <2>2. t \in Listed'
    BY <1>1, <1>5, <1>6 DEF Listed
  <2>3. \A j \in 1 .. n : list[j] \in Listed'
    <3> SUFFICES ASSUME NEW j \in 1 .. n PROVE list[j] \in Listed'
      OBVIOUS
    <3>1. CASE j < k
      <4>1. list'[j] = list[j] /\ j \in DOMAIN list'
        BY <1>1, <1>4, <3>1 DEF Inserted
      <4> QED BY <4>1 DEF Listed
    <3>2. CASE j >= k
      <4>1. j + 1 \in k + 1 .. n + 1 /\ j + 1 - 1 = j
        BY <1>1, <3>2
      <4>2. /\ \A i \in k + 1 .. n + 1 : list'[i] = list[i - 1]
            /\ DOMAIN list' = 1 .. n + 1
        BY <1>4 DEF Inserted
      <4>3. list'[j + 1] = list[j]
        BY <4>1, <4>2
      <4>4. j + 1 \in DOMAIN list'
        BY <1>1, <4>2
      <4> QED BY <4>3, <4>4 DEF Listed
    <3> QED BY <1>1, <3>1, <3>2
  <2>4. \A x \in Listed : x \in Listed'
    BY <1>1, <2>3 DEF Listed
  <2> QED BY <2>1, <2>2, <2>4
<1>9. Sorted'
  <2> SUFFICES ASSUME NEW i \in 1 .. n + 1, NEW j \in 1 .. n + 1, i < j
               PROVE  deadline'[list'[i]] <= deadline'[list'[j]]
    BY <1>6 DEF Sorted
  <2>1. \A a \in 1 .. n : /\ deadline'[list[a]] = deadline[list[a]]
                        /\ deadline[list[a]] \in Nat
    BY <1>1, <1>2
  <2>2. \A a, b \in 1 .. n : a <= b => deadline[list[a]] <= deadline[list[b]]
    <3> SUFFICES ASSUME NEW a \in 1 .. n, NEW b \in 1 .. n, a <= b
                 PROVE  deadline[list[a]] <= deadline[list[b]]
      OBVIOUS
    <3>1. CASE a = b
      BY <2>1, <3>1
    <3>2. CASE a < b
      BY <1>1, <3>2, Zenon DEF Sorted
    <3> QED BY <3>1, <3>2
  <2>3. CASE i = k
    <3>1. k <= n /\ old(j) \in 1 .. n /\ k <= old(j)
      BY <1>1, <2>3
    <3>2. at <= deadline[list[k]]
      BY <1>3, <3>1 DEF InsertPoint
    <3>3. deadline[list[k]] <= deadline[list[old(j)]]
      BY <2>2, <3>1
    <3>4. deadline[list[k]] \in Nat /\ deadline[list[old(j)]] \in Nat
      BY <2>1, <3>1
    <3>5. at <= deadline[list[old(j)]]
      BY <3>2, <3>3, <3>4
    <3>6. list'[i] = t /\ list'[j] = list[old(j)]
      BY <1>5, <2>3
    <3>7. deadline'[list'[i]] = at /\ deadline'[list'[j]] = deadline[list[old(j)]]
      BY <1>2, <2>1, <3>1, <3>6
    <3> QED BY <3>5, <3>7
  <2>4. CASE j = k
    <3>1. i \in 1 .. k - 1 /\ i \in 1 .. n
      BY <1>1, <2>4
    <3>2. deadline[list[i]] < at
      BY <1>3, <3>1 DEF InsertPoint
    <3>3. deadline'[list'[i]] = deadline[list[i]] /\ deadline'[list'[j]] = at
      BY <1>1, <1>2, <1>4, <2>1, <2>4, <3>1 DEF Inserted
    <3> QED BY <2>1, <3>1, <3>2, <3>3
  <2>5. CASE i # k /\ j # k
    <3>1. old(i) \in 1 .. n /\ old(j) \in 1 .. n /\ old(i) <= old(j)
      BY <1>1, <2>5
    <3>2. deadline[list[old(i)]] <= deadline[list[old(j)]]
      BY <2>2, <3>1
    <3>3. /\ deadline'[list'[i]] = deadline[list[old(i)]]
          /\ deadline'[list'[j]] = deadline[list[old(j)]]
      <4>1. list'[i] = list[old(i)] /\ list'[j] = list[old(j)]
        BY <1>5, <2>5, Zenon
      <4> QED BY <2>1, <2>5, <3>1, <4>1
    <3> QED BY <3>2, <3>3
  <2> QED BY <2>3, <2>4, <2>5
<1> QED BY <1>2, <1>3, <1>4, <1>7, <1>8, <1>9

(* bbdd_timer_cancel: the others stay in their order. *)
LEMMA UnscheduleStep ==
  ASSUME TypeOK, Sorted, NEW t \in Listed, list' = Delete(t),
         deadline' = deadline
  PROVE  /\ Pos(t) \in DOMAIN list /\ list[Pos(t)] = t
         /\ Removed(Pos(t))
         /\ NoRepeat(list')
         /\ Sorted'
         /\ Listed' = Listed \ {t}
<1> DEFINE n == Len(list)
           p == Pos(t)
           old(i) == IF i < p THEN i ELSE i + 1
<1>1. /\ list \in Seq(Timer)
      /\ n \in Nat
      /\ DOMAIN list = 1 .. n
      /\ \A i, j \in 1 .. n : list[i] = list[j] => i = j
  BY DEF TypeOK
<1>2. p \in 1 .. n /\ list[p] = t
  BY <1>1, PosIs
<1>3. Removed(p)
  BY <1>1, DeleteAt, Zenon DEF Removed
<1> HIDE DEF p
<1>4. \A i \in 1 .. n - 1 : old(i) \in 1 .. n /\ old(i) # p /\ list'[i] = list[old(i)]
  BY <1>1, <1>2, <1>3 DEF Removed
<1>5. DOMAIN list' = 1 .. n - 1
  BY <1>3 DEF Removed
<1>6. NoRepeat(list')
  <2> SUFFICES ASSUME NEW i \in 1 .. n - 1, NEW j \in 1 .. n - 1,
                      list'[i] = list'[j]
               PROVE  i = j
    BY <1>5 DEF NoRepeat
  <2>1. old(i) = old(j)
    BY <1>1, <1>4
  <2> QED BY <1>1, <1>2, <2>1
<1>7. Sorted'
  <2> SUFFICES ASSUME NEW i \in 1 .. n - 1, NEW j \in 1 .. n - 1, i < j
               PROVE  deadline[list'[i]] <= deadline[list'[j]]
    BY <1>5 DEF Sorted
  <2>1. old(i) \in 1 .. n /\ old(j) \in 1 .. n /\ old(i) < old(j)
    BY <1>1, <1>2
  <2>2. deadline[list[old(i)]] <= deadline[list[old(j)]]
    BY <1>1, <2>1 DEF Sorted
  <2> QED BY <1>4, <2>2
<1>8. Listed' = Listed \ {t}
  <2>1. \A x : x \in Listed' => x \in Listed \ {t}
    BY <1>1, <1>2, <1>4, <1>5 DEF Listed
  <2>2. \A j \in 1 .. n : j # p => list[j] \in Listed'
    <3> SUFFICES ASSUME NEW j \in 1 .. n, j # p PROVE list[j] \in Listed'
      OBVIOUS
    <3>1. CASE j < p
      <4>1. list'[j] = list[j] /\ j \in DOMAIN list'
        BY <1>1, <1>2, <1>3, <3>1 DEF Removed
      <4> QED BY <4>1 DEF Listed
    <3>2. CASE j > p
      <4>1. list'[j - 1] = list[j - 1 + 1] /\ j - 1 \in DOMAIN list'
        BY <1>1, <1>2, <1>3, <3>2 DEF Removed
      <4>2. j - 1 + 1 = j
        OBVIOUS
      <4> QED BY <4>1, <4>2 DEF Listed
    <3> QED BY <1>1, <1>2, <3>1, <3>2
  <2>3. \A x \in Listed \ {t} : x \in Listed'
    BY <1>1, <1>2, <2>2 DEF Listed
  <2> QED BY <2>1, <2>3
<1> QED BY <1>1, <1>2, <1>3, <1>6, <1>7, <1>8 DEF p

(* The second pass of bbdd_timers_fd_cb: the rest stays in its order. *)
LEMMA DropStep ==
  ASSUME TypeOK, Sorted, NEW n \in 0 .. Len(list),
         list' = SubSeq(list, n + 1, Len(list)), deadline' = deadline
  PROVE  /\ Dropped(n)
         /\ NoRepeat(list')
         /\ Sorted'
         /\ Listed' = {list[i] : i \in n + 1 .. Len(list)}
<1> DEFINE m == Len(list)
<1>1. /\ list \in Seq(Timer)
      /\ m \in Nat
      /\ DOMAIN list = 1 .. m
      /\ \A i, j \in 1 .. m : list[i] = list[j] => i = j
  BY DEF TypeOK
<1>2. Dropped(n)
  BY <1>1, SuffixAt, Zenon DEF Dropped
<1>3. /\ DOMAIN list' = 1 .. m - n
      /\ \A i \in 1 .. m - n : i + n \in 1 .. m /\ list'[i] = list[i + n]
  <2>1. /\ DOMAIN list' = 1 .. m - n
        /\ \A i \in 1 .. m - n : list'[i] = list[i + n]
    BY <1>2, Zenon DEF Dropped
  <2>2. \A i \in 1 .. m - n : i + n \in 1 .. m
    BY <1>1
  <2> QED BY <2>1, <2>2, Zenon
<1>4. NoRepeat(list')
  <2> SUFFICES ASSUME NEW i \in 1 .. m - n, NEW j \in 1 .. m - n,
                      list'[i] = list'[j]
               PROVE  i = j
    BY <1>3, Zenon DEF NoRepeat
  <2>1. i + n = j + n
    BY <1>1, <1>3
  <2> QED BY <1>1, <2>1
<1>5. Sorted'
  <2> SUFFICES ASSUME NEW i \in 1 .. m - n, NEW j \in 1 .. m - n, i < j
               PROVE  deadline[list'[i]] <= deadline[list'[j]]
    BY <1>3, Zenon DEF Sorted
  <2>1. i + n \in 1 .. m /\ j + n \in 1 .. m /\ i + n < j + n
    BY <1>1, <1>3
  <2>2. deadline[list[i + n]] <= deadline[list[j + n]]
    BY <1>1, <2>1 DEF Sorted
  <2> QED BY <1>3, <2>2
<1>6. Listed' = {list[i] : i \in n + 1 .. m}
  <2>1. \A x \in Listed' : x \in {list[i] : i \in n + 1 .. m}
    <3> SUFFICES ASSUME NEW i \in 1 .. m - n
                 PROVE  list'[i] \in {list[j] : j \in n + 1 .. m}
      BY <1>3 DEF Listed
    <3>1. i + n \in n + 1 .. m
      BY <1>1
    <3> QED BY <1>3, <3>1
  <2>2. \A j \in n + 1 .. m : list[j] \in Listed'
    <3> SUFFICES ASSUME NEW j \in n + 1 .. m PROVE list[j] \in Listed'
      OBVIOUS
    <3>1. j - n \in 1 .. m - n /\ j - n + n = j
      BY <1>1
    <3>2. list'[j - n] = list[j]
      BY <1>3, <3>1
    <3> QED BY <1>3, <3>1, <3>2, Zenon DEF Listed
  <2> QED BY <2>1, <2>2
<1> QED BY <1>2, <1>4, <1>5, <1>6

-----------------------------------------------------------------------------
(* Each action keeps the invariant.                                        *)

(* Facts that most steps below use *)
LEMMA Basics ==
  ASSUME TypeOK
  PROVE  /\ list \in Seq(Timer)
         /\ Len(list) \in Nat
         /\ DOMAIN list = 1 .. Len(list)
         /\ \A i, j \in 1 .. Len(list) : list[i] = list[j] => i = j
         /\ \A i \in 1 .. Len(list) : list[i] \in Timer /\ list[i] \in Listed
         /\ Listed \subseteq Timer
         /\ None \notin Listed
         /\ deadline \in [Timer -> Nat]
         /\ now \in Nat /\ now_ns \in Nat
BY NoneIsNoTimer, TimersAssumption DEF TypeOK, Listed

(* Timers before a due one are due. *)
LEMMA DueIsPrefix ==
  ASSUME TypeOK, Sorted, NEW i \in DOMAIN list, NEW j \in DOMAIN list,
         i <= j, Due(list[j])
  PROVE  Due(list[i])
<1>1. deadline[list[i]] <= deadline[list[j]]
  <2>1. CASE i = j
    BY <2>1, Basics
  <2>2. CASE i < j
    BY <2>2 DEF Sorted
  <2> QED BY <2>1, <2>2, Basics
<1>2. deadline[list[i]] \in Nat /\ deadline[list[j]] \in Nat /\ now_ns \in Nat
  BY Basics
<1> QED BY <1>1, <1>2 DEF Due

(* The state that the walk depends on is left alone. *)
Still ==
  UNCHANGED <<list, deadline, now_ns, fate, older, failed, timer, tmp, phase>>

LEMMA StillStep ==
  ASSUME IInv, Still, now' \in 0 .. MaxTime, now <= now'
  PROVE  Sorted' /\ Fates' /\ InWalk' /\ InCallback' /\ InReap' /\ InIdle'
<1>1. UNCHANGED <<list, deadline, now_ns, fate, failed, timer, tmp, phase>>
  BY DEF Still
<1>2. Sorted'
  BY <1>1 DEF IInv, Sorted
<1>3. Fates'
  <2>1. now_ns \in Nat /\ now \in Nat /\ now' \in Nat
    BY Basics DEF IInv
  <2> QED BY <1>1, <2>1 DEF IInv, Fates, Listed, Due
<1>4. InWalk'
  BY <1>1 DEF IInv, InWalk, WalkedTo, Listed, Due
<1>5. InCallback'
  BY <1>1 DEF IInv, InCallback, WalkedTo, RangUpTo, Listed, Due
<1>6. InReap'
  BY <1>1 DEF IInv, InReap, RangUpTo, Listed, Due
<1>7. InIdle'
  BY <1>1 DEF IInv, InIdle, Listed
<1> QED BY <1>2, <1>3, <1>4, <1>5, <1>6, <1>7

LEMMA TickStep ==
  ASSUME IInv, Tick
  PROVE  IInv'
<1>1. Still /\ UNCHANGED <<fd, event, lapsed>>
  BY DEF Tick, Still, locals
<1>2. now' \in 0 .. MaxTime /\ now <= now'
  BY TimersAssumption DEF IInv, TypeOK, Tick
<1>3. TypeOK'
  BY <1>1, <1>2 DEF IInv, TypeOK, Still, fd
<1>4. ArmedForHead'
  BY <1>1 DEF IInv, ArmedForHead, Still, fd
<1> QED BY <1>1, <1>2, <1>3, <1>4, StillStep DEF IInv

LEMMA ExpireStep ==
  ASSUME IInv, Expire
  PROVE  IInv'
<1>1. Still /\ UNCHANGED <<now, event, lapsed>>
  BY DEF Expire, Still, locals
<1>2. now' \in 0 .. MaxTime /\ now <= now'
  BY <1>1, TimersAssumption DEF IInv, TypeOK
<1>3. TypeOK'
  BY <1>1 DEF IInv, TypeOK, Expire, Still
<1>4. ArmedForHead'
  BY DEF ArmedForHead, Expire
<1> QED BY <1>1, <1>2, <1>3, <1>4, StillStep DEF IInv

LEMMA PollReportsStep ==
  ASSUME IInv, PollReports
  PROVE  IInv'
<1>1. Still /\ UNCHANGED <<now, fd, lapsed>>
  BY DEF PollReports, Still, locals
<1>2. now' \in 0 .. MaxTime /\ now <= now'
  BY <1>1, TimersAssumption DEF IInv, TypeOK
<1>3. TypeOK'
  BY <1>1 DEF IInv, TypeOK, PollReports, Still, fd
<1>4. ArmedForHead'
  BY DEF ArmedForHead, PollReports
<1> QED BY <1>1, <1>2, <1>3, <1>4, StillStep DEF IInv

LEMMA SetFailsStep ==
  ASSUME IInv, NEW t \in Timer, NEW delay \in Delays, SetFails(t, delay)
  PROVE  IInv'
<1>1. Still /\ UNCHANGED <<now, fd, event, lapsed>>
  BY DEF SetFails, Still, locals, RearmFails
<1>2. now' \in 0 .. MaxTime /\ now <= now'
  BY <1>1, TimersAssumption DEF IInv, TypeOK
<1>3. TypeOK'
  BY <1>1 DEF IInv, TypeOK, Still, fd
<1>4. ArmedForHead'
  BY <1>1 DEF IInv, ArmedForHead, Still, fd
<1> QED BY <1>1, <1>2, <1>3, <1>4, StillStep DEF IInv

LEMMA FdCbStep ==
  ASSUME IInv, FdCb
  PROVE  IInv'
<1>1. /\ UNCHANGED <<now, list, deadline, armed, tmp, failed, fate,
                     older, lapsed>>
      /\ phase = "idle" /\ phase' = "walk"
      /\ now_ns' = now
      /\ timer' = IF list = <<>> THEN None ELSE list[1]
      /\ event' = FALSE /\ readable' = FALSE
  BY DEF FdCb
<1>2. TypeOK /\ Sorted /\ InIdle
  BY DEF IInv
<1>3. list # <<>> => 1 \in DOMAIN list
  BY <1>2, Basics
<1>4. TypeOK'
  <2>1. timer' \in Ptr
    BY <1>1, <1>2, <1>3, Basics DEF Ptr
  <2> QED BY <1>1, <1>2, <2>1, Zenon DEF TypeOK
<1>5. Sorted'
  BY <1>1, <1>2 DEF Sorted
<1>6. \A t \in Listed : fate[t] = "none"
  BY <1>1, <1>2 DEF InIdle
<1>7. Fates'
  <2>1. now \in Nat
    BY <1>2, Basics
  <2> QED BY <1>1, <1>6, <2>1 DEF Fates, Listed
<1>8. InWalk'
  <2>1. failed' = None
    BY <1>1, <1>2 DEF InIdle
  <2>2. timer' \in Listed \cup {None}
    BY <1>1, <1>2, <1>3, Basics
  <2>3. \A i \in DOMAIN list : fate[list[i]] = "none"
    BY <1>6 DEF Listed
  <2>4. \A i \in DOMAIN list : \E j \in 1 .. i : list[j] = timer'
    <3> SUFFICES ASSUME NEW i \in DOMAIN list PROVE list[1] = timer' /\ 1 \in 1 .. i
      OBVIOUS
    <3> QED BY <1>1, <1>2, Basics
  <2> QED BY <1>1, <2>1, <2>2, <2>3, <2>4 DEF InWalk, WalkedTo, Listed
<1>9. InCallback' /\ InReap' /\ InIdle' /\ ArmedForHead'
  BY <1>1 DEF InCallback, InReap, InIdle, ArmedForHead
<1> QED BY <1>4, <1>5, <1>7, <1>8, <1>9 DEF IInv

LEMMA InvokeStep ==
  ASSUME IInv, Invoke
  PROVE  IInv'
<1>0. timer \in Listed
  BY DEF Invoke, IInv, InWalk, WalkedTo
<1>1. /\ UNCHANGED <<now, list, deadline, armed, readable, event, now_ns, timer,
                     failed, older, lapsed>>
      /\ phase = "walk" /\ phase' = "callback"
      /\ timer # None /\ Due(timer)
      /\ tmp' = Successor(timer)
      /\ fate' = [fate EXCEPT ![timer] = "rung"]
  BY <1>0 DEF Invoke, Successors, fd
<1>2. /\ TypeOK /\ Sorted /\ Fates
      /\ WalkedTo(timer) /\ failed = None
  BY <1>1 DEF IInv, InWalk
<1>3. PICK k \in DOMAIN list : list[k] = timer /\ k = Pos(timer)
  BY <1>1, <1>2, PosIs DEF WalkedTo
<1> DEFINE n == Len(list)
<1>4. n \in Nat /\ DOMAIN list = 1 .. n /\ k \in 1 .. n
  BY <1>2, Basics
<1>5. tmp' = IF k = n THEN None ELSE list[k + 1]
  BY <1>1, <1>3 DEF Successor
<1>6. tmp' \in Listed \cup {None}
  BY <1>4, <1>5 DEF Listed
<1>7. /\ fate' \in [Timer -> {"none", "rung", "cancelled"}]
      /\ fate'[timer] = "rung"
      /\ \A t \in Timer : t # timer => fate'[t] = fate[t]
  BY <1>1, <1>2, <1>3, <1>4, Basics DEF TypeOK
<1>8. TypeOK'
  <2>1. tmp' \in Ptr
    BY <1>2, <1>6, Basics DEF Ptr
  <2> QED BY <1>1, <1>2, <1>7, <2>1 DEF TypeOK
<1>9. Sorted'
  BY <1>1, <1>2 DEF Sorted
<1>10. \A i \in 1 .. n : i # k => list[i] # timer /\ fate'[list[i]] = fate[list[i]]
  BY <1>2, <1>3, <1>4, <1>7, Basics
<1>11. Fates'
  <2>1. \A t \in Listed : fate'[t] = "none" \/ (fate'[t] = "rung" /\ Due(t))
    <3> SUFFICES ASSUME NEW t \in Listed
                 PROVE  fate'[t] = "none" \/ (fate'[t] = "rung" /\ Due(t))
      OBVIOUS
    <3>1. CASE t = timer
      BY <1>1, <1>7, <3>1
    <3>2. CASE t # timer
      BY <1>1, <1>2, <1>7, <3>2, Basics DEF Fates
    <3> QED BY <3>1, <3>2
  <2> QED BY <1>1, <1>2, <2>1 DEF Fates, Listed, Due
<1>12. \A i \in 1 .. n : i <= k => Due(list[i])
  BY <1>1, <1>2, <1>3, <1>4, DueIsPrefix
<1>13. \A i \in 1 .. n : i < k => fate[list[i]] = "rung"
  <2> SUFFICES ASSUME NEW i \in 1 .. n, i < k PROVE fate[list[i]] = "rung"
    OBVIOUS
  <2>1. Due(list[i])
    BY <1>4, <1>12
  <2>2. \A j \in 1 .. i : list[j] # timer
    BY <1>4, <1>10
  <2>3. fate[list[i]] # "none"
    BY <1>2, <1>4, <2>1, <2>2 DEF WalkedTo
  <2>4. list[i] \in Listed
    BY <1>2, Basics
  <2> QED BY <1>1, <1>2, <2>3, <2>4 DEF Fates
<1>14. \A i \in 1 .. n : i >= k => fate[list[i]] = "none"
  <2> SUFFICES ASSUME NEW i \in 1 .. n, i >= k PROVE fate[list[i]] = "none"
    OBVIOUS
  <2>1. CASE Due(list[i])
    <3>1. k \in 1 .. i
      BY <1>4
    <3> QED BY <1>2, <1>3, <1>4, <2>1, <3>1 DEF WalkedTo
  <2>2. CASE ~Due(list[i])
    <3>1. list[i] \in Listed
      BY <1>2, Basics
    <3> QED BY <1>1, <1>2, <2>2, <3>1 DEF Fates
  <2> QED BY <2>1, <2>2
<1>15. /\ \A i \in 1 .. k : Due(list[i]) /\ fate'[list[i]] = "rung"
       /\ \A i \in k + 1 .. n : fate'[list[i]] = "none"
  <2>1. ASSUME NEW i \in 1 .. k PROVE Due(list[i]) /\ fate'[list[i]] = "rung"
    <3>1. CASE i = k
      BY <1>1, <1>3, <1>7, <3>1
    <3>2. CASE i < k
      BY <1>4, <1>10, <1>12, <1>13, <3>2
    <3> QED BY <1>4, <3>1, <3>2
  <2>2. ASSUME NEW i \in k + 1 .. n PROVE fate'[list[i]] = "none"
    BY <1>4, <1>10, <1>14
  <2> QED BY <2>1, <2>2
<1>16. WalkedTo(tmp)'
  <2> SUFFICES ASSUME NEW i \in 1 .. n, Due(list[i])
               PROVE  fate'[list[i]] = "none" <=> \E j \in 1 .. i : list[j] = tmp'
    BY <1>1, <1>4, <1>6 DEF WalkedTo, Listed, Due
  <2>1. CASE i <= k
    <3>1. fate'[list[i]] # "none"
      BY <1>4, <1>15, <2>1
    <3>2. \A j \in 1 .. i : list[j] # tmp'
      <4> SUFFICES ASSUME NEW j \in 1 .. i PROVE list[j] # tmp'
        OBVIOUS
      <4>1. j \in 1 .. n /\ j <= k
        BY <1>4, <2>1
      <4>2. CASE k = n
        BY <1>2, <1>5, <4>1, <4>2, Basics
      <4>3. CASE k # n
        <5>1. k + 1 \in 1 .. n /\ j # k + 1
          BY <1>4, <4>1, <4>3
        <5> QED BY <1>2, <1>5, <4>1, <4>3, <5>1, Basics
      <4> QED BY <4>2, <4>3
    <3> QED BY <3>1, <3>2
  <2>2. CASE i > k
    <3>1. i \in k + 1 .. n
      BY <1>4, <2>2
    <3>2. k # n /\ k + 1 \in 1 .. i
      BY <1>4, <2>2
    <3>3. list[k + 1] = tmp'
      BY <1>5, <3>2
    <3> QED BY <1>15, <3>1, <3>2, <3>3
  <2> QED BY <1>4, <2>1, <2>2
<1>17. InCallback'
  <2>1. \A m \in 1 .. n : list[m] = timer => m = k
    BY <1>10
  <2>2. RangUpTo(k)'
    BY <1>1, <1>15 DEF RangUpTo, Due
  <2>3. \A m \in DOMAIN list' : list'[m] = timer' => RangUpTo(m)'
    <3> SUFFICES ASSUME NEW m \in 1 .. n, list[m] = timer PROVE RangUpTo(m)'
      BY <1>1, <1>4
    <3>1. m = k
      BY <2>1
    <3> QED BY <2>2, <3>1
  <2> QED BY <1>1, <1>2, <1>16, <2>3 DEF InCallback
<1>18. InWalk' /\ InReap' /\ InIdle' /\ ArmedForHead'
  BY <1>1 DEF InWalk, InReap, InIdle, ArmedForHead
<1> QED BY <1>8, <1>9, <1>11, <1>17, <1>18 DEF IInv

LEMMA CallbackReturnsStep ==
  ASSUME IInv, CallbackReturns
  PROVE  IInv'
<1>1. /\ UNCHANGED <<now, list, deadline, armed, readable, event, now_ns,
                     failed, fate, older, lapsed>>
      /\ phase = "callback" /\ phase' = "walk"
      /\ timer' = tmp /\ tmp' = None
  BY DEF CallbackReturns, fd
<1>2. TypeOK'
  BY <1>1 DEF IInv, TypeOK, Ptr
<1>3. Sorted' /\ Fates'
  BY <1>1 DEF IInv, Sorted, Fates, Listed, Due
<1>4. InWalk'
  BY <1>1 DEF IInv, InCallback, InWalk, WalkedTo, Listed, Due
<1>5. InCallback' /\ InReap' /\ InIdle' /\ ArmedForHead'
  BY <1>1 DEF InCallback, InReap, InIdle, ArmedForHead
<1> QED BY <1>2, <1>3, <1>4, <1>5 DEF IInv

LEMMA CallbackFailsStep ==
  ASSUME IInv, CallbackFails
  PROVE  IInv'
<1>1. /\ UNCHANGED <<now, list, deadline, armed, readable, event, now_ns,
                     timer, tmp, fate, older, lapsed>>
      /\ phase = "callback" /\ phase' = "reap"
      /\ timer \in Listed /\ fate[timer] = "rung"
      /\ failed' = timer
  BY DEF CallbackFails, fd, Own
<1>2. TypeOK'
  BY <1>1 DEF IInv, TypeOK, Ptr
<1>3. Sorted' /\ Fates'
  BY <1>1 DEF IInv, Sorted, Fates, Listed, Due
<1>4. PICK k \in DOMAIN list : list[k] = timer
  BY <1>1 DEF Listed
<1>5. RangUpTo(k) /\ timer # None
  BY <1>1, <1>4 DEF IInv, InCallback
<1>6. InReap'
  BY <1>1, <1>4, <1>5 DEF InReap, RangUpTo, Due
<1>7. InCallback' /\ InWalk' /\ InIdle' /\ ArmedForHead'
  BY <1>1 DEF InCallback, InWalk, InIdle, ArmedForHead
<1> QED BY <1>2, <1>3, <1>6, <1>7 DEF IInv

LEMMA WalkEndsStep ==
  ASSUME IInv, WalkEnds
  PROVE  IInv'
<1>1. /\ UNCHANGED <<now, list, deadline, armed, readable, event, now_ns,
                     timer, tmp, failed, fate, older, lapsed>>
      /\ phase = "walk" /\ phase' = "reap"
      /\ timer \in Listed => ~Due(timer)
  BY DEF WalkEnds, fd, locals
<1>2. TypeOK'
  BY <1>1 DEF IInv, TypeOK, Ptr
<1>3. Sorted' /\ Fates'
  BY <1>1 DEF IInv, Sorted, Fates, Listed, Due
<1>4. TypeOK /\ Sorted /\ Fates /\ WalkedTo(timer) /\ failed = None
  BY <1>1 DEF IInv, InWalk
<1>5. \A i \in DOMAIN list : Due(list[i]) => fate[list[i]] = "rung"
  <2> SUFFICES ASSUME NEW i \in DOMAIN list, Due(list[i])
               PROVE  fate[list[i]] = "rung"
    OBVIOUS
  <2>1. \A j \in 1 .. i : list[j] # timer
    <3> SUFFICES ASSUME NEW j \in 1 .. i, list[j] = timer PROVE FALSE
      OBVIOUS
    <3>1. j \in DOMAIN list /\ j <= i
      BY <1>4, Basics
    <3>2. Due(timer)
      BY <1>4, <3>1, DueIsPrefix
    <3>3. timer \in Listed
      BY <1>4, <3>1, Basics
    <3> QED BY <1>1, <3>2, <3>3
  <2>2. fate[list[i]] # "none"
    BY <1>4, <2>1 DEF WalkedTo
  <2>3. list[i] \in Listed
    BY DEF Listed
  <2> QED BY <1>1, <1>4, <2>2, <2>3 DEF Fates
<1>6. InReap'
  BY <1>1, <1>4, <1>5 DEF InReap, Due
<1>7. InCallback' /\ InWalk' /\ InIdle' /\ ArmedForHead'
  BY <1>1 DEF InCallback, InWalk, InIdle, ArmedForHead
<1> QED BY <1>2, <1>3, <1>6, <1>7 DEF IInv

LEMMA SetStep ==
  ASSUME IInv, NEW t \in Timer, NEW delay \in Delays, Set(t, delay)
  PROVE  IInv'
<1> DEFINE at == now + delay
           n == Len(list)
           D(x) == deadline'[x] <= now_ns'
<1>1. /\ UNCHANGED <<now, event, phase, now_ns, timer, tmp, failed>>
      /\ phase \in {"idle", "callback"}
      /\ t \notin Listed
      /\ phase = "callback" => delay > 0
      /\ Enlist(t, at)
      /\ fate' = [fate EXCEPT ![t] = "none"]
      /\ list'[1] = t => RearmOk
      /\ list'[1] # t => UNCHANGED <<armed, readable, lapsed>>
  BY DEF Set, locals, fd
<1>2. TypeOK /\ Sorted /\ Fates /\ InCallback /\ InIdle /\ ArmedForHead
  BY DEF IInv
<1>3. at \in 0 .. MaxTime /\ delay \in Nat
  BY TimersAssumption, <1>2 DEF Set, TypeOK
<1> HIDE DEF at
<1>4. /\ NoRepeat(list')
      /\ Sorted'
      /\ Listed' = Listed \cup {t}
      /\ deadline' \in [Timer -> 0 .. MaxTime]
      /\ deadline'[t] = at
      /\ \A x \in Timer \ {t} : deadline'[x] = deadline[x]
  BY <1>1, <1>2, <1>3, EnlistStep
<1>5. PICK k \in 1 .. n + 1 : InsertPoint(k, at) /\ Inserted(k, t)
  BY <1>1, <1>2, <1>3, EnlistStep
<1>6. /\ fate' \in [Timer -> {"none", "rung", "cancelled"}]
      /\ fate'[t] = "none"
      /\ \A x \in Timer \ {t} : fate'[x] = fate[x]
  BY <1>1, <1>2 DEF TypeOK
<1>7. /\ list' \in Seq(Timer)
      /\ DOMAIN list' = 1 .. n + 1
      /\ Len(list') = n + 1
      /\ n \in Nat
      /\ list'[1] \in Timer
      /\ list' # <<>>
  <2>1. list' \in Seq(Timer) /\ Len(list') = n + 1 /\ DOMAIN list' = 1 .. n + 1
    BY <1>5 DEF Inserted
  <2>2. n \in Nat
    BY <1>2, Basics
  <2>3. 1 \in DOMAIN list'
    BY <2>1, <2>2
  <2> QED BY <2>1, <2>2, <2>3
<1>8. TypeOK'
  <2>1. /\ armed' \in {Never} \cup 0 .. MaxTime
        /\ readable' \in BOOLEAN
        /\ lapsed' \in BOOLEAN
    <3>1. CASE list'[1] = t
      <4>1. RearmOk /\ list' # <<>>
        BY <1>1, <1>7, <3>1
      <4>2. armed' = deadline'[t] /\ readable' = FALSE /\ lapsed' = FALSE
        BY <3>1, <4>1 DEF RearmOk
      <4>3. deadline'[t] \in 0 .. MaxTime
        BY <1>4
      <4> QED BY <4>2, <4>3, Zenon
    <3>2. CASE list'[1] # t
      <4>1. UNCHANGED <<armed, readable, lapsed>>
        BY <1>1, <3>2
      <4> QED BY <1>2, <4>1 DEF TypeOK
    <3> QED BY <3>1, <3>2
  <2>2. \A i, j \in DOMAIN list' : list'[i] = list'[j] => i = j
    BY <1>4 DEF NoRepeat
  <2>3. older' \in [Timer -> SUBSET Timer]
    BY <1>1, <1>2, Basics DEF Enlist, TypeOK
  <2> QED BY <1>1, <1>2, <1>4, <1>6, <1>7, <2>1, <2>2, <2>3 DEF TypeOK
<1>9. Fates'
  <2> SUFFICES ASSUME phase = "callback", NEW x \in Listed \cup {t}
               PROVE  fate'[x] = "none" \/ (fate'[x] = "rung" /\ D(x))
    BY <1>1, <1>2, <1>4, Zenon DEF Fates, Due
  <2>1. CASE x = t
    BY <1>6, <2>1
  <2>2. CASE x # t
    <3>1. x \in Timer \ {t} /\ x \in Listed
      BY <1>2, <2>2, Basics
    <3> QED BY <1>1, <1>2, <1>4, <1>6, <3>1 DEF Fates, Due
  <2> QED BY <2>1, <2>2
<1>10. \A i \in 1 .. n : list[i] \in Timer \ {t}
  BY <1>1, <1>2, Basics, ZenonT(60)
<1>10a. \A i \in 1 .. n : fate'[list[i]] = fate[list[i]]
  BY <1>6, <1>10
<1>10b. \A i \in 1 .. n : deadline'[list[i]] = deadline[list[i]]
  BY <1>4, <1>10
<1>10c. \A i \in 1 .. n : (D(list[i]) => Due(list[i])) /\ (Due(list[i]) => D(list[i]))
  BY <1>1, <1>10b DEF Due
<1>11. InCallback'
  <2> SUFFICES ASSUME phase = "callback"
               PROVE  InCallback'
    BY <1>1 DEF InCallback
  <2>1. now_ns \in Nat /\ now_ns < at
    BY <1>1, <1>2, <1>3, Basics DEF Fates, at
  <2>2. \A i \in 1 .. n : i >= k => ~Due(list[i])
    <3> SUFFICES ASSUME NEW i \in 1 .. n, i >= k, Due(list[i]) PROVE FALSE
      OBVIOUS
    <3>1. k \in 1 .. n /\ i \in DOMAIN list /\ k \in DOMAIN list
      BY <1>2, <1>7, Basics
    <3>2. Due(list[k])
      BY <1>2, <3>1, DueIsPrefix
    <3>3. at <= deadline[list[k]] /\ deadline[list[k]] \in Nat
      BY <1>2, <1>5, <3>1, Basics DEF InsertPoint
    <3> QED BY <1>3, <2>1, <3>2, <3>3 DEF Due
  <2>3. ~D(t)
    BY <1>1, <1>3, <1>4, <2>1 DEF Due
  <2>4. \A i \in 1 .. n + 1 :
          /\ i < k => i \in 1 .. n /\ list'[i] = list[i]
          /\ i = k => list'[i] = t
          /\ i > k => i - 1 \in 1 .. n /\ i - 1 >= k /\ list'[i] = list[i - 1]
    <3> SUFFICES ASSUME NEW i \in 1 .. n + 1
                 PROVE  /\ i < k => i \in 1 .. n /\ list'[i] = list[i]
                        /\ i = k => list'[i] = t
                        /\ i > k => /\ i - 1 \in 1 .. n /\ i - 1 >= k
                                    /\ list'[i] = list[i - 1]
      OBVIOUS
    <3>1. i < k => i \in 1 .. n /\ list'[i] = list[i]
      BY <1>5, <1>7 DEF Inserted
    <3>2. i = k => list'[i] = t
      BY <1>5 DEF Inserted
    <3>3. i > k => i \in k + 1 .. n + 1 /\ i - 1 \in 1 .. n /\ i - 1 >= k
      BY <1>7
    <3>4. i > k => list'[i] = list[i - 1]
      BY <1>5, <3>3 DEF Inserted
    <3> QED BY <3>1, <3>2, <3>3, <3>4
  <2>5. \A i \in 1 .. n + 1 : D(list'[i]) => i < k
    <3> SUFFICES ASSUME NEW i \in 1 .. n + 1, i >= k PROVE ~D(list'[i])
      BY <1>7
    <3>1. CASE i = k
      <4>1. list'[i] = t
        BY <2>4, <3>1
      <4> QED BY <2>3, <4>1 DEF Due
    <3>2. CASE i > k
      <4>1. i - 1 \in 1 .. n /\ i - 1 >= k /\ list'[i] = list[i - 1]
        BY <2>4, <3>2
      <4>2. ~D(list[i - 1])
        BY <1>10, <1>10a, <1>10b, <1>10c, <2>2, <4>1
      <4> QED BY <4>1, <4>2 DEF Due
    <3> QED BY <1>7, <3>1, <3>2
  <2>6. WalkedTo(tmp)'
    <3>1. tmp \in Listed' \cup {None}
      BY <1>2, <1>4 DEF InCallback, WalkedTo
    <3>2. ASSUME NEW i \in 1 .. n + 1, D(list'[i])
          PROVE  fate'[list'[i]] = "none" <=> \E j \in 1 .. i : list'[j] = tmp
      <4>1. i < k /\ i \in 1 .. n /\ list'[i] = list[i]
        BY <2>4, <2>5, <3>2
      <4>2. D(list[i]) /\ Due(list[i])
        BY <1>10, <1>10a, <1>10b, <1>10c, <3>2, <4>1 DEF Due
      <4>3. fate[list[i]] = "none" <=> \E j \in 1 .. i : list[j] = tmp
        BY <1>2, <1>7, <4>1, <4>2, Basics, Zenon DEF InCallback, WalkedTo
      <4>4. \A j \in 1 .. i : list'[j] = list[j]
        BY <1>5, <4>1 DEF Inserted
      <4> QED BY <1>10, <1>10a, <1>10b, <1>10c, <4>1, <4>3, <4>4
    <3> QED BY <1>1, <1>7, <3>1, <3>2 DEF WalkedTo, Due
  <2>7. ASSUME NEW m \in 1 .. n + 1, list'[m] = timer, fate'[timer] = "rung"
        PROVE  RangUpTo(m)'
    <3>1. timer # t
      BY <1>6, <2>7
    <3> DEFINE o == IF m < k THEN m ELSE m - 1
    <3>2. o \in 1 .. n /\ list[o] = timer
      BY <1>7, <2>4, <2>7, <3>1
    <3>3. fate[timer] = "rung"
      BY <1>10, <1>10a, <1>10b, <1>10c, <2>7, <3>2
    <3>4. RangUpTo(o)
      BY <1>2, <1>7, <3>2, <3>3, Basics DEF InCallback
    <3>5. Due(list[o])
      BY <3>2, <3>4 DEF RangUpTo
    <3>6. m < k /\ o = m
      <4>1. o < k
        BY <1>7, <2>2, <3>2, <3>5
      <4> QED BY <1>7, <2>4, <2>7, <3>1, <4>1
    <3>7. ASSUME NEW i \in 1 .. m PROVE D(list'[i]) /\ fate'[list'[i]] = "rung"
      <4>1. i \in 1 .. n /\ list'[i] = list[i]
        BY <1>7, <2>4, <3>6
      <4>2. Due(list[i]) /\ fate[list[i]] = "rung"
        BY <3>4, <3>6 DEF RangUpTo
      <4>3. D(list[i])
        BY <1>10, <1>10a, <1>10b, <1>10c, <4>1, <4>2
      <4> QED BY <1>10, <1>10a, <1>10b, <1>10c, <4>1, <4>2, <4>3 DEF Due
    <3>8. ASSUME NEW i \in m + 1 .. n + 1 PROVE fate'[list'[i]] = "none"
      <4>1. CASE i = k
        BY <1>6, <2>4, <4>1
      <4>2. CASE i < k
        <5>1. i \in o + 1 .. n /\ i \in 1 .. n /\ list'[i] = list[i]
          BY <1>7, <2>4, <3>6, <4>2
        <5> QED BY <1>10, <1>10a, <1>10b, <1>10c, <3>4, <5>1 DEF RangUpTo
      <4>3. CASE i > k
        <5>1. i - 1 \in o + 1 .. n /\ i - 1 \in 1 .. n /\ list'[i] = list[i - 1]
          BY <1>7, <2>4, <3>6, <4>3
        <5> QED BY <1>10, <1>10a, <1>10b, <1>10c, <3>4, <5>1 DEF RangUpTo
      <4> QED BY <1>7, <4>1, <4>2, <4>3
    <3> QED BY <1>7, <3>7, <3>8 DEF RangUpTo, Due
  <2> QED BY <1>1, <1>2, <1>7, <2>6, <2>7 DEF InCallback
<1>12. InIdle'
  BY <1>1, <1>2, <1>4, <1>6, Basics DEF InIdle
<1>13. ArmedForHead'
  <2> SUFFICES ASSUME phase = "idle", ~lapsed'
               PROVE  armed' = deadline'[list'[1]] \/ readable' \/ event'
    BY <1>1 DEF ArmedForHead
  <2>1. CASE list'[1] = t
    BY <1>1, <1>7, <2>1 DEF RearmOk
  <2>2. CASE list'[1] # t
    <3>1. k # 1
      BY <1>5, <2>2 DEF Inserted
    <3>2. list'[1] = list[1] /\ 1 \in 1 .. n /\ list # <<>>
      BY <1>2, <1>5, <1>7, <3>1, Basics DEF Inserted
    <3>3. deadline'[list'[1]] = deadline[list[1]]
      BY <1>4, <1>10, <1>10a, <1>10b, <1>10c, <3>2
    <3> QED BY <1>1, <1>2, <2>2, <3>2, <3>3 DEF ArmedForHead
  <2> QED BY <2>1, <2>2
<1>14. InWalk' /\ InReap'
  BY <1>1 DEF InWalk, InReap
<1> QED BY <1>4, <1>8, <1>9, <1>11, <1>12, <1>13, <1>14 DEF IInv

(* bbdd_timers_rearm arms the timerfd for the head of the list. *)
LEMMA RearmStep ==
  ASSUME list' \in Seq(Timer), deadline' \in [Timer -> 0 .. MaxTime],
         TypeOK, Rearm
  PROVE  /\ armed' \in {Never} \cup 0 .. MaxTime
         /\ readable' \in BOOLEAN
         /\ lapsed' \in BOOLEAN
         /\ list' # <<>> /\ ~lapsed' => armed' = deadline'[list'[1]]
<1>1. CASE RearmOk
  <2>1. list' # <<>> => list'[1] \in Timer
    OBVIOUS
  <2> QED BY <1>1, <2>1, Zenon DEF RearmOk
<1>2. CASE RearmFails /\ lapsed' = TRUE
  BY <1>2 DEF RearmFails, TypeOK, fd
<1> QED BY <1>1, <1>2, Zenon DEF Rearm

LEMMA ForgetType ==
  ASSUME TypeOK, Forget
  PROVE  older' \in [Timer -> SUBSET Timer]
<1>1. \A t \in Timer : older[t] \cap Listed' \subseteq Timer
  BY DEF TypeOK
<1> QED BY <1>1 DEF Forget

LEMMA UnscheduleTypes ==
  ASSUME IInv, NEW t \in Timer, Unschedule(t)
  PROVE  /\ t \in Listed
         /\ list' = Delete(t) /\ deadline' = deadline
         /\ list' \in Seq(Timer)
         /\ \A i, j \in DOMAIN list' : list'[i] = list'[j] => i = j
         /\ armed' \in {Never} \cup 0 .. MaxTime
         /\ readable' \in BOOLEAN
         /\ lapsed' \in BOOLEAN
         /\ older' \in [Timer -> SUBSET Timer]
<1>1. /\ t \in Listed
      /\ list' = Delete(t) /\ deadline' = deadline
      /\ Forget
      /\ list[1] = t => Rearm
      /\ list[1] # t => UNCHANGED <<armed, readable, lapsed>>
  BY DEF Unschedule, fd
<1>2. TypeOK /\ Sorted
  BY DEF IInv
<1>3. Removed(Pos(t)) /\ NoRepeat(list')
  BY <1>1, <1>2, UnscheduleStep
<1>4. list' \in Seq(Timer) /\ \A i, j \in DOMAIN list' : list'[i] = list'[j] => i = j
  BY <1>3 DEF Removed, NoRepeat
<1>5. /\ armed' \in {Never} \cup 0 .. MaxTime
      /\ readable' \in BOOLEAN
      /\ lapsed' \in BOOLEAN
  <2>1. CASE list[1] = t
    <3>1. deadline' \in [Timer -> 0 .. MaxTime]
      BY <1>1, <1>2 DEF TypeOK
    <3> QED BY <1>1, <1>2, <1>4, <2>1, <3>1, RearmStep
  <2>2. CASE list[1] # t
    BY <1>1, <1>2, <2>2 DEF TypeOK
  <2> QED BY <2>1, <2>2
<1> QED BY <1>1, <1>2, <1>4, <1>5, ForgetType

LEMMA CancelStep ==
  ASSUME IInv, NEW t \in Timer, Cancel(t)
  PROVE  IInv'
<1>1. /\ UNCHANGED <<now, event, phase, now_ns, timer, tmp, failed>>
      /\ phase = "idle"
      /\ Unschedule(t)
      /\ fate' = [fate EXCEPT ![t] = "cancelled"]
  BY DEF Cancel, locals
<1>2. TypeOK /\ Sorted /\ InIdle /\ ArmedForHead
  BY DEF IInv
<1>3. t \in Listed /\ list' = Delete(t) /\ deadline' = deadline
  BY <1>1, UnscheduleTypes
<1>4. /\ Pos(t) \in DOMAIN list /\ list[Pos(t)] = t
      /\ Removed(Pos(t))
      /\ Sorted'
      /\ Listed' = Listed \ {t}
  BY <1>2, <1>3, UnscheduleStep
<1>5. /\ fate' \in [Timer -> {"none", "rung", "cancelled"}]
      /\ \A x \in Timer : x # t => fate'[x] = fate[x]
  BY <1>1, <1>2 DEF TypeOK
<1>6. TypeOK'
  <2>1. /\ list' \in Seq(Timer)
        /\ \A i, j \in DOMAIN list' : list'[i] = list'[j] => i = j
        /\ armed' \in {Never} \cup 0 .. MaxTime
        /\ readable' \in BOOLEAN
        /\ lapsed' \in BOOLEAN
        /\ older' \in [Timer -> SUBSET Timer]
    BY <1>1, UnscheduleTypes
  <2> QED BY <1>1, <1>2, <1>3, <1>5, <2>1 DEF TypeOK
<1>7. InIdle'
  <2>1. Listed \subseteq Timer
    BY <1>2, Basics
  <2> QED BY <1>1, <1>2, <1>4, <1>5, <2>1 DEF InIdle
<1>8. ArmedForHead'
  <2> SUFFICES ASSUME list' # <<>>, ~lapsed'
               PROVE  armed' = deadline'[list'[1]] \/ readable' \/ event'
    BY DEF ArmedForHead
  <2>1. CASE list[1] = t
    <3>1. Rearm
      BY <1>1, <2>1 DEF Unschedule
    <3>2. list' \in Seq(Timer) /\ deadline' \in [Timer -> 0 .. MaxTime]
      BY <1>6 DEF TypeOK
    <3> QED BY <1>2, <3>1, <3>2, RearmStep
  <2>2. CASE list[1] # t
    <3>1. UNCHANGED <<armed, readable, lapsed>>
      BY <1>1, <2>2 DEF Unschedule, fd
    <3>2. Pos(t) # 1 /\ Pos(t) \in 1 .. Len(list) /\ Len(list) \in Nat
      BY <1>2, <1>4, <2>2, Basics
    <3>3. list'[1] = list[1]
      BY <1>4, <3>2 DEF Removed
    <3>4. list # <<>>
      BY <3>2
    <3> QED BY <1>1, <1>2, <1>3, <3>1, <3>3, <3>4 DEF ArmedForHead
  <2> QED BY <2>1, <2>2
<1>9. Fates' /\ InWalk' /\ InCallback' /\ InReap'
  BY <1>1 DEF Fates, InWalk, InCallback, InReap
<1> QED BY <1>4, <1>6, <1>7, <1>8, <1>9 DEF IInv

LEMMA CancelOwnStep ==
  ASSUME IInv, CancelOwn
  PROVE  IInv'
<1> DEFINE n == Len(list)
           p == Pos(timer)
           old(i) == IF i < p THEN i ELSE i + 1
<1>1. /\ UNCHANGED <<now, event, phase, now_ns, timer, tmp, failed, fate>>
      /\ phase = "callback"
      /\ timer \in Listed /\ fate[timer] = "rung"
      /\ Unschedule(timer)
  BY DEF CancelOwn, locals, Own
<1>2. TypeOK /\ Sorted /\ Fates /\ InCallback
  BY DEF IInv
<1>3. timer \in Timer
  BY <1>1, <1>2, Basics
<1>4. list' = Delete(timer) /\ deadline' = deadline
  BY <1>1, <1>3, UnscheduleTypes
<1>5. /\ p \in DOMAIN list /\ list[p] = timer
      /\ Removed(p)
      /\ Sorted'
      /\ Listed' = Listed \ {timer}
  BY <1>1, <1>2, <1>4, UnscheduleStep
<1> HIDE DEF p
<1>6. TypeOK'
  <2>1. /\ list' \in Seq(Timer)
        /\ \A i, j \in DOMAIN list' : list'[i] = list'[j] => i = j
        /\ armed' \in {Never} \cup 0 .. MaxTime
        /\ readable' \in BOOLEAN
        /\ lapsed' \in BOOLEAN
        /\ older' \in [Timer -> SUBSET Timer]
    BY <1>1, <1>3, UnscheduleTypes
  <2> QED BY <1>1, <1>2, <1>4, <2>1 DEF TypeOK
<1>7. Fates'
  BY <1>1, <1>2, <1>4, <1>5 DEF Fates, Due
<1>8. n \in Nat /\ p \in 1 .. n /\ DOMAIN list = 1 .. n
  BY <1>2, <1>5, Basics
<1>9. /\ DOMAIN list' = 1 .. n - 1
      /\ \A i \in 1 .. n - 1 :
           /\ i < p => list'[i] = list[i]
           /\ i >= p => list'[i] = list[i + 1]
  BY <1>5, <1>8 DEF Removed
<1>10. RangUpTo(p) /\ WalkedTo(tmp) /\ failed = None /\ timer # None
  BY <1>1, <1>2, <1>5, Zenon DEF InCallback
<1>11. \A j \in 1 .. p : list[j] # tmp
  <2>1. Due(list[p]) /\ fate[list[p]] # "none"
    <3>1. p \in 1 .. p
      BY <1>8
    <3> QED BY <1>10, <3>1, Zenon DEF RangUpTo
  <2> QED BY <1>5, <1>10, <2>1, ZenonT(60) DEF WalkedTo
<1>12. WalkedTo(tmp)'
  <2>1. tmp \in Listed' \cup {None}
    <3>1. tmp # timer
      BY <1>5, <1>8, <1>11
    <3> QED BY <1>5, <1>10, <3>1 DEF WalkedTo
  <2>2. ASSUME NEW i \in 1 .. n - 1, Due(list[old(i)])
        PROVE  fate[list[old(i)]] = "none" <=> \E j \in 1 .. i : list'[j] = tmp
    <3>1. old(i) \in 1 .. n /\ i <= old(i)
      BY <1>8
    <3>2. fate[list[old(i)]] = "none" <=> \E j \in 1 .. old(i) : list[j] = tmp
      BY <1>8, <1>10, <2>2, <3>1 DEF WalkedTo
    <3>3. ASSUME NEW j \in 1 .. old(i), list[j] = tmp
          PROVE  \E m \in 1 .. i : list'[m] = tmp
      <4>1. j > p
        BY <1>8, <1>11, <3>1, <3>3
      <4>2. j - 1 \in 1 .. i /\ j - 1 \in 1 .. n - 1 /\ j - 1 >= p /\ j - 1 + 1 = j
        BY <1>8, <3>1, <4>1
      <4>3. list'[j - 1] = tmp
        BY <1>9, <3>3, <4>2
      <4> QED BY <4>2, <4>3
    <3>4. ASSUME NEW j \in 1 .. i, list'[j] = tmp
          PROVE  \E m \in 1 .. old(i) : list[m] = tmp
      <4>1. j \in 1 .. n - 1
        BY <1>8
      <4>2. j >= p
        BY <1>8, <1>9, <1>11, <3>4, <4>1
      <4>3. list[j + 1] = tmp /\ j + 1 \in 1 .. old(i)
        BY <1>8, <1>9, <3>4, <4>1, <4>2
      <4> QED BY <4>3
    <3> QED BY <3>2, <3>3, <3>4
  <2>3. \A i \in 1 .. n - 1 : list'[i] = list[old(i)]
    BY <1>8, <1>9
  <2>4. ASSUME NEW i \in DOMAIN list', deadline'[list'[i]] <= now_ns'
        PROVE  fate'[list'[i]] = "none" <=> \E j \in 1 .. i : list'[j] = tmp'
    <3>1. i \in 1 .. n - 1 /\ list'[i] = list[old(i)]
      BY <1>9, <2>3
    <3>2. Due(list[old(i)])
      BY <1>1, <1>4, <2>4, <3>1 DEF Due
    <3>3. fate[list[old(i)]] = "none" <=> \E j \in 1 .. i : list'[j] = tmp
      BY <2>2, <3>1, <3>2
    <3> QED BY <1>1, <3>1, <3>3
  <2> QED BY <1>1, <2>1, <2>4 DEF WalkedTo, Due
<1>13. InCallback'
  <2>1. \A m \in DOMAIN list' : list'[m] # timer
    BY <1>5 DEF Listed
  <2> QED BY <1>1, <1>10, <1>12, <2>1 DEF InCallback
<1>14. InWalk' /\ InReap' /\ InIdle' /\ ArmedForHead'
  BY <1>1 DEF InWalk, InReap, InIdle, ArmedForHead
<1> QED BY <1>5, <1>6, <1>7, <1>13, <1>14 DEF IInv

(* A timer other than the next one on the list is no landmark of the walk. *)
LEMMA CancelOtherStep ==
  ASSUME IInv, NEW t \in Timer, CancelOther(t), "next" \notin Faults
  PROVE  IInv'
<1> DEFINE n == Len(list)
           p == Pos(t)
           old(i) == IF i < p THEN i ELSE i + 1
<1>1. /\ UNCHANGED <<now, event, phase, now_ns, timer, tmp, failed>>
      /\ phase = "callback"
      /\ t # timer /\ t # tmp /\ fate[t] = "none"
      /\ Unschedule(t)
      /\ fate' = [fate EXCEPT ![t] = "cancelled"]
  BY DEF CancelOther, locals
<1>2. TypeOK /\ Sorted /\ Fates /\ InCallback
  BY DEF IInv
<1>3. t \in Listed /\ list' = Delete(t) /\ deadline' = deadline
  BY <1>1, UnscheduleTypes
<1>4. /\ p \in DOMAIN list /\ list[p] = t
      /\ Removed(p)
      /\ Sorted'
      /\ Listed' = Listed \ {t}
  BY <1>2, <1>3, UnscheduleStep
<1> HIDE DEF p
<1>5. /\ fate' \in [Timer -> {"none", "rung", "cancelled"}]
      /\ \A x \in Timer : x # t => fate'[x] = fate[x]
  BY <1>1, <1>2 DEF TypeOK
<1>6. TypeOK'
  <2>1. /\ list' \in Seq(Timer)
        /\ \A i, j \in DOMAIN list' : list'[i] = list'[j] => i = j
        /\ armed' \in {Never} \cup 0 .. MaxTime
        /\ readable' \in BOOLEAN
        /\ lapsed' \in BOOLEAN
        /\ older' \in [Timer -> SUBSET Timer]
    BY <1>1, UnscheduleTypes
  <2> QED BY <1>1, <1>2, <1>3, <1>5, <2>1 DEF TypeOK
<1>7. Fates'
  <2>1. Listed \subseteq Timer
    BY <1>2, Basics
  <2> QED BY <1>1, <1>2, <1>3, <1>4, <1>5, <2>1 DEF Fates, Due
<1>8. n \in Nat /\ p \in 1 .. n /\ DOMAIN list = 1 .. n
  BY <1>2, <1>4, Basics
<1>9. /\ DOMAIN list' = 1 .. n - 1
      /\ Len(list') = n - 1
      /\ \A i \in 1 .. n - 1 :
           /\ i < p => list'[i] = list[i]
           /\ i >= p => list'[i] = list[i + 1]
  BY <1>4, <1>8 DEF Removed
<1>10. \A i \in 1 .. n - 1 : old(i) \in 1 .. n /\ old(i) # p
  BY <1>8
<1>11. \A i \in 1 .. n - 1 :
         list'[i] = list[old(i)] /\ fate'[list[old(i)]] = fate[list[old(i)]]
  <2>1. \A i \in 1 .. n - 1 : list'[i] = list[old(i)]
    BY <1>8, <1>9
  <2>2. \A i \in 1 .. n - 1 : list[old(i)] # t /\ list[old(i)] \in Timer
    BY <1>2, <1>4, <1>8, <1>10, Basics
  <2> QED BY <1>5, <2>1, <2>2
<1>12. WalkedTo(tmp) /\ failed = None /\ timer # None
  BY <1>1, <1>2 DEF InCallback
<1>13. WalkedTo(tmp)'
  <2>1. tmp \in Listed' \cup {None}
    BY <1>1, <1>4, <1>12 DEF WalkedTo
  <2>2. ASSUME NEW i \in 1 .. n - 1, Due(list[old(i)])
        PROVE  fate[list[old(i)]] = "none" <=> \E j \in 1 .. i : list'[j] = tmp
    <3>1. fate[list[old(i)]] = "none" <=> \E j \in 1 .. old(i) : list[j] = tmp
      BY <1>8, <1>10, <1>12, <2>2 DEF WalkedTo
    <3>2. ASSUME NEW j \in 1 .. old(i), list[j] = tmp
          PROVE  \E m \in 1 .. i : list'[m] = tmp
      <4>1. j # p /\ j \in Nat
        BY <1>1, <1>4, <1>8, <1>10, <3>2
      <4>2. CASE j < p
        <5>1. j \in 1 .. i /\ j \in 1 .. n - 1
          BY <1>8, <4>1, <4>2
        <5> QED BY <1>9, <3>2, <4>2, <5>1
      <4>3. CASE j > p
        <5>1. /\ j - 1 \in 1 .. i /\ j - 1 \in 1 .. n - 1
              /\ j - 1 >= p /\ j - 1 + 1 = j
          BY <1>8, <4>1, <4>3
        <5>2. list'[j - 1] = tmp
          BY <1>9, <3>2, <5>1
        <5> QED BY <5>1, <5>2
      <4> QED BY <1>8, <4>1, <4>2, <4>3
    <3>3. ASSUME NEW j \in 1 .. i, list'[j] = tmp
          PROVE  \E m \in 1 .. old(i) : list[m] = tmp
      <4>1. j \in 1 .. n - 1 /\ old(j) \in 1 .. old(i)
        BY <1>8
      <4>2. list[old(j)] = tmp
        BY <1>11, <3>3, <4>1
      <4> QED BY <4>1, <4>2
    <3> QED BY <3>1, <3>2, <3>3
  <2>3. ASSUME NEW i \in DOMAIN list', deadline'[list'[i]] <= now_ns'
        PROVE  fate'[list'[i]] = "none" <=> \E j \in 1 .. i : list'[j] = tmp'
    <3>1. /\ i \in 1 .. n - 1 /\ list'[i] = list[old(i)]
          /\ fate'[list'[i]] = fate[list[old(i)]]
      BY <1>9, <1>11
    <3>2. Due(list[old(i)])
      BY <1>1, <1>3, <2>3, <3>1 DEF Due
    <3>3. fate[list[old(i)]] = "none" <=> \E j \in 1 .. i : list'[j] = tmp
      BY <2>2, <3>1, <3>2
    <3> QED BY <1>1, <3>1, <3>3
  <2> QED BY <1>1, <2>1, <2>3 DEF WalkedTo, Due
<1>14. ASSUME NEW m \in 1 .. n - 1, list'[m] = timer, fate'[timer] = "rung"
       PROVE  RangUpTo(m)'
  <2>1. list[old(m)] = timer /\ fate[timer] = "rung" /\ old(m) \in 1 .. n
    BY <1>10, <1>11, <1>14
  <2>2. RangUpTo(old(m))
    BY <1>1, <1>2, <1>8, <2>1 DEF InCallback
  <2>3. m < p
    <3> SUFFICES ASSUME m >= p PROVE FALSE
      BY <1>8
    <3>1. p \in 1 .. old(m)
      BY <1>8
    <3> QED BY <1>1, <1>4, <2>2, <3>1 DEF RangUpTo
  <2>4. old(m) = m
    BY <2>3
  <2>5. ASSUME NEW i \in 1 .. m
        PROVE  deadline'[list'[i]] <= now_ns' /\ fate'[list'[i]] = "rung"
    <3>1. i \in 1 .. n - 1 /\ old(i) = i
      BY <1>8, <2>3
    <3>2. list'[i] = list[i] /\ fate'[list'[i]] = fate[list[i]]
      BY <1>11, <3>1
    <3>3. Due(list[i]) /\ fate[list[i]] = "rung"
      BY <2>2, <2>4 DEF RangUpTo
    <3> QED BY <1>1, <1>3, <3>2, <3>3 DEF Due
  <2>6. ASSUME NEW i \in m + 1 .. n - 1 PROVE fate'[list'[i]] = "none"
    <3>1. i \in 1 .. n - 1 /\ old(i) \in m + 1 .. n
      BY <1>8
    <3> QED BY <1>11, <2>2, <2>4, <3>1, Zenon DEF RangUpTo
  <2> QED BY <1>9, <2>5, <2>6 DEF RangUpTo, Due
<1>15. InCallback'
  BY <1>1, <1>9, <1>12, <1>13, <1>14 DEF InCallback
<1>16. InWalk' /\ InReap' /\ InIdle' /\ ArmedForHead'
  BY <1>1 DEF InWalk, InReap, InIdle, ArmedForHead
<1> QED BY <1>4, <1>6, <1>7, <1>15, <1>16 DEF IInv

(* The second pass of bbdd_timers_fd_cb frees the timers that rang, and    *)
(* the one that failed among them.                                         *)
LEMMA FreesRung ==
  ASSUME IInv, phase = "reap", NEW n \in 0 .. Len(list), Frees(n)
  PROVE  /\ \A i \in 1 .. n : fate[list[i]] = "rung"
         /\ \A i \in n + 1 .. Len(list) : fate[list[i]] = "none"
         /\ failed # None => \E i \in 1 .. n : list[i] = failed
<1> DEFINE m == Len(list)
<1>1. TypeOK /\ Sorted /\ Fates /\ InReap
  BY DEF IInv
<1>2. /\ m \in Nat /\ DOMAIN list = 1 .. m
      /\ \A i, j \in 1 .. m : list[i] = list[j] => i = j
      /\ \A i \in 1 .. m : list[i] \in Listed /\ list[i] # None
  BY <1>1, Basics
<1>3. CASE failed = None
  <2>1. \A i \in 1 .. m : Due(list[i]) => fate[list[i]] = "rung"
    BY <1>1, <1>2, <1>3 DEF InReap
  <2>2. \A i \in 1 .. n : fate[list[i]] = "rung"
    BY <1>2, <2>1 DEF Frees
  <2>3. ASSUME NEW i \in n + 1 .. m PROVE fate[list[i]] = "none"
    <3>1. n + 1 \in 1 .. m /\ i \in 1 .. m /\ n + 1 <= i
      BY <1>2
    <3>2. ~Due(list[n + 1])
      <4>1. n > 0 => list[n] # failed
        BY <1>2, <1>3
      <4> QED BY <1>2, <3>1, <4>1 DEF Frees
    <3>3. ~Due(list[i])
      BY <1>1, <1>2, <3>1, <3>2, DueIsPrefix
    <3> QED BY <1>1, <1>2, <3>1, <3>3 DEF Fates
  <2> QED BY <1>3, <2>2, <2>3
<1>4. CASE failed # None
  <2>1. PICK k \in 1 .. m : list[k] = failed /\ RangUpTo(k)
    BY <1>1, <1>2, <1>4 DEF InReap
  <2>2. n <= k
    <3> SUFFICES ASSUME n > k PROVE FALSE
      BY <1>2
    <3>1. k \in 1 .. n - 1
      BY <1>2
    <3> QED BY <2>1, <3>1 DEF Frees
  <2>3. n >= k
    <3> SUFFICES ASSUME n < k PROVE FALSE
      BY <1>2
    <3>1. n < m /\ n + 1 \in 1 .. k
      BY <1>2
    <3>2. Due(list[n + 1])
      BY <2>1, <3>1 DEF RangUpTo
    <3>3. n > 0 /\ list[n] = failed
      BY <3>1, <3>2 DEF Frees
    <3>4. n \in 1 .. m
      BY <1>2, <3>3
    <3> QED BY <1>2, <2>1, <3>3, <3>4
  <2>4. n = k
    BY <1>2, <2>2, <2>3
  <2> QED BY <1>2, <2>1, <2>4 DEF RangUpTo
<1> QED BY <1>3, <1>4

LEMMA ReapStep ==
  ASSUME IInv, Reap
  PROVE  IInv'
<1>1. /\ UNCHANGED <<now, event, fate, deadline>>
      /\ phase = "reap" /\ phase' = "idle"
      /\ Dealloc
      /\ failed # None => armed' = armed /\ readable' = readable /\ lapsed' = TRUE
      /\ failed = None => Rearm
      /\ timer' = None /\ tmp' = None /\ failed' = None
      /\ now_ns' = 0
  BY DEF Reap, fd
<1>2. TypeOK /\ Sorted
  BY DEF IInv
<1>3. PICK n \in 0 .. Len(list) :
        Frees(n) /\ list' = SubSeq(list, n + 1, Len(list))
  BY <1>1 DEF Dealloc
<1>4. /\ Dropped(n)
      /\ NoRepeat(list')
      /\ Sorted'
      /\ Listed' = {list[i] : i \in n + 1 .. Len(list)}
  BY <1>1, <1>2, <1>3, DropStep
<1>5. list' \in Seq(Timer) /\ deadline' \in [Timer -> 0 .. MaxTime]
  BY <1>1, <1>2, <1>4 DEF Dropped, TypeOK
<1>6. /\ armed' \in {Never} \cup 0 .. MaxTime
      /\ readable' \in BOOLEAN
      /\ lapsed' \in BOOLEAN
      /\ list' # <<>> /\ ~lapsed' => armed' = deadline'[list'[1]]
  <2>1. CASE failed = None
    BY <1>1, <1>2, <1>5, <2>1, RearmStep
  <2>2. CASE failed # None
    BY <1>1, <1>2, <2>2 DEF TypeOK
  <2> QED BY <2>1, <2>2
<1>7. TypeOK'
  <2>1. \A i, j \in DOMAIN list' : list'[i] = list'[j] => i = j
    BY <1>4 DEF NoRepeat
  <2>2. 0 \in 0 .. MaxTime /\ None \in Ptr
    BY TimersAssumption DEF Ptr
  <2>3. older' \in [Timer -> SUBSET Timer]
    BY <1>1, <1>2, ForgetType DEF Dealloc
  <2> QED BY <1>1, <1>2, <1>5, <1>6, <2>1, <2>2, <2>3 DEF TypeOK
<1>8. InIdle'
  <2>1. \A i \in n + 1 .. Len(list) : fate[list[i]] = "none"
    BY <1>1, <1>3, FreesRung
  <2> QED BY <1>1, <1>4, <2>1 DEF InIdle
<1>9. ArmedForHead'
  BY <1>6 DEF ArmedForHead
<1>10. Fates' /\ InWalk' /\ InCallback' /\ InReap'
  BY <1>1 DEF Fates, InWalk, InCallback, InReap
<1> QED BY <1>4, <1>7, <1>8, <1>9, <1>10 DEF IInv

-----------------------------------------------------------------------------
(* The theorems *)

LEMMA InitIInv == Init => IInv
<1> SUFFICES ASSUME Init PROVE IInv
  OBVIOUS
<1>1. TypeOK
  <2>1. list \in Seq(Timer) /\ DOMAIN list = {}
    BY DEF Init
  <2>2. 0 \in 0 .. MaxTime
    BY TimersAssumption
  <2>3. /\ deadline \in [Timer -> 0 .. MaxTime]
        /\ fate \in [Timer -> {"none", "rung", "cancelled"}]
        /\ older \in [Timer -> SUBSET Timer]
    BY <2>2 DEF Init
  <2> QED BY <2>1, <2>2, <2>3, Zenon DEF Init, TypeOK, Ptr
<1>2. list = <<>> /\ DOMAIN list = {} /\ phase = "idle" /\ failed = None
  BY DEF Init
<1> QED BY <1>1, <1>2 DEF IInv, Sorted, Fates, InWalk, InCallback, InReap,
                         InIdle, ArmedForHead, Listed

LEMMA NextIInv ==
  ASSUME "next" \notin Faults, IInv, [Next]_vars
  PROVE  IInv'
<1>1. CASE Next
  <2>1. ASSUME NEW t \in Timer, NEW delay \in Delays,
               Set(t, delay) \/ SetFails(t, delay)
        PROVE  IInv'
    BY <2>1, SetStep, SetFailsStep
  <2>2. ASSUME NEW t \in Timer, Cancel(t) \/ CancelOther(t) PROVE IInv'
    BY <2>2, CancelStep, CancelOtherStep
  <2> QED BY <1>1, <2>1, <2>2, TickStep, ExpireStep, PollReportsStep, FdCbStep,
             InvokeStep, CancelOwnStep, CallbackReturnsStep, CallbackFailsStep,
             WalkEndsStep, ReapStep
          DEF Next
<1>2. CASE UNCHANGED vars
  <2>1. Still /\ UNCHANGED <<now, fd, event, lapsed>>
    BY <1>2 DEF vars, Still, locals
  <2>2. now' \in 0 .. MaxTime /\ now <= now'
    BY <2>1, TimersAssumption DEF IInv, TypeOK
  <2>3. TypeOK'
    BY <2>1 DEF IInv, TypeOK, Still, fd
  <2>4. ArmedForHead'
    BY <2>1 DEF IInv, ArmedForHead, Still, fd
  <2> QED BY <2>1, <2>2, <2>3, <2>4, StillStep DEF IInv
<1> QED BY <1>1, <1>2

LEMMA Inductive == "next" \notin Faults => (Spec => []IInv)
<1> SUFFICES ASSUME "next" \notin Faults PROVE Spec => []IInv
  OBVIOUS
<1>1. IInv /\ [Next]_vars => IInv'
  BY NextIInv
<1> QED BY <1>1, InitIInv, PTL DEF Spec

(* Between handlers the timerfd is armed for the head of the list, for any *)
(* number of timers, unless arming it or a callback failed.  Callbacks may *)
(* set timers and cancel any but the next one on the list.                 *)
THEOREM HeadIsArmed == "next" \notin Faults => (Spec => []ArmedForHead)
<1>1. IInv => ArmedForHead
  BY DEF IInv
<1> QED BY <1>1, Inductive, PTL

(* The walk of bbdd_timers_fd_cb steps on no freed timer and its assertion *)
(* holds, for any number of timers, whatever timers the callbacks set, and *)
(* whether they cancel their own timer or others, as long as none of those *)
(* is the next one on the list.                                            *)
THEOREM WalkNeverStrays == "next" \notin Faults => (Spec => []WalkIsSafe)
<1>1. IInv => WalkIsSafe
  <2> SUFFICES ASSUME IInv PROVE WalkIsSafe
    OBVIOUS
  <2>1. TypeOK
    BY DEF IInv
  <2>2. phase = "callback" => tmp \in Listed \cup {None}
    BY DEF IInv, InCallback, WalkedTo
  <2>3. phase = "walk" => timer \in Listed \cup {None}
    BY DEF IInv, InWalk, WalkedTo
  <2>4. ASSUME phase = "reap", failed # None,
               NEW n \in 0 .. Len(list), Frees(n)
        PROVE  \E i \in 1 .. n : list[i] = failed
    BY <2>4, FreesRung
  <2> QED BY <2>1, <2>2, <2>3, <2>4 DEF WalkIsSafe,
                                            CallbacksMayDestroy
<1> QED BY <1>1, Inductive, PTL

(* Between handlers no timer that rang is left on the list, if callbacks   *)
(* do not cancel the timer next to theirs.                                 *)
THEOREM NoneLeftBehind == "next" \notin Faults => (Spec => []RungAreFreed)
<1>1. IInv => RungAreFreed
  BY DEF IInv, InIdle, RungAreFreed, Waiting
<1> QED BY <1>1, Inductive, PTL

-----------------------------------------------------------------------------
(* The refinement *)

Alarm(t) == [timer |-> t, at |-> deadline[t]]
Alarms == {Alarm(t) : t \in Waiting}

(* The alarms are unchanged by a step that neither sets, rings nor cancels *)
(* a timer that waits.                                                     *)
LEMMA AlarmsKept ==
  ASSUME Waiting' = Waiting, deadline' = deadline
  PROVE  Alarms' = Alarms
BY DEF Alarms, Alarm

(* A timer that waits no more is the only alarm to go. *)
LEMMA AlarmGone ==
  ASSUME NEW t \in Waiting, Waiting' = Waiting \ {t}, deadline' = deadline
  PROVE  Alarm(t) \in Alarms /\ Alarms' = Alarms \ {Alarm(t)}
<1>1. \A x, y : Alarm(x) = Alarm(y) => x = y
  BY DEF Alarm
<1>2. Alarms' = {Alarm(x) : x \in Waiting \ {t}}
  BY DEF Alarms, Alarm
<1>3. \A a : a \in Alarms' <=> a \in Alarms \ {Alarm(t)}
  BY <1>1, <1>2, ZenonT(60) DEF Alarms
<1> QED BY <1>3 DEF Alarms

LEMMA SetRefines ==
  ASSUME IInv, NEW t \in Timer, NEW delay \in Delays, Set(t, delay)
  PROVE  Clock!Set(t, delay)
<1> DEFINE at == now + delay
<1>1. /\ now' = now
      /\ t \notin Listed
      /\ Enlist(t, at)
      /\ fate' = [fate EXCEPT ![t] = "none"]
  BY DEF Set
<1>2. TypeOK /\ Sorted
  BY DEF IInv
<1>3. at \in 0 .. MaxTime
  BY TimersAssumption, <1>2 DEF Set, TypeOK
<1> HIDE DEF at
<1>4. /\ Listed' = Listed \cup {t}
      /\ deadline'[t] = at
      /\ \A x \in Timer \ {t} : deadline'[x] = deadline[x]
  BY <1>1, <1>2, <1>3, EnlistStep
<1>5. Listed \subseteq Timer \ {t}
  BY <1>1, <1>2, Basics
<1>6. /\ fate'[t] = "none"
      /\ \A x \in Timer \ {t} : fate'[x] = fate[x]
  BY <1>1, <1>2 DEF TypeOK
<1>7. Waiting' = Waiting \cup {t}
  BY <1>4, <1>5, <1>6 DEF Waiting
<1>8. \A x \in Waiting : deadline'[x] = deadline[x]
  BY <1>4, <1>5 DEF Waiting
<1>9. Alarms' = Alarms \cup {[timer |-> t, at |-> at]}
  <2>1. Alarms' = {[timer |-> x, at |-> deadline'[x]] : x \in Waiting \cup {t}}
    BY <1>7 DEF Alarms, Alarm
  <2>2. Alarms = {[timer |-> x, at |-> deadline'[x]] : x \in Waiting}
    BY <1>8, Zenon DEF Alarms, Alarm
  <2>3. [timer |-> t, at |-> at] = [timer |-> t, at |-> deadline'[t]]
    BY <1>4
  <2> QED BY <2>1, <2>2, <2>3
<1>10. \A a \in Alarms : a.timer # t
  BY <1>5 DEF Alarms, Alarm, Waiting
<1> QED BY <1>1, <1>9, <1>10 DEF Clock!Set, Alarms, Alarm, at

LEMMA CancelRefines ==
  ASSUME IInv, NEW t \in Timer, Cancel(t) \/ CancelOther(t)
  PROVE  Clock!Cancel(t)
<1>1. /\ now' = now
      /\ Unschedule(t)
      /\ fate' = [fate EXCEPT ![t] = "cancelled"]
  BY DEF Cancel, CancelOther
<1>2. TypeOK /\ Sorted /\ InIdle
  BY DEF IInv
<1>3. t \in Listed /\ list' = Delete(t) /\ deadline' = deadline
  BY <1>1 DEF Unschedule
<1>4. Listed' = Listed \ {t} /\ Listed \subseteq Timer
  BY <1>2, <1>3, UnscheduleStep, Basics
<1>5. \A x \in Timer \ {t} : fate'[x] = fate[x]
  BY <1>1, <1>2 DEF TypeOK
<1>6. fate[t] = "none"
  BY <1>2, <1>3 DEF Cancel, CancelOther, InIdle
<1>7. t \in Waiting /\ Waiting' = Waiting \ {t}
  BY <1>3, <1>4, <1>5, <1>6 DEF Waiting
<1>8. Alarm(t) \in Alarms /\ Alarms' = Alarms \ {Alarm(t)}
  BY <1>3, <1>7, AlarmGone
<1>9. Alarm(t).timer = t
  BY DEF Alarm
<1> QED BY <1>1, <1>8, <1>9, Zenon DEF Clock!Cancel, Alarms, Alarm

LEMMA InvokeRefines ==
  ASSUME IInv, Invoke
  PROVE  \E t \in Timer : Clock!Ring(t)
<1>2. TypeOK /\ Fates /\ WalkedTo(timer)
  BY DEF Invoke, IInv, InWalk
<1>3. timer \in Listed /\ Listed \subseteq Timer
  BY <1>2, Basics DEF Invoke, WalkedTo
<1>1. /\ now' = now /\ list' = list /\ deadline' = deadline
      /\ phase = "walk"
      /\ timer # None /\ Due(timer)
      /\ fate' = [fate EXCEPT ![timer] = "rung"]
  BY <1>3 DEF Invoke
<1>4. PICK k \in DOMAIN list : list[k] = timer
  BY <1>3 DEF Listed
<1>t. PICK t \in Timer : t = timer
  BY <1>3
<1>5. fate[t] = "none"
  <2>1. k \in 1 .. k
    BY <1>2, <1>4, Basics
  <2> QED BY <1>1, <1>2, <1>4, <1>t, <2>1 DEF WalkedTo
<1>6. /\ fate'[t] = "rung"
      /\ \A x \in Timer \ {t} : fate'[x] = fate[x]
  BY <1>1, <1>2, <1>t DEF TypeOK
<1>7. t \in Waiting /\ Waiting' = Waiting \ {t}
  <2>1. Listed' = Listed
    BY <1>1 DEF Listed
  <2>2. t \in Listed /\ Listed \subseteq Timer
    BY <1>3, <1>t
  <2> QED BY <1>5, <1>6, <2>1, <2>2 DEF Waiting
<1>8. Alarm(t) \in Alarms /\ Alarms' = Alarms \ {Alarm(t)}
  BY <1>1, <1>7, AlarmGone
<1>9. Alarm(t).timer = t /\ Alarm(t).at <= now
  <2>1. deadline[t] \in Nat /\ now_ns \in Nat /\ now \in Nat
    BY <1>2, Basics
  <2>2. deadline[t] <= now_ns /\ now_ns <= now
    BY <1>1, <1>2, <1>t DEF Due, Fates
  <2>3. deadline[t] <= now
    BY <2>1, <2>2
  <2> QED BY <2>3 DEF Alarm
<1>10. fate' = [fate EXCEPT ![t] = "rung"]
  BY <1>1, <1>t
<1>11. Clock!Ring(t)
  BY <1>1, <1>8, <1>9, <1>10, Zenon DEF Clock!Ring, Alarms, Alarm
<1> QED BY <1>11

(* What the second pass frees and what a callback cancels rang already. *)
LEMMA ReapRefines ==
  ASSUME IInv, Reap
  PROVE  Waiting' = Waiting
<1>1. fate' = fate /\ deadline' = deadline /\ phase = "reap" /\ Dealloc
  BY DEF Reap
<1>2. TypeOK /\ Sorted
  BY DEF IInv
<1>3. PICK n \in 0 .. Len(list) :
        Frees(n) /\ list' = SubSeq(list, n + 1, Len(list))
  BY <1>1 DEF Dealloc
<1>4. Listed' = {list[i] : i \in n + 1 .. Len(list)}
  BY <1>1, <1>2, <1>3, DropStep
<1>5. \A i \in 1 .. n : fate[list[i]] = "rung"
  BY <1>1, <1>3, FreesRung
<1>6. Len(list) \in Nat /\ DOMAIN list = 1 .. Len(list)
  BY <1>2, Basics
<1>7. \A x \in Listed : fate[x] = "none" => x \in Listed'
  <2> SUFFICES ASSUME NEW i \in 1 .. Len(list), fate[list[i]] = "none"
               PROVE  list[i] \in Listed'
    BY <1>6 DEF Listed
  <2>1. i \in n + 1 .. Len(list)
    BY <1>5, <1>6
  <2> QED BY <1>4, <2>1
<1>8. Listed' \subseteq Listed
  <2>1. \A i \in n + 1 .. Len(list) : i \in DOMAIN list
    BY <1>6
  <2> QED BY <1>4, <2>1 DEF Listed
<1> QED BY <1>1, <1>7, <1>8 DEF Waiting

LEMMA CancelOwnRefines ==
  ASSUME IInv, CancelOwn
  PROVE  Waiting' = Waiting
<1>1. /\ fate' = fate
      /\ timer \in Listed /\ fate[timer] = "rung"
      /\ list' = Delete(timer) /\ deadline' = deadline
  BY DEF CancelOwn, Own, Unschedule
<1>2. Listed' = Listed \ {timer}
  BY <1>1, UnscheduleStep DEF IInv
<1> QED BY <1>1, <1>2 DEF Waiting

LEMMA StepRefines == IInv /\ [Next]_vars => [Clock!Next]_(Clock!vars)
<1> SUFFICES ASSUME IInv, [Next]_vars
             PROVE  Clock!Next \/ UNCHANGED <<now, Alarms, fate>>
  BY DEF Clock!vars, Alarms, Alarm
<1>1. ASSUME NEW t \in Timer, NEW delay \in Delays, Set(t, delay)
      PROVE  Clock!Next
  BY <1>1, SetRefines DEF Clock!Next
<1>2. ASSUME NEW t \in Timer, Cancel(t) \/ CancelOther(t)
      PROVE  Clock!Next
  BY <1>2, CancelRefines DEF Clock!Next
<1>3. CASE Invoke
  BY <1>3, InvokeRefines DEF Clock!Next
<1>4. CASE Tick
  <2>1. now' = now + 1 /\ UNCHANGED <<list, deadline, fate>>
    BY <1>4 DEF Tick
  <2>2. Alarms' = Alarms
    BY <2>1 DEF Alarms, Alarm, Waiting, Listed
  <2> QED BY <2>1, <2>2, Zenon DEF Clock!Next, Clock!Tick, Alarms, Alarm
<1>5. CASE Reap
  <2>1. Waiting' = Waiting /\ UNCHANGED <<now, deadline, fate>>
    BY <1>5, ReapRefines, Zenon DEF Reap
  <2> QED BY <2>1, AlarmsKept
<1>6. CASE CancelOwn
  <2>1. Waiting' = Waiting /\ UNCHANGED <<now, deadline, fate>>
    BY <1>6, CancelOwnRefines DEF CancelOwn, Unschedule
  <2> QED BY <2>1, AlarmsKept
<1>7. ASSUME UNCHANGED <<now, list, deadline, fate>>
      PROVE  UNCHANGED <<now, Alarms, fate>>
  BY <1>7 DEF Alarms, Alarm, Waiting, Listed
<1>8. ASSUME NEW t \in Timer, NEW delay \in Delays, SetFails(t, delay)
      PROVE  UNCHANGED <<now, list, deadline, fate>>
  BY <1>8 DEF SetFails
<1>9. CASE \/ Expire \/ PollReports \/ FdCb \/ CallbackReturns \/ CallbackFails
           \/ WalkEnds \/ UNCHANGED vars
  <2>1. UNCHANGED <<now, list, deadline, fate>>
    BY <1>9 DEF Expire, PollReports, FdCb, CallbackReturns, CallbackFails,
                WalkEnds, vars
  <2> QED BY <1>7, <2>1
<1> QED BY <1>1, <1>2, <1>3, <1>4, <1>5, <1>6, <1>7, <1>8, <1>9 DEF Next

(* For any number of timers, the list, the timerfd and the two passes of   *)
(* bbdd_timers_fd_cb implement the alarm clock: a timer rings once, not    *)
(* before its time and not after it was cancelled, and none is forgotten,  *)
(* as long as no callback cancels the next timer on the list.              *)
THEOREM TimersAreAlarms == "next" \notin Faults => (Spec => RingsOnce)
<1>1. Init => Clock!Init
  BY DEF Init, Clock!Init, Waiting, Listed
<1> QED BY <1>1, Inductive, StepRefines, PTL DEF Spec, RingsOnce, Clock!Spec

=============================================================================
