---------------------------- MODULE TxPathProofs ----------------------------
(***************************************************************************)
(* Proofs about the transmit path, for any set of sessions, any capacity   *)
(* and any generation modulus.                                             *)
(***************************************************************************)
EXTENDS TxPath, FiniteSetTheorems, SequenceTheorems, TLAPS

-----------------------------------------------------------------------------
(* The transmit queue *)

GoodQueue(q, S) ==
  /\ q \in Seq(Discrs)
  /\ NoRepeat(q)
  /\ \A i \in DOMAIN q : q[i] \in S

(* bbdd_tx_enqueue keeps a list free of repetitions. *)
LEMMA EnqueueGood ==
  ASSUME NEW S, NEW q, GoodQueue(q, S), NEW d \in S, d \in Discrs
  PROVE  GoodQueue(Enqueue(q, d), S)
<1>1. CASE Linked(q, d)
  BY <1>1 DEF Enqueue
<1>2. CASE ~Linked(q, d)
  <2> DEFINE r == Append(q, d)
  <2>1. /\ q \in Seq(Discrs)
        /\ Len(q) \in Nat
        /\ DOMAIN q = 1 .. Len(q)
    BY DEF GoodQueue
  <2>2. /\ r \in Seq(Discrs)
        /\ DOMAIN r = 1 .. (Len(q) + 1)
        /\ \A i \in 1 .. Len(q) : r[i] = q[i]
        /\ r[Len(q) + 1] = d
    BY <2>1
  <2>3. \A i \in 1 .. Len(q) : r[i] # d
    BY <1>2, <2>1, <2>2 DEF Linked
  <2>4. ASSUME NEW i \in DOMAIN r, NEW j \in DOMAIN r, r[i] = r[j]
        PROVE  i = j
    <3> HIDE DEF r
    <3>1. CASE i = Len(q) + 1 \/ j = Len(q) + 1
      BY <2>1, <2>2, <2>3, <2>4, <3>1
    <3>2. CASE i # Len(q) + 1 /\ j # Len(q) + 1
      <4>1. i \in 1 .. Len(q) /\ j \in 1 .. Len(q)
        BY <2>1, <2>2, <3>2
      <4>2. q[i] = q[j]
        BY <2>2, <2>4, <4>1
      <4> QED
        BY <2>1, <4>1, <4>2 DEF GoodQueue, NoRepeat
    <3> QED
      BY <3>1, <3>2
  <2>5. ASSUME NEW i \in DOMAIN r
        PROVE  r[i] \in S
    <3> HIDE DEF r
    <3>1. CASE i = Len(q) + 1
      BY <2>2, <3>1
    <3>2. CASE i # Len(q) + 1
      <4>1. i \in 1 .. Len(q)
        BY <2>1, <2>2, <3>2
      <4> QED
        BY <2>1, <2>2, <4>1 DEF GoodQueue
    <3> QED
      BY <3>1, <3>2
  <2>6. GoodQueue(r, S)
    <3> HIDE DEF r
    <3> QED
      BY <2>2, <2>4, <2>5 DEF GoodQueue, NoRepeat
  <2> QED
    BY <1>2, <2>6 DEF Enqueue
<1> QED
  BY <1>1, <1>2

(* bbdd_tx_unlink removes a session from a list altogether. *)
LEMMA UnlinkGood ==
  ASSUME NEW S, NEW q, GoodQueue(q, S), NEW d
  PROVE  /\ GoodQueue(Unlink(q, d), S \ {d})
         /\ q = <<>> => Unlink(q, d) = <<>>
<1>0. /\ q \in Seq(Discrs)
      /\ Len(q) \in Nat
      /\ DOMAIN q = 1 .. Len(q)
      /\ \A i \in DOMAIN q : q[i] \in S
      /\ \A i, j \in DOMAIN q : q[i] = q[j] => i = j
  BY DEF GoodQueue, NoRepeat
<1>1. CASE ~Linked(q, d)
  <2>1. \A i \in DOMAIN q : q[i] \in S \ {d}
    BY <1>0, <1>1 DEF Linked
  <2> QED
    BY <1>0, <1>1, <2>1 DEF Unlink, GoodQueue, NoRepeat
<1>2. CASE Linked(q, d)
  <2> DEFINE k == CHOOSE i \in DOMAIN q : q[i] = d
             a == SubSeq(q, 1, k - 1)
             b == SubSeq(q, k + 1, Len(q))
             r == a \o b
             At(i) == IF i < k THEN i ELSE i + 1
  <2>1. k \in 1 .. Len(q) /\ q[k] = d
    BY <1>0, <1>2 DEF Linked
  <2> HIDE DEF k
  <2>2. /\ a \in Seq(Discrs)
        /\ Len(a) = k - 1
        /\ \A i \in 1 .. k - 1 : a[i] = q[i]
    BY <1>0, <2>1
  <2>3. /\ b \in Seq(Discrs)
        /\ Len(b) = Len(q) - k
        /\ \A i \in 1 .. Len(q) - k : b[i] = q[k + i]
    <3> DEFINE m == k + 1
               n == Len(q)
    <3>1. m \in Int /\ n \in Int /\ k \in Int /\ k <= n
      BY <1>0, <2>1
    <3>2. \A i \in m .. n : q[i] \in Discrs
      BY <1>0, <2>1
    <3> HIDE DEF m, n
    <3>3. /\ SubSeq(q, m, n) \in Seq(Discrs)
          /\ Len(SubSeq(q, m, n)) = IF m <= n THEN n - m + 1 ELSE 0
          /\ \A i \in 1 .. n - m + 1 : SubSeq(q, m, n)[i] = q[m + i - 1]
      BY <3>1, <3>2, SubSeqProperties
    <3>4. /\ n - m + 1 = Len(q) - k
          /\ \A i \in Int : m + i - 1 = k + i
          /\ ~(m <= n) => Len(q) - k = 0
      BY <3>1 DEF m, n
    <3>5. b = SubSeq(q, m, n)
      BY DEF m, n
    <3>6. Len(b) = Len(q) - k
      BY <3>1, <3>3, <3>4, <3>5
    <3>7. \A i \in 1 .. Len(q) - k : b[i] = q[k + i]
      <4> TAKE i \in 1 .. Len(q) - k
      <4> HIDE DEF b
      <4>1. b[i] = q[m + i - 1]
        BY <3>3, <3>4, <3>5
      <4>2. m + i - 1 = k + i
        BY <3>4
      <4> QED
        BY <4>1, <4>2
    <3> QED
      BY <3>3, <3>5, <3>6, <3>7
  <2> HIDE DEF a, b
  <2>4. /\ r \in Seq(Discrs)
        /\ Len(r) = Len(q) - 1
        /\ DOMAIN r = 1 .. Len(q) - 1
    <3>1. r \in Seq(Discrs) /\ Len(r) = Len(a) + Len(b)
      BY <2>2, <2>3, ConcatProperties
    <3>2. Len(a) + Len(b) = Len(q) - 1
      BY <1>0, <2>1, <2>2, <2>3
    <3> QED
      BY <3>1, <3>2
  <2>5. \A i \in 1 .. Len(q) - 1 :
          /\ At(i) \in DOMAIN q
          /\ At(i) # k
          /\ r[i] = q[At(i)]
    <3> SUFFICES ASSUME NEW i \in 1 .. Len(q) - 1
                 PROVE  /\ At(i) \in DOMAIN q
                        /\ At(i) # k
                        /\ r[i] = q[At(i)]
      OBVIOUS
    <3>1. CASE i < k
      BY <1>0, <2>1, <2>2, <2>3, <3>1
    <3>2. CASE ~(i < k)
      <4>1. r[i] = b[i - (k - 1)]
        BY <1>0, <2>1, <2>2, <2>3, <3>2
      <4>2. i - (k - 1) \in 1 .. Len(q) - k
        BY <1>0, <2>1, <3>2
      <4>3. b[i - (k - 1)] = q[k + (i - (k - 1))]
        BY <2>3, <4>2
      <4>4. k + (i - (k - 1)) = i + 1
        BY <1>0, <2>1
      <4> QED
        BY <1>0, <2>1, <3>2, <4>1, <4>3, <4>4
    <3> QED
      BY <3>1, <3>2
  <2>6. \A i, j \in 1 .. Len(q) - 1 : At(i) = At(j) => i = j
    BY <1>0, <2>1
  <2> HIDE DEF r, At
  <2>7. NoRepeat(r)
    BY <1>0, <2>4, <2>5, <2>6 DEF NoRepeat
  <2>8. \A i \in DOMAIN r : r[i] \in S \ {d}
    BY <1>0, <2>1, <2>4, <2>5
  <2>9. GoodQueue(r, S \ {d})
    BY <2>4, <2>7, <2>8 DEF GoodQueue
  <2>10. q # <<>>
    BY <2>1, <1>0
  <2> QED
    BY <1>2, <2>9, <2>10 DEF Unlink, r, a, b, k
<1> QED
  BY <1>1, <1>2

(* The drain loop takes the head of a list. *)
LEMMA TailGood ==
  ASSUME NEW S, NEW q, GoodQueue(q, S), q # <<>>
  PROVE  GoodQueue(Tail(q), S) /\ Head(q) \in S /\ Head(q) \in Discrs
<1>1. /\ q \in Seq(Discrs)
      /\ Len(q) \in Nat
      /\ Len(q) # 0
      /\ DOMAIN q = 1 .. Len(q)
  BY DEF GoodQueue
<1>2. Head(q) = q[1] /\ 1 \in DOMAIN q
  BY <1>1
<1>3. /\ Tail(q) \in Seq(Discrs)
      /\ DOMAIN Tail(q) = 1 .. Len(q) - 1
      /\ \A i \in 1 .. Len(q) - 1 : Tail(q)[i] = q[i + 1] /\ i + 1 \in DOMAIN q
  BY <1>1
<1>4. NoRepeat(Tail(q))
  <2> SUFFICES ASSUME NEW i \in 1 .. Len(q) - 1, NEW j \in 1 .. Len(q) - 1,
                      Tail(q)[i] = Tail(q)[j]
               PROVE  i = j
    BY <1>3 DEF NoRepeat
  <2>1. i + 1 = j + 1
    BY <1>3 DEF GoodQueue, NoRepeat
  <2> QED
    BY <1>1, <2>1
<1>5. \A i \in DOMAIN Tail(q) : Tail(q)[i] \in S
  BY <1>3 DEF GoodQueue
<1> QED
  BY <1>1, <1>2, <1>3, <1>4, <1>5 DEF GoodQueue

-----------------------------------------------------------------------------
(* Types, and who may be on the queue.  The two are proved together: that  *)
(* a drained slot adds no unknown session to talking needs the queue to be *)
(* clean.                                                                  *)

Queueable == sdir \ hold

QueueInv ==
  /\ TypeOK
  /\ GoodQueue(finals, Queueable)
  /\ GoodQueue(periodics, Queueable)

(* Overriding a function at one point keeps its type: the updates of       *)
(* gen_id, config and inc.                                                 *)
LEMMA Overridden ==
  ASSUME NEW S, NEW T, NEW f \in [S -> T], NEW x, NEW v \in T
  PROVE  [f EXCEPT ![x] = v] \in [S -> T]
  OBVIOUS

(* What UpdateNow may do to the types. *)
LEMMA UpdateNowType ==
  ASSUME TypeOK, NEW d \in sdir, NEW inject \in BOOLEAN, UpdateNow(d, inject),
         sdir' = sdir
  PROVE  /\ gen_id' \in [Discrs -> Gens]
         /\ config' \in [Discrs -> ConfigGens]
         /\ spinners' \subseteq Skbs
         /\ pinned' \in Int
         /\ talking' \subseteq sdir
<1> DEFINE g == NextGen(gen_id[d])
<1>1. d \in Discrs
  BY DEF TypeOK
<1>2. g \in Gens
  BY <1>1, TxAssumption DEF NextGen, TypeOK, Gens
<1>3. Skb(d, g) \in Skbs
  BY <1>1, <1>2 DEF Skb, Skbs, TypeOK
<1> HIDE DEF g
<1>4. gen_id' = [gen_id EXCEPT ![d] = g]
  BY DEF UpdateNow, g
<1>5. config' = config \/ config' = [config EXCEPT ![d] = g]
  BY DEF UpdateNow, g
<1>6. spinners' = spinners \/ spinners' = spinners \cup {Skb(d, g)}
  BY DEF UpdateNow, g
<1>7. pinned' = pinned \/ pinned' = pinned + 1
  BY DEF UpdateNow
<1>8. talking' \in {talking, talking \cup {d}, talking \ {d}}
  BY DEF UpdateNow
<1>9. gen_id' \in [Discrs -> Gens]
  BY <1>2, <1>4, Overridden DEF TypeOK
<1>10. config' \in [Discrs -> ConfigGens]
  <2>1. g \in ConfigGens
    BY <1>2 DEF ConfigGens
  <2> QED
    BY <1>5, <2>1, Overridden DEF TypeOK
<1>11. spinners' \subseteq Skbs
  BY <1>3, <1>6 DEF TypeOK
<1>12. pinned' \in Int
  BY <1>7 DEF TypeOK
<1>13. talking' \subseteq sdir
  BY <1>8 DEF TypeOK
<1> QED
  BY <1>9, <1>10, <1>11, <1>12, <1>13

(* The same for __bbdd_bpf_session_update as a whole, deferral included.   *)
LEMMA UpdateType ==
  ASSUME TypeOK, NEW d \in sdir, NEW inject \in BOOLEAN,
         Update(d, inject), sdir' = sdir, NEW S, d \in S,
         GoodQueue(finals, S), GoodQueue(periodics, S)
  PROVE  /\ gen_id' \in [Discrs -> Gens]
         /\ config' \in [Discrs -> ConfigGens]
         /\ spinners' \subseteq Skbs
         /\ pinned' \in Int
         /\ talking' \subseteq sdir
         /\ registered' \in BOOLEAN
         /\ GoodQueue(finals', S)
         /\ GoodQueue(periodics', S)
<1>1. d \in sdir /\ d \in Discrs
  BY DEF TypeOK
<1>2. CASE inject /\ ~HaveCapacity
  <2>1. /\ periodics' = Enqueue(periodics, d)
        /\ PolloutArm
        /\ UNCHANGED <<finals, gen_id, config, spinners, pinned, talking>>
    BY <1>2 DEF Update
  <2>2. GoodQueue(periodics', S)
    BY <1>1, <2>1, EnqueueGood
  <2> QED
    BY <2>1, <2>2 DEF TypeOK, PolloutArm
<1>3. CASE ~(inject /\ ~HaveCapacity)
  BY <1>1, <1>3, UpdateNowType DEF Update, TypeOK, queue
<1> QED
  BY <1>2, <1>3

(* bbdd_bpf_create starts with an empty queue. *)
LEMMA QueueInvInit == Init => QueueInv
<1> SUFFICES ASSUME Init
             PROVE  QueueInv
  OBVIOUS
<1>1. TypeOK
  <2>1. 0 \in Gens
    BY TxAssumption DEF Gens
  <2>2. /\ gen_id \in [Discrs -> Gens]
        /\ inc \in [Discrs -> {0, 1}]
        /\ config \in [Discrs -> ConfigGens]
    BY <2>1 DEF Init, ConfigGens
  <2>3. finals \in Seq(Discrs) /\ periodics \in Seq(Discrs)
    BY DEF Init
  <2>4. capacity \in Nat /\ pinned \in Int
    BY TxAssumption DEF Init
  <2>5. /\ sdir \subseteq Discrs /\ hold \subseteq sdir
        /\ spinners \subseteq Skbs /\ talking \subseteq sdir
    BY DEF Init
  <2>6. registered \in BOOLEAN /\ draining \in BOOLEAN
    BY DEF Init
  <2> QED
    BY <2>2, <2>3, <2>4, <2>5, <2>6 DEF TypeOK
<1>2. GoodQueue(<<>>, Queueable)
  BY DEF GoodQueue, NoRepeat
<1> QED
  BY <1>1, <1>2 DEF QueueInv, Init

(* Every step of userspace and of the looper keeps the types and the queue *)
(* clean.                                                                  *)
LEMMA QueueInvNext == QueueInv /\ [Next]_vars => QueueInv'
<1> SUFFICES ASSUME QueueInv, [Next]_vars
             PROVE  QueueInv'
  OBVIOUS
<1> USE TxAssumption DEF QueueInv
<1>1. ASSUME NEW d \in Discrs, SessionAdd(d)
      PROVE  QueueInv'
  <2>1. capacity' \in Nat
    <3>1. IsFiniteSet(sdir \cup {d})
      BY FS_Subset, FS_AddElement DEF TypeOK
    <3>2. CapacityFor(sdir \cup {d}) \in Nat
      BY <3>1, FS_CardinalityType DEF CapacityFor, CapMult
    <3> QED
      BY <1>1, <3>2 DEF SessionAdd, TypeOK
  <2>2. TypeOK'
    <3>1. 0 \in Gens /\ 0 \in ConfigGens
      BY DEF Gens, ConfigGens
    <3>2. gen_id \in [Discrs -> Gens] /\ config \in [Discrs -> ConfigGens]
      BY DEF TypeOK
    <3>3. gen_id' \in {gen_id, [gen_id EXCEPT ![d] = 0]}
      BY <1>1 DEF SessionAdd
    <3>4. config' \in {config, [config EXCEPT ![d] = 0]}
      BY <1>1 DEF SessionAdd
    <3>5. gen_id' \in [Discrs -> Gens] /\ config' \in [Discrs -> ConfigGens]
      BY <3>1, <3>2, <3>3, <3>4, Overridden
    <3>6. inc' \in [Discrs -> {0, 1}]
      <4>1. 1 - inc[d] \in {0, 1}
        BY DEF TypeOK
      <4> QED
        BY <1>1, <4>1 DEF SessionAdd, TypeOK
    <3>7. sdir' \subseteq Discrs /\ hold' \subseteq sdir' /\ talking' \subseteq sdir'
      BY <1>1 DEF SessionAdd, TypeOK
    <3> QED
      BY <1>1, <2>1, <3>5, <3>6, <3>7
         DEF SessionAdd, TypeOK, queue
  <2>3. Queueable' = Queueable
    BY <1>1 DEF SessionAdd, Queueable, TypeOK
  <2> QED
    BY <1>1, <2>2, <2>3 DEF SessionAdd, queue
<1>2. ASSUME NEW d \in Discrs, HoldTimer(d)
      PROVE  QueueInv'
  <2>1. PICK inject \in BOOLEAN : Update(d, inject)
    BY <1>2 DEF HoldTimer
  <2> DEFINE S == sdir \ (hold \ {d})
  <2>2. /\ GoodQueue(finals, S)
        /\ GoodQueue(periodics, S)
        /\ d \in S
        /\ Queueable' = S
    BY <1>2 DEF HoldTimer, Queueable, GoodQueue, TypeOK
  <2>3. d \in sdir /\ sdir' = sdir /\ hold' \subseteq sdir
    BY <1>2 DEF HoldTimer, TypeOK
  <2> HIDE DEF S
  <2>4. /\ gen_id' \in [Discrs -> Gens]
        /\ config' \in [Discrs -> ConfigGens]
        /\ spinners' \subseteq Skbs
        /\ pinned' \in Int
        /\ talking' \subseteq sdir
        /\ registered' \in BOOLEAN
        /\ GoodQueue(finals', S)
        /\ GoodQueue(periodics', S)
    BY <2>1, <2>2, <2>3, UpdateType
  <2>5. TypeOK'
    BY <1>2, <2>3, <2>4 DEF HoldTimer, TypeOK, GoodQueue
  <2> QED
    BY <2>2, <2>4, <2>5
<1>3. ASSUME NEW d \in Discrs, SessionUpdate(d)
      PROVE  QueueInv'
  <2>1. PICK inject \in BOOLEAN : Update(d, inject)
    BY <1>3 DEF SessionUpdate
  <2>2. d \in Queueable /\ Queueable' = Queueable
    BY <1>3 DEF SessionUpdate, Queueable
  <2> QED
    BY <1>3, <2>1, <2>2, UpdateType DEF SessionUpdate, TypeOK, GoodQueue
<1>4. ASSUME NEW d \in Discrs, RespondFinal(d)
      PROVE  QueueInv'
  <2>1. d \in Queueable /\ Queueable' = Queueable
    BY <1>4 DEF RespondFinal, Queueable
  <2>2. CASE HaveCapacity
    <3>1. InjectFinal(d) /\ UNCHANGED queue
      BY <1>4, <2>2 DEF RespondFinal
    <3>2. pinned' \in Int
      BY <3>1 DEF InjectFinal, TypeOK
    <3> QED
      BY <1>4, <2>1, <3>1, <3>2 DEF RespondFinal, TypeOK, queue
  <2>3. CASE ~HaveCapacity
    <3>1. /\ finals' = Enqueue(finals, d)
          /\ PolloutArm
          /\ UNCHANGED <<periodics, pinned>>
      BY <1>4, <2>3 DEF RespondFinal
    <3>2. GoodQueue(finals', Queueable)
      BY <2>1, <3>1, EnqueueGood
    <3>3. registered' \in BOOLEAN
      BY <3>1 DEF PolloutArm
    <3> QED
      BY <1>4, <2>1, <3>1, <3>2, <3>3 DEF RespondFinal, TypeOK, GoodQueue
  <2> QED
    BY <2>2, <2>3
<1>5. ASSUME NEW d \in Discrs, SessionDel(d)
      PROVE  QueueInv'
  <2>1. /\ GoodQueue(finals', Queueable \ {d})
        /\ GoodQueue(periodics', Queueable \ {d})
    BY <1>5, UnlinkGood DEF SessionDel
  <2>2. Queueable' = Queueable \ {d}
    BY <1>5 DEF SessionDel, Forget, Queueable
  <2>3. capacity' \in Nat
    <3>1. IsFiniteSet(sdir \ {d})
      BY FS_Subset DEF TypeOK
    <3>2. CapacityFor(sdir \ {d}) \in Nat
      BY <3>1, FS_CardinalityType DEF CapacityFor, CapMult
    <3> QED
      BY <1>5, <3>2 DEF SessionDel, Forget, TypeOK
  <2>4. config' \in [Discrs -> ConfigGens]
    <3>1. NoConfig \in ConfigGens
      BY DEF ConfigGens
    <3> QED
      BY <1>5, <3>1, Overridden DEF SessionDel, Forget, TypeOK
  <2>5. sdir' \subseteq Discrs /\ hold' \subseteq sdir' /\ talking' \subseteq sdir'
    BY <1>5 DEF SessionDel, Forget, TypeOK
  <2>6. TypeOK'
    BY <1>5, <2>1, <2>3, <2>4, <2>5 DEF SessionDel, Forget, TypeOK, GoodQueue
  <2> QED
    BY <2>1, <2>2, <2>6
<1>6. CASE DrainStart
  BY <1>6 DEF DrainStart, TypeOK, queue, Queueable
<1>7. CASE DrainFinal
  <2>1. GoodQueue(finals', Queueable)
    BY <1>7, TailGood DEF DrainFinal
  <2>2. pinned' \in Int
    BY <1>7 DEF DrainFinal, InjectFinal, TypeOK
  <2>3. Queueable' = Queueable
    BY <1>7 DEF DrainFinal, Queueable
  <2> QED
    BY <1>7, <2>1, <2>2, <2>3 DEF DrainFinal, TypeOK, GoodQueue
<1>8. CASE DrainPeriodic
  <2> DEFINE d == Head(periodics)
  <2>1. GoodQueue(periodics', Queueable) /\ d \in Queueable
    BY <1>8, TailGood DEF DrainPeriodic
  <2>2. d \in sdir /\ sdir' = sdir /\ Queueable' = Queueable
    BY <1>8, <2>1 DEF DrainPeriodic, Queueable
  <2>3. PICK inject \in BOOLEAN : UpdateNow(d, inject)
    BY <1>8 DEF DrainPeriodic
  <2> HIDE DEF d
  <2>4. /\ gen_id' \in [Discrs -> Gens]
        /\ config' \in [Discrs -> ConfigGens]
        /\ spinners' \subseteq Skbs
        /\ pinned' \in Int
        /\ talking' \subseteq sdir
    BY <2>2, <2>3, UpdateNowType
  <2> QED
    BY <1>8, <2>1, <2>2, <2>4 DEF DrainPeriodic, TypeOK, GoodQueue
<1>9. CASE DrainEnd
  BY <1>9 DEF DrainEnd, TypeOK, Queueable
<1>10. ASSUME NEW s \in Skbs, Looper(s)
       PROVE  QueueInv'
  BY <1>10 DEF Looper, TypeOK, queue, Queueable
<1>11. CASE UNCHANGED vars
  BY <1>11 DEF vars, TypeOK, Queueable
<1> QED
  BY <1>1, <1>2, <1>3, <1>4, <1>5, <1>6, <1>7, <1>8, <1>9, <1>10, <1>11
     DEF Next

(* The fields of the transmit path keep their types. *)
THEOREM TypeCorrect == Spec => []TypeOK
<1>1. QueueInv => TypeOK
  BY DEF QueueInv
<1> QED
  BY <1>1, QueueInvInit, QueueInvNext, PTL DEF Spec

(* Only sessions that exist and are past their hold are on the transmit    *)
(* queue, and each is there at most once per list, whatever fails: the     *)
(* asserts of bbdd_bpf_tx_drain and invalid_on_hold_abort are not reached. *)
THEOREM QueueClean == Spec => []QueuedAreLive
<1>1. QueueInv => QueuedAreLive
  BY DEF QueueInv, GoodQueue, QueuedAreLive, Queueable
<1> QED
  BY <1>1, QueueInvInit, QueueInvNext, PTL DEF Spec

-----------------------------------------------------------------------------
(* The queue and the POLLOUT registration *)

(* If registering does not fail, whatever is queued has the socket         *)
(* registered: no handler enqueues without bbdd_bpf_tx_pollout_arm, and    *)
(* bbdd_bpf_tx_drain disarms only when it leaves the queue empty.          *)
THEOREM Armed == ASSUME "arm" \notin Faults PROVE Spec => []PendingIsArmed
<1>1. Init => PendingIsArmed
  BY DEF Init, PendingIsArmed, Pending
<1>2. QueueInv /\ PendingIsArmed /\ [Next]_vars => PendingIsArmed'
  <2> SUFFICES ASSUME QueueInv, PendingIsArmed, [Next]_vars
               PROVE  PendingIsArmed'
    OBVIOUS
  <2> USE DEF PendingIsArmed, Pending
  <2>1. ASSUME NEW d \in Discrs, NEW inject \in BOOLEAN, Update(d, inject)
        PROVE  PendingIsArmed'
    <3>1. CASE inject /\ ~HaveCapacity
      BY <2>1, <3>1 DEF Update, PolloutArm
    <3>2. CASE ~(inject /\ ~HaveCapacity)
      BY <2>1, <3>2 DEF Update, queue
    <3> QED
      BY <3>1, <3>2
  <2>2. ASSUME NEW d \in Discrs, RespondFinal(d)
        PROVE  PendingIsArmed'
    <3>1. CASE HaveCapacity
      BY <2>2, <3>1 DEF RespondFinal, queue
    <3>2. CASE ~HaveCapacity
      BY <2>2, <3>2 DEF RespondFinal, PolloutArm
    <3> QED
      BY <3>1, <3>2
  <2>3. ASSUME NEW d \in Discrs, SessionDel(d)
        PROVE  PendingIsArmed'
    <3>1. /\ finals = <<>> => finals' = <<>>
          /\ periodics = <<>> => periodics' = <<>>
      BY <2>3, UnlinkGood DEF SessionDel, QueueInv
    <3> QED
      BY <2>3, <3>1 DEF SessionDel, Forget
  <2>4. ASSUME NEW d \in Discrs, SessionAdd(d)
        PROVE  PendingIsArmed'
    BY <2>4 DEF SessionAdd, queue
  <2>5. ASSUME NEW d \in Discrs, HoldTimer(d) \/ SessionUpdate(d)
        PROVE  PendingIsArmed'
    BY <2>1, <2>5 DEF HoldTimer, SessionUpdate
  <2>6. CASE DrainStart
    BY <2>6 DEF DrainStart, queue
  <2>7. CASE DrainFinal \/ DrainPeriodic
    BY <2>7 DEF DrainFinal, DrainPeriodic
  <2>8. CASE DrainEnd
    BY <2>8 DEF DrainEnd
  <2>9. ASSUME NEW s \in Skbs, Looper(s)
        PROVE  PendingIsArmed'
    BY <2>9 DEF Looper, queue
  <2>10. CASE UNCHANGED vars
    BY <2>10 DEF vars
  <2> QED
    BY <2>2, <2>3, <2>4, <2>5, <2>6, <2>7, <2>8, <2>9, <2>10 DEF Next
<1> QED
  BY <1>1, <1>2, QueueInvInit, QueueInvNext, PTL DEF Spec

-----------------------------------------------------------------------------
(* Accounting.  A Final passes the looper only when the generation of the  *)
(* session is the one in the config map, so the two must agree.            *)

Accounted ==
  /\ IsFiniteSet(spinners)
  /\ PinnedExact
  /\ \A d \in sdir : gen_id[d] = config[d]

(* A packet that is sent is counted once and is new to the loop. *)
LEMMA UpdateNowAccounted ==
  ASSUME "conf" \notin Faults, TypeOK, Accounted, sdir' = sdir,
         NEW d \in sdir, NEW inject \in BOOLEAN, UpdateNow(d, inject)
  PROVE  Accounted'
<1> DEFINE g == NextGen(gen_id[d])
<1>1. d \in Discrs
  BY DEF TypeOK
<1>2. /\ gen_id' = [gen_id EXCEPT ![d] = g]
      /\ config' = [config EXCEPT ![d] = g]
      /\ Skb(d, g) \notin spinners
  BY DEF UpdateNow
<1>3. \/ spinners' = spinners /\ pinned' = pinned
      \/ spinners' = spinners \cup {Skb(d, g)} /\ pinned' = pinned + 1
  BY DEF UpdateNow
<1> HIDE DEF g
<1>4. \A e \in sdir' : gen_id'[e] = config'[e]
  BY <1>1, <1>2 DEF Accounted, TypeOK
<1>5. IsFiniteSet(spinners') /\ pinned' = Cardinality(spinners')
  BY <1>2, <1>3, FS_AddElement DEF Accounted, PinnedExact
<1> QED
  BY <1>4, <1>5 DEF Accounted, PinnedExact

(* When no config update fails and no Final is shot, the difference of     *)
(* sk_sent_count and sk_released_count is the number of skbs in the loop,  *)
(* also across discriminators that are deleted and reused.                 *)
THEOREM PinnedIsExact ==
  ASSUME "conf" \notin Faults, "final" \notin Faults
  PROVE  Spec => []PinnedExact
<1>1. Init => Accounted
  BY FS_EmptySet DEF Init, Accounted, PinnedExact
<1>2. QueueInv /\ Accounted /\ [Next]_vars => Accounted'
  <2> SUFFICES ASSUME QueueInv, Accounted, [Next]_vars
               PROVE  Accounted'
    OBVIOUS
  <2>0. TypeOK
    BY DEF QueueInv
  <2>1. ASSUME NEW d \in sdir, NEW inject \in BOOLEAN, Update(d, inject),
               sdir' = sdir
        PROVE  Accounted'
    <3>1. CASE inject /\ ~HaveCapacity
      BY <2>1, <3>1 DEF Update, Accounted, PinnedExact
    <3>2. CASE ~(inject /\ ~HaveCapacity)
      BY <2>0, <2>1, <3>2, UpdateNowAccounted DEF Update
    <3> QED
      BY <3>1, <3>2
  <2>2. ASSUME NEW d \in Discrs, HoldTimer(d) \/ SessionUpdate(d)
        PROVE  Accounted'
    <3>1. d \in sdir /\ sdir' = sdir
      BY <2>0, <2>2 DEF HoldTimer, SessionUpdate, TypeOK
    <3> QED
      BY <2>1, <2>2, <3>1 DEF HoldTimer, SessionUpdate
  <2>3. ASSUME NEW d \in Discrs, SessionAdd(d)
        PROVE  Accounted'
    BY <2>0, <2>3 DEF SessionAdd, Accounted, PinnedExact, TypeOK
  <2>4. ASSUME NEW d \in Discrs, RespondFinal(d)
        PROVE  Accounted'
    <3>1. d \in sdir
      BY <2>4 DEF RespondFinal
    <3>2. pinned' = pinned
      BY <2>4, <3>1 DEF RespondFinal, InjectFinal, Accounted
    <3> QED
      BY <2>4, <3>2 DEF RespondFinal, Accounted, PinnedExact
  <2>5. ASSUME NEW d \in Discrs, SessionDel(d)
        PROVE  Accounted'
    BY <2>0, <2>5 DEF SessionDel, Forget, Accounted, PinnedExact, TypeOK
  <2>6. CASE DrainStart
    BY <2>6 DEF DrainStart, Accounted, PinnedExact
  <2>7. CASE DrainFinal
    <3>1. Head(finals) \in sdir
      BY <2>7, TailGood DEF DrainFinal, QueueInv, Queueable
    <3>2. pinned' = pinned
      BY <2>7, <3>1 DEF DrainFinal, InjectFinal, Accounted
    <3> QED
      BY <2>7, <3>2 DEF DrainFinal, Accounted, PinnedExact
  <2>8. CASE DrainPeriodic
    <3>1. Head(periodics) \in sdir
      BY <2>8, TailGood DEF DrainPeriodic, QueueInv, Queueable
    <3> QED
      BY <2>0, <2>8, <3>1, UpdateNowAccounted DEF DrainPeriodic
  <2>9. CASE DrainEnd
    BY <2>9 DEF DrainEnd, Accounted, PinnedExact
  <2>10. ASSUME NEW s \in Skbs, Looper(s)
         PROVE  Accounted'
    <3>1. /\ IsFiniteSet(spinners \ {s})
          /\ Cardinality(spinners \ {s}) = Cardinality(spinners) - 1
      BY <2>10, FS_RemoveElement DEF Looper, Accounted
    <3> QED
      BY <2>10, <3>1 DEF Looper, Accounted, PinnedExact
  <2>11. CASE UNCHANGED vars
    BY <2>11 DEF vars, Accounted, PinnedExact
  <2> QED
    BY <2>2, <2>3, <2>4, <2>5, <2>6, <2>7, <2>8, <2>9, <2>10, <2>11 DEF Next
<1>3. Accounted => PinnedExact
  BY DEF Accounted
<1> QED
  BY <1>1, <1>2, <1>3, QueueInvInit, QueueInvNext, PTL DEF Spec

-----------------------------------------------------------------------------
(* One spinner per session.  OneSpinner is about the config map only; to   *)
(* be inductive it needs to know which skb is the live one, and that no    *)
(* skb of an earlier incarnation is around.                                *)

SpinInv ==
  /\ \A s \in spinners : s.discr \in sdir => s.inc = inc[s.discr]
  /\ \A d \in sdir : d \in talking <=> Skb(d, config[d]) \in spinners

(* Bumping the generation and sending leaves exactly the new skb live. *)
LEMMA UpdateNowSpin ==
  ASSUME TypeOK, SpinInv, UNCHANGED <<sdir, inc>>,
         NEW d \in sdir, NEW inject \in BOOLEAN, UpdateNow(d, inject)
  PROVE  SpinInv'
<1> DEFINE g == NextGen(gen_id[d])
<1>1. d \in Discrs /\ Skb(d, g) \notin spinners
  BY DEF TypeOK, UpdateNow
<1>2. Skb(d, g).discr = d /\ Skb(d, g).inc = inc[d]
  BY DEF Skb
<1>3. CASE UNCHANGED <<config, spinners, pinned, talking>>
  BY <1>3 DEF SpinInv, Skb
<1>4. CASE /\ config' = [config EXCEPT ![d] = g]
           /\ spinners' = spinners \cup {Skb(d, g)}
           /\ talking' = talking \cup {d}
  <2>1. \A s \in spinners' : s.discr \in sdir' => s.inc = inc'[s.discr]
    BY <1>2, <1>4 DEF SpinInv
  <2>2. ASSUME NEW e \in sdir, e # d
        PROVE  e \in talking' <=> Skb(e, config[e]) \in spinners'
    <3>1. Skb(e, config[e]) # Skb(d, g)
      BY <2>2 DEF Skb
    <3> QED
      BY <1>4, <2>2, <3>1 DEF SpinInv
  <2>3. \A e \in sdir : config'[e] = IF e = d THEN g ELSE config[e]
    BY <1>1, <1>4 DEF TypeOK
  <2>4. \A e \in sdir :
          e \in talking' <=> Skb(e, config'[e]) \in spinners'
    <3> SUFFICES ASSUME NEW e \in sdir
                 PROVE  e \in talking' <=> Skb(e, config'[e]) \in spinners'
      OBVIOUS
    <3>1. CASE e = d
      <4>1. config'[e] = g
        BY <2>3, <3>1
      <4>2. e \in talking' /\ Skb(e, g) \in spinners'
        BY <1>4, <3>1
      <4> QED
        BY <4>1, <4>2
    <3>2. CASE e # d
      <4>1. config'[e] = config[e]
        BY <2>3, <3>2
      <4> QED
        BY <2>2, <3>2, <4>1
    <3> QED
      BY <3>1, <3>2
  <2> QED
    BY <2>1, <2>4 DEF SpinInv, Skb
<1>5. CASE /\ config' = [config EXCEPT ![d] = g]
           /\ spinners' = spinners
           /\ talking' = talking \ {d}
  <2>1. \A s \in spinners' : s.discr \in sdir' => s.inc = inc'[s.discr]
    BY <1>5 DEF SpinInv
  <2>2. \A e \in sdir : config'[e] = IF e = d THEN g ELSE config[e]
    BY <1>1, <1>5 DEF TypeOK
  <2>3. \A e \in sdir :
          e \in talking' <=> Skb(e, config'[e]) \in spinners'
    <3> SUFFICES ASSUME NEW e \in sdir
                 PROVE  e \in talking' <=> Skb(e, config'[e]) \in spinners'
      OBVIOUS
    <3>1. CASE e = d
      <4>1. config'[e] = g
        BY <2>2, <3>1
      <4>2. e \notin talking' /\ Skb(e, g) \notin spinners'
        BY <1>1, <1>5, <3>1
      <4> QED
        BY <4>1, <4>2
    <3>2. CASE e # d
      <4>1. config'[e] = config[e]
        BY <2>2, <3>2
      <4>2. e \in talking' <=> Skb(e, config[e]) \in spinners'
        BY <1>5, <3>2 DEF SpinInv
      <4> QED
        BY <4>1, <4>2
    <3> QED
      BY <3>1, <3>2
  <2> QED
    BY <2>1, <2>3 DEF SpinInv, Skb
<1> QED
  BY <1>3, <1>4, <1>5 DEF UpdateNow

(* Every step keeps the generations of the skbs and of the config in the   *)
(* relation that SpinInv states.                                           *)
LEMMA SpinInvNext ==
  ASSUME "reuse" \notin Faults
  PROVE  QueueInv /\ SpinInv /\ [Next]_vars => SpinInv'
<1> SUFFICES ASSUME QueueInv, SpinInv, [Next]_vars
             PROVE  SpinInv'
  OBVIOUS
<1>0. TypeOK
  BY DEF QueueInv
<1>1. ASSUME UNCHANGED <<sdir, inc, config, spinners, talking>>
      PROVE  SpinInv'
  BY <1>1 DEF SpinInv, Skb
<1>2. ASSUME NEW d \in Discrs, HoldTimer(d) \/ SessionUpdate(d)
      PROVE  SpinInv'
  <2>1. d \in sdir /\ UNCHANGED <<sdir, inc>>
    BY <1>0, <1>2 DEF HoldTimer, SessionUpdate, TypeOK
  <2>2. PICK inject \in BOOLEAN : Update(d, inject)
    BY <1>2 DEF HoldTimer, SessionUpdate
  <2>3. CASE inject /\ ~HaveCapacity
    BY <1>1, <2>1, <2>2, <2>3 DEF Update
  <2>4. CASE ~(inject /\ ~HaveCapacity)
    BY <1>0, <2>1, <2>2, <2>4, UpdateNowSpin DEF Update
  <2> QED
    BY <2>3, <2>4
<1>3. ASSUME NEW d \in Discrs, SessionAdd(d)
      PROVE  SpinInv'
  <2>1. CASE UNCHANGED <<sdir, hold, gen_id, config, inc>>
    BY <1>1, <1>3, <2>1 DEF SessionAdd
  <2>2. CASE /\ sdir' = sdir \cup {d}
             /\ config' = [config EXCEPT ![d] = 0]
             /\ inc' = [inc EXCEPT ![d] = 1 - @]
    <3>1. /\ UNCHANGED <<spinners, talking>>
          /\ d \notin talking
          /\ \A s \in spinners : s.discr # d
      BY <1>0, <1>3 DEF SessionAdd, TypeOK
    <3>2. \A e \in sdir : e # d /\ config'[e] = config[e] /\ inc'[e] = inc[e]
      BY <1>0, <1>3, <2>2 DEF SessionAdd, TypeOK
    <3>3. \A s \in spinners' : s.discr \in sdir' => s.inc = inc'[s.discr]
      BY <2>2, <3>1, <3>2 DEF SpinInv
    <3>4. \A e \in sdir : e \in talking' <=> Skb(e, config[e])' \in spinners'
      BY <3>1, <3>2 DEF SpinInv, Skb
    <3>5. Skb(d, config[d])' \notin spinners'
      BY <3>1 DEF Skb
    <3> QED
      BY <2>2, <3>1, <3>3, <3>4, <3>5 DEF SpinInv
  <2> QED
    BY <1>3, <2>1, <2>2 DEF SessionAdd
<1>4. ASSUME NEW d \in Discrs, RespondFinal(d)
      PROVE  SpinInv'
  BY <1>1, <1>4 DEF RespondFinal
<1>5. ASSUME NEW d \in Discrs, SessionDel(d)
      PROVE  SpinInv'
  <2>1. /\ sdir' = sdir \ {d}
        /\ talking' = talking \ {d}
        /\ UNCHANGED <<inc, spinners>>
    BY <1>5 DEF SessionDel, Forget
  <2>2. \A e \in sdir' : config'[e] = config[e]
    BY <1>0, <1>5, <2>1 DEF SessionDel, Forget, TypeOK
  <2> QED
    BY <2>1, <2>2 DEF SpinInv, Skb
<1>6. CASE DrainStart \/ DrainFinal \/ DrainEnd
  BY <1>1, <1>6 DEF DrainStart, DrainFinal, DrainEnd
<1>7. CASE DrainPeriodic
  <2>1. Head(periodics) \in sdir
    BY <1>7, TailGood DEF DrainPeriodic, QueueInv, Queueable
  <2> QED
    BY <1>0, <1>7, <2>1, UpdateNowSpin DEF DrainPeriodic
<1>8. ASSUME NEW s \in Skbs, Looper(s)
      PROVE  SpinInv'
  <2>1. \A d \in sdir : Skb(d, config[d]) # s
    BY <1>8 DEF Looper, Live, Skb
  <2>2. /\ spinners' = spinners \ {s}
        /\ UNCHANGED <<sdir, inc, config, talking>>
    BY <1>8 DEF Looper
  <2>3. \A d \in sdir : Skb(d, config[d])' = Skb(d, config[d])
    BY <2>2 DEF Skb
  <2> QED
    BY <2>1, <2>2, <2>3 DEF SpinInv
<1>9. CASE UNCHANGED vars
  BY <1>1, <1>9 DEF vars
<1> QED
  BY <1>2, <1>3, <1>4, <1>5, <1>6, <1>7, <1>8, <1>9 DEF Next

(* While no discriminator is reused before its old skbs are gone, a        *)
(* session whose last update sent its packet has exactly one spinner on    *)
(* the wire and any other session none, whatever else fails.               *)
THEOREM OneSpinnerEach ==
  ASSUME "reuse" \notin Faults
  PROVE  Spec => []OneSpinner
<1>1. Init => SpinInv
  BY DEF Init, SpinInv
<1>2. QueueInv /\ SpinInv => OneSpinner
  <2> SUFFICES ASSUME QueueInv, SpinInv, NEW d \in sdir
               PROVE  Cardinality(LiveSkbs(d)) = IF d \in talking THEN 1 ELSE 0
    BY DEF OneSpinner
  <2>1. ASSUME NEW s \in LiveSkbs(d)
        PROVE  s = Skb(d, config[d])
    <3>1. s \in Skbs /\ s.discr = d /\ s.inc = inc[d] /\ s.mark = config[d]
      BY DEF LiveSkbs, Live, QueueInv, TypeOK, SpinInv
    <3> QED
      BY <3>1 DEF Skbs, Skb
  <2>2. Skb(d, config[d]) \in spinners => Skb(d, config[d]) \in LiveSkbs(d)
    BY DEF LiveSkbs, Live, Skb
  <2>3. LiveSkbs(d) \subseteq spinners
    BY DEF LiveSkbs
  <2>4. CASE d \in talking
    <3>1. LiveSkbs(d) = {Skb(d, config[d])}
      BY <2>1, <2>2, <2>4 DEF SpinInv
    <3> QED
      BY <2>4, <3>1, FS_Singleton
  <2>5. CASE d \notin talking
    <3>1. LiveSkbs(d) = {}
      BY <2>1, <2>3, <2>5 DEF SpinInv
    <3> QED
      BY <2>5, <3>1, FS_EmptySet
  <2> QED
    BY <2>4, <2>5
<1> QED
  BY <1>1, <1>2, SpinInvNext, QueueInvInit, QueueInvNext, PTL DEF Spec

=============================================================================
