---------------------------- MODULE ServerProofs ----------------------------
(***************************************************************************)
(* Proofs about Server, for any connections, buffers, requests and faults: *)
(* the monitor counts its subscriptions exactly, output is waited for, no  *)
(* handler closes the connection of another, and whatever the start-up     *)
(* acquired is released.                                                   *)
(*                                                                         *)
(* A handler is an operator from one value of proc to another, made of a   *)
(* few smaller ones.  Each of them takes a sane process to a sane one, and *)
(* only the last two of them open or close connections.                    *)
(***************************************************************************)
EXTENDS ServerLifeProofs, FiniteSetTheorems, TLAPS

(* A step that names no prover is left to Z3 or Zenon. *)
USE SMTT(15), ZenonT(15), Z3T(30)

(* A connection has subscriptions only while it exists, and waits for the  *)
(* event that it needs.                                                    *)
Proper(c) ==
  /\ c.cli > 0 => c.live
  /\ c.tx > 0 \/ c.done => "out" \in c.ev

(* What holds of proc at every point of every handler. *)
Sane(x) ==
  /\ x \in ProcType
  /\ x.active = Cardinality(Subscriptions(x.peer))
  /\ \A p \in Peers : Proper(x.peer[p])

(* y is what became of x without a connection being opened or closed. *)
Continues(x, y) ==
  /\ Sane(y)
  /\ x.quit => y.quit
  /\ \A p \in Peers : y.peer[p].live = x.peer[p].live

-----------------------------------------------------------------------------
(* Counting subscriptions *)

(* A subscription is a connection and a number up to cli. *)
LEMMA SubscriptionIs ==
  ASSUME NEW f, NEW s
  PROVE  s \in Subscriptions(f) <=> \E p \in Peers : \E i \in 1..f[p].cli : s = <<p, i>>
<1>1. ASSUME NEW p
      PROVE  s \in {p} \X (1..f[p].cli) <=> \E i \in 1..f[p].cli : s = <<p, i>>
  OBVIOUS
<1> QED
  BY <1>1 DEF Subscriptions

(* The numbers from 1 to n are n. *)
LEMMA UpTo ==
  ASSUME NEW n \in Nat
  PROVE  IsFiniteSet(1..n) /\ Cardinality(1..n) = n
<1>1. IsFiniteSet(1..n) /\ Cardinality(1..n) = IF 1 > n THEN 0 ELSE n - 1 + 1
  BY FS_Interval
<1> QED
  BY <1>1

(* The subscriptions of one connection *)
LEMMA OfOne ==
  ASSUME NEW p, NEW n \in Nat
  PROVE  IsFiniteSet({p} \X (1..n)) /\ Cardinality({p} \X (1..n)) = n
<1>1. IsFiniteSet({p}) /\ Cardinality({p}) = 1
  BY FS_Singleton
<1>2. Cardinality({p} \X (1..n)) = Cardinality({p}) * Cardinality(1..n)
  BY <1>1, UpTo, FS_Product, Zenon
<1> QED
  BY <1>1, <1>2, UpTo, FS_Product

(* The subscriptions are finitely many. *)
LEMMA SubscriptionsFinite ==
  ASSUME NEW f \in [Peers -> PeerType]
  PROVE  IsFiniteSet(Subscriptions(f)) /\ Cardinality(Subscriptions(f)) \in Nat
<1> DEFINE g == [p \in Peers |-> {p} \X (1..f[p].cli)]
<1>1. IsFiniteSet({g[p] : p \in Peers})
  <2>1. g \in Surjection(Peers, {g[p] : p \in Peers})
    BY Zenon DEF Surjection
  <2> QED
    BY <2>1, FS_Surjection, ServerAssumption DEF ExistsSurjection
<1>2. ASSUME NEW p \in Peers
      PROVE  IsFiniteSet(g[p])
  BY OfOne, Zenon DEF PeerType
<1>3. Subscriptions(f) = UNION {g[p] : p \in Peers}
  BY DEF Subscriptions
<1>4. IsFiniteSet(UNION {g[p] : p \in Peers})
  BY <1>1, <1>2, FS_UNION, Zenon
<1> QED
  BY <1>3, <1>4, FS_CardinalityType

(* Connections without subscriptions have none. *)
LEMMA NoSubscriptions ==
  ASSUME NEW f, \A p \in Peers : f[p].cli = 0
  PROVE  Cardinality(Subscriptions(f)) = 0
<1>1. Subscriptions(f) = {}
  BY SubscriptionIs
<1> QED
  BY <1>1, FS_EmptySet

(* Only cli matters. *)
LEMMA SameSubscriptions ==
  ASSUME NEW f, NEW g, \A p \in Peers : f[p].cli = g[p].cli
  PROVE  Subscriptions(f) = Subscriptions(g)
<1>1. ASSUME NEW s
      PROVE  s \in Subscriptions(f) <=> s \in Subscriptions(g)
  BY SubscriptionIs
<1> QED
  BY <1>1

(* One more subscription of p *)
LEMMA OneMore ==
  ASSUME NEW f \in [Peers -> PeerType], NEW g \in [Peers -> PeerType], NEW p \in Peers,
         g[p].cli = f[p].cli + 1,
         \A q \in Peers \ {p} : g[q].cli = f[q].cli
  PROVE  Cardinality(Subscriptions(g)) = Cardinality(Subscriptions(f)) + 1
<1> DEFINE s == <<p, f[p].cli + 1>>
<1>1. f[p].cli \in Nat
  BY DEF PeerType
<1>2. s \notin Subscriptions(f)
  BY <1>1, SubscriptionIs
<1>3. Subscriptions(g) = Subscriptions(f) \cup {s}
  <2>1. ASSUME NEW t
        PROVE  t \in Subscriptions(g) <=> t \in Subscriptions(f) \/ t = s
    <3>1. (\E i \in 1..g[p].cli : t = <<p, i>>) <=> (\E i \in 1..f[p].cli : t = <<p, i>>) \/ t = s
      BY <1>1
    <3>2. ASSUME NEW q \in Peers \ {p}
          PROVE  (\E i \in 1..g[q].cli : t = <<q, i>>) <=> (\E i \in 1..f[q].cli : t = <<q, i>>)
      OBVIOUS
    <3> QED
      BY <3>1, <3>2, SubscriptionIs
  <2> QED
    BY <2>1
<1> QED
  BY <1>2, <1>3, SubscriptionsFinite, FS_AddElement, ZenonT(60)

(* All subscriptions of p go. *)
LEMMA AllOfOneGone ==
  ASSUME NEW f \in [Peers -> PeerType], NEW g \in [Peers -> PeerType], NEW p \in Peers,
         g[p].cli = 0,
         \A q \in Peers \ {p} : g[q].cli = f[q].cli
  PROVE  Cardinality(Subscriptions(g)) = Cardinality(Subscriptions(f)) - f[p].cli
<1> DEFINE T == {p} \X (1..f[p].cli)
<1>1. f[p].cli \in Nat
  BY DEF PeerType
<1>2. Cardinality(T) = f[p].cli /\ IsFiniteSet(T)
  BY <1>1, OfOne, Zenon
<1>3. \A t : t \in T <=> \E i \in 1..f[p].cli : t = <<p, i>>
  OBVIOUS
<1>4. T \subseteq Subscriptions(f)
  BY <1>3, SubscriptionIs
<1>5. Subscriptions(g) = Subscriptions(f) \ T
  <2> HIDE DEF T
  <2>1. ASSUME NEW t
        PROVE  t \in Subscriptions(g) <=> t \in Subscriptions(f) /\ t \notin T
    <3>1. ~\E i \in 1..g[p].cli : t = <<p, i>>
      OBVIOUS
    <3>2. ASSUME NEW q \in Peers \ {p}, NEW i
          PROVE  <<q, i>> \notin T
      BY <1>3
    <3>3. \A q \in Peers \ {p} : 1..g[q].cli = 1..f[q].cli
      OBVIOUS
    <3> QED
      BY <3>1, <3>2, <3>3, <1>3, SubscriptionIs
  <2> QED
    BY <2>1
<1>6. Subscriptions(f) \cap T = T
  BY <1>4
<1> HIDE DEF T
<1> QED
  <2>1. Cardinality(Subscriptions(f) \ T)
          = Cardinality(Subscriptions(f)) - Cardinality(Subscriptions(f) \cap T)
    BY SubscriptionsFinite, FS_Difference, Zenon
  <2> QED
    BY <2>1, <1>2, <1>5, <1>6, Zenon

(* Those that do not fit go. *)
LEMMA SomeGone ==
  ASSUME NEW f \in [Peers -> PeerType], NEW g \in [Peers -> PeerType],
         \A q \in Peers : g[q].cli <= f[q].cli
  PROVE  Cardinality(Subscriptions(g))
           = Cardinality(Subscriptions(f))
             - Cardinality({s \in Subscriptions(f) : s[2] > g[s[1]].cli})
<1> DEFINE T == {s \in Subscriptions(f) : s[2] > g[s[1]].cli}
<1>1. \A q \in Peers : f[q].cli \in Nat /\ g[q].cli \in Nat
  BY DEF PeerType
<1>2. Subscriptions(g) = Subscriptions(f) \ T
  <2>1. ASSUME NEW t, t \in Subscriptions(g)
        PROVE  t \in Subscriptions(f) \ T
    <3>0. PICK q \in Peers : \E i \in 1..g[q].cli : t = <<q, i>>
      BY <2>1, SubscriptionIs
    <3>1. PICK i \in 1..g[q].cli : t = <<q, i>>
      BY <3>0
    <3>2. i \in 1..f[q].cli /\ ~(i > g[q].cli)
      BY <1>1
    <3>3. t \in Subscriptions(f)
      BY <3>1, <3>2, SubscriptionIs
    <3>4. t[1] = q /\ t[2] = i
      BY <3>1
    <3> QED
      BY <3>2, <3>3, <3>4
  <2>2. ASSUME NEW t, t \in Subscriptions(f) \ T
        PROVE  t \in Subscriptions(g)
    <3>0. PICK q \in Peers : \E i \in 1..f[q].cli : t = <<q, i>>
      BY <2>2, SubscriptionIs
    <3>1. PICK i \in 1..f[q].cli : t = <<q, i>>
      BY <3>0
    <3>2. t[1] = q /\ t[2] = i
      BY <3>1
    <3>3. i \in 1..g[q].cli
      BY <2>2, <3>2, <1>1
    <3> QED
      BY <3>1, <3>3, SubscriptionIs
  <2> QED
    BY <2>1, <2>2
<1>3. Subscriptions(f) \cap T = T
  OBVIOUS
<1> HIDE DEF T
<1>4. Cardinality(Subscriptions(f) \ T)
        = Cardinality(Subscriptions(f)) - Cardinality(Subscriptions(f) \cap T)
  BY SubscriptionsFinite, FS_Difference, Zenon
<1> QED
  BY <1>2, <1>3, <1>4, Zenon DEF T

-----------------------------------------------------------------------------
(* Operations on proc *)

(* What bbdd_mon_send does to one connection *)
LEMMA NotifiedIs ==
  ASSUME NEW c \in PeerType, Proper(c)
  PROVE  /\ Notified(c) \in PeerType
         /\ Proper(Notified(c))
         /\ Notified(c).live = c.live
         /\ Notified(c).cli = Fits(c)
         /\ Fits(c) \in 0..c.cli
<1>1. Fits(c) \in 0..c.cli /\ c.tx + Fits(c) \in 0..TxCap
  BY ServerAssumption DEF Fits, PeerType
<1>2. CASE c.cli = 0
  BY <1>1, <1>2 DEF Notified
<1>3. CASE c.cli # 0
  <2> DEFINE n == Notified(c)
  <2>1. n = [c EXCEPT !.ev = {"in", "out"}, !.tx = c.tx + Fits(c), !.cli = Fits(c)]
    BY <1>3 DEF Notified
  <2>2. /\ n.live = c.live /\ n.done = c.done /\ n.ev = {"in", "out"}
        /\ n.cli = Fits(c)
    BY <2>1 DEF PeerType
  <2>3. n \in PeerType
    <3>1. ASSUME NEW t \in 0..TxCap, NEW k \in Nat
          PROVE  [c EXCEPT !.ev = {"in", "out"}, !.tx = t, !.cli = k] \in PeerType
      BY Zenon DEF PeerType
    <3>2. Fits(c) \in Nat
      BY <1>1
    <3> QED
      BY <2>1, <3>1, <3>2, <1>1, Zenon
  <2> QED
    BY <2>2, <2>3, <1>1, <1>3 DEF Proper, PeerType
<1> QED
  BY <1>2, <1>3

(* bbdd_mon_send cancels what it counts. *)
LEMMA MonSendContinues ==
  ASSUME NEW x, Sane(x), NEW topic
  PROVE  Continues(x, MonSend(x, topic))
<1>1. CASE topic \notin Topics \/ x.active = 0
  BY <1>1 DEF MonSend, Continues
<1>2. CASE ~(topic \notin Topics \/ x.active = 0)
  <2> DEFINE g == [p \in Peers |-> Notified(x.peer[p])]
             T == {s \in Subscriptions(x.peer) : s[2] > Fits(x.peer[s[1]])}
             C == x.cut \cup {p \in Peers : x.peer[p].cli > 0 /\ Fits(x.peer[p]) = 0}
             y == MonSend(x, topic)
  <2>1. x \in ProcType /\ x.peer \in [Peers -> PeerType]
    BY DEF Sane, ProcType
  <2>2. \A p \in Peers : /\ g[p] \in PeerType /\ Proper(g[p])
                         /\ g[p].live = x.peer[p].live
                         /\ g[p].cli = Fits(x.peer[p])
                         /\ g[p].cli <= x.peer[p].cli
    BY <2>1, NotifiedIs DEF Sane, PeerType
  <2>3. g \in [Peers -> PeerType]
    BY <2>2
  <2>4. T = {s \in Subscriptions(x.peer) : s[2] > g[s[1]].cli}
    <3>1. \A s \in Subscriptions(x.peer) : s[1] \in Peers
      BY SubscriptionIs
    <3> QED
      BY <2>2, <3>1
  <2>5. Cardinality(Subscriptions(g)) = x.active - Cardinality(T)
    BY <2>1, <2>2, <2>3, <2>4, SomeGone DEF Sane
  <2>6. y = [x EXCEPT !.peer = g, !.active = x.active - Cardinality(T), !.cut = C]
    BY <1>2 DEF MonSend
  <2>7. Cardinality(Subscriptions(g)) \in Nat
    BY <2>3, SubscriptionsFinite
  <2> HIDE DEF g, T, C, y
  <2>8. /\ y \in ProcType /\ y.peer = g /\ y.quit = x.quit
        /\ y.active = Cardinality(Subscriptions(g))
    <3>1. C \in SUBSET Peers
      BY <2>1 DEF ProcType, C
    <3> QED
      BY <2>1, <2>3, <2>5, <2>6, <2>7, <3>1, Zenon DEF ProcType
  <2> QED
    BY <2>2, <2>8 DEF Continues, Sane, y
<1> QED
  BY <1>1, <1>2

(* x with connection p replaced *)
PeerSet(x, p, c) == [x EXCEPT !.peer = [x.peer EXCEPT ![p] = c]]

LEMMA PeerSetIs ==
  ASSUME NEW x, x \in ProcType, NEW p \in Peers, NEW c \in PeerType,
         NEW y, y = PeerSet(x, p, c)
  PROVE  /\ y \in ProcType
         /\ y.peer \in [Peers -> PeerType]
         /\ y.peer[p] = c
         /\ \A q \in Peers \ {p} : y.peer[q] = x.peer[q]
         /\ y.active = x.active
         /\ y.quit = x.quit
BY DEF PeerSet, ProcType

(* A change of a connection that leaves its subscriptions alone *)
LEMMA PeerSetContinues ==
  ASSUME NEW x, Sane(x), NEW p \in Peers, NEW c \in PeerType, Proper(c),
         c.cli = x.peer[p].cli, c.live = x.peer[p].live
  PROVE  Continues(x, PeerSet(x, p, c))
<1> DEFINE y == PeerSet(x, p, c)
<1>0. x \in ProcType
  BY DEF Sane
<1>1. /\ y \in ProcType /\ y.peer[p] = c /\ y.active = x.active /\ y.quit = x.quit
      /\ \A q \in Peers \ {p} : y.peer[q] = x.peer[q]
  BY <1>0, PeerSetIs
<1> HIDE DEF y
<1>2. \A q \in Peers : y.peer[q].cli = x.peer[q].cli /\ y.peer[q].live = x.peer[q].live
  BY <1>1
<1>3. Subscriptions(y.peer) = Subscriptions(x.peer)
  BY <1>2, SameSubscriptions
<1>4. \A q \in Peers : Proper(y.peer[q])
  BY <1>1 DEF Sane
<1> QED
  BY <1>1, <1>2, <1>3, <1>4 DEF Sane, Continues, y

(* One operation after another *)
LEMMA ContinuesFurther ==
  ASSUME NEW x, NEW y, NEW z, Continues(x, y), Continues(y, z)
  PROVE  Continues(x, z)
BY DEF Continues

(* bbdd_ssk_peer_nq asks for what the connection needs. *)
LEMMA NqIs ==
  ASSUME NEW c \in PeerType, c.cli > 0 => c.live, NEW lost
  PROVE  /\ Nq(c, lost) \in PeerType
         /\ Proper(Nq(c, lost))
         /\ Nq(c, lost).cli = c.cli
         /\ Nq(c, lost).live = c.live
<1> DEFINE n == IF lost \/ c.tx = TxCap THEN c.tx ELSE c.tx + 1
           d == [c EXCEPT !.ev = {"in", "out"}, !.tx = n]
<1>1. n \in 0..TxCap
  BY ServerAssumption DEF PeerType
<1>2. Nq(c, lost) = d
  BY DEF Nq
<1> HIDE DEF n
<1>3. d \in PeerType /\ d.cli = c.cli /\ d.live = c.live /\ d.ev = {"in", "out"}
  BY <1>1, Zenon DEF PeerType
<1> QED
  BY <1>2, <1>3 DEF Proper

(* bbdd_util_jrpc_send_done *)
LEMMA RespondContinues ==
  ASSUME NEW x, Sane(x), NEW p \in Peers, NEW lost
  PROVE  Continues(x, Respond(x, p, lost))
<1> DEFINE c == [x.peer[p] EXCEPT !.done = TRUE]
<1>1. x.peer[p] \in PeerType /\ Proper(x.peer[p])
  BY DEF Sane, ProcType
<1>2. c \in PeerType /\ c.cli = x.peer[p].cli /\ c.live = x.peer[p].live
  BY <1>1, Zenon DEF PeerType
<1>3. c.cli > 0 => c.live
  BY <1>1, <1>2 DEF Proper
<1>4. Respond(x, p, lost) = PeerSet(x, p, Nq(c, lost))
  BY DEF Respond, PeerSet, Sane, ProcType
<1> HIDE DEF c
<1> QED
  BY <1>2, <1>3, <1>4, NqIs, PeerSetContinues

(* bbdd_d_handle_monitor_subscribe: one more, and counted. *)
LEMMA SubscribeContinues ==
  ASSUME NEW x, Sane(x), NEW p \in Peers, x.peer[p].live, NEW lost
  PROVE  Continues(x, Subscribe(x, p, lost))
<1> DEFINE c == [x.peer[p] EXCEPT !.cli = x.peer[p].cli + 1, !.debug = FALSE]
           d == Nq(c, lost)
           y == PeerSet(x, p, d)
           z == [y EXCEPT !.active = x.active + 1]
<1>0. x \in ProcType /\ x.peer \in [Peers -> PeerType] /\ x.active \in Nat
  BY DEF Sane, ProcType
<1>1. x.peer[p] \in PeerType
  BY <1>0
<1>2. c \in PeerType /\ c.cli = x.peer[p].cli + 1 /\ c.live
  <2>1. ASSUME NEW e \in PeerType, NEW k \in Nat, NEW b \in BOOLEAN
        PROVE  /\ [e EXCEPT !.cli = k, !.debug = b] \in PeerType
               /\ [e EXCEPT !.cli = k, !.debug = b].cli = k
               /\ [e EXCEPT !.cli = k, !.debug = b].live = e.live
    BY Zenon DEF PeerType
  <2>2. x.peer[p].cli + 1 \in Nat
    BY <1>1 DEF PeerType
  <2> QED
    BY <1>1, <2>1, <2>2, ZenonT(60)
<1>3. Subscribe(x, p, lost) = z
  BY <1>0 DEF Subscribe, PeerSet, ProcType
<1>4. /\ d \in PeerType /\ Proper(d)
      /\ d.cli = x.peer[p].cli + 1
      /\ d.live = x.peer[p].live
  <2> HIDE DEF c
  <2> QED
    BY <1>2, NqIs, Zenon
<1> HIDE DEF d
<1>5. /\ y \in ProcType /\ y.peer \in [Peers -> PeerType]
      /\ y.peer[p] = d /\ y.quit = x.quit
      /\ \A q \in Peers \ {p} : y.peer[q] = x.peer[q]
  BY <1>0, <1>4, PeerSetIs
<1> HIDE DEF y
<1>6. Cardinality(Subscriptions(y.peer)) = x.active + 1
  BY <1>0, <1>4, <1>5, OneMore DEF Sane
<1>7. /\ z \in ProcType /\ z.peer = y.peer /\ z.active = x.active + 1
      /\ z.quit = x.quit
  BY <1>0, <1>5 DEF ProcType
<1>8. \A q \in Peers : Proper(y.peer[q]) /\ y.peer[q].live = x.peer[q].live
  BY <1>4, <1>5, Zenon DEF Sane
<1> HIDE DEF z
<1> QED
  BY <1>3, <1>6, <1>7, <1>8 DEF Sane, Continues

(* A change of the rest of proc *)
LEMMA RestContinues ==
  ASSUME NEW x, Sane(x), NEW y, y \in ProcType,
         y.peer = x.peer, y.active = x.active, x.quit => y.quit
  PROVE  Continues(x, y)
BY DEF Sane, Continues

(* bbdd_d_bfdd_close *)
LEMMA CloseLinkContinues ==
  ASSUME NEW x, Sane(x)
  PROVE  Continues(x, CloseLink(x))
<1> DEFINE y == [x EXCEPT !.link = FALSE, !.closed = TRUE]
<1>1. y \in ProcType /\ y.peer = x.peer /\ y.active = x.active /\ y.quit = x.quit
  BY Zenon DEF Sane, ProcType
<1>2. Continues(x, y)
  BY <1>1, RestContinues, Zenon
<1>3. Continues(y, MonSend(y, "debug"))
  BY <1>2, MonSendContinues, ZenonT(60) DEF Continues
<1>4. Continues(x, x)
  BY DEF Continues
<1> HIDE DEF y
<1> QED
  BY <1>2, <1>3, <1>4, ContinuesFurther DEF CloseLink, y

(* Connect, Disconnect and RequestQuit send to the monitor what they did. *)
LEMMA ConnectContinues ==
  ASSUME NEW x, Sane(x)
  PROVE  Continues(x, Connect(x))
<1> DEFINE y == [x EXCEPT !.link = TRUE]
<1>1. y \in ProcType /\ y.peer = x.peer /\ y.active = x.active /\ y.quit = x.quit
  BY Zenon DEF Sane, ProcType
<1>2. Continues(x, y)
  BY <1>1, RestContinues, Zenon
<1>3. Continues(y, MonSend(y, "debug"))
  BY <1>2, MonSendContinues, Zenon DEF Continues
<1>4. Continues(x, x)
  BY DEF Continues
<1> HIDE DEF y
<1> QED
  BY <1>2, <1>3, <1>4, ContinuesFurther DEF Connect, y

LEMMA DisconnectContinues ==
  ASSUME NEW x, Sane(x)
  PROVE  Continues(x, Disconnect(x))
<1>1. Continues(x, CloseLink(x))
  BY CloseLinkContinues
<1>2. Continues(CloseLink(x), MonSend(CloseLink(x), "debug"))
  BY <1>1, MonSendContinues DEF Continues
<1>3. Continues(x, x)
  BY DEF Continues
<1> QED
  BY <1>1, <1>2, <1>3, ContinuesFurther DEF Disconnect

LEMMA RequestQuitContinues ==
  ASSUME NEW x, Sane(x)
  PROVE  Continues(x, RequestQuit(x))
<1> DEFINE y == MonSend(x, "debug")
           z == [y EXCEPT !.quit = TRUE]
<1>1. Continues(x, y)
  BY MonSendContinues
<1> HIDE DEF y
<1>2. z \in ProcType /\ z.peer = y.peer /\ z.active = y.active /\ z.quit
  BY <1>1, Zenon DEF Continues, Sane, ProcType
<1> HIDE DEF z
<1>3. Continues(y, z)
  BY <1>1, <1>2, RestContinues DEF Continues
<1> QED
  BY <1>1, <1>3, ContinuesFurther DEF RequestQuit, y, z

(* The fields that nothing waits for *)
LEMMA PartContinues ==
  ASSUME NEW x, Sane(x), NEW p \in Peers
  PROVE  /\ Continues(x, [x EXCEPT !.peer[p].part = TRUE])
         /\ Continues(x, [x EXCEPT !.peer[p].eof = TRUE])
<1> DEFINE c == [x.peer[p] EXCEPT !.part = TRUE]
           e == [x.peer[p] EXCEPT !.eof = TRUE]
<1>1. x.peer[p] \in PeerType /\ Proper(x.peer[p])
  BY DEF Sane, ProcType
<1>2. /\ c \in PeerType /\ c.cli = x.peer[p].cli /\ c.live = x.peer[p].live
      /\ c.tx = x.peer[p].tx /\ c.done = x.peer[p].done /\ c.ev = x.peer[p].ev
  BY <1>1, Zenon DEF PeerType
<1>3. /\ e \in PeerType /\ e.cli = x.peer[p].cli /\ e.live = x.peer[p].live
      /\ e.tx = x.peer[p].tx /\ e.done = x.peer[p].done /\ e.ev = x.peer[p].ev
  BY <1>1, Zenon DEF PeerType
<1>4. /\ [x EXCEPT !.peer[p].part = TRUE] = PeerSet(x, p, c)
      /\ [x EXCEPT !.peer[p].eof = TRUE] = PeerSet(x, p, e)
  BY DEF PeerSet, Sane, ProcType
<1> HIDE DEF c, e
<1>5. Proper(c) /\ Proper(e)
  BY <1>1, <1>2, <1>3 DEF Proper
<1>6. Continues(x, PeerSet(x, p, c)) /\ Continues(x, PeerSet(x, p, e))
  BY <1>2, <1>3, <1>5, PeerSetContinues
<1> QED
  BY <1>4, <1>6, Zenon

(* bbdd_util_ssk_recv_obj, of any request *)
LEMMA RecvObjContinues ==
  ASSUME NEW x, Sane(x), NEW p \in Peers, x.peer[p].live, NEW lost,
         NEW request \in Requests
  PROVE  Continues(x, RecvObj(x, p, request, lost))
<1> DEFINE y == MonSend(x, "jrpc")
<1>1. Continues(x, y)
  BY MonSendContinues
<1> HIDE DEF y
<1>2. Sane(y) /\ y.peer[p].live
  BY <1>1 DEF Continues
<1>3. /\ Continues(y, Respond(y, p, lost))
      /\ Continues(y, Subscribe(y, p, lost))
      /\ Continues(y, Connect(y))
      /\ Continues(y, Disconnect(y))
      /\ Continues(y, RequestQuit(y))
  BY <1>2, RespondContinues, SubscribeContinues, ConnectContinues,
     DisconnectContinues, RequestQuitContinues
<1>4. \A z : Continues(y, z) => Continues(x, z) /\ Continues(x, Respond(z, p, lost))
  <2> SUFFICES ASSUME NEW z, Continues(y, z)
               PROVE  Continues(x, z) /\ Continues(x, Respond(z, p, lost))
    OBVIOUS
  <2>1. Continues(x, z) /\ Sane(z)
    BY <1>1, ContinuesFurther DEF Continues
  <2>2. Continues(z, Respond(z, p, lost))
    BY <2>1, RespondContinues
  <2> QED
    BY <2>1, <2>2, ContinuesFurther
<1>5. Continues(x, x) /\ Continues(x, [x EXCEPT !.peer[p].part = TRUE])
  BY PartContinues, Zenon DEF Continues
<1>6. /\ request = "ask" => RecvObj(x, p, request, lost) = Respond(y, p, lost)
      /\ request = "connect" => RecvObj(x, p, request, lost) = Respond(Connect(y), p, lost)
      /\ request = "disconnect" => RecvObj(x, p, request, lost) = Respond(Disconnect(y), p, lost)
      /\ request = "stop" => RecvObj(x, p, request, lost) = Respond(RequestQuit(y), p, lost)
      /\ request = "subscribe" => RecvObj(x, p, request, lost) = Subscribe(y, p, lost)
      /\ request = "half" => RecvObj(x, p, request, lost) = [x EXCEPT !.peer[p].part = TRUE]
      /\ request = "bad" => RecvObj(x, p, request, lost) = x
  BY DEF RecvObj, y
<1> QED
  BY <1>3, <1>4, <1>5, <1>6, Zenon DEF Requests

-----------------------------------------------------------------------------
(* bbdd_ssk_peer_rx, which serves one request after another.  The library's *)
(* induction theorems take an operator; this one takes a set.               *)

(* A set of natural numbers has a least element. *)
LEMMA LeastElement ==
  ASSUME NEW T \in SUBSET Nat, T # {}
  PROVE  \E m \in T : \A k \in T : m <= k
<1>1. PICK m \in T : \A k \in T : ~(<<k, m>> \in OpToRel(<, Nat))
  BY WFMin, NatLessThanWellFounded, Zenon
<1>2. \A k \in T : <<k, m>> \in OpToRel(<, Nat) <=> k < m
  BY DEF OpToRel
<1>3. \A k \in T : ~(k < m)
  BY <1>1, <1>2, Zenon
<1> QED
  BY <1>3

(* f are the states while the requests are served, the first n of them. *)
Serves(f, n, y, p, out, lost) ==
  f = [i \in 0..n |-> IF i = 0 THEN y ELSE RecvObj(f[i - 1], p, out[i], lost)]

(* There are such states, so that Rx is one of them. *)
LEMMA ServesExists ==
  ASSUME NEW y, NEW p, NEW out, NEW lost, NEW n \in Nat
  PROVE  \E f : Serves(f, n, y, p, out, lost)
<1> DEFINE Bad == {m \in Nat : ~\E f : Serves(f, m, y, p, out, lost)}
<1>1. SUFFICES ASSUME Bad # {} PROVE FALSE
  OBVIOUS
<1>2. PICK m \in Bad : \A k \in Bad : m <= k
  BY <1>1, LeastElement, Zenon
<1>3. m # 0
  <2> DEFINE f == [i \in 0..0 |-> y]
  <2>1. Serves(f, 0, y, p, out, lost)
    BY DEF Serves
  <2> QED
    BY <2>1
<1>4. m - 1 \notin Bad /\ m - 1 \in Nat
  BY <1>2, <1>3
<1>5. PICK g : Serves(g, m - 1, y, p, out, lost)
  BY <1>4
<1> DEFINE h == [i \in 0..m |-> IF i = m THEN RecvObj(g[m - 1], p, out[m], lost) ELSE g[i]]
<1>6. Serves(h, m, y, p, out, lost)
  BY <1>3, <1>5 DEF Serves
<1> QED
  BY <1>6

(* They are all sane, with the same connections. *)
LEMMA ServesContinues ==
  ASSUME NEW y, Sane(y), NEW p \in Peers, y.peer[p].live, NEW out \in Seq(Requests),
         NEW lost, NEW f, Serves(f, Len(out), y, p, out, lost)
  PROVE  Continues(y, f[Len(out)])
<1> DEFINE Bad == {m \in 0..Len(out) : ~Continues(y, f[m])}
<1>0. Len(out) \in Nat /\ Bad \in SUBSET Nat
  OBVIOUS
<1>1. SUFFICES ASSUME Bad # {} PROVE FALSE
  BY <1>0
<1>2. PICK m \in Bad : \A k \in Bad : m <= k
  BY <1>0, <1>1, LeastElement, Zenon
<1>3. m # 0
  BY DEF Serves, Continues
<1>4. m - 1 \in 0..Len(out) /\ m \in 1..Len(out) /\ Continues(y, f[m - 1])
  BY <1>0, <1>2, <1>3
<1>5. out[m] \in Requests
  BY <1>4
<1>6. f[m] = RecvObj(f[m - 1], p, out[m], lost)
  BY <1>3, <1>4 DEF Serves
<1>7. Continues(f[m - 1], f[m])
  BY <1>4, <1>5, <1>6, RecvObjContinues DEF Continues
<1> QED
  BY <1>4, <1>7, ContinuesFurther

LEMMA RxContinues ==
  ASSUME NEW x, Sane(x), NEW p \in Peers, x.peer[p].live, NEW lost,
         client[p].out \in Seq(Requests)
  PROVE  Continues(x, Rx(x, p, lost))
<1> DEFINE out == client[p].out
           y == IF out # <<>> /\ x.peer[p].debug THEN MonSend(x, "debug") ELSE x
           f == CHOOSE f : Serves(f, Len(out), y, p, out, lost)
<1>1. Continues(x, y)
  BY MonSendContinues DEF Continues
<1>2. Rx(x, p, lost) = f[Len(out)]
  BY DEF Rx, Serves
<1> HIDE DEF y
<1>3. Serves(f, Len(out), y, p, out, lost)
  <2>1. Len(out) \in Nat
    OBVIOUS
  <2> QED
    BY <2>1, ServesExists, Zenon
<1> HIDE DEF f
<1>4. Continues(y, f[Len(out)])
  BY <1>1, <1>3, ServesContinues DEF Continues
<1> QED
  BY <1>1, <1>2, <1>4, ContinuesFurther

-----------------------------------------------------------------------------
(* bbdd_ssk_peer_event *)

(* The end of the input *)
LEMMA EofContinues ==
  ASSUME NEW x, Sane(x), NEW p \in Peers, NEW lost
  PROVE  Continues(x, Eof(x, p, lost))
<1> DEFINE y == [x EXCEPT !.peer[p].eof = TRUE]
<1>1. Continues(x, y)
  BY PartContinues, Zenon
<1> HIDE DEF y
<1>2. Continues(y, Respond(y, p, lost))
  BY <1>1, RespondContinues DEF Continues
<1> QED
  BY <1>1, <1>2, ContinuesFurther DEF Eof, y

LEMMA ReceivedContinues ==
  ASSUME Sane(proc), NEW p \in Peers, proc.peer[p].live, NEW rev, NEW lost,
         client[p].out \in Seq(Requests)
  PROVE  Continues(proc, Received(p, rev, lost))
<1> DEFINE x == IF "in" \in rev THEN Rx(proc, p, lost) ELSE proc
<1>1. Continues(proc, x)
  BY RxContinues DEF Continues
<1> HIDE DEF x
<1>2. Continues(x, Eof(x, p, lost))
  BY <1>1, EofContinues DEF Continues
<1> QED
  BY <1>1, <1>2, ContinuesFurther DEF Received, x

(* bbdd_ssk_peer_tx *)
LEMMA TxContinues ==
  ASSUME NEW x, Sane(x), NEW p \in Peers, NEW n \in 0..x.peer[p].tx
  PROVE  Continues(x, Tx(x, p, n))
<1> DEFINE c == x.peer[p]
           k == c.tx - n
           d == [c EXCEPT !.tx = k]
           y == [x EXCEPT !.peer[p].tx = x.peer[p].tx - n]
<1>1. c \in PeerType /\ Proper(c)
  BY DEF Sane, ProcType
<1>2. k \in 0..TxCap /\ (k > 0 => c.tx > 0)
  BY <1>1, ServerAssumption DEF PeerType
<1>3. y = PeerSet(x, p, d)
  BY DEF PeerSet, Sane, ProcType
<1> HIDE DEF k
<1>4. /\ d \in PeerType /\ d.cli = c.cli /\ d.live = c.live /\ d.tx = k
      /\ d.done = c.done /\ d.ev = c.ev
  BY <1>1, <1>2 DEF PeerType
<1> HIDE DEF d
<1>5. Proper(d)
  BY <1>1, <1>2, <1>4 DEF Proper
<1>6. Continues(x, y)
  BY <1>3, <1>4, <1>5, PeerSetContinues
<1>7. Tx(x, p, n) = IF x.peer[p].debug THEN MonSend(y, "debug") ELSE y
  BY DEF Tx
<1> HIDE DEF y
<1>8. Continues(y, MonSend(y, "debug"))
  BY <1>6, MonSendContinues DEF Continues
<1> QED
  BY <1>6, <1>7, <1>8, ContinuesFurther

(* bbdd_ssk_peer_destroy closes p and nothing else, and its subscriptions  *)
(* are no longer counted.                                                  *)
LEMMA DestroyIs ==
  ASSUME NEW x, Sane(x), NEW p \in Peers, NEW flushed
  PROVE  /\ Sane(Destroy(x, p, flushed))
         /\ \A q \in Peers \ {p} : Destroy(x, p, flushed).peer[q].live = x.peer[q].live
<1> DEFINE tries == x.peer[p].tx > 0 /\ client[p].at # "gone"
           y == IF tries /\ (x.peer[p].debug \/ ~flushed) THEN MonSend(x, "debug") ELSE x
           z == PeerSet(y, p, Free)
           k == y.active - y.peer[p].cli
           w == [z EXCEPT !.active = k]
<1>1. Continues(x, y)
  BY MonSendContinues DEF Continues
<1>2. Destroy(x, p, flushed) = [y EXCEPT !.peer[p] = Free, !.active = k]
  BY DEF Destroy
<1> HIDE DEF y
<1>3. /\ y \in ProcType /\ y.peer \in [Peers -> PeerType]
      /\ y.active = Cardinality(Subscriptions(y.peer))
  BY <1>1 DEF Continues, Sane, ProcType
<1>4. [y EXCEPT !.peer[p] = Free, !.active = k] = w
  BY <1>3 DEF PeerSet, ProcType
<1>5. Free \in PeerType /\ Proper(Free) /\ Free.cli = 0
  BY ServerAssumption DEF Free, PeerType, Proper
<1>6. /\ z \in ProcType /\ z.peer \in [Peers -> PeerType] /\ z.peer[p] = Free
      /\ \A q \in Peers \ {p} : z.peer[q] = y.peer[q]
  BY <1>3, <1>5, PeerSetIs
<1> HIDE DEF z
<1>7. Cardinality(Subscriptions(z.peer)) = k
  BY <1>3, <1>5, <1>6, AllOfOneGone
<1>8. Cardinality(Subscriptions(z.peer)) \in Nat
  BY <1>6, SubscriptionsFinite
<1> HIDE DEF k
<1>9. w \in ProcType /\ w.peer = z.peer /\ w.active = k
  BY <1>6, <1>7, <1>8 DEF ProcType
<1>10. \A q \in Peers : Proper(z.peer[q])
  BY <1>1, <1>5, <1>6 DEF Continues, Sane
<1> HIDE DEF w
<1>11. Sane(w) /\ \A q \in Peers \ {p} : w.peer[q].live = x.peer[q].live
  BY <1>1, <1>6, <1>7, <1>9, <1>10 DEF Sane, Continues
<1> QED
  BY <1>2, <1>4, <1>11, Zenon

(* The end of the handler asks for what the connection needs, unless it is *)
(* done.                                                                   *)
LEMMA WatchContinues ==
  ASSUME NEW x, Sane(x), NEW p \in Peers, ~(x.peer[p].tx = 0 /\ x.peer[p].done)
  PROVE  Continues(x, [x EXCEPT !.peer[p] = Watch(x.peer[p])])
<1> DEFINE c == x.peer[p]
           e == (IF c.eof THEN {} ELSE {"in"}) \cup (IF c.tx > 0 THEN {"out"} ELSE {})
           d == [c EXCEPT !.ev = e]
<1>1. c \in PeerType /\ Proper(c)
  BY DEF Sane, ProcType
<1>2. e \in SUBSET {"in", "out"} /\ (c.tx > 0 => "out" \in e)
  OBVIOUS
<1>3. [x EXCEPT !.peer[p] = Watch(x.peer[p])] = PeerSet(x, p, d)
  BY DEF PeerSet, Sane, ProcType, Watch
<1> HIDE DEF e
<1>4. /\ d \in PeerType /\ d.cli = c.cli /\ d.live = c.live /\ d.tx = c.tx
      /\ d.done = c.done /\ d.ev = e
  BY <1>1, <1>2 DEF PeerType
<1> HIDE DEF d
<1>5. c.tx = 0 \/ c.tx > 0
  BY <1>1 DEF PeerType
<1>6. Proper(d)
  BY <1>1, <1>2, <1>4, <1>5 DEF Proper
<1> QED
  BY <1>3, <1>4, <1>6, PeerSetContinues

-----------------------------------------------------------------------------
(* The inductive invariant *)

ClientType ==
  [at : {"away", "open", "shut", "gone"}, out : Seq(Requests), said : Nat]

EventType ==
  [id : Peers \cup {"ctl", "link", "server"}, rev : SUBSET {"in", "out", "hup", "stale"}]

(* The loop: nothing refers to a connection that was closed. *)
LoopInv ==
  /\ Sane(proc) /\ proc.closed = FALSE /\ proc.cut = {}
  /\ client \in [Peers -> ClientType]
  /\ batch \subseteq EventType
  /\ OthersAreLeftAlone
  /\ phase # "loop" => batch = {}

IInv == LoopInv /\ LifeInv

-----------------------------------------------------------------------------
(* The loop *)

(* What a handler leaves for the next step *)
LEMMA SettledSane ==
  ASSUME NEW x, Sane(x)
  PROVE  /\ Sane(Settled(x)) /\ Settled(x).closed = FALSE /\ Settled(x).cut = {}
         /\ Settled(x).peer = x.peer
<1> DEFINE y == Settled(x)
<1>1. /\ y \in ProcType /\ y.peer = x.peer /\ y.active = x.active
      /\ y.closed = FALSE /\ y.cut = {}
  BY Zenon DEF Settled, Sane, ProcType
<1> HIDE DEF y
<1> QED
  BY <1>1 DEF Sane, y

(* What is left when the connections are closed *)
LEMMA ClosedSane ==
  ASSUME NEW x, Sane(x)
  PROVE  /\ Sane(Closed(x)) /\ Closed(x).closed = FALSE /\ Closed(x).cut = {}
         /\ Closed(x).quit = x.quit
<1> DEFINE y == Closed(x)
           f == [p \in Peers |-> Free]
<1>1. Free \in PeerType /\ Proper(Free) /\ Free.cli = 0
  BY ServerAssumption DEF Free, PeerType, Proper
<1>2. f \in [Peers -> PeerType] /\ \A p \in Peers : f[p] = Free
  BY <1>1
<1>3. Cardinality(Subscriptions(f)) = 0
  BY <1>1, <1>2, NoSubscriptions
<1>4. x.quit \in BOOLEAN
  BY DEF Sane, ProcType
<1>5. y = [peer |-> f, active |-> 0, quit |-> x.quit, link |-> FALSE, closed |-> FALSE, cut |-> {}]
  <2>1. ASSUME NEW b, NEW c, NEW n, NEW S
        PROVE  [[peer |-> f, active |-> n, quit |-> b, link |-> b, closed |-> b, cut |-> S] EXCEPT !.quit = c]
                 = [peer |-> f, active |-> n, quit |-> c, link |-> b, closed |-> b, cut |-> S]
    OBVIOUS
  <2>2. y = [[peer |-> f, active |-> 0, quit |-> FALSE, link |-> FALSE, closed |-> FALSE, cut |-> {}] EXCEPT !.quit = x.quit]
    BY Zenon DEF Closed, Idle
  <2> HIDE DEF f, y
  <2> QED
    BY <2>1, <2>2, Zenon
<1> HIDE DEF f, y
<1>6. /\ y \in ProcType /\ y.peer = f /\ y.active = 0
      /\ y.closed = FALSE /\ y.cut = {} /\ y.quit = x.quit
  BY <1>2, <1>4, <1>5 DEF ProcType
<1> QED
  BY <1>1, <1>2, <1>3, <1>6 DEF Sane, y

(* A handler that closes at most the connection that it was called for *)
LEMMA HandledKeeps ==
  ASSUME LoopInv, phase = "loop", NEW id, NEW x, Sane(x), Handled(id, x),
         \A q \in Peers : q # id /\ proc.peer[q].live => x.peer[q].live,
         client' \in [Peers -> ClientType]
  PROVE  LoopInv' /\ phase' = "loop" /\ UNCHANGED <<Start, failed>>
<1>1. /\ proc' = Settled(x)
      /\ batch' = {IF e.id = "link" /\ x.closed THEN Event("link", {"stale"}) ELSE e :
                     e \in {b \in batch : b.id # id}}
      /\ phase' = "loop" /\ UNCHANGED <<Start, failed>>
  BY DEF Handled
<1>2. /\ Sane(proc') /\ proc'.closed = FALSE /\ proc'.cut = {}
      /\ proc'.peer = x.peer
  BY <1>1, SettledSane, Zenon
<1>3. ASSUME NEW e \in batch'
      PROVE  e \in EventType /\ (e.id \in Peers => proc'.peer[e.id].live)
  <2>1. PICK b \in batch : b.id # id /\ e = IF b.id = "link" /\ x.closed THEN Event("link", {"stale"}) ELSE b
    BY <1>1
  <2>2. b \in EventType /\ (b.id \in Peers => proc.peer[b.id].live)
    BY DEF LoopInv, OthersAreLeftAlone
  <2>3. CASE e = b
    BY <2>1, <2>2, <2>3, <1>2
  <2>4. CASE e = Event("link", {"stale"})
    <3>1. e.id = "link" /\ e \in EventType
      BY <2>4 DEF Event, EventType
    <3> QED
      BY <3>1, ServerAssumption
  <2> QED
    BY <2>1, <2>3, <2>4
<1> QED
  BY <1>1, <1>2, <1>3 DEF LoopInv, OthersAreLeftAlone

(* A process that dies leaves nothing to do. *)
LEMMA AbortKeeps ==
  ASSUME IInv, NEW why, Abort(why), UNCHANGED <<prog, step, held, rc, signals>>,
         why \in {"event", "callback", "signals"} \/ (prog = "br" /\ why = "poll")
  PROVE  IInv'
<1>1. /\ phase' = "abort" /\ failed' = why /\ proc' = Closed(proc)
      /\ batch' = {} /\ client' = [p \in Peers |-> Away]
  BY DEF Abort
<1>2. Sane(proc') /\ proc'.closed = FALSE /\ proc'.cut = {}
  BY <1>1, ClosedSane, Zenon DEF IInv, LoopInv
<1>3. Away \in ClientType
  BY DEF Away, ClientType
<1>4. LoopInv'
  BY <1>1, <1>2, <1>3 DEF LoopInv, OthersAreLeftAlone
<1>5. LifeInv'
  BY AbortLife DEF IInv
<1> QED
  BY <1>4, <1>5 DEF IInv

LEMMA AcceptKeeps ==
  ASSUME IInv, NEW p \in Peers, Accept(p)
  PROVE  IInv'
<1> DEFINE x == PeerSet(proc, p, NewPeer)
<1>1. phase = "loop" /\ Sane(proc) /\ ~proc.peer[p].live /\ client' = client
  BY DEF Accept, Reported, Waiting, IInv, LoopInv
<1>2. Handled("ctl", [proc EXCEPT !.peer[p] = NewPeer])
  BY DEF Accept
<1>3. [proc EXCEPT !.peer[p] = NewPeer] = x
  BY <1>1 DEF PeerSet, Sane, ProcType
<1>4. NewPeer \in PeerType /\ NewPeer.live /\ NewPeer.cli = 0 /\ Proper(NewPeer)
  <2>0. Free \in PeerType /\ Free.cli = 0 /\ Free.tx = 0 /\ ~Free.done
    BY ServerAssumption DEF Free, PeerType
  <2>1. ASSUME NEW c \in PeerType, NEW b \in BOOLEAN, NEW e \in SUBSET {"in", "out"}
        PROVE  /\ [c EXCEPT !.live = b, !.debug = b, !.ev = e] \in PeerType
               /\ [c EXCEPT !.live = b, !.debug = b, !.ev = e].live = b
               /\ [c EXCEPT !.live = b, !.debug = b, !.ev = e].cli = c.cli
               /\ [c EXCEPT !.live = b, !.debug = b, !.ev = e].tx = c.tx
               /\ [c EXCEPT !.live = b, !.debug = b, !.ev = e].done = c.done
    BY Zenon DEF PeerType
  <2>2. /\ NewPeer \in PeerType /\ NewPeer.live /\ NewPeer.cli = 0
        /\ NewPeer.tx = 0 /\ ~NewPeer.done
    <3> DEFINE d == [Free EXCEPT !.live = TRUE, !.debug = TRUE, !.ev = {"in"}]
    <3>1. /\ d \in PeerType /\ d.live = TRUE /\ d.cli = Free.cli
          /\ d.tx = Free.tx /\ d.done = Free.done
      BY <2>0, <2>1, ZenonT(60)
    <3>2. NewPeer = d
      BY DEF NewPeer
    <3> HIDE DEF d
    <3> QED
      BY <2>0, <3>1, <3>2
  <2> QED
    BY <2>2 DEF Proper
<1>5. /\ x \in ProcType /\ x.peer[p] = NewPeer /\ x.active = proc.active
      /\ \A q \in Peers \ {p} : x.peer[q] = proc.peer[q]
  BY <1>1, <1>4, PeerSetIs DEF Sane
<1> HIDE DEF x
<1>6. proc.peer[p].cli = 0
  BY <1>1 DEF Sane, ProcType, PeerType, Proper
<1>7. Subscriptions(x.peer) = Subscriptions(proc.peer)
  BY <1>4, <1>5, <1>6, SameSubscriptions
<1>8. Sane(x)
  BY <1>1, <1>4, <1>5, <1>7 DEF Sane
<1>9. \A q \in Peers : q # "ctl" /\ proc.peer[q].live => x.peer[q].live
  BY <1>4, <1>5
<1>10. LoopInv' /\ phase' = "loop" /\ UNCHANGED <<Start, failed>>
  <2>1. client' \in [Peers -> ClientType] /\ LoopInv
    BY <1>1 DEF IInv, LoopInv
  <2> QED
    BY <1>1, <1>2, <1>3, <1>8, <1>9, <2>1, HandledKeeps
<1> QED
  BY <1>1, <1>10, LifeInLoop DEF IInv

(* A connection that is not accepted leaves the others alone. *)
LEMMA AcceptFailsKeeps ==
  ASSUME IInv, NEW p \in Peers, AcceptFails(p)
  PROVE  IInv'
<1>1. phase = "loop" /\ Sane(proc) /\ Handled("ctl", proc) /\ LoopInv /\ LifeInv
  BY DEF AcceptFails, Reported, IInv, LoopInv
<1>2. client' \in [Peers -> ClientType]
  <2>1. Away \in ClientType
    BY DEF Away, ClientType
  <2> QED
    BY <1>1, <2>1 DEF AcceptFails, LoopInv
<1>3. LoopInv' /\ phase' = "loop" /\ UNCHANGED <<Start, failed>>
  BY <1>1, <1>2, HandledKeeps
<1> QED
  BY <1>1, <1>3, LifeInLoop DEF IInv

(* The handler of a connection closes it, or leaves it waiting for what it *)
(* needs.                                                                  *)
LEMMA PeerEventKeeps ==
  ASSUME IInv, phase = "loop", NEW p \in Peers, proc.peer[p].live,
         NEW lost, NEW reset, NEW flushed, PeerEvent(p, lost, reset, flushed)
  PROVE  IInv'
<1> DEFINE rev == Rev(p)
           x == Received(p, rev, lost)
           dead == \/ RxFails(p, rev, reset)
                   \/ "hup" \in rev
                   \/ "out" \in rev /\ client[p].at = "gone"
           sendable == IF "out" \in rev /\ ~dead /\ x.peer[p].tx > 0 THEN 1..x.peer[p].tx ELSE {0}
<1>1. Sane(proc) /\ client \in [Peers -> ClientType] /\ client[p].out \in Seq(Requests) /\ LoopInv
  BY DEF IInv, LoopInv, ClientType
<1>2. Continues(proc, x)
  BY <1>1, ReceivedContinues
<1>3. PICK n \in sendable :
        LET y == IF "out" \in rev /\ ~dead THEN Tx(x, p, n) ELSE x
        IN  IF dead \/ (y.peer[p].tx = 0 /\ y.peer[p].done)
            THEN /\ Handled(p, Destroy(y, p, flushed))
                 /\ client' = [client EXCEPT ![p] = Away]
            ELSE /\ Handled(p, [y EXCEPT !.peer[p] = Watch(y.peer[p])])
                 /\ client' = IF "in" \in rev THEN [client EXCEPT ![p].out = <<>>] ELSE client
  BY DEF PeerEvent
<1> DEFINE y == IF "out" \in rev /\ ~dead THEN Tx(x, p, n) ELSE x
           over == dead \/ (y.peer[p].tx = 0 /\ y.peer[p].done)
<1>4. Continues(proc, y)
  <2>1. Sane(x) /\ x.peer[p].tx \in Nat
    BY <1>2 DEF Continues, Sane, ProcType, PeerType
  <2>2. n \in 0..x.peer[p].tx
    BY <2>1
  <2> HIDE DEF x, rev, dead
  <2>3. Continues(x, Tx(x, p, n))
    BY <2>1, <2>2, TxContinues
  <2> QED
    BY <1>2, <2>3, ContinuesFurther
<1>5. /\ over => /\ Handled(p, Destroy(y, p, flushed))
                 /\ client' = [client EXCEPT ![p] = Away]
      /\ ~over => /\ Handled(p, [y EXCEPT !.peer[p] = Watch(y.peer[p])])
                  /\ client' = IF "in" \in rev THEN [client EXCEPT ![p].out = <<>>] ELSE client
  BY <1>3
<1>6. ~over => ~(y.peer[p].tx = 0 /\ y.peer[p].done)
  OBVIOUS
<1> HIDE DEF x, y, rev, dead, sendable, over
<1>7. Sane(y) /\ \A q \in Peers : y.peer[q].live = proc.peer[q].live
  BY <1>4 DEF Continues
<1>8. /\ [client EXCEPT ![p] = Away] \in [Peers -> ClientType]
      /\ [client EXCEPT ![p].out = <<>>] \in [Peers -> ClientType]
  <2>0. client[p] \in ClientType /\ <<>> \in Seq(Requests)
    BY <1>1
  <2>1. Away \in ClientType /\ [client[p] EXCEPT !.out = <<>>] \in ClientType
    <3>1. ASSUME NEW c \in ClientType, NEW o \in Seq(Requests)
          PROVE  [c EXCEPT !.out = o] \in ClientType
      BY DEF ClientType
    <3>2. Away \in ClientType
      BY <2>0 DEF Away, ClientType
    <3> QED
      BY <2>0, <3>1, <3>2, Zenon
  <2>2. [client EXCEPT ![p].out = <<>>] = [client EXCEPT ![p] = [client[p] EXCEPT !.out = <<>>]]
    BY <1>1
  <2> QED
    BY <1>1, <2>1, <2>2
<1>9. client' \in [Peers -> ClientType]
  BY <1>1, <1>5, <1>8
<1>10. CASE over
  <2> DEFINE z == Destroy(y, p, flushed)
  <2>1. Sane(z) /\ \A q \in Peers \ {p} : z.peer[q].live = y.peer[q].live
    BY <1>7, DestroyIs
  <2>2. Handled(p, z)
    BY <1>5, <1>10
  <2> HIDE DEF z
  <2>3. LoopInv' /\ phase' = "loop" /\ UNCHANGED <<Start, failed>>
    BY <1>1, <1>7, <1>9, <2>1, <2>2, HandledKeeps
  <2> QED
    BY <2>3, LifeInLoop DEF IInv
<1>11. CASE ~over
  <2> DEFINE z == [y EXCEPT !.peer[p] = Watch(y.peer[p])]
  <2>1. Continues(y, z)
    BY <1>6, <1>7, <1>11, WatchContinues
  <2>2. Handled(p, z)
    BY <1>5, <1>11
  <2> HIDE DEF z
  <2>3. Sane(z) /\ \A q \in Peers : z.peer[q].live = y.peer[q].live
    BY <2>1 DEF Continues
  <2>4. LoopInv' /\ phase' = "loop" /\ UNCHANGED <<Start, failed>>
    BY <1>1, <1>7, <1>9, <2>2, <2>3, HandledKeeps
  <2> QED
    BY <2>4, LifeInLoop DEF IInv
<1> QED
  BY <1>10, <1>11

LEMMA HandlePeerKeeps ==
  ASSUME IInv, NEW p \in Peers, HandlePeer(p)
  PROVE  IInv'
<1>1. phase = "loop" /\ proc.peer[p].live
  BY DEF HandlePeer, Reported, IInv, LoopInv, OthersAreLeftAlone
<1>2. PICK lost, reset, flushed :
        \/ PeerEvent(p, lost, reset, flushed)
        \/ Abort("callback") /\ UNCHANGED Start
  BY DEF HandlePeer
<1>3. CASE PeerEvent(p, lost, reset, flushed)
  BY <1>1, <1>3, PeerEventKeeps
<1>4. CASE Abort("callback") /\ UNCHANGED Start
  BY <1>4, AbortKeeps DEF Start
<1> QED
  BY <1>2, <1>3, <1>4

(* The handlers of the connection with the BFDD close no other. *)
LEMMA LinkStepsKeep ==
  ASSUME IInv, StaleLink \/ HandleLink \/ HandleServer
  PROVE  IInv'
<1>1. phase = "loop" /\ LoopInv /\ LifeInv /\ Sane(proc) /\ client \in [Peers -> ClientType]
  BY Zenon DEF StaleLink, HandleLink, HandleServer, Reported, IInv, LoopInv
<1>2. ASSUME NEW id, NEW x, Continues(proc, x), Handled(id, x), UNCHANGED client
      PROVE  IInv'
  <2>1. Sane(x) /\ \A q \in Peers : q # id /\ proc.peer[q].live => x.peer[q].live
    BY <1>2 DEF Continues
  <2>2. client' \in [Peers -> ClientType]
    BY <1>1, <1>2
  <2>3. LoopInv' /\ phase' = "loop" /\ UNCHANGED <<Start, failed>>
    BY <1>1, <1>2, <2>1, <2>2, HandledKeeps
  <2> QED
    BY <1>1, <2>3, LifeInLoop DEF IInv
<1>3. Continues(proc, proc)
  BY <1>1 DEF Continues
<1>4. CASE StaleLink
  <2>1. CASE Handled("link", proc) /\ UNCHANGED client
    BY <1>2, <1>3, <2>1
  <2>2. CASE Abort("event") /\ UNCHANGED Start
    BY <2>2, AbortKeeps DEF Start
  <2> QED
    BY <1>4, <2>1, <2>2 DEF StaleLink
<1>5. CASE HandleLink
  <2>1. Continues(proc, CloseLink(proc))
    BY <1>1, CloseLinkContinues
  <2> QED
    BY <1>2, <1>5, <2>1 DEF HandleLink
<1>6. CASE HandleServer
  <2>0. PICK link \in BOOLEAN :
          /\ Handled("server", [CloseLink(MonSend(proc, "debug")) EXCEPT !.link = link])
          /\ UNCHANGED client
    BY <1>6 DEF HandleServer
  <2> DEFINE x == MonSend(proc, "debug")
             y == CloseLink(x)
             z == [y EXCEPT !.link = link]
  <2>1. Continues(proc, x)
    BY <1>1, MonSendContinues
  <2> HIDE DEF x
  <2>2. Continues(x, y)
    BY <2>1, CloseLinkContinues DEF Continues
  <2> HIDE DEF y
  <2>3. z \in ProcType /\ z.peer = y.peer /\ z.active = y.active /\ z.quit = y.quit
    BY <2>2, Zenon DEF Continues, Sane, ProcType
  <2>4. Continues(y, z)
    BY <2>2, <2>3, RestContinues, Zenon DEF Continues
  <2>5. Continues(proc, z)
    BY <2>1, <2>2, <2>4, ContinuesFurther
  <2>6. Handled("server", z) /\ UNCHANGED client
    BY <2>0 DEF x, y
  <2> HIDE DEF z
  <2> QED
    BY <1>2, <2>5, <2>6
<1> QED
  BY <1>4, <1>5, <1>6

LEMMA SignalKeeps ==
  ASSUME IInv, Signal
  PROVE  IInv'
<1>1. /\ phase = "loop" /\ phase' = "loop" /\ UNCHANGED <<Start, failed, batch, client>>
      /\ batch = {} /\ proc' = Settled(RequestQuit(proc))
      /\ LoopInv /\ LifeInv /\ Sane(proc)
  BY DEF Signal, IInv, LoopInv
<1>2. Sane(RequestQuit(proc))
  BY <1>1, RequestQuitContinues DEF Continues
<1>3. Sane(proc') /\ proc'.closed = FALSE /\ proc'.cut = {}
  BY <1>1, <1>2, SettledSane, Zenon
<1>4. LoopInv'
  BY <1>1, <1>3 DEF LoopInv, OthersAreLeftAlone
<1> QED
  BY <1>1, <1>4, LifeInLoop DEF IInv

(* epoll reports connections that exist. *)
LEMMA GatherKeeps ==
  ASSUME IInv, NEW readers, Gather(readers)
  PROVE  IInv'
<1>1. /\ phase = "loop" /\ phase' = "loop" /\ UNCHANGED <<Start, failed, proc, client>>
      /\ LoopInv /\ LifeInv
  BY DEF Gather, IInv
<1>2. ASSUME NEW p
      PROVE  Revents(p, readers) \subseteq {"in", "out", "hup"} /\ (Revents(p, readers) # {} => proc.peer[p].live)
  BY DEF Revents
<1>3. ASSUME NEW e \in batch'
      PROVE  e \in EventType /\ (e.id \in Peers => proc.peer[e.id].live)
  <2>1. \/ e = Event("ctl", {"in"})
        \/ \E p \in Peers : Revents(p, readers) # {} /\ e = Event(p, Revents(p, readers))
        \/ e \in LinkEvents
    BY DEF Gather
  <2>2. CASE e \in LinkEvents \/ e = Event("ctl", {"in"})
    <3>1. e \in {Event("link", {"hup"}), Event("server", {"in"}), Event("ctl", {"in"})}
      BY <2>2 DEF LinkEvents
    <3>2. e.id \in {"ctl", "link", "server"} /\ e \in EventType
      BY <3>1 DEF Event, EventType
    <3> QED
      BY <3>2, ServerAssumption
  <2>3. ASSUME NEW p \in Peers, Revents(p, readers) # {}, e = Event(p, Revents(p, readers))
        PROVE  e \in EventType /\ e.id = p
    <3>1. Revents(p, readers) \in SUBSET {"in", "out", "hup", "stale"}
      BY <1>2
    <3> QED
      BY <2>3, <3>1 DEF Event, EventType
  <2> QED
    BY <1>2, <2>1, <2>2, <2>3
<1>4. LoopInv'
  BY <1>1, <1>3 DEF LoopInv, OthersAreLeftAlone
<1> QED
  BY <1>1, <1>4, LifeInLoop DEF IInv

LEMMA ClientsKeep ==
  ASSUME IInv, Clients
  PROVE  IInv'
<1>1. ASSUME NEW p \in Peers, NEW c \in ClientType, Far(p, c)
      PROVE  IInv'
  <2>1. /\ phase = "loop" /\ phase' = "loop" /\ UNCHANGED <<Start, failed, proc, batch>>
        /\ client' = [client EXCEPT ![p] = c] /\ LoopInv /\ LifeInv
    BY <1>1 DEF Far, IInv
  <2>2. LoopInv'
    BY <2>1 DEF LoopInv, OthersAreLeftAlone
  <2> QED
    BY <2>1, <2>2, LifeInLoop DEF IInv
<1>2. client \in [Peers -> ClientType]
  BY DEF IInv, LoopInv
<1>3. ASSUME NEW p \in Peers, NEW script \in Scripts[p], Say(p, script)
      PROVE  IInv'
  <2> DEFINE a == IF Last(script) = "half" THEN "shut" ELSE "open"
             c == [at |-> a, out |-> script, said |-> client[p].said + 1]
  <2>1. script \in Seq(Requests) /\ client[p].said + 1 \in Nat
    BY <1>2, ServerAssumption DEF ClientType
  <2>2. a \in {"away", "open", "shut", "gone"}
    OBVIOUS
  <2>3. Far(p, c)
    BY <1>3 DEF Say
  <2> HIDE DEF a
  <2>4. c \in ClientType
    BY <2>1, <2>2 DEF ClientType
  <2> QED
    BY <1>1, <2>3, <2>4
<1>4. ASSUME NEW p \in Peers, Hangup(p)
      PROVE  IInv'
  <2>1. [client[p] EXCEPT !.at = "gone"] \in ClientType
    BY <1>2 DEF ClientType
  <2> QED
    BY <1>1, <1>4, <2>1 DEF Hangup
<1> QED
  BY <1>3, <1>4 DEF Clients

-----------------------------------------------------------------------------
(* Start-up and unwinding *)

(* The connections are not touched. *)
LEMMA LoopUnchanged ==
  ASSUME LoopInv, UNCHANGED Loop, phase # "loop"
  PROVE  LoopInv'
BY DEF LoopInv, Loop, OthersAreLeftAlone

LEMMA StartKeeps ==
  ASSUME IInv, Acquire \/ AcquireFails \/ SignalsFailUnnoticed
  PROVE  IInv'
<1>1. phase = "start" /\ UNCHANGED Loop
  BY DEF Acquire, AcquireFails, SignalsFailUnnoticed
<1>2. LoopInv'
  BY <1>1, LoopUnchanged DEF IInv
<1>3. LifeInv'
  BY AcquireLife, AcquireFailsLife, SignalsFailLife DEF IInv
<1> QED
  BY <1>2, <1>3 DEF IInv

LEMMA QuitLoopKeeps ==
  ASSUME IInv, QuitLoop
  PROVE  IInv'
<1>1. /\ phase = "loop" /\ batch = {} /\ Sane(proc) /\ LoopInv /\ LifeInv
      /\ proc \in ProcType
  BY DEF QuitLoop, LoopEnds, IInv, LoopInv, Sane
<1>2. CASE ~signals
  <2>1. Abort("signals") /\ UNCHANGED <<prog, step, held, rc, signals>>
    BY <1>2 DEF QuitLoop
  <2> QED
    BY <2>1, AbortKeeps
<1>3. CASE signals
  <2>1. proc' = Settled(CloseLink(proc)) /\ UNCHANGED <<batch, client>>
    BY <1>3 DEF QuitLoop
  <2>2. Sane(CloseLink(proc))
    BY <1>1, CloseLinkContinues DEF Continues
  <2>3. Sane(proc') /\ proc'.closed = FALSE /\ proc'.cut = {}
    BY <2>1, <2>2, SettledSane, ZenonT(60)
  <2>4. LoopInv'
    BY <1>1, <2>1, <2>3 DEF LoopInv, OthersAreLeftAlone
  <2>5. LifeInv'
    BY <1>1, QuitLoopLife
  <2> QED
    BY <2>4, <2>5 DEF IInv
<1> QED
  BY <1>2, <1>3

LEMMA UnwindKeeps ==
  ASSUME IInv, Unwind
  PROVE  IInv'
<1>1. /\ phase = "stop" /\ LoopInv /\ LifeInv /\ batch = {}
      /\ Sane(proc) /\ proc.closed = FALSE /\ proc.cut = {}
      /\ client \in [Peers -> ClientType]
  BY DEF IInv, LoopInv, Unwind
<1>2. /\ proc' \in {proc, Closed(proc)} /\ batch' = {}
      /\ client' \in {client, [p \in Peers |-> Away]}
  BY <1>1 DEF Unwind, Abort
<1>3. Sane(proc') /\ proc'.closed = FALSE /\ proc'.cut = {}
  BY <1>1, <1>2, ClosedSane, ZenonT(60)
<1>4. client' \in [Peers -> ClientType]
  <2>1. [p \in Peers |-> Away] \in [Peers -> ClientType]
    BY DEF Away, ClientType
  <2> QED
    BY <1>1, <1>2, <2>1
<1>5. LoopInv'
  BY <1>2, <1>3, <1>4 DEF LoopInv, OthersAreLeftAlone
<1>6. LifeInv'
  BY <1>1, UnwindLife
<1> QED
  BY <1>5, <1>6 DEF IInv

-----------------------------------------------------------------------------
(* The whole process *)

LEMMA InitHolds ==
  ASSUME Init
  PROVE  IInv
<1>1. /\ prog \in {"d", "br"} /\ phase = "start" /\ step = 1 /\ rc = TRUE /\ failed = "none"
      /\ signals = FALSE /\ proc = Idle /\ batch = {} /\ client = [p \in Peers |-> Away]
      /\ held = IF prog = "d" THEN <<"log">> ELSE <<>>
      /\ prog \in Programs
  BY ServerAssumption DEF Init
<1>2. client \in [Peers -> ClientType]
  BY <1>1 DEF Away, ClientType
<1>3. Sane(proc) /\ proc.closed = FALSE /\ proc.cut = {}
  <2> DEFINE f == [p \in Peers |-> Free]
  <2>1. Free \in PeerType /\ Proper(Free) /\ Free.cli = 0
    BY ServerAssumption DEF Free, PeerType, Proper
  <2>2. f \in [Peers -> PeerType] /\ \A p \in Peers : f[p] = Free
    BY <2>1
  <2>3. Cardinality(Subscriptions(f)) = 0
    BY <2>1, <2>2, NoSubscriptions
  <2>4. proc = [peer |-> f, active |-> 0, quit |-> FALSE, link |-> FALSE, closed |-> FALSE, cut |-> {}]
    BY <1>1 DEF Idle
  <2> HIDE DEF f
  <2>5. proc \in ProcType /\ proc.peer = f /\ proc.active = 0 /\ proc.closed = FALSE /\ proc.cut = {}
    BY <2>2, <2>4 DEF ProcType
  <2> QED
    BY <2>1, <2>2, <2>3, <2>5 DEF Sane
<1>4. LoopInv
  BY <1>1, <1>2, <1>3 DEF LoopInv, OthersAreLeftAlone
<1>5. LifeInv
  BY InitLife
<1> QED
  BY <1>4, <1>5 DEF IInv

LEMMA NextKeeps ==
  ASSUME IInv, Next
  PROVE  IInv'
<1>1. CASE Acquire \/ AcquireFails \/ SignalsFailUnnoticed
  BY <1>1, StartKeeps
<1>2. CASE Poll
  BY <1>2, GatherKeeps DEF Poll
<1>3. CASE Serve
  BY <1>3, AcceptKeeps, AcceptFailsKeeps, HandlePeerKeeps, LinkStepsKeep DEF Serve
<1>4. CASE Signal
  BY <1>4, SignalKeeps
<1>5. CASE QuitLoop \/ Unwind
  BY <1>5, QuitLoopKeeps, UnwindKeeps
<1>6. CASE Clients
  BY <1>6, ClientsKeep
<1> QED
  BY <1>1, <1>2, <1>3, <1>4, <1>5, <1>6 DEF Next

LEMMA StutterKeeps ==
  ASSUME IInv, UNCHANGED vars
  PROVE  IInv'
<1>1. UNCHANGED <<phase, proc, batch, client>>
  BY DEF vars
<1>2. LoopInv'
  BY <1>1 DEF IInv, LoopInv, OthersAreLeftAlone
<1>3. LifeInv'
  BY StutterLife DEF IInv
<1> QED
  BY <1>2, <1>3 DEF IInv

(* The inductive invariant holds throughout. *)
LEMMA Invariant == Spec => []IInv
<1>1. Init => IInv
  BY InitHolds
<1>2. IInv /\ [Next]_vars => IInv'
  BY NextKeeps, StutterKeeps
<1> QED
  BY <1>1, <1>2, PTL DEF Spec

(***************************************************************************)
(* mon->active is the number of subscriptions of the connections that      *)
(* exist, and no connection holds back more than stream_maxbuf, however    *)
(* many clients connect and whatever they send: subscribing, a             *)
(* subscription that overruns, and the end of a connection all keep count. *)
(***************************************************************************)
THEOREM ActiveIsExact == Spec => []ActiveExact
<1>1. IInv => ActiveExact
  <2> SUFFICES ASSUME IInv
               PROVE  ActiveExact
    OBVIOUS
  <2>1. Sane(proc) /\ proc.closed = FALSE /\ proc.cut = {} /\ batch \subseteq EventType
    BY DEF IInv, LoopInv
  <2>2. /\ proc.peer \in [Peers -> PeerType] /\ proc.active \in Nat
        /\ proc.quit \in BOOLEAN /\ proc.link \in BOOLEAN
        /\ \A p \in Peers : Proper(proc.peer[p])
    BY <2>1 DEF Sane, ProcType
  <2>3. TypeOK
    BY <2>1, <2>2 DEF TypeOK, IInv, LifeInv, EventType
  <2>4. \A p \in Peers : proc.peer[p].cli > 0 => proc.peer[p].live
    BY <2>2 DEF Proper, PeerType
  <2> QED
    BY <2>1, <2>3, <2>4 DEF ActiveExact, Sane
<1> QED
  BY <1>1, Invariant, PTL

(***************************************************************************)
(* A connection with output, or one that waits to be closed, asks for the  *)
(* event that gets it there (bbdd_ssk_peer_nq, bbdd_ssk_peer_handle).      *)
(***************************************************************************)
THEOREM OutputWatched == Spec => []OutputIsWatched
<1>1. IInv => OutputIsWatched
  BY DEF IInv, LoopInv, Sane, ProcType, PeerType, Proper, OutputIsWatched
<1> QED
  BY <1>1, Invariant, PTL

(***************************************************************************)
(* No handler closes a connection of the control socket for which an event *)
(* of the same batch is yet to be handled (bbdd_poll_loop).                *)
(***************************************************************************)
THEOREM OthersLeftAlone == Spec => []OthersAreLeftAlone
<1>1. IInv => OthersAreLeftAlone
  BY DEF IInv, LoopInv
<1> QED
  BY <1>1, Invariant, PTL

(***************************************************************************)
(* Wherever the start-up of bbdd or of bbdd-br fails, what was acquired is *)
(* released once and in the reverse order, but for the bridge's two wrong  *)
(* jumps; and only a failing loop, or those, end the process otherwise.    *)
(***************************************************************************)
THEOREM AllUnwound == Spec => []Unwound
<1>1. IInv => Unwound
  BY LifeUnwound DEF IInv
<1> QED
  BY <1>1, Invariant, PTL

(***************************************************************************)
(* A process that exits with success was asked to stop, unless it is a     *)
(* bridge that got no monitor or no socket, where err is left at 0.        *)
(***************************************************************************)
THEOREM SuccessEarned == Spec => []SuccessIsEarned
<1>1. IInv => SuccessIsEarned
  BY LifeEarned DEF IInv
<1> QED
  BY <1>1, Invariant, PTL

=============================================================================
