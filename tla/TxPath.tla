------------------------------- MODULE TxPath -------------------------------
(***************************************************************************)
(* The transmit path of bbdd.                                              *)
(*                                                                         *)
(* A session transmits through one "spinner": an skb that userspace sends  *)
(* once into the veth pair and that the looper (bbdd_xmit_veth_tx) clones  *)
(* to the wire and sends around again for as long as the mark of the skb   *)
(* equals the gen_id of the session's entry in the BPF config map.         *)
(* Replacing a spinner therefore means: bump gen_id, write the new config, *)
(* send the new skb; the old one is shot the next time it comes around.    *)
(* All skbs share one socket.  sk_sent_count - sk_released_count is the    *)
(* number of skbs it holds; when that reaches tx_capacity, injections are  *)
(* put on the queue of bbdd-tx.c and drained when the socket polls         *)
(* writable.                                                               *)
(*                                                                         *)
(* Userspace is single threaded: its steps exclude each other.  The looper *)
(* runs in the kernel and interleaves with them, also between two          *)
(* iterations of the drain loop.                                           *)
(***************************************************************************)
EXTENDS Integers, FiniteSets, Sequences

CONSTANTS
  Discrs,   \* local discriminators
  TxCap,    \* --debug=tx-cap, or 0 when the capacity follows the sessions
  GenMod,   \* gen_id is a counter modulo GenMod (2^32 in the code)
  U32,      \* the in-flight count is truncated modulo U32 (2^32 in the code)
  Faults,   \* which failures the environment may produce, see FaultKinds
  MaxLost   \* bound: how many Finals may be shot over released - sent

(***************************************************************************)
(* "conf":  updating the BPF config map or resizing the socket fails       *)
(* "send":  sendmsg fails before the skb reaches the looper                *)
(* "final": the looper cannot forward a Final and shoots it                *)
(* "arm":   registering the socket for POLLOUT fails                       *)
(* "reuse": a discriminator is deleted and added again while skbs of the   *)
(*          deleted session still spin                                     *)
(***************************************************************************)
FaultKinds == {"conf", "send", "final", "arm", "reuse"}

ASSUME TxAssumption ==
  /\ IsFiniteSet(Discrs)
  /\ TxCap \in Nat
  /\ GenMod \in Nat \ {0, 1}
  /\ U32 \in Nat \ {0}
  /\ Faults \subseteq FaultKinds
  /\ MaxLost \in Nat

NoConfig == -1

VARIABLES
  sdir,       \* sessions in bpf->sdir
  hold,       \* those of them that are still ON_HOLD
  gen_id,     \* bsess->gen_id
  config,     \* gen_id of the session's entry in the BPF config map
  inc,        \* which incarnation of the discriminator the session is
  spinners,   \* skbs travelling around the veth loop
  finals,     \* tx->finals, by discriminator
  periodics,  \* tx->periodics, by discriminator
  registered, \* bpf->tx_pollout_registered
  capacity,   \* bpf->tx_capacity
  pinned,     \* sk_sent_count - sk_released_count
  draining,   \* userspace is in the loop of bbdd_bpf_tx_drain
  talking     \* history: the last completed update injected its packet

queue == <<finals, periodics, registered>>
vars == <<sdir, hold, gen_id, config, inc, spinners, finals, periodics,
          registered, capacity, pinned, draining, talking>>

Gens == 0 .. GenMod - 1
ConfigGens == {NoConfig} \cup Gens
Skbs == [discr : Discrs, inc : {0, 1}, mark : Gens]

TypeOK ==
  /\ sdir \subseteq Discrs
  /\ hold \subseteq sdir
  /\ gen_id \in [Discrs -> Gens]
  /\ config \in [Discrs -> ConfigGens]
  /\ inc \in [Discrs -> {0, 1}]
  /\ spinners \subseteq Skbs
  /\ finals \in Seq(Discrs)
  /\ periodics \in Seq(Discrs)
  /\ registered \in BOOLEAN
  /\ capacity \in Nat
  /\ pinned \in Int
  /\ draining \in BOOLEAN
  /\ talking \subseteq sdir

Init ==
  /\ sdir = {}
  /\ hold = {}
  /\ gen_id = [d \in Discrs |-> 0]
  /\ config = [d \in Discrs |-> NoConfig]
  /\ inc = [d \in Discrs |-> 0]
  /\ spinners = {}
  /\ finals = <<>>
  /\ periodics = <<>>
  /\ registered = FALSE
  /\ capacity = TxCap
  /\ pinned = 0
  /\ draining = FALSE
  /\ talking = {}

-----------------------------------------------------------------------------
(* The queue of bbdd-tx.c: two lists, each holding a session at most once. *)

Linked(q, d) == \E i \in DOMAIN q : q[i] = d

Enqueue(q, d) == IF Linked(q, d) THEN q ELSE Append(q, d)

Unlink(q, d) ==
  IF Linked(q, d)
  THEN LET i == CHOOSE i \in DOMAIN q : q[i] = d
       IN  SubSeq(q, 1, i - 1) \o SubSeq(q, i + 1, Len(q))
  ELSE q

Pending == finals # <<>> \/ periodics # <<>>

PolloutArm ==
  \/ registered' = TRUE
  \/ ~registered /\ "arm" \in Faults /\ registered' = FALSE

-----------------------------------------------------------------------------
(* Capacity of the shared socket. *)

CapMultNoHeadroom == 1 \* variant: no room for replacements

CapMult == 2

CapacityFor(S) == IF TxCap # 0 THEN TxCap ELSE CapMult * Cardinality(S)

TxPinned == pinned % U32

HaveCapacity == TxPinned < capacity

-----------------------------------------------------------------------------
(* Injection.  sendmsg runs the egress program of the interface before it  *)
(* returns, so whether the program shoots the packet decides whether       *)
(* sk_sent_count is bumped.                                                *)

NextGen(g) == (g + 1) % GenMod

Skb(d, mark) == [discr |-> d, inc |-> inc[d], mark |-> mark]

(* __bbdd_bpf_session_update once it has decided not to defer: bump        *)
(* gen_id, write the config, send the packet.  Each failure returns early  *)
(* and undoes nothing.  The rearm packet that may follow is sent and       *)
(* released at once, so that it leaves pinned as it was.  The first        *)
(* conjunct says that gen_id does not wrap around within the life of one   *)
(* skb, which passes the looper at least once a transmit interval.         *)
UpdateNow(d, inject) ==
  LET g == NextGen(gen_id[d])
  IN  /\ Skb(d, g) \notin spinners
      /\ gen_id' = [gen_id EXCEPT ![d] = g]
      /\ \/ /\ "conf" \in Faults
            /\ UNCHANGED <<config, spinners, pinned, talking>>
         \/ /\ inject
            /\ config' = [config EXCEPT ![d] = g]
            /\ spinners' = spinners \cup {Skb(d, g)}
            /\ pinned' = pinned + 1
            /\ talking' = talking \cup {d}
         \/ /\ inject => "send" \in Faults
            /\ config' = [config EXCEPT ![d] = g]
            /\ talking' = talking \ {d}
            /\ UNCHANGED <<spinners, pinned>>

(* Variant: the generation is bumped before the capacity is looked at. *)
UpdateBumpFirst(d, inject) ==
  IF inject /\ ~HaveCapacity
  THEN /\ periodics' = Enqueue(periodics, d)
       /\ PolloutArm
       /\ Skb(d, NextGen(gen_id[d])) \notin spinners
       /\ gen_id' = [gen_id EXCEPT ![d] = NextGen(@)]
       /\ config' = [config EXCEPT ![d] = NextGen(gen_id[d])]
       /\ UNCHANGED <<finals, spinners, pinned, talking>>
  ELSE UpdateNow(d, inject) /\ UNCHANGED queue

(* __bbdd_bpf_session_update.  inject is should_inject, which depends on   *)
(* the state of the session.                                               *)
Update(d, inject) ==
  IF inject /\ ~HaveCapacity
  THEN /\ periodics' = Enqueue(periodics, d)
       /\ PolloutArm
       /\ UNCHANGED <<finals, gen_id, config, spinners, pinned, talking>>
  ELSE UpdateNow(d, inject) /\ UNCHANGED queue

(* The fate of a Final: it is forwarded (or dropped as the neighbour is    *)
(* unknown) and leaves the socket at once; or it is shot, which releases   *)
(* it although sendmsg fails and never counts it as sent.                  *)
InjectFinal(d) ==
  \/ /\ gen_id[d] = config[d] \/ "send" \in Faults
     /\ UNCHANGED pinned
  \/ /\ gen_id[d] # config[d] \/ "final" \in Faults
     /\ pinned > -MaxLost
     /\ pinned' = pinned - 1

-----------------------------------------------------------------------------
(* Steps of userspace. *)

SessionAdd(d) ==
  /\ ~draining
  /\ d \notin sdir
  /\ \A s \in spinners :
       s.discr = d => "reuse" \in Faults /\ s.inc = inc[d]
  /\ \/ /\ capacity' = CapacityFor(sdir \cup {d})
        /\ sdir' = sdir \cup {d}
        /\ hold' = hold \cup {d}
        /\ gen_id' = [gen_id EXCEPT ![d] = 0]
        /\ config' = [config EXCEPT ![d] = 0]
        /\ inc' = [inc EXCEPT ![d] = 1 - @]
     \/ /\ "conf" \in Faults
        /\ capacity' \in {capacity, CapacityFor(sdir \cup {d})}
        /\ UNCHANGED <<sdir, hold, gen_id, config, inc>>
  /\ UNCHANGED <<spinners, pinned, draining, talking, queue>>

HoldTimer(d) ==
  /\ ~draining
  /\ d \in hold
  /\ hold' = hold \ {d}
  /\ \E inject \in BOOLEAN : Update(d, inject)
  /\ UNCHANGED <<sdir, inc, capacity, draining>>

SessionUpdate(d) ==
  /\ ~draining
  /\ d \in sdir \ hold
  /\ \E inject \in BOOLEAN : Update(d, inject)
  /\ UNCHANGED <<sdir, hold, inc, capacity, draining>>

(* The answer to a Poll in bbdd_bpf_handle_packet. *)
RespondFinal(d) ==
  /\ ~draining
  /\ d \in sdir \ hold
  /\ IF HaveCapacity
     THEN InjectFinal(d) /\ UNCHANGED queue
     ELSE /\ finals' = Enqueue(finals, d)
          /\ PolloutArm
          /\ UNCHANGED <<periodics, pinned>>
  /\ UNCHANGED <<sdir, hold, gen_id, config, inc, spinners, capacity,
                 draining, talking>>

(* __bbdd_bpf_session_del. *)
Forget(d) ==
  /\ ~draining
  /\ d \in sdir
  /\ sdir' = sdir \ {d}
  /\ talking' = talking \ {d}
  /\ config' = [config EXCEPT ![d] = NoConfig]
  /\ \/ capacity' = CapacityFor(sdir \ {d})
     \/ "conf" \in Faults /\ capacity' = capacity
  /\ UNCHANGED <<gen_id, inc, spinners, registered, pinned, draining>>

(* Variant: the hold timer of a deleted session is left running. *)
SessionDelKeepHold(d) ==
  /\ Forget(d)
  /\ hold' = hold
  /\ finals' = Unlink(finals, d)
  /\ periodics' = Unlink(periodics, d)

(* Variant: the periodic slot of a deleted session stays on the queue. *)
SessionDelKeepSlot(d) ==
  /\ Forget(d)
  /\ hold' = hold \ {d}
  /\ finals' = Unlink(finals, d)
  /\ periodics' = periodics

SessionDel(d) ==
  /\ Forget(d)
  /\ hold' = hold \ {d}
  /\ finals' = Unlink(finals, d)
  /\ periodics' = Unlink(periodics, d)

(* bbdd_bpf_tx_drain, entered on POLLOUT; one step per iteration.  As      *)
(* there is capacity, the update of DrainPeriodic does not defer again.    *)
DrainStart ==
  /\ ~draining
  /\ registered
  /\ draining' = TRUE
  /\ UNCHANGED <<sdir, hold, gen_id, config, inc, spinners, capacity, pinned,
                 talking, queue>>

DrainFinal ==
  /\ draining
  /\ finals # <<>>
  /\ HaveCapacity
  /\ finals' = Tail(finals)
  /\ InjectFinal(Head(finals))
  /\ UNCHANGED <<sdir, hold, gen_id, config, inc, spinners, periodics,
                 registered, capacity, draining, talking>>

DrainPeriodic ==
  /\ draining
  /\ finals = <<>>
  /\ periodics # <<>>
  /\ HaveCapacity
  /\ periodics' = Tail(periodics)
  /\ \E inject \in BOOLEAN : UpdateNow(Head(periodics), inject)
  /\ UNCHANGED <<sdir, hold, inc, finals, registered, capacity, draining>>

DrainEndDisarm == \* variant: disarms with slots left on the queue
  /\ draining
  /\ ~(Pending /\ HaveCapacity)
  /\ draining' = FALSE
  /\ registered' = FALSE
  /\ UNCHANGED <<sdir, hold, gen_id, config, inc, spinners, finals,
                 periodics, capacity, pinned, talking>>

DrainEnd ==
  /\ draining
  /\ ~(Pending /\ HaveCapacity)
  /\ draining' = FALSE
  /\ registered' = (registered /\ Pending)
  /\ UNCHANGED <<sdir, hold, gen_id, config, inc, spinners, finals,
                 periodics, capacity, pinned, talking>>

-----------------------------------------------------------------------------
(* bbdd_xmit_veth_tx, for the passes of an skb that change something: the  *)
(* session is gone or has moved on to another generation.  On all other    *)
(* passes the skb is transmitted, or fails to be, and keeps spinning.      *)
Live(s) == s.mark = config[s.discr]

LooperNoRelease(s) == \* variant: a shot skb is not counted as released
  /\ s \in spinners
  /\ ~Live(s)
  /\ spinners' = spinners \ {s}
  /\ UNCHANGED <<sdir, hold, gen_id, config, inc, capacity, draining, talking,
                 queue, pinned>>

Looper(s) ==
  /\ s \in spinners
  /\ ~Live(s)
  /\ spinners' = spinners \ {s}
  /\ pinned' = pinned - 1
  /\ UNCHANGED <<sdir, hold, gen_id, config, inc, capacity, draining, talking,
                 queue>>

Next ==
  \/ \E d \in Discrs : SessionAdd(d)
  \/ \E d \in Discrs : HoldTimer(d)
  \/ \E d \in Discrs : SessionUpdate(d)
  \/ \E d \in Discrs : RespondFinal(d)
  \/ \E d \in Discrs : SessionDel(d)
  \/ DrainStart \/ DrainFinal \/ DrainPeriodic \/ DrainEnd
  \/ \E s \in Skbs : Looper(s)

Spec == Init /\ [][Next]_vars

(***************************************************************************)
(* Every skb comes around (fq releases it when its transmit interval is    *)
(* over), the registered socket is polled by every turn of the event loop  *)
(* (epoll is level triggered), and a drain that has begun runs to its end. *)
(***************************************************************************)
Fairness ==
  /\ \A s \in Skbs : WF_vars(Looper(s))
  /\ WF_vars(DrainStart)
  /\ WF_vars(DrainFinal)
  /\ WF_vars(DrainPeriodic)
  /\ WF_vars(DrainEnd)

FairSpec == Spec /\ Fairness

-----------------------------------------------------------------------------
(* Properties *)

LiveSkbs(d) == {s \in spinners : s.discr = d /\ Live(s)}

(* A session whose last update sent its packet is represented on the wire  *)
(* by exactly one spinner, and any other session by none: replacing a      *)
(* spinner, deferring the replacement when the socket is full, and         *)
(* deleting and adding sessions neither silence a session nor make it      *)
(* transmit twice (gen_id check of bbdd_xmit_veth_tx, "bump-and-send       *)
(* atomicity" of __bbdd_bpf_session_update).                               *)
OneSpinner ==
  \A d \in sdir : Cardinality(LiveSkbs(d)) = IF d \in talking THEN 1 ELSE 0

(* The difference of the two counters is the number of skbs in the loop,   *)
(* which is what bbdd_bpf_tx_pinned takes it for.                          *)
PinnedExact == pinned = Cardinality(spinners)

(* The comment in bbdd_bpf_tx_pinned: sent >= released.                    *)
SentCoversReleased == pinned >= 0

(* The queue holds no session twice, and only sessions that exist and are  *)
(* not on hold: the assertions of bbdd_bpf_tx_drain, and the abort of      *)
(* bbdd_bpf_session_inject_pkt for a session on hold, are never hit.       *)
NoRepeat(q) == \A i, j \in DOMAIN q : q[i] = q[j] => i = j
QueuedAreLive ==
  /\ NoRepeat(finals) /\ NoRepeat(periodics)
  /\ \A i \in DOMAIN finals : finals[i] \in sdir \ hold
  /\ \A i \in DOMAIN periodics : periodics[i] \in sdir \ hold

(* Whenever something is queued and userspace is back in its event loop,   *)
(* the socket is registered for POLLOUT, so that the queue will be drained *)
(* (bbdd_bpf_tx_pollout_arm, bbdd_bpf_tx_pollout_disarm).                  *)
PendingIsArmed == Pending => registered

(* The comment in __bbdd_bpf_session_del: the packet of a deleted session  *)
(* is dropped by the looper.  No skb of an earlier incarnation of a        *)
(* discriminator passes for a packet of the current one.                   *)
DeletedSpinnersDie ==
  \A s \in spinners :
    s.discr \in sdir /\ s.inc # inc[s.discr] => ~Live(s)

(* Once sessions stop asking for new packets, the queue empties: the stale *)
(* spinners are shot, and with two slots per session the live ones leave   *)
(* room for the queued replacements (BBDD_BPF_TX_CAP_MULT).                *)
Request ==
  \E d \in Discrs :
    \/ SessionAdd(d)
    \/ HoldTimer(d)
    \/ SessionUpdate(d)
    \/ RespondFinal(d)
    \/ SessionDel(d)
QueueDrains == <>[][~Request]_vars => <>[]~Pending

=============================================================================
