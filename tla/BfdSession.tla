----------------------------- MODULE BfdSession -----------------------------
(***************************************************************************)
(* One BFD session of bbdd: what the user configured (bbdd_d_session), the *)
(* poll sequence and shutdown machinery around it (bbdd_bpf_session), the  *)
(* BPF programs that transmit, match and time for it in the kernel, and    *)
(* the ring buffer through which they report to userspace.                 *)
(*                                                                         *)
(* Userspace handles one request, timer or event at a time, so a handler   *)
(* is one step.  The kernel receives packets and expires timers in between *)
(* and only appends to the ring; what a handler reads from the ring may    *)
(* therefore be out of date.                                               *)
(*                                                                         *)
(* A handler may call __bbdd_bpf_session_update several times, and each    *)
(* call may be deferred for lack of room in the socket or may fail.  It is *)
(* written as an operator from the state of the session, a record x with   *)
(* the fields d, b, k and g, to the set of states it may end in.           *)
(***************************************************************************)
EXTENDS Integers, Sequences

CONSTANTS
  Timings,       \* timing the user may configure, records [tx, rx]
  Shutdowns,     \* values of flags.shutdown the user may configure
  DefaultTiming, \* what bbdd_d_session_add starts from
  RemoteTimings, \* timing the peer may announce, records [tx, rx, mult]
  RemoteDiscrs,  \* discriminators the peer may use
  Packets,       \* packets the peer may send, a subset of AllPackets
  UserDiscr,     \* user_remote_discr, 0 when not configured
  Passive,       \* flags.passive
  Slow,          \* bbdd_prog_slow_interval_us
  RingCap,       \* bound: events the ring buffer holds
  MaxLeaked,     \* bound: shutdown timers no longer referenced
  Faults         \* which of FaultKinds the environment may produce

(***************************************************************************)
(* "full":   the socket shared by all sessions has no room                 *)
(* "conf":   a BPF map update fails                                        *)
(* "send":   sendmsg fails                                                 *)
(* "timer":  the shutdown timer cannot be started                          *)
(* "reuse":  a session is deleted and added again with the same            *)
(*           discriminator while a timeout event of the old one is queued  *)
(***************************************************************************)
FaultKinds == {"full", "conf", "send", "timer", "reuse"}

BfdStates == {"ADMINDOWN", "DOWN", "INIT", "UP"}

(* A packet of the peer; your is whether it carries our discriminator.     *)
(* The detection multiplier and the peer's own discriminator may be zero.  *)
AllPackets ==
  [your : BOOLEAN, discr : {0} \cup RemoteDiscrs, state : BfdStates,
   timing : RemoteTimings \cup {[t EXCEPT !.mult = 0] : t \in RemoteTimings},
   poll : BOOLEAN, final : BOOLEAN]

ASSUME SessionAssumption ==
  /\ Timings \subseteq [tx : Nat, rx : Nat]
  /\ Shutdowns \subseteq BOOLEAN
  /\ DefaultTiming \in Timings
  /\ RemoteTimings \subseteq [tx : Nat, rx : Nat, mult : Nat \ {0}]
  /\ RemoteDiscrs \subseteq Nat \ {0}
  /\ Packets \subseteq AllPackets
  /\ UserDiscr \in {0} \cup RemoteDiscrs
  /\ Passive \in BOOLEAN
  /\ Slow \in Nat
  /\ RingCap \in Nat
  /\ MaxLeaked \in Nat
  /\ Faults \subseteq FaultKinds

VARIABLES
  dsess,  \* struct bbdd_d_session
  bsess,  \* struct bbdd_bpf_session
  kern,   \* the BPF maps, the spinner and the BPF timer of the session
  ghost,  \* history used in properties only
  ring    \* the ring buffer

vars == <<dsess, bsess, kern, ghost, ring>>

BStates == {"ON_HOLD", "STABLE", "AWAIT_FINAL", "AWAIT_NON_FINAL",
            "SHUTTING_DOWN"}
Datas == [timing : Timings, shutdown : BOOLEAN]

Remotes == [state : BfdStates, discr : {0} \cup RemoteDiscrs,
            timing : RemoteTimings \cup [tx : {DefaultTiming.tx},
                                         rx : {DefaultTiming.rx}, mult : {1}]]

Timeout == [kind |-> "timeout"]
Unexpected(p) == [kind |-> "packet", pkt |-> p]
Events == {Timeout} \cup {Unexpected(p) : p \in Packets}

None == [none |-> TRUE]
Configs == [admin_down : BOOLEAN, rearm_timer : BOOLEAN, interval : Nat,
            detect_time : Nat, remote : Remotes, final : BOOLEAN]
Skbs == [state : BfdStates, timing : Timings, your : {0} \cup RemoteDiscrs,
         poll : BOOLEAN]

(* The variables have their types.  In particular what userspace takes     *)
(* over from a packet is valid: the detection multiplier of the peer,      *)
(* which bbdd_bpf_session_detect_time_us divides by, is never zero.        *)
TypeOK ==
  /\ dsess \in [present : BOOLEAN, timing : Timings, shutdown : BOOLEAN,
                local : BfdStates, remote : Remotes]
  /\ bsess \in [bstate : BStates, eff : Datas, dfr : Datas,
                qd_change : BOOLEAN, shwait : BOOLEAN, hold : BOOLEAN,
                leaked : 0 .. MaxLeaked, period : Nat,
                periodic_slot : BOOLEAN, final_slot : BOOLEAN]
  /\ kern.config = None \/ kern.config \in Configs
  /\ kern.spinner = None \/ kern.spinner \in Skbs
  /\ kern.timer \in BOOLEAN
  /\ ghost \in [broken : BOOLEAN, lost : BOOLEAN, crashed : BOOLEAN,
                left : BOOLEAN, told : BfdStates \X BfdStates,
                polled : Timings]
  /\ ring \in Seq(Events)
  /\ Len(ring) <= RingCap

Max(a, b) == IF a > b THEN a ELSE b

-----------------------------------------------------------------------------
(* Sets of outcomes *)

Then(X, F(_)) == UNION {F(x) : x \in X}

State == [d |-> dsess, b |-> bsess, k |-> kern, g |-> ghost]

Become(X) ==
  \E x \in X :
    /\ dsess' = x.d
    /\ bsess' = x.b
    /\ kern' = x.k
    /\ ghost' = x.g

-----------------------------------------------------------------------------
(* Pushing the state of the session to the data path *)

UserBdata(x) == [timing |-> x.d.timing, shutdown |-> x.d.shutdown]

DetectTime(x) ==
  Max(x.b.eff.timing.rx, x.d.remote.timing.tx) * x.d.remote.timing.mult

Interval(x) ==
  IF x.d.local = "DOWN" THEN Slow
  ELSE Max(x.b.eff.timing.tx, x.d.remote.timing.rx)

RearmTimer(x) == x.d.local \notin {"DOWN", "ADMINDOWN"}

ConfigOf(x) ==
  [admin_down |-> x.d.local = "ADMINDOWN", rearm_timer |-> RearmTimer(x),
   interval |-> Interval(x), detect_time |-> DetectTime(x),
   remote |-> x.d.remote, final |-> x.b.bstate = "AWAIT_NON_FINAL"]

ShouldInject(x) ==
  /\ ~(x.d.local = "ADMINDOWN" /\ x.b.bstate = "STABLE")
  /\ ~(x.d.remote.discr = 0 /\ Passive)

SkbOf(x) ==
  [state |-> x.d.local, your |-> x.d.remote.discr,
   timing |-> IF x.b.bstate = "STABLE" THEN x.b.eff.timing
              ELSE x.b.dfr.timing,
   poll |-> x.b.bstate = "AWAIT_FINAL"]

SpinnerOf(x) == IF ShouldInject(x) THEN SkbOf(x) ELSE None

(* The history of what the peer was polled about: the timing of the last   *)
(* packet that was a Poll or that was sent while the session was not Up.   *)
Polled(x) ==
  IF ShouldInject(x)
     /\ (SkbOf(x).poll \/ x.d.local # "UP" \/ x.k.spinner = None)
  THEN SkbOf(x).timing ELSE x.g.polled

(* What a rearm packet does when it passes bbdd_xmit_veth_rx_xmit. *)
Rearmed(x) == [x EXCEPT !.k.timer = @ \/ x.k.config.rearm_timer]

UpdatePeriodKept(x) == \* variant: the period outlives the timer
  IF RearmTimer(x) /\ x.b.period # DetectTime(x)
  THEN [Rearmed(x) EXCEPT !.b.period = DetectTime(x)]
  ELSE x

(* The tail of __bbdd_bpf_session_update, after the packet was sent. *)
UpdatePeriod(x) ==
  IF RearmTimer(x) /\ x.b.period # DetectTime(x)
  THEN [Rearmed(x) EXCEPT !.b.period = DetectTime(x)]
  ELSE [x EXCEPT !.b.period = 0]

Deferred(x) == [x EXCEPT !.b.periodic_slot = TRUE]
NewConfig(x) == [x EXCEPT !.k.config = ConfigOf(x), !.k.spinner = None]
NewSpinner(x) ==
  [NewConfig(x) EXCEPT !.k.spinner = SpinnerOf(x), !.g.polled = Polled(x)]

(* __bbdd_bpf_session_update, ending in success; the new generation makes  *)
(* the looper shoot the old spinner.                                       *)
UpdateNow(x) == [UpdatePeriod(NewSpinner(x)) EXCEPT !.g.broken = FALSE]

UpdateOk(x) ==
  {UpdateNow(x)}
  \cup IF "full" \in Faults /\ ShouldInject(x) THEN {Deferred(x)} ELSE {}

(* The early returns: the map update, the packet or the rearm packet.      *)
UpdateFail(x) ==
  LET failed == (IF "conf" \in Faults THEN {x} ELSE {})
                \cup (IF "send" \in Faults /\ ShouldInject(x)
                      THEN {NewConfig(x)} ELSE {})
                \cup (IF "send" \in Faults /\ RearmTimer(x)
                           /\ x.b.period # DetectTime(x)
                      THEN {NewSpinner(x)} ELSE {})
  IN  {[y EXCEPT !.g.broken = TRUE] : y \in failed}

CallUpdate(x) == UpdateOk(x) \cup UpdateFail(x)

(* The session_state_changed callback: bfdd and the monitors are told. *)
Tell(x) == {[x EXCEPT !.g.told = <<x.d.local, x.d.remote.state>>]}

StateChanged(x) == Then(CallUpdate(x), Tell)

-----------------------------------------------------------------------------
(* A change of the configuration: bbdd_bpf_handle_session_update *)

(* What the user's configuration is compared with. *)
Bdata(x) == IF x.b.bstate = "STABLE" THEN x.b.eff ELSE x.b.dfr

NeedShwait(x) == x.d.shutdown /\ ~Bdata(x).shutdown
StopShwait(x) == ~x.d.shutdown /\ Bdata(x).shutdown
NeedPoll(x) == ~NeedShwait(x) /\ x.d.timing # Bdata(x).timing

ApplyImmTxOnly(x) == \* variant: a shorter receive interval is not held back
  ~NeedShwait(x) /\ ~(x.d.local = "UP" /\ x.d.timing.tx > Bdata(x).timing.tx)

ApplyImmShutdown(x) == \* variant: a shutdown is applied at once
  ~ /\ x.d.local = "UP"
    /\ \/ x.d.timing.tx > Bdata(x).timing.tx
       \/ x.d.timing.rx < Bdata(x).timing.rx

ApplyImm(x) ==
  /\ ~NeedShwait(x)
  /\ ~ /\ x.d.local = "UP"
       /\ \/ x.d.timing.tx > Bdata(x).timing.tx
          \/ x.d.timing.rx < Bdata(x).timing.rx

Applied(x) ==
  IF ~ApplyImm(x) THEN x
  ELSE IF x.b.bstate = "STABLE" THEN [x EXCEPT !.b.eff = UserBdata(x)]
  ELSE [x EXCEPT !.b.dfr = UserBdata(x)]

Enabled(x) ==
  [x EXCEPT !.d.local = "DOWN",
            !.b.shwait = @ /\ x.b.bstate # "SHUTTING_DOWN",
            !.b.bstate = IF @ = "SHUTTING_DOWN" THEN "AWAIT_FINAL" ELSE @]

(* A shutdown timer that is running is left behind. *)
StartPoll(x) ==
  [x EXCEPT !.b.dfr = UserBdata(x), !.b.bstate = "AWAIT_FINAL",
            !.g.left = @ \/ x.b.shwait]

(* A timer that is running already is no longer referenced from bsess. *)
StartShwait(x) ==
  [x EXCEPT !.b.leaked = IF x.b.shwait THEN @ + 1 ELSE @,
            !.b.shwait = TRUE,
            !.b.dfr = UserBdata(x), !.b.bstate = "SHUTTING_DOWN",
            !.d.local = "ADMINDOWN", !.d.remote.state = "DOWN"]

MidPoll(x) == x.b.bstate \in {"AWAIT_FINAL", "AWAIT_NON_FINAL"}

HandleSessionUpdate(x) ==
  LET y == IF StopShwait(x) THEN Enabled(Applied(x)) ELSE Applied(x)
  IN  IF MidPoll(x)
      THEN [Applied(x) EXCEPT !.b.qd_change =
              @ \/ NeedPoll(x) \/ NeedShwait(x) \/ StopShwait(x)]
      ELSE IF NeedPoll(x) THEN StartPoll(y)
      ELSE IF NeedShwait(x) THEN StartShwait(y)
      ELSE y

(* bbdd_bpf_shwait_start fails, which leaves everything as it was. *)
UpdateRefused(x) ==
  IF "timer" \in Faults /\ NeedShwait(x) /\ ~MidPoll(x) THEN {x} ELSE {}

-----------------------------------------------------------------------------
(* The poll sequence *)

GotFinalSilent(x) == \* variant: the data path is not told
  {[x EXCEPT !.b.bstate = "AWAIT_NON_FINAL"]}

GotFinal(x) == CallUpdate([x EXCEPT !.b.bstate = "AWAIT_NON_FINAL"])

GotNonFinalReturn(x) == \* variant: returns once the queued change is handled
  LET y == [x EXCEPT !.b.eff = x.b.dfr, !.b.bstate = "STABLE",
                     !.b.qd_change = FALSE]
  IN  IF x.b.qd_change THEN {HandleSessionUpdate(y)} ELSE CallUpdate(y)

GotNonFinalForget(x) == \* variant: the queued change is forgotten
  CallUpdate([x EXCEPT !.b.eff = x.b.dfr, !.b.bstate = "STABLE",
                       !.b.qd_change = FALSE])

GotNonFinal(x) ==
  LET y == [x EXCEPT !.b.eff = x.b.dfr, !.b.bstate = "STABLE",
                     !.b.qd_change = FALSE]
  IN  Then(IF x.b.qd_change
           THEN {HandleSessionUpdate(y)} \cup UpdateRefused(y)
           ELSE {y}, CallUpdate)

(* The state machine of RFC 5880 as coded in bbdd_bpf_handle_packet. *)
NextLocal(local, remote) ==
  CASE remote = "ADMINDOWN" -> "DOWN"
    [] local = "DOWN" /\ remote = "DOWN" -> "INIT"
    [] local = "DOWN" /\ remote = "INIT" -> "UP"
    [] local = "INIT" /\ remote \in {"INIT", "UP"} -> "UP"
    [] local = "UP" /\ remote = "DOWN" -> "DOWN"
    [] OTHER -> local

MalformedAnyMult(p) == \* variant: the detection multiplier is not checked
  \/ p.discr = 0
  \/ ~p.your /\ p.state \notin {"ADMINDOWN", "DOWN"}

(* bbdd_bpf_parse_packet refuses the packet. *)
Malformed(p) ==
  \/ p.timing.mult = 0
  \/ p.discr = 0
  \/ ~p.your /\ p.state \notin {"ADMINDOWN", "DOWN"}

PacketIgnored(x, p) ==
  \/ ~x.d.present
  \/ x.b.bstate \in {"ON_HOLD", "SHUTTING_DOWN"}
  \/ x.d.local = "ADMINDOWN"
  \/ Malformed(p)
  \/ ~p.your /\ UserDiscr \notin {0, p.discr}

(* bbdd_bpf_inject_rearm_packet, an error of which is only reported. *)
InjectRearm(x) == {Rearmed(x)} \cup
  IF "send" \in Faults THEN {[x EXCEPT !.g.broken = TRUE]} ELSE {}

RespondFinal(x, p) ==
  {x} \cup IF p.poll /\ "full" \in Faults
            THEN {[x EXCEPT !.b.final_slot = TRUE]} ELSE {}

HandlePacket(x, p) ==
  LET Parsed(y) ==
        [y EXCEPT !.d.remote = [state |-> p.state, discr |-> p.discr,
                                timing |-> p.timing],
                  !.d.local = NextLocal(@, p.state)]
      Changed(y) == IF y.d # x.d THEN StateChanged(y) ELSE {y}
      Respond(y) == RespondFinal(y, p)
      PollStep(y) ==
        CASE y.b.bstate = "AWAIT_FINAL" /\ p.final -> GotFinal(y)
          [] y.b.bstate = "AWAIT_NON_FINAL" /\ ~p.final -> GotNonFinal(y)
          [] OTHER -> {y}
  IN  IF PacketIgnored(x, p) THEN {x}
      ELSE Then(Then(Then({Parsed(y) : y \in InjectRearm(x)},
                          Changed), Respond), PollStep)

TimedOutSilent(x) == \* variant: only the callback is called
  IF x.d.local \in {"INIT", "UP"}
  THEN Tell([x EXCEPT !.d.local = "DOWN", !.d.remote.state = "DOWN",
                      !.d.remote.discr = UserDiscr])
  ELSE {x}

TimedOutUntold(x) == \* variant: the callback is not called
  IF x.d.local \in {"INIT", "UP"}
  THEN CallUpdate([x EXCEPT !.d.local = "DOWN", !.d.remote.state = "DOWN",
                            !.d.remote.discr = UserDiscr])
  ELSE {x}

(* bbdd_bpf_rb_handle_timeout *)
TimedOut(x) ==
  IF x.d.local \in {"INIT", "UP"}
  THEN StateChanged([x EXCEPT !.d.local = "DOWN", !.d.remote.state = "DOWN",
                              !.d.remote.discr = UserDiscr])
  ELSE {x}

HandleTimeout(x) ==
  IF ~x.d.present THEN {x}
  ELSE CASE x.b.bstate = "ON_HOLD" -> {[x EXCEPT !.g.crashed = TRUE]}
         [] x.b.bstate = "STABLE" -> TimedOut(x)
         [] MidPoll(x) -> Then(GotNonFinal(x), TimedOut)
         [] x.b.bstate = "SHUTTING_DOWN" ->
              Then(GotNonFinal([x EXCEPT !.b.shwait = FALSE]), TimedOut)

-----------------------------------------------------------------------------
(* Steps of userspace *)

NoData == [timing |-> DefaultTiming, shutdown |-> FALSE]

NewDsess(present, timing, shutdown) ==
  [present |-> present, timing |-> timing, shutdown |-> shutdown,
   local |-> "DOWN",
   remote |-> [state |-> "DOWN", discr |-> UserDiscr,
               timing |-> [tx |-> DefaultTiming.tx, rx |-> DefaultTiming.rx,
                           mult |-> 1]]]

NewBsess(hold) ==
  [bstate |-> "ON_HOLD", eff |-> NoData, dfr |-> NoData, qd_change |-> FALSE,
   shwait |-> FALSE, hold |-> hold, leaked |-> 0, period |-> 0,
   periodic_slot |-> FALSE, final_slot |-> FALSE]

NoKern == [config |-> None, spinner |-> None, timer |-> FALSE]

Init ==
  /\ dsess = NewDsess(FALSE, DefaultTiming, FALSE)
  /\ bsess = NewBsess(FALSE)
  /\ kern = NoKern
  /\ ghost = [broken |-> FALSE, lost |-> FALSE, crashed |-> FALSE,
              left |-> FALSE, told |-> <<"DOWN", "DOWN">>,
              polled |-> DefaultTiming]
  /\ ring = <<>>

Running == ~ghost.crashed

(* bbdd_d_session_add and bbdd_bpf_session_add: the session starts on      *)
(* hold, with the shell of a config in the BPF map.                        *)
SessionAdd(timing, shutdown) ==
  /\ Running
  /\ ~dsess.present
  /\ bsess.leaked = 0
  /\ \/ "reuse" \in Faults
     \/ \A i \in DOMAIN ring : ring[i] # Timeout
  /\ dsess' = NewDsess(TRUE, timing, shutdown)
  /\ bsess' = NewBsess(TRUE)
  /\ kern' = [NoKern EXCEPT !.config =
                [admin_down |-> FALSE, rearm_timer |-> FALSE, interval |-> 0,
                 detect_time |-> 0, remote |-> dsess'.remote,
                 final |-> FALSE]]
  /\ ghost' = [ghost EXCEPT !.broken = FALSE, !.lost = FALSE,
                            !.left = FALSE,
                            !.told = <<"DOWN", "DOWN">>,
                            !.polled = DefaultTiming]
  /\ UNCHANGED ring

(* bbdd_d_handle_session_set for a request that matches the session. *)
SessionSet(timing, shutdown) ==
  LET x == [State EXCEPT !.d.timing = timing, !.d.shutdown = shutdown]
      Tells(y) == IF x.d # dsess THEN Tell(y) ELSE {y}
      Pushed(y) == Then(UpdateOk(y), Tells) \cup UpdateFail(y)
  IN  /\ Running
      /\ dsess.present
      /\ Become(IF bsess.bstate = "ON_HOLD" THEN {x}
                ELSE Pushed(HandleSessionUpdate(x)) \cup UpdateRefused(x))
      /\ bsess'.leaked <= MaxLeaked
      /\ UNCHANGED ring

(* bbdd_d_handle_session_del_one; deleting the map element frees the BPF   *)
(* timer, events already in the ring stay there.                           *)
SessionDel ==
  /\ Running
  /\ dsess.present
  /\ dsess' = NewDsess(FALSE, DefaultTiming, FALSE)
  /\ bsess' = [NewBsess(FALSE) EXCEPT !.leaked = bsess.leaked]
  /\ kern' = NoKern
  /\ UNCHANGED <<ghost, ring>>

HoldTimerKept == \* variant: the hold is not stopped
  LET x == [State EXCEPT !.b.eff = UserBdata(State), !.b.bstate = "STABLE"]
  IN  /\ Running
      /\ bsess.hold
      /\ Become(StateChanged(x))
      /\ UNCHANGED ring

(* bbdd_bpf_hold_timer_cb *)
HoldTimer ==
  LET x == [State EXCEPT !.b.eff = UserBdata(State), !.b.bstate = "STABLE"]
  IN  /\ Running
      /\ bsess.hold
      /\ Become({[y EXCEPT !.b.hold = FALSE] : y \in StateChanged(x)})
      /\ UNCHANGED ring

(* bbdd_bpf_shwait_timer_cb *)
ShwaitTimer ==
  /\ Running
  /\ bsess.shwait
  /\ Become(GotNonFinal([State EXCEPT !.b.shwait = FALSE]))
  /\ bsess'.leaked <= MaxLeaked
  /\ UNCHANGED ring

(* The same callback of a timer that bsess no longer refers to.  It frees  *)
(* what bsess->shwait points to, which must exist.                         *)
LeakedTimer ==
  LET x == [State EXCEPT !.b.leaked = @ - 1]
  IN  /\ Running
      /\ bsess.leaked > 0
      /\ Become(IF bsess.shwait
                THEN GotNonFinal([x EXCEPT !.b.shwait = FALSE])
                ELSE {[x EXCEPT !.g.crashed = TRUE]})
      /\ bsess'.leaked <= MaxLeaked
      /\ UNCHANGED ring

(* bbdd_bpf_tx_drain finds room in the socket. *)
DrainPeriodic ==
  LET x == [State EXCEPT !.b.periodic_slot = FALSE]
  IN  /\ Running
      /\ bsess.periodic_slot
      /\ Become({UpdateNow(x)} \cup UpdateFail(x))
      /\ UNCHANGED ring

DrainFinal ==
  /\ Running
  /\ bsess.final_slot
  /\ bsess' = [bsess EXCEPT !.final_slot = FALSE]
  /\ UNCHANGED <<dsess, kern, ghost, ring>>

(* bbdd_bpf_rb_event: the oldest event of the ring is handled. *)
HandleEvent ==
  /\ Running
  /\ ring # <<>>
  /\ Become(IF Head(ring) = Timeout THEN HandleTimeout(State)
            ELSE HandlePacket(State, Head(ring).pkt))
  /\ bsess'.leaked <= MaxLeaked
  /\ ring' = Tail(ring)

-----------------------------------------------------------------------------
(* Steps of the kernel *)

(* Reserving space fails when the ring is full, and the event is lost. *)
Notify(e) ==
  IF Len(ring) < RingCap
  THEN ring' = Append(ring, e) /\ UNCHANGED ghost
  ELSE ghost' = [ghost EXCEPT !.lost = @ \/ e = Timeout] /\ UNCHANGED ring

ExpectedPacket(c, p) ==
  /\ c.remote = [state |-> p.state, discr |-> p.discr, timing |-> p.timing]
  /\ p.final = c.final
  /\ ~p.poll

(* bbdd_recv.  A packet without our discriminator goes to userspace        *)
(* unseen; one that the config expects only rearms the timer.              *)
Recv(p) ==
  LET c == kern.config
  IN  /\ Running
      /\ p.your => c # None /\ ~c.admin_down
      /\ IF p.your /\ ExpectedPacket(c, p)
         THEN /\ kern' = [kern EXCEPT !.timer = @ \/ c.rearm_timer]
              /\ UNCHANGED <<ghost, ring>>
         ELSE Notify(Unexpected(p)) /\ UNCHANGED kern
      /\ UNCHANGED <<dsess, bsess>>

(* bfd_session_expired *)
TimerExpires ==
  /\ Running
  /\ kern.timer
  /\ kern' = [kern EXCEPT !.timer = FALSE]
  /\ Notify(Timeout)
  /\ UNCHANGED <<dsess, bsess>>

Next ==
  \/ \E t \in Timings, sh \in Shutdowns : SessionAdd(t, sh)
  \/ \E t \in Timings, sh \in Shutdowns : SessionSet(t, sh)
  \/ SessionDel
  \/ HoldTimer
  \/ ShwaitTimer
  \/ LeakedTimer
  \/ DrainPeriodic
  \/ DrainFinal
  \/ HandleEvent
  \/ \E p \in Packets : Recv(p)
  \/ TimerExpires

Spec == Init /\ [][Next]_vars

-----------------------------------------------------------------------------
(* Properties *)

OnWire == dsess.present /\ bsess.bstate # "ON_HOLD"

(* Unless a replacement waits on the transmit queue or the last push       *)
(* failed, the BPF config and the spinner are those of the current state   *)
(* of the session: every handler that changes the session, on every path,  *)
(* ends with __bbdd_bpf_session_update.                                    *)
DataPathCurrent ==
  OnWire /\ ~bsess.periodic_slot /\ ~ghost.broken =>
    /\ kern.config = ConfigOf(State)
    /\ kern.spinner = SpinnerOf(State)

(* The loss of the peer is noticed: in states Init and Up the detection    *)
(* timer runs, its expiry is waiting to be handled, or an update that will *)
(* arm it is queued.  timer_period_us, which suppresses the rearm packet,  *)
(* never suppresses the one that is needed.                                *)
Guarded ==
  OnWire /\ dsess.local \in {"INIT", "UP"} /\ ~ghost.broken /\ ~ghost.lost =>
    \/ kern.timer
    \/ \E i \in DOMAIN ring : ring[i] = Timeout
    \/ bsess.periodic_slot

(* A session on hold has no traffic, no timers but the hold timer and      *)
(* nothing queued (invalid_on_hold_abort in inject_pkt), and every other   *)
(* session has no hold timer.                                              *)
HoldIsQuiet ==
  dsess.present => 
    /\ bsess.hold = (bsess.bstate = "ON_HOLD")
    /\ bsess.hold => /\ kern.spinner = None
                     /\ ~kern.timer
                     /\ ~bsess.periodic_slot /\ ~bsess.final_slot
                     /\ ~bsess.shwait

(* RFC 5880 6.8.3 as quoted in bbdd_bpf_handle_session_update: while the   *)
(* session is Up, a longer transmit interval or a shorter receive interval *)
(* takes effect only when a poll sequence is closed by a Final.  That may  *)
(* be as the Final arrives, as the comment on struct bbdd_bpf_session has  *)
(* it, or at the first packet after it, as got_non_final does.             *)
EffHeldDuringPoll ==
  [][ /\ dsess.present /\ dsess'.present
      /\ dsess.local = "UP" /\ dsess'.local = "UP"
      /\ \/ bsess'.eff.timing.tx > bsess.eff.timing.tx
         \/ bsess'.eff.timing.rx < bsess.eff.timing.rx
      => \/ bsess.bstate = "AWAIT_NON_FINAL"
         \/ /\ bsess.bstate = "AWAIT_FINAL"
            /\ bsess'.bstate = "AWAIT_NON_FINAL"]_vars

(* The comment in __bbdd_bpf_session_update: "When admin down and stable,  *)
(* we are past the shwait".                                                *)
StablePastShwait ==
  dsess.local = "ADMINDOWN" /\ bsess.bstate = "STABLE" => ~bsess.shwait

(* The comment in bbdd_bpf_handle_session_update: a change of either       *)
(* interval initiates a poll sequence.  While Up, the effective timing is  *)
(* the one last polled, or the one announced before the session came Up.   *)
EffWasPolled ==
  /\ dsess.present /\ dsess.local = "UP" /\ bsess.bstate = "STABLE"
  /\ ~bsess.periodic_slot /\ ~ghost.broken
  => bsess.eff.timing = ghost.polled

(* Whoever follows the session (monitor, bfdd) is told of every change of  *)
(* its state, except for one made when a queued change is handled: that is *)
(* announced only with the next one (bbdd_bpf_session_state_changed).  The *)
(* same exception holds for sessions with a shutdown timer left behind.    *)
Current == <<dsess.local, dsess.remote.state>>
ToldUnlessQueued ==
  [][OnWire' /\ ~ghost'.left /\ ghost'.told # Current' =>
       OnWire /\ (bsess.qd_change \/ ghost.told # Current)]_vars

(* The daemon does not abort. *)
NoCrash == ~ghost.crashed

(* Once a session is on the wire, a shutdown becomes effective, and the    *)
(* session silent, only after it has been AdminDown: the peer is told for  *)
(* a detection time (shwait).  It stays AdminDown until it is enabled.     *)
(* Excepted are sessions with a shutdown timer left behind, which makes    *)
(* effective again what dfr_data was left at.                              *)
ShutdownIsAnnounced ==
  [][OnWire /\ OnWire' /\ ~ghost.left =>
       /\ bsess'.eff.shutdown /\ ~bsess.eff.shutdown
          => dsess.local = "ADMINDOWN"
       /\ dsess.local = "ADMINDOWN" /\ dsess'.local # "ADMINDOWN"
          => ~dsess'.shutdown]_vars

(* Handlers run, timers expire and the queue is drained, but nothing is    *)
(* expected of the peer.                                                   *)
Fairness ==
  /\ WF_vars(HandleEvent)
  /\ WF_vars(HoldTimer)
  /\ WF_vars(ShwaitTimer)
  /\ WF_vars(DrainPeriodic)
  /\ WF_vars(DrainFinal)
  /\ WF_vars(TimerExpires)

(* The peer keeps transmitting and answers polls, and the ring buffer does *)
(* not overflow each time it does.                                         *)
PeerFairness ==
  \A p \in Packets :
    p.your /\ p.state = "UP" => SF_vars(Recv(p) /\ Len(ring) < RingCap)

LoneSpec == Spec /\ Fairness
PeerSpec == LoneSpec /\ PeerFairness

(* Once the user leaves the session alone, what was configured becomes     *)
(* effective: poll sequences terminate, also those queued behind another   *)
(* or deferred for lack of room, and no queued change is forgotten.        *)
UserStep ==
  \/ \E t \in Timings, sh \in Shutdowns : SessionAdd(t, sh)
  \/ \E t \in Timings, sh \in Shutdowns : SessionSet(t, sh)
  \/ SessionDel
Settles ==
  <>[][~UserStep]_vars =>
    <>[](dsess.present => /\ bsess.bstate = "STABLE"
                          /\ bsess.eff = UserBdata(State))

(* The comment in bbdd_bpf_handle_session_update: unless enabling, the     *)
(* state becomes AdminDown.  A session that is told to shut down does so.  *)
ShutdownTakesEffect ==
  OnWire /\ dsess.shutdown /\ ~bsess.eff.shutdown ~>
    dsess.local = "ADMINDOWN" \/ ~dsess.shutdown \/ ~dsess.present

=============================================================================
