-------------------------- MODULE BfdSessionProofs --------------------------
(***************************************************************************)
(* Proofs about one session, for any timings, any peer, any length of the  *)
(* ring buffer and any faults: the data path follows the session, a        *)
(* session on hold is quiet, the loss of the peer is noticed, intervals    *)
(* are kept until the peer has agreed, a shutdown is announced before it   *)
(* is effective, and clients are told of every state.                      *)
(***************************************************************************)
EXTENDS BfdSession, TLAPS

(* A step that names no prover is left to Z3 or Zenon. *)
USE SMTT(15), ZenonT(15), Z3T(30)

-----------------------------------------------------------------------------
(* What handlers operate on *)

DTypes == [present : BOOLEAN, timing : Timings, shutdown : BOOLEAN,
           local : BfdStates, remote : Remotes]
BTypes == [bstate : BStates, eff : Datas, dfr : Datas,
           qd_change : BOOLEAN, shwait : BOOLEAN, hold : BOOLEAN,
           leaked : Nat, period : Nat,
           periodic_slot : BOOLEAN, final_slot : BOOLEAN]
KTypes == [config : Configs, spinner : Skbs \cup {None}, timer : BOOLEAN]
GTypes == [broken : BOOLEAN, lost : BOOLEAN, crashed : BOOLEAN,
           left : BOOLEAN, told : BfdStates \X BfdStates, polled : Timings]

(* A session that exists, in the middle of a handler: its state and config *)
(* have their types.                                                       *)
Live == [d : DTypes, b : BTypes, k : KTypes, g : GTypes]

(* The data path is that of the session, or known not to be. *)
Pushed(x) ==
  x.b.periodic_slot \/ x.g.broken \/
    (x.k.config = ConfigOf(x) /\ x.k.spinner = SpinnerOf(x))

LEMMA MaxNat == ASSUME NEW a \in Nat, NEW b \in Nat PROVE Max(a, b) \in Nat
  BY DEF Max

LEMMA TimesNat == ASSUME NEW a \in Nat, NEW b \in Nat PROVE a * b \in Nat
  OBVIOUS

LEMMA RemoteTiming ==
  ASSUME NEW r \in Remotes
  PROVE  r.timing.tx \in Nat /\ r.timing.rx \in Nat /\ r.timing.mult \in Nat
<1>1. r.timing \in RemoteTimings \cup [tx : {DefaultTiming.tx}, rx : {DefaultTiming.rx}, mult : {1}]
  BY DEF Remotes
<1>2. DefaultTiming.tx \in Nat /\ DefaultTiming.rx \in Nat
  BY SessionAssumption
<1> QED
  BY <1>1, <1>2, SessionAssumption

LEMMA DetectTimeNat ==
  ASSUME NEW x \in Live
  PROVE  DetectTime(x) \in Nat
<1>1. x.b.eff.timing.rx \in Nat
  BY SessionAssumption DEF Live, BTypes, Datas
<1>2. x.d.remote \in Remotes
  BY DEF Live, DTypes
<1> QED
  BY <1>1, <1>2, RemoteTiming, MaxNat, TimesNat, Zenon DEF DetectTime

LEMMA IntervalNat ==
  ASSUME NEW x \in Live
  PROVE  Interval(x) \in Nat
<1>1. x.b.eff.timing.tx \in Nat
  BY SessionAssumption DEF Live, BTypes, Datas
<1>2. x.d.remote \in Remotes
  BY DEF Live, DTypes
<1> QED
  BY <1>1, <1>2, RemoteTiming, MaxNat, SessionAssumption, Zenon DEF Interval

LEMMA ConfigType ==
  ASSUME NEW x \in Live
  PROVE  ConfigOf(x) \in Configs
  BY DetectTimeNat, IntervalNat DEF ConfigOf, Configs, RearmTimer, Live, DTypes

LEMMA SpinnerType ==
  ASSUME NEW x \in Live
  PROVE  SpinnerOf(x) \in Skbs \cup {None} /\ SkbOf(x).timing \in Timings
<1>1. /\ x.d.local \in BfdStates
      /\ x.d.remote.discr \in {0} \cup RemoteDiscrs
      /\ x.b.eff.timing \in Timings /\ x.b.dfr.timing \in Timings
  BY DEF Live, DTypes, BTypes, Datas, Remotes
<1>2. SkbOf(x) \in Skbs
  BY <1>1 DEF SkbOf, Skbs
<1> QED
  BY <1>1, <1>2 DEF SpinnerOf, Skbs

-----------------------------------------------------------------------------
(* __bbdd_bpf_session_update *)

(* What a push leaves alone. *)
Carried(x, y) ==
  /\ y.d = x.d
  /\ y.b.bstate = x.b.bstate /\ y.b.eff = x.b.eff /\ y.b.dfr = x.b.dfr
  /\ y.b.qd_change = x.b.qd_change /\ y.b.shwait = x.b.shwait
  /\ y.b.hold = x.b.hold /\ y.b.leaked = x.b.leaked
  /\ y.b.final_slot = x.b.final_slot
  /\ y.g.lost = x.g.lost

LEMMA CarriedConfig ==
  ASSUME NEW x, NEW y, Carried(x, y)
  PROVE  ConfigOf(y) = ConfigOf(x) /\ SpinnerOf(y) = SpinnerOf(x)
  BY DEF Carried, ConfigOf, SpinnerOf, ShouldInject, SkbOf, Interval, DetectTime,
         RearmTimer

LEMMA NewConfigIs ==
  ASSUME NEW x \in Live
  PROVE  /\ NewConfig(x) \in Live
         /\ Carried(x, NewConfig(x))
         /\ NewConfig(x).k.config = ConfigOf(x)
         /\ NewConfig(x).b = x.b /\ NewConfig(x).k.timer = x.k.timer
         /\ NewConfig(x).g = x.g
<1>1. ConfigOf(x) \in Configs
  BY ConfigType
<1> QED
  BY <1>1, Zenon DEF NewConfig, Live, KTypes, Carried

LEMMA NewSpinnerIs ==
  ASSUME NEW x \in Live
  PROVE  /\ NewSpinner(x) \in Live
         /\ Carried(x, NewSpinner(x))
         /\ NewSpinner(x).k.config = ConfigOf(x)
         /\ NewSpinner(x).k.spinner = SpinnerOf(x)
         /\ NewSpinner(x).k.timer = x.k.timer
         /\ NewSpinner(x).b = x.b
<1>1. SpinnerOf(x) \in Skbs \cup {None} /\ Polled(x) \in Timings
  BY SpinnerType DEF Polled, Live, GTypes
<1>2. NewConfig(x) \in Live /\ Carried(x, NewConfig(x)) /\ NewConfig(x).k.config = ConfigOf(x)
      /\ NewConfig(x).b = x.b /\ NewConfig(x).k.timer = x.k.timer
  BY NewConfigIs
<1> HIDE DEF NewConfig
<1> QED
  BY <1>1, <1>2, Zenon DEF NewSpinner, Live, KTypes, GTypes, Carried

LEMMA UpdatePeriodIs ==
  ASSUME NEW x \in Live
  PROVE  /\ UpdatePeriod(x) \in Live
         /\ Carried(x, UpdatePeriod(x))
         /\ UpdatePeriod(x).k.config = x.k.config
         /\ UpdatePeriod(x).k.spinner = x.k.spinner
<1>1. DetectTime(x) \in Nat /\ x.k.config.rearm_timer \in BOOLEAN /\ x.k.timer \in BOOLEAN
  BY DetectTimeNat DEF Live, KTypes, Configs
<1> DEFINE t == x.k.timer \/ x.k.config.rearm_timer
<1>2. t \in BOOLEAN
  OBVIOUS
<1>3. Rearmed(x) = [x EXCEPT !.k.timer = t]
  BY DEF Rearmed
<1> HIDE DEF t
<1>4. Rearmed(x) \in Live /\ Carried(x, Rearmed(x)) /\ Rearmed(x).k.config = x.k.config
      /\ Rearmed(x).k.spinner = x.k.spinner
  BY <1>2, <1>3 DEF Live, KTypes, Carried
<1> QED
  BY <1>1, <1>4 DEF UpdatePeriod, Live, BTypes, Carried

LEMMA UpdateNowIs ==
  ASSUME NEW x \in Live
  PROVE  /\ UpdateNow(x) \in Live
         /\ Carried(x, UpdateNow(x))
         /\ Pushed(UpdateNow(x))
<1> DEFINE s == NewSpinner(x)
           u == UpdatePeriod(s)
<1>1. /\ s \in Live /\ Carried(x, s)
      /\ s.k.config = ConfigOf(x) /\ s.k.spinner = SpinnerOf(x)
  BY NewSpinnerIs
<1> HIDE DEF s
<1>2. /\ u \in Live /\ Carried(s, u)
      /\ u.k.config = ConfigOf(x) /\ u.k.spinner = SpinnerOf(x)
  BY <1>1, UpdatePeriodIs
<1> HIDE DEF u
<1>3. UpdateNow(x) = [u EXCEPT !.g.broken = FALSE]
  BY DEF UpdateNow, u, s
<1>4. /\ UpdateNow(x) \in Live /\ Carried(u, UpdateNow(x))
      /\ UpdateNow(x).k = u.k
  <2> DEFINE h == [u.g EXCEPT !.broken = FALSE]
  <2>1. ASSUME NEW v
        PROVE  [u EXCEPT !.g.broken = v] =
               [d |-> u.d, b |-> u.b, k |-> u.k, g |-> [u.g EXCEPT !.broken = v]]
    BY <1>2 DEF Live
  <2>2. UpdateNow(x) = [d |-> u.d, b |-> u.b, k |-> u.k, g |-> h]
    BY <1>3, <2>1, Zenon
  <2>3. h \in GTypes /\ h.lost = u.g.lost
    BY <1>2, Zenon DEF Live, GTypes
  <2> HIDE DEF h
  <2> QED
    BY <1>2, <2>2, <2>3 DEF Live, Carried
<1>5. Carried(x, UpdateNow(x))
  BY <1>1, <1>2, <1>4 DEF Carried
<1> QED
  BY <1>2, <1>4, <1>5, CarriedConfig DEF Pushed

(* Whatever becomes of a push, it only touches the data path, and either   *)
(* that is current or there is a reason why it is not.                     *)
LEMMA FailIs ==
  ASSUME NEW x \in Live, NEW y \in UpdateFail(x)
  PROVE  y \in Live /\ Carried(x, y) /\ Pushed(y)
<1>1. PICK z \in {x, NewConfig(x), NewSpinner(x)} : y = [z EXCEPT !.g.broken = TRUE]
  BY DEF UpdateFail
<1>2. z \in Live /\ Carried(x, z)
  <2>1. CASE z = x
    BY <2>1 DEF Carried
  <2>2. CASE z = NewConfig(x)
    BY <2>2, NewConfigIs
  <2>3. CASE z = NewSpinner(x)
    BY <2>3, NewSpinnerIs
  <2> QED
    BY <1>1, <2>1, <2>2, <2>3
<1> QED
  BY <1>1, <1>2, Zenon DEF Live, GTypes, Carried, Pushed

LEMMA OkIs ==
  ASSUME NEW x \in Live, NEW y \in UpdateOk(x)
  PROVE  y \in Live /\ Carried(x, y) /\ Pushed(y)
<1>1. CASE y = UpdateNow(x)
  BY <1>1, UpdateNowIs
<1>2. CASE y = Deferred(x)
  BY <1>2, Zenon DEF Deferred, Live, BTypes, Carried, Pushed
<1> QED
  BY <1>1, <1>2 DEF UpdateOk

LEMMA CallIs ==
  ASSUME NEW x \in Live, NEW y \in CallUpdate(x)
  PROVE  y \in Live /\ Carried(x, y) /\ Pushed(y)
  BY FailIs, OkIs DEF CallUpdate

LEMMA TellIs ==
  ASSUME NEW x \in Live, NEW y \in Tell(x)
  PROVE  y \in Live /\ Carried(x, y) /\ (Pushed(x) => Pushed(y)) /\ y.k = x.k /\ y.b = x.b
<1>1. y = [x EXCEPT !.g.told = <<x.d.local, x.d.remote.state>>]
  BY DEF Tell
<1>2. <<x.d.local, x.d.remote.state>> \in BfdStates \X BfdStates
  BY DEF Live, DTypes, Remotes
<1>3. y \in Live /\ Carried(x, y) /\ y.k = x.k /\ y.b = x.b /\ y.g.broken = x.g.broken
  BY <1>1, <1>2 DEF Live, GTypes, Carried
<1> QED
  BY <1>3, CarriedConfig DEF Pushed

LEMMA ChangedIs ==
  ASSUME NEW x \in Live, NEW y \in StateChanged(x)
  PROVE  y \in Live /\ Carried(x, y) /\ Pushed(y)
<1>1. PICK z \in CallUpdate(x) : y \in Tell(z)
  BY DEF StateChanged, Then
<1> QED
  BY <1>1, CallIs, TellIs DEF Carried

-----------------------------------------------------------------------------
(* bbdd_bpf_handle_session_update and the poll sequence *)

(* What no handler of a session on the wire does: delete it, put it on     *)
(* hold, or lose an event.                                                 *)
Kept(x, y) ==
  /\ y.d.present = x.d.present
  /\ y.b.hold = x.b.hold
  /\ y.g.lost = x.g.lost
  /\ y.b.bstate # "ON_HOLD"

(* What a change of the configuration leaves alone; in particular it does  *)
(* not bring the session up.                                               *)
Prepared(x, y) ==
  /\ Kept(x, y)
  /\ y.k = x.k
  /\ y.b.period = x.b.period
  /\ y.b.periodic_slot = x.b.periodic_slot
  /\ y.g.broken = x.g.broken
  /\ RearmTimer(y) => RearmTimer(x)

LEMMA UserBdataType ==
  ASSUME NEW x \in Live
  PROVE  UserBdata(x) \in Datas
  BY DEF Live, DTypes, UserBdata, Datas

LEMMA AppliedIs ==
  ASSUME NEW x \in Live, x.b.bstate # "ON_HOLD"
  PROVE  Applied(x) \in Live /\ Prepared(x, Applied(x))
  BY UserBdataType DEF Applied, Live, BTypes, Prepared, Kept, RearmTimer

(* The fields of bsess that only the data path is concerned with. *)
Around(b, c) ==
  c.hold = b.hold /\ c.period = b.period /\ c.periodic_slot = b.periodic_slot

LEMMA EnabledIs ==
  ASSUME NEW x \in Live, x.b.bstate # "ON_HOLD"
  PROVE  Enabled(x) \in Live /\ Prepared(x, Enabled(x))
<1> DEFINE w == x.b.shwait /\ x.b.bstate # "SHUTTING_DOWN"
           bs == IF x.b.bstate = "SHUTTING_DOWN" THEN "AWAIT_FINAL" ELSE x.b.bstate
<1>1. Enabled(x) = [x EXCEPT !.d.local = "DOWN", !.b.shwait = w, !.b.bstate = bs]
  BY DEF Enabled
<1>2. w \in BOOLEAN /\ bs \in BStates \ {"ON_HOLD"}
  BY DEF Live, BTypes, BStates
<1> HIDE DEF w, bs
<1> DEFINE d == [x.d EXCEPT !.local = "DOWN"]
           b == [x.b EXCEPT !.shwait = w, !.bstate = bs]
<1>3. Enabled(x) = [d |-> d, b |-> b, k |-> x.k, g |-> x.g]
  BY <1>1, Zenon DEF Live
<1>4. d \in DTypes /\ d.local = "DOWN" /\ d.present = x.d.present
  BY DEF Live, DTypes, BfdStates
<1>5. b \in BTypes /\ b.bstate # "ON_HOLD" /\ Around(x.b, b)
  BY <1>2, Zenon DEF Live, BTypes, Around
<1> HIDE DEF d, b
<1> QED
  BY <1>3, <1>4, <1>5 DEF Live, Prepared, Kept, RearmTimer, Around

LEMMA StartPollIs ==
  ASSUME NEW x \in Live, x.b.bstate # "ON_HOLD"
  PROVE  StartPoll(x) \in Live /\ Prepared(x, StartPoll(x))
<1> DEFINE l == x.g.left \/ x.b.shwait
<1>1. StartPoll(x) = [x EXCEPT !.b.dfr = UserBdata(x), !.b.bstate = "AWAIT_FINAL", !.g.left = l]
  BY DEF StartPoll
<1>2. l \in BOOLEAN
  OBVIOUS
<1> HIDE DEF l
<1> DEFINE b == [x.b EXCEPT !.dfr = UserBdata(x), !.bstate = "AWAIT_FINAL"]
           g == [x.g EXCEPT !.left = l]
<1>3. StartPoll(x) = [d |-> x.d, b |-> b, k |-> x.k, g |-> g]
  BY <1>1, Zenon DEF Live
<1>4. b \in BTypes /\ b.bstate # "ON_HOLD" /\ Around(x.b, b)
  BY UserBdataType, Zenon DEF Live, BTypes, BStates, Around
<1>5. g \in GTypes /\ g.broken = x.g.broken /\ g.lost = x.g.lost
  BY <1>2 DEF Live, GTypes
<1> HIDE DEF b, g
<1> QED
  BY <1>3, <1>4, <1>5 DEF Live, Prepared, Kept, RearmTimer, Around

(* What bbdd_bpf_shwait_start makes of the two parts of a session *)
ShwaitD(x) ==
  [x.d EXCEPT !.local = "ADMINDOWN", !.remote = [x.d.remote EXCEPT !.state = "DOWN"]]
ShwaitB(x) ==
  [x.b EXCEPT !.leaked = IF x.b.shwait THEN x.b.leaked + 1 ELSE x.b.leaked,
              !.shwait = TRUE, !.dfr = UserBdata(x), !.bstate = "SHUTTING_DOWN"]

LEMMA StartShwaitForm ==
  ASSUME NEW x \in Live
  PROVE  StartShwait(x) = [d |-> ShwaitD(x), b |-> ShwaitB(x), k |-> x.k, g |-> x.g]
<1> DEFINE n == IF x.b.shwait THEN x.b.leaked + 1 ELSE x.b.leaked
           r == [x.d.remote EXCEPT !.state = "DOWN"]
           d == [x.d EXCEPT !.local = "ADMINDOWN", !.remote = r]
           b == [x.b EXCEPT !.leaked = n, !.shwait = TRUE, !.dfr = UserBdata(x),
                            !.bstate = "SHUTTING_DOWN"]
<1>1. StartShwait(x) = [d |-> d, b |-> b, k |-> x.k, g |-> x.g]
  <2> DEFINE b1 == [x.b EXCEPT !.leaked = n, !.shwait = TRUE]
             e1 == [x EXCEPT !.b.leaked = n, !.b.shwait = TRUE]
             e2 == [e1 EXCEPT !.b.dfr = UserBdata(x), !.b.bstate = "SHUTTING_DOWN"]
             e == [e2 EXCEPT !.d.local = "ADMINDOWN"]
  <2>1. StartShwait(x) = [e EXCEPT !.d.remote.state = "DOWN"]
    BY DEF StartShwait, Live, BTypes
  <2>2. e = [d |-> [x.d EXCEPT !.local = "ADMINDOWN"], b |-> b, k |-> x.k, g |-> x.g]
    <3> HIDE DEF n
    <3> DEFINE b0 == [x.b EXCEPT !.leaked = n]
               e0 == [x EXCEPT !.b.leaked = n]
               b2 == [b1 EXCEPT !.dfr = UserBdata(x)]
               e3 == [e1 EXCEPT !.b.dfr = UserBdata(x)]
    <3>1. e0 = [d |-> x.d, b |-> b0, k |-> x.k, g |-> x.g]
      BY DEF Live
    <3>2. e1 = [e0 EXCEPT !.b.shwait = TRUE] /\ b1 = [b0 EXCEPT !.shwait = TRUE]
      OBVIOUS
    <3>3. e2 = [e3 EXCEPT !.b.bstate = "SHUTTING_DOWN"] /\ b = [b2 EXCEPT !.bstate = "SHUTTING_DOWN"]
      OBVIOUS
    <3> HIDE DEF e0, b0, e1, b1
    <3>4. e1 = [d |-> x.d, b |-> b1, k |-> x.k, g |-> x.g]
      BY <3>1, <3>2, Zenon
    <3>5. e3 = [d |-> x.d, b |-> b2, k |-> x.k, g |-> x.g]
      BY <3>4
    <3> HIDE DEF e3, b2, e2, b
    <3>6. e2 = [d |-> x.d, b |-> b, k |-> x.k, g |-> x.g]
      BY <3>3, <3>5
    <3> QED
      BY <3>6
  <2> HIDE DEF e
  <2>3. StartShwait(x) = [d |-> [e.d EXCEPT !.remote = r], b |-> b, k |-> x.k, g |-> x.g]
    BY <2>1, <2>2, Zenon DEF Live, DTypes
  <2> QED
    BY <2>2, <2>3 DEF Live, DTypes
<1> QED
  BY <1>1, Zenon DEF ShwaitD, ShwaitB

LEMMA StartShwaitIs ==
  ASSUME NEW x \in Live, x.b.bstate # "ON_HOLD"
  PROVE  StartShwait(x) \in Live /\ Prepared(x, StartShwait(x))
<1> DEFINE n == IF x.b.shwait THEN x.b.leaked + 1 ELSE x.b.leaked
           r == [x.d.remote EXCEPT !.state = "DOWN"]
           d == [x.d EXCEPT !.local = "ADMINDOWN", !.remote = r]
           b == [x.b EXCEPT !.leaked = n, !.shwait = TRUE, !.dfr = UserBdata(x),
                            !.bstate = "SHUTTING_DOWN"]
<1>1. StartShwait(x) = [d |-> d, b |-> b, k |-> x.k, g |-> x.g]
  BY StartShwaitForm, Zenon DEF ShwaitD, ShwaitB
<1>2. n \in Nat /\ r \in Remotes
  BY DEF Live, DTypes, BTypes, Remotes, BfdStates
<1> HIDE DEF n, r
<1>3. d \in DTypes /\ d.local = "ADMINDOWN" /\ d.present = x.d.present
  BY <1>2, Zenon DEF Live, DTypes, BfdStates
<1>4. b \in BTypes /\ b.bstate # "ON_HOLD" /\ Around(x.b, b)
  BY <1>2, UserBdataType, Zenon DEF Live, BTypes, BStates, Around
<1> HIDE DEF d, b
<1> QED
  BY <1>1, <1>3, <1>4 DEF Live, Prepared, Kept, RearmTimer, Around

LEMMA PreparedTwice ==
  ASSUME NEW x, NEW y, NEW z, Prepared(x, y), Prepared(y, z)
  PROVE  Prepared(x, z)
  BY DEF Prepared, Kept

LEMMA SessionUpdateIs ==
  ASSUME NEW x \in Live, x.b.bstate # "ON_HOLD"
  PROVE  HandleSessionUpdate(x) \in Live /\ Prepared(x, HandleSessionUpdate(x))
<1> DEFINE a == Applied(x)
           y == IF StopShwait(x) THEN Enabled(a) ELSE a
<1>1. a \in Live /\ Prepared(x, a) /\ a.b.bstate # "ON_HOLD"
  BY AppliedIs DEF Prepared, Kept
<1> HIDE DEF a
<1>2. y \in Live /\ Prepared(x, y) /\ y.b.bstate # "ON_HOLD"
  <2>1. Enabled(a) \in Live /\ Prepared(x, Enabled(a))
    BY <1>1, EnabledIs, PreparedTwice
  <2> QED
    BY <1>1, <2>1 DEF Prepared, Kept
<1>3. StartPoll(y) \in Live /\ Prepared(x, StartPoll(y))
  BY <1>2, StartPollIs, PreparedTwice
<1>4. StartShwait(y) \in Live /\ Prepared(x, StartShwait(y))
  BY <1>2, StartShwaitIs, PreparedTwice
<1> DEFINE q == a.b.qd_change \/ NeedPoll(x) \/ NeedShwait(x) \/ StopShwait(x)
           m == [a EXCEPT !.b.qd_change = q]
<1>5. q \in BOOLEAN
  OBVIOUS
<1> HIDE DEF q
<1>6. m \in Live /\ Prepared(x, m)
  BY <1>1, <1>5 DEF Live, BTypes, Prepared, Kept, RearmTimer
<1>7. HandleSessionUpdate(x) \in {m, StartPoll(y), StartShwait(y), y}
  BY DEF HandleSessionUpdate, a, q
<1> HIDE DEF y, m
<1> QED
  BY <1>2, <1>3, <1>4, <1>6, <1>7

(* A handler that ends in a push. *)
LEMMA PreparedThenCalled ==
  ASSUME NEW x, NEW y \in Live, Prepared(x, y), NEW z \in CallUpdate(y)
  PROVE  z \in Live /\ Kept(x, z) /\ Pushed(z)
  BY CallIs DEF Prepared, Carried, Kept

LEMMA GotFinalIs ==
  ASSUME NEW x \in Live, NEW y \in GotFinal(x)
  PROVE  y \in Live /\ Kept(x, y) /\ Pushed(y)
<1> DEFINE w == [x EXCEPT !.b.bstate = "AWAIT_NON_FINAL"]
<1>1. w \in Live /\ Prepared(x, w)
  BY DEF Live, BTypes, BStates, Prepared, Kept, RearmTimer
<1>2. y \in CallUpdate(w)
  BY DEF GotFinal
<1> HIDE DEF w
<1> QED
  BY <1>1, <1>2, PreparedThenCalled

(* bbdd_bpf_got_non_final before it pushes *)
LEMMA NonFinalPrepared ==
  ASSUME NEW x \in Live, NEW y \in GotNonFinal(x)
  PROVE  \E z \in Live : Prepared(x, z) /\ y \in CallUpdate(z)
<1> DEFINE w == [x EXCEPT !.b.eff = x.b.dfr, !.b.bstate = "STABLE", !.b.qd_change = FALSE]
<1>1. w \in Live /\ Prepared(x, w) /\ w.b.bstate # "ON_HOLD"
  BY ZenonT(60) DEF Live, BTypes, BStates, Prepared, Kept, RearmTimer
<1>2. PICK z \in {w, HandleSessionUpdate(w)} : y \in CallUpdate(z)
  BY DEF GotNonFinal, Then, UpdateRefused
<1> HIDE DEF w
<1>3. z \in Live /\ Prepared(x, z)
  BY <1>1, <1>2, SessionUpdateIs, PreparedTwice
<1> QED
  BY <1>2, <1>3

LEMMA GotNonFinalIs ==
  ASSUME NEW x \in Live, NEW y \in GotNonFinal(x)
  PROVE  y \in Live /\ Kept(x, y) /\ Pushed(y)
  BY NonFinalPrepared, PreparedThenCalled

-----------------------------------------------------------------------------
(* Events *)

LEMMA NextLocalType ==
  ASSUME NEW l \in BfdStates, NEW r \in BfdStates
  PROVE  NextLocal(l, r) \in BfdStates
  BY DEF NextLocal, BfdStates

LEMMA PacketType ==
  ASSUME NEW p \in Packets, ~Malformed(p)
  PROVE  /\ p.state \in BfdStates
         /\ [state |-> p.state, discr |-> p.discr, timing |-> p.timing] \in Remotes
<1>1. p \in AllPackets
  BY SessionAssumption
<1>2. /\ p.state \in BfdStates
      /\ p.discr \in {0} \cup RemoteDiscrs
      /\ p.timing \in RemoteTimings
                      \cup {[t EXCEPT !.mult = 0] : t \in RemoteTimings}
  BY <1>1 DEF AllPackets
<1>3. p.timing \in RemoteTimings
  <2> SUFFICES ASSUME NEW t \in RemoteTimings, p.timing = [t EXCEPT !.mult = 0]
               PROVE  FALSE
    BY <1>2
  <2>1. t \in [tx : Nat, rx : Nat, mult : Nat \ {0}]
    BY SessionAssumption
  <2> QED
    BY <2>1 DEF Malformed
<1> QED
  BY <1>2, <1>3 DEF Remotes

LEMMA RearmedIs ==
  ASSUME NEW x \in Live
  PROVE  /\ Rearmed(x) \in Live
         /\ Rearmed(x).d = x.d /\ Rearmed(x).b = x.b /\ Rearmed(x).g = x.g
         /\ Rearmed(x).k.config = x.k.config /\ Rearmed(x).k.spinner = x.k.spinner
         /\ Rearmed(x).k.timer = (x.k.timer \/ x.k.config.rearm_timer)
<1> DEFINE t == x.k.timer \/ x.k.config.rearm_timer
<1>1. x.k.config.rearm_timer \in BOOLEAN /\ x.k.timer \in BOOLEAN
  BY DEF Live, KTypes, Configs
<1>2. t \in BOOLEAN
  OBVIOUS
<1>3. Rearmed(x) = [x EXCEPT !.k.timer = t]
  BY DEF Rearmed
<1>4. t = (x.k.timer \/ x.k.config.rearm_timer)
  OBVIOUS
<1> HIDE DEF t
<1> DEFINE k == [x.k EXCEPT !.timer = t]
<1>5. Rearmed(x) = [d |-> x.d, b |-> x.b, k |-> k, g |-> x.g]
  BY <1>3 DEF Live
<1>6. k \in KTypes /\ k.config = x.k.config /\ k.spinner = x.k.spinner /\ k.timer = t
  BY <1>2 DEF Live, KTypes
<1> HIDE DEF k
<1> QED
  BY <1>4, <1>5, <1>6 DEF Live

(* bbdd_bpf_handle_packet, step by step: the rearm packet, the assignments *)
(* of bbdd_bpf_parse_packet and the state machine, a push if anything      *)
(* changed, the answer to a Poll, the poll sequence.                       *)
ParsedPacket(x, p) ==
  [x EXCEPT !.d.remote = [state |-> p.state, discr |-> p.discr, timing |-> p.timing],
            !.d.local = NextLocal(@, p.state)]

PolledOn(x, y, p) ==
  \/ x.b.bstate = "AWAIT_FINAL" /\ p.final /\ y \in GotFinal(x)
  \/ x.b.bstate = "AWAIT_NON_FINAL" /\ ~p.final /\ y \in GotNonFinal(x)
  \/ y = x

LEMMA PacketSteps ==
  ASSUME NEW x, NEW p, NEW y \in HandlePacket(x, p), ~PacketIgnored(x, p)
  PROVE  \E x1 \in InjectRearm(x) :
         \E x2 \in (IF ParsedPacket(x1, p).d # x.d THEN StateChanged(ParsedPacket(x1, p))
                    ELSE {ParsedPacket(x1, p)}) :
         \E x3 \in RespondFinal(x2, p) : PolledOn(x3, y, p)
<1> DEFINE Parsed(z) ==
             [z EXCEPT !.d.remote = [state |-> p.state, discr |-> p.discr,
                                     timing |-> p.timing],
                       !.d.local = NextLocal(@, p.state)]
           Changed(z) == IF z.d # x.d THEN StateChanged(z) ELSE {z}
           Respond(z) == RespondFinal(z, p)
           PollStep(z) ==
             CASE z.b.bstate = "AWAIT_FINAL" /\ p.final -> GotFinal(z)
               [] z.b.bstate = "AWAIT_NON_FINAL" /\ ~p.final -> GotNonFinal(z)
               [] OTHER -> {z}
<1>1. y \in Then(Then(Then({Parsed(z) : z \in InjectRearm(x)}, Changed), Respond), PollStep)
  BY DEF HandlePacket
<1>2. PICK x3 \in Then(Then({Parsed(z) : z \in InjectRearm(x)}, Changed), Respond) :
        y \in PollStep(x3)
  BY <1>1, Zenon DEF Then
<1>3. PICK x2 \in Then({Parsed(z) : z \in InjectRearm(x)}, Changed) : x3 \in Respond(x2)
  BY <1>2, Zenon DEF Then
<1>4. PICK x1 \in InjectRearm(x) : x2 \in Changed(Parsed(x1))
  <2> DEFINE X == {Parsed(z) : z \in InjectRearm(x)}
  <2> HIDE DEF Changed, Parsed
  <2>1. PICK w \in X : x2 \in Changed(w)
    BY <1>3 DEF Then
  <2>2. PICK z \in InjectRearm(x) : w = Parsed(z)
    BY <2>1
  <2> QED
    BY <2>1, <2>2
<1>5. PolledOn(x3, y, p)
  BY <1>2 DEF PolledOn
<1>6. x2 \in IF ParsedPacket(x1, p).d # x.d THEN StateChanged(ParsedPacket(x1, p))
             ELSE {ParsedPacket(x1, p)}
  BY <1>4 DEF ParsedPacket
<1> QED
  BY <1>3, <1>4, <1>5, <1>6

LEMMA InjectIs ==
  ASSUME NEW x \in Live, NEW y \in InjectRearm(x)
  PROVE  /\ y \in Live
         /\ y.d = x.d /\ y.b = x.b
         /\ y.k.config = x.k.config /\ y.k.spinner = x.k.spinner
         /\ y.g.broken = x.g.broken \/ y.g.broken
         /\ y.g.lost = x.g.lost /\ y.g.left = x.g.left /\ y.g.told = x.g.told
<1>1. CASE y = Rearmed(x)
  BY <1>1, RearmedIs
<1>2. CASE y = [x EXCEPT !.g.broken = TRUE]
  BY <1>2, Zenon DEF Live, GTypes
<1> QED
  BY <1>1, <1>2 DEF InjectRearm

LEMMA ParsedIs ==
  ASSUME NEW x \in Live, NEW p \in Packets, ~Malformed(p)
  PROVE  LET y == ParsedPacket(x, p)
         IN  y \in Live /\ y.b = x.b /\ y.k = x.k /\ y.g = x.g
             /\ y.d.present = x.d.present /\ y.d.shutdown = x.d.shutdown
<1> DEFINE r == [state |-> p.state, discr |-> p.discr, timing |-> p.timing]
           l == NextLocal(x.d.local, p.state)
<1>1. x.d.local \in BfdStates
  BY DEF Live, DTypes
<1>2. r \in Remotes /\ l \in BfdStates
  BY <1>1, PacketType, NextLocalType
<1>3. ParsedPacket(x, p) = [x EXCEPT !.d.remote = r, !.d.local = l]
  BY DEF ParsedPacket, Live, DTypes
<1> HIDE DEF r, l
<1> DEFINE d == [x.d EXCEPT !.remote = r, !.local = l]
<1>4. ParsedPacket(x, p) = [d |-> d, b |-> x.b, k |-> x.k, g |-> x.g]
  BY <1>3, Zenon DEF Live
<1>5. d \in DTypes /\ d.present = x.d.present /\ d.shutdown = x.d.shutdown
  BY <1>2, Zenon DEF Live, DTypes
<1> HIDE DEF d
<1> QED
  BY <1>4, <1>5 DEF Live

LEMMA RespondIs ==
  ASSUME NEW x \in Live, NEW p, NEW y \in RespondFinal(x, p)
  PROVE  /\ y \in Live
         /\ y.d = x.d /\ y.k = x.k /\ y.g = x.g
         /\ y.b.bstate = x.b.bstate /\ y.b.eff = x.b.eff /\ y.b.dfr = x.b.dfr
         /\ y.b.hold = x.b.hold /\ y.b.period = x.b.period
         /\ y.b.periodic_slot = x.b.periodic_slot
         /\ y.b.shwait = x.b.shwait /\ y.b.leaked = x.b.leaked
         /\ y.b.qd_change = x.b.qd_change
<1> DEFINE b == [x.b EXCEPT !.final_slot = TRUE]
<1>1. y = x \/ y = [d |-> x.d, b |-> b, k |-> x.k, g |-> x.g]
  BY DEF RespondFinal, Live
<1>2. /\ b \in BTypes
      /\ b.bstate = x.b.bstate /\ b.eff = x.b.eff /\ b.dfr = x.b.dfr
      /\ b.hold = x.b.hold /\ b.period = x.b.period
      /\ b.periodic_slot = x.b.periodic_slot
      /\ b.shwait = x.b.shwait /\ b.leaked = x.b.leaked
      /\ b.qd_change = x.b.qd_change
  BY Zenon DEF Live, BTypes
<1> HIDE DEF b
<1> QED
  BY <1>1, <1>2 DEF Live

LEMMA PacketIs ==
  ASSUME NEW x \in Live, NEW p \in Packets, ~PacketIgnored(x, p), Pushed(x),
         NEW y \in HandlePacket(x, p)
  PROVE  y \in Live /\ Kept(x, y) /\ Pushed(y)
<1>0. x.b.bstate # "ON_HOLD"
  BY DEF PacketIgnored
<1>1. PICK x1 \in InjectRearm(x) :
        \E x2 \in (IF ParsedPacket(x1, p).d # x.d THEN StateChanged(ParsedPacket(x1, p))
                   ELSE {ParsedPacket(x1, p)}) :
        \E x3 \in RespondFinal(x2, p) : PolledOn(x3, y, p)
  BY PacketSteps
<1> DEFINE w == ParsedPacket(x1, p)
<1>2. PICK x2 \in (IF w.d # x.d THEN StateChanged(w) ELSE {w}) :
        \E x3 \in RespondFinal(x2, p) : PolledOn(x3, y, p)
  BY <1>1
<1>3. PICK x3 \in RespondFinal(x2, p) : PolledOn(x3, y, p)
  BY <1>2
<1>4. /\ x1 \in Live /\ x1.d = x.d /\ x1.b = x.b
      /\ x1.k.config = x.k.config /\ x1.k.spinner = x.k.spinner
      /\ x1.g.broken = x.g.broken \/ x1.g.broken
      /\ x1.g.lost = x.g.lost
  BY InjectIs
<1>5. /\ w \in Live /\ w.b = x1.b /\ w.k = x1.k /\ w.g = x1.g
      /\ w.d.present = x1.d.present
  BY <1>4, ParsedIs DEF PacketIgnored
<1> HIDE DEF w
<1>6. x2 \in Live /\ Kept(x, x2) /\ Pushed(x2)
  <2>1. CASE w.d # x.d
    <3>1. x2 \in StateChanged(w)
      BY <1>2, <2>1
    <3> QED
      BY <1>0, <1>4, <1>5, <3>1, ChangedIs DEF Carried, Kept
  <2>2. CASE w.d = x.d
    <3>1. x2 = w
      BY <1>2, <2>2
    <3>2. ConfigOf(w) = ConfigOf(x) /\ SpinnerOf(w) = SpinnerOf(x)
      BY <1>4, <1>5, <2>2
      DEF ConfigOf, SpinnerOf, ShouldInject, SkbOf, Interval, DetectTime, RearmTimer
    <3> QED
      BY <1>0, <1>4, <1>5, <2>2, <3>1, <3>2 DEF Kept, Pushed
  <2> QED
    BY <2>1, <2>2
<1>7. /\ x3 \in Live
      /\ x3.d = x2.d /\ x3.k = x2.k /\ x3.g = x2.g
      /\ x3.b.bstate = x2.b.bstate /\ x3.b.eff = x2.b.eff /\ x3.b.dfr = x2.b.dfr
      /\ x3.b.hold = x2.b.hold /\ x3.b.periodic_slot = x2.b.periodic_slot
  BY <1>3, <1>6, RespondIs
<1>8. Kept(x, x3)
  BY <1>6, <1>7 DEF Kept
<1>9. Pushed(x3)
  <2>1. ConfigOf(x3) = ConfigOf(x2) /\ SpinnerOf(x3) = SpinnerOf(x2)
    BY <1>7
    DEF ConfigOf, SpinnerOf, ShouldInject, SkbOf, Interval, DetectTime, RearmTimer
  <2> QED
    BY <1>6, <1>7, <2>1 DEF Pushed
<1>10. CASE y \in GotFinal(x3)
  BY <1>7, <1>8, <1>10, GotFinalIs DEF Kept
<1>11. CASE y \in GotNonFinal(x3)
  BY <1>7, <1>8, <1>11, GotNonFinalIs DEF Kept
<1> QED
  BY <1>3, <1>7, <1>8, <1>9, <1>10, <1>11 DEF PolledOn

(* bbdd_bpf_rb_handle_timeout *)
TimeoutState(x) ==
  [x EXCEPT !.d.local = "DOWN", !.d.remote.state = "DOWN", !.d.remote.discr = UserDiscr]

LEMMA TimeoutStateIs ==
  ASSUME NEW x \in Live
  PROVE  /\ TimeoutState(x) \in Live
         /\ TimeoutState(x).b = x.b /\ TimeoutState(x).k = x.k /\ TimeoutState(x).g = x.g
         /\ TimeoutState(x).d.present = x.d.present
         /\ TimeoutState(x).d.shutdown = x.d.shutdown
         /\ TimeoutState(x).d.local = "DOWN"
<1> DEFINE e1 == [x EXCEPT !.d.local = "DOWN"]
           d1 == [x.d EXCEPT !.local = "DOWN"]
           e2 == [e1 EXCEPT !.d.remote.state = "DOWN"]
           r2 == [x.d.remote EXCEPT !.state = "DOWN"]
           d2 == [d1 EXCEPT !.remote = r2]
           r3 == [r2 EXCEPT !.discr = UserDiscr]
           d3 == [d2 EXCEPT !.remote = r3]
<1>1. TimeoutState(x) = [e2 EXCEPT !.d.remote.discr = UserDiscr]
  BY DEF TimeoutState
<1>2. /\ d1 \in DTypes /\ d1.remote = x.d.remote /\ d1.present = x.d.present
      /\ d1.local = "DOWN" /\ d1.shutdown = x.d.shutdown
  BY DEF Live, DTypes, BfdStates
<1>3. e1 = [d |-> d1, b |-> x.b, k |-> x.k, g |-> x.g]
  BY DEF Live
<1>4. r2 \in Remotes /\ r3 \in Remotes
  BY SessionAssumption, Zenon DEF Live, DTypes, Remotes, BfdStates
<1> HIDE DEF e1, d1
<1>5. /\ d2 \in DTypes /\ d2.remote = r2 /\ d2.present = x.d.present
      /\ d2.local = "DOWN" /\ d2.shutdown = x.d.shutdown
      /\ d2 = [d1 EXCEPT !.remote.state = "DOWN"]
  BY <1>2, <1>4 DEF DTypes
<1>6. e2 = [d |-> d2, b |-> x.b, k |-> x.k, g |-> x.g]
  BY <1>3, <1>5
<1> HIDE DEF e2, d2
<1>7. /\ d3 \in DTypes /\ d3.present = x.d.present
      /\ d3.local = "DOWN" /\ d3.shutdown = x.d.shutdown
      /\ d3 = [d2 EXCEPT !.remote.discr = UserDiscr]
  BY <1>4, <1>5, Zenon DEF DTypes
<1>8. TimeoutState(x) = [d |-> d3, b |-> x.b, k |-> x.k, g |-> x.g]
  BY <1>1, <1>6, <1>7
<1>9. /\ d3 \in DTypes /\ d3.present = x.d.present
      /\ d3.local = "DOWN" /\ d3.shutdown = x.d.shutdown
  BY <1>7
<1>10. x.b \in BTypes /\ x.k \in KTypes /\ x.g \in GTypes
  BY DEF Live
<1> HIDE DEF d3
<1> QED
  BY <1>8, <1>9, <1>10 DEF Live

LEMMA TimedOutIs ==
  ASSUME NEW x \in Live, x.b.bstate # "ON_HOLD", Pushed(x), NEW y \in TimedOut(x)
  PROVE  y \in Live /\ Kept(x, y) /\ Pushed(y)
<1>1. CASE y \in StateChanged(TimeoutState(x))
  BY <1>1, TimeoutStateIs, ChangedIs DEF Carried, Kept
<1>2. CASE y = x
  BY <1>2 DEF Kept
<1> QED
  BY <1>1, <1>2 DEF TimedOut, TimeoutState

-----------------------------------------------------------------------------
(* The inductive invariant *)

Maps == [config : Configs \cup {None}, spinner : Skbs \cup {None}, timer : BOOLEAN]

Types ==
  /\ dsess \in DTypes
  /\ bsess \in BTypes /\ bsess.leaked <= MaxLeaked
  /\ kern \in Maps
  /\ ghost \in GTypes
  /\ ring \in Seq(Events) /\ Len(ring) <= RingCap

(* A session that does not exist has no timers and nothing queued. *)
Absent ==
  ~dsess.present =>
    /\ ~bsess.hold /\ ~bsess.shwait /\ ~bsess.periodic_slot
    /\ kern.config = None

(* The config of a session on hold is the shell that bbdd_bpf_session_add  *)
(* wrote: it does not rearm the timer, so packets do not start it either.  *)
Hold ==
  dsess.present =>
    /\ kern.config \in Configs
    /\ bsess.hold = (bsess.bstate = "ON_HOLD")
    /\ bsess.hold => /\ kern.spinner = None
                     /\ ~kern.timer /\ ~kern.config.rearm_timer
                     /\ ~bsess.periodic_slot /\ ~bsess.final_slot
                     /\ ~bsess.shwait
                     /\ bsess.period = 0
                     /\ dsess.local = "DOWN"

Wire == OnWire => Pushed(State)

IInv == Types /\ Absent /\ Hold /\ Wire

LEMMA SetHold ==
  ASSUME NEW x \in Live, NEW v
  PROVE  [x EXCEPT !.b.hold = v] =
         [d |-> x.d, b |-> [x.b EXCEPT !.hold = v], k |-> x.k, g |-> x.g]
  BY DEF Live

LEMMA StateLive ==
  ASSUME Types, Hold, dsess.present
  PROVE  State \in Live
  BY DEF Types, Hold, Maps, State, Live, KTypes

LEMMA InitIInv == Init => IInv
<1> SUFFICES ASSUME Init PROVE IInv
  OBVIOUS
<1>1. DefaultTiming \in Timings /\ UserDiscr \in {0} \cup RemoteDiscrs
  BY SessionAssumption
<1>2. dsess \in DTypes /\ ~dsess.present
  BY <1>1 DEF Init, NewDsess, DTypes, Remotes, BfdStates
<1>3. bsess \in BTypes /\ bsess.leaked = 0
  BY <1>1 DEF Init, NewBsess, NoData, Datas, BTypes, BStates
<1>4. kern \in Maps /\ ghost \in GTypes
  BY <1>1 DEF Init, NoKern, Maps, GTypes, BfdStates
<1>5. ring \in Seq(Events) /\ Len(ring) <= RingCap
  BY SessionAssumption DEF Init
<1>6. Absent
  BY DEF Init, Absent, NewBsess, NoKern
<1> QED
  BY <1>2, <1>3, <1>4, <1>5, <1>6, SessionAssumption
  DEF IInv, Types, Hold, Wire, OnWire

(* Handlers end in a state of the session in which it is on the wire and   *)
(* the data path was pushed to.                                            *)
LEMMA WireStep ==
  ASSUME NEW x \in Live, x.d.present, ~x.b.hold, x.b.bstate # "ON_HOLD", Pushed(x),
         dsess' = x.d, bsess' = x.b, kern' = x.k, ghost' = x.g,
         bsess'.leaked <= MaxLeaked,
         ring' \in Seq(Events), Len(ring') <= RingCap
  PROVE  IInv'
<1>1. State' = x
  BY DEF State, Live
<1>2. Types'
  BY DEF Types, Live, KTypes, Maps
<1>3. Absent' /\ Hold'
  <2>1. x.b.hold = FALSE /\ x.k.config \in Configs
    BY DEF Live, BTypes, KTypes
  <2> QED
    BY <2>1, Zenon DEF Absent, Hold
<1>4. Pushed(State)'
  BY DEF Pushed, State, ConfigOf, SpinnerOf, ShouldInject, SkbOf, Interval, DetectTime,
         RearmTimer
<1> QED
  BY <1>2, <1>3, <1>4 DEF IInv, Wire

LEMMA KeptStep ==
  ASSUME IInv, OnWire, NEW x \in Live, Kept(State, x), Pushed(x),
         dsess' = x.d, bsess' = x.b, kern' = x.k, ghost' = x.g,
         bsess'.leaked <= MaxLeaked,
         ring' \in Seq(Events), Len(ring') <= RingCap
  PROVE  IInv'
<1>1. x.d.present /\ ~x.b.hold /\ x.b.bstate # "ON_HOLD"
  BY Zenon DEF IInv, Hold, OnWire, Kept, State
<1> QED
  BY <1>1, WireStep

-----------------------------------------------------------------------------
(* The steps *)

LEMMA AddStep ==
  ASSUME IInv, NEW t \in Timings, NEW sh \in Shutdowns, SessionAdd(t, sh)
  PROVE  IInv'
<1>1. DefaultTiming \in Timings /\ UserDiscr \in {0} \cup RemoteDiscrs /\ sh \in BOOLEAN
      /\ MaxLeaked \in Nat
  BY SessionAssumption
<1>2. dsess' \in DTypes /\ dsess'.present /\ dsess'.local = "DOWN"
  BY <1>1 DEF SessionAdd, NewDsess, DTypes, Remotes, BfdStates
<1>3. bsess' \in BTypes /\ bsess'.leaked <= MaxLeaked /\ bsess' = NewBsess(TRUE)
  BY <1>1 DEF SessionAdd, NewBsess, NoData, Datas, BTypes, BStates
<1>4. kern' \in Maps /\ kern'.config \in Configs /\ ~kern'.config.rearm_timer
      /\ kern'.spinner = None /\ ~kern'.timer
  <2> DEFINE c == [admin_down |-> FALSE, rearm_timer |-> FALSE, interval |-> 0,
                   detect_time |-> 0, remote |-> dsess'.remote, final |-> FALSE]
  <2>1. c \in Configs /\ ~c.rearm_timer
    BY <1>2 DEF Configs, DTypes
  <2>2. kern' = [NoKern EXCEPT !.config = c]
    BY DEF SessionAdd
  <2> HIDE DEF c
  <2> QED
    BY <2>1, <2>2, Zenon DEF NoKern, Maps
<1>5. ghost' \in GTypes /\ ring' = ring
  BY <1>1, Zenon DEF SessionAdd, IInv, Types, GTypes, BfdStates
<1>6. Types'
  BY <1>2, <1>3, <1>4, <1>5, Zenon DEF Types, IInv
<1>7. Absent' /\ Hold'
  BY <1>2, <1>3, <1>4, Zenon DEF Absent, Hold, NewBsess
<1>8. Wire'
  BY <1>3 DEF Wire, OnWire, NewBsess
<1> QED
  BY <1>6, <1>7, <1>8 DEF IInv

LEMMA DelStep ==
  ASSUME IInv, SessionDel
  PROVE  IInv'
<1>1. DefaultTiming \in Timings /\ UserDiscr \in {0} \cup RemoteDiscrs
  BY SessionAssumption
<1>2. dsess' \in DTypes /\ ~dsess'.present
  BY <1>1 DEF SessionDel, NewDsess, DTypes, Remotes, BfdStates
<1>3. bsess.leaked \in Nat /\ bsess.leaked <= MaxLeaked
  BY DEF IInv, Types, BTypes
<1>4. bsess' \in BTypes /\ bsess'.leaked = bsess.leaked
  BY <1>1, <1>3, Zenon DEF SessionDel, NewBsess, NoData, Datas, BTypes, BStates
<1>5. kern' \in Maps /\ kern' = NoKern /\ ghost' = ghost /\ ring' = ring
  BY DEF SessionDel, NoKern, Maps
<1>6. Types'
  BY <1>2, <1>3, <1>4, <1>5 DEF Types, IInv
<1>7. Absent'
  BY <1>4, <1>5 DEF SessionDel, Absent, NewBsess, NoKern
<1> QED
  BY <1>2, <1>6, <1>7 DEF IInv, Hold, Wire, OnWire

(* bbdd_d_handle_session_set: on hold only the configuration changes; on   *)
(* the wire the change is refused, or prepared and then pushed.            *)
LEMMA SetStep ==
  ASSUME IInv, NEW t \in Timings, NEW sh \in Shutdowns, SessionSet(t, sh)
  PROVE  IInv'
<1> DEFINE x == [State EXCEPT !.d.timing = t, !.d.shutdown = sh]
           d == [dsess EXCEPT !.timing = t, !.shutdown = sh]
           Tells(y) == IF x.d # dsess THEN Tell(y) ELSE {y}
           Pushes(y) == Then(UpdateOk(y), Tells) \cup UpdateFail(y)
<1>1. State \in Live /\ dsess.present
  BY StateLive DEF SessionSet, IInv
<1>2. sh \in BOOLEAN
  BY SessionAssumption
<1>3. /\ d \in DTypes /\ d.present = dsess.present
      /\ d.local = dsess.local /\ d.remote = dsess.remote
  BY <1>2, Zenon DEF IInv, Types, DTypes
<1>4. x = [d |-> d, b |-> bsess, k |-> kern, g |-> ghost]
  <2> DEFINE x1 == [State EXCEPT !.d.timing = t]
             d1 == [dsess EXCEPT !.timing = t]
  <2>1. x1 = [d |-> d1, b |-> bsess, k |-> kern, g |-> ghost]
    BY DEF State
  <2> HIDE DEF x1, d1
  <2>2. [x1 EXCEPT !.d.shutdown = sh] =
        [d |-> [d1 EXCEPT !.shutdown = sh], b |-> bsess, k |-> kern, g |-> ghost]
    BY <2>1
  <2> QED
    BY <2>2 DEF x1, d1
<1>5. PICK y \in (IF bsess.bstate = "ON_HOLD" THEN {x}
                  ELSE Pushes(HandleSessionUpdate(x)) \cup UpdateRefused(x)) :
        dsess' = y.d /\ bsess' = y.b /\ kern' = y.k /\ ghost' = y.g
  BY DEF SessionSet, Become
<1>6. bsess'.leaked <= MaxLeaked /\ ring' = ring
  BY DEF SessionSet
<1> HIDE DEF d, x
<1>7. x \in Live
  BY <1>1, <1>3, <1>4 DEF Live, State
<1>8. CASE bsess.bstate = "ON_HOLD"
  <2>1. y = x
    BY <1>5, <1>8
  <2>2. dsess' = d /\ bsess' = bsess /\ kern' = kern /\ ghost' = ghost
    BY <1>4, <1>5, <2>1
  <2> QED
    BY <1>1, <1>3, <1>6, <1>8, <2>2 DEF IInv, Types, Absent, Hold, Wire, OnWire
<1>9. CASE bsess.bstate # "ON_HOLD"
  <2>1. OnWire /\ Pushed(State) /\ x.b.bstate # "ON_HOLD"
    BY <1>1, <1>4, <1>9 DEF IInv, Wire, OnWire
  <2>2. ring' \in Seq(Events) /\ Len(ring') <= RingCap
    BY <1>6 DEF IInv, Types
  <2>3. CASE y \in UpdateRefused(x)
    <3>1. y = x
      BY <2>3 DEF UpdateRefused
    <3>2. Kept(State, x)
      BY <1>3, <1>4, <1>9 DEF Kept, State
    <3>3. Pushed(x)
      BY <1>3, <1>4, <2>1, ZenonT(60)
      DEF State, Pushed, ConfigOf, SpinnerOf, ShouldInject, SkbOf, Interval, DetectTime, RearmTimer
    <3> QED
      BY <1>5, <1>6, <1>7, <2>1, <2>2, <3>1, <3>2, <3>3, KeptStep
  <2>4. CASE y \in Pushes(HandleSessionUpdate(x))
    <3> DEFINE h == HandleSessionUpdate(x)
    <3>1. h \in Live /\ Prepared(x, h)
      BY <1>7, <2>1, SessionUpdateIs
    <3> HIDE DEF h
    <3>2. Kept(State, h)
      BY <1>3, <1>4, <3>1 DEF Prepared, Kept, State
    <3>3. CASE y \in UpdateFail(h)
      <4>1. y \in Live /\ Carried(h, y) /\ Pushed(y)
        BY <3>1, <3>3, FailIs
      <4>2. Kept(State, y)
        BY <3>2, <4>1 DEF Kept, Carried
      <4> QED
        BY <1>5, <1>6, <2>1, <2>2, <4>1, <4>2, KeptStep
    <3>4. CASE y \in Then(UpdateOk(h), Tells)
      <4>1. PICK z \in UpdateOk(h) : y \in Tell(z) \/ y = z
        BY <3>4 DEF Then
      <4>2. z \in Live /\ Carried(h, z) /\ Pushed(z)
        BY <3>1, <4>1, OkIs
      <4>3. y \in Live /\ Carried(z, y) /\ Pushed(y)
        <5>1. CASE y \in Tell(z)
          BY <4>2, <5>1, TellIs
        <5>2. CASE y = z
          BY <4>2, <5>2 DEF Carried
        <5> QED
          BY <4>1, <5>1, <5>2
      <4>4. Kept(State, y)
        BY <3>2, <4>2, <4>3 DEF Kept, Carried
      <4> QED
        BY <1>5, <1>6, <2>1, <2>2, <4>3, <4>4, KeptStep
    <3> QED
      BY <2>4, <3>3, <3>4 DEF h
  <2> QED
    BY <1>5, <1>9, <2>3, <2>4
<1> QED
  BY <1>8, <1>9

LEMMA HoldTimerStep ==
  ASSUME IInv, HoldTimer
  PROVE  IInv'
<1> DEFINE x == [State EXCEPT !.b.eff = UserBdata(State), !.b.bstate = "STABLE"]
           b == [bsess EXCEPT !.eff = UserBdata(State), !.bstate = "STABLE"]
<1>1. dsess.present
  BY DEF IInv, Absent, HoldTimer, NewBsess
<1>2. State \in Live
  BY <1>1, StateLive DEF IInv
<1>3. x = [d |-> dsess, b |-> b, k |-> kern, g |-> ghost]
  <2> DEFINE x1 == [State EXCEPT !.b.eff = UserBdata(State)]
             b1 == [bsess EXCEPT !.eff = UserBdata(State)]
  <2>1. x1 = [d |-> dsess, b |-> b1, k |-> kern, g |-> ghost]
    BY DEF State
  <2> HIDE DEF x1, b1
  <2>2. [x1 EXCEPT !.b.bstate = "STABLE"] =
        [d |-> dsess, b |-> [b1 EXCEPT !.bstate = "STABLE"], k |-> kern, g |-> ghost]
    BY <2>1
  <2> QED
    BY <2>2 DEF x1, b1
<1>4. b \in BTypes /\ b.bstate = "STABLE" /\ b.leaked = bsess.leaked
  BY <1>2, UserBdataType, Zenon DEF IInv, Types, BTypes, BStates
<1>5. PICK y \in StateChanged(x) :
        LET z == [y EXCEPT !.b.hold = FALSE]
        IN  dsess' = z.d /\ bsess' = z.b /\ kern' = z.k /\ ghost' = z.g
  BY Zenon DEF HoldTimer, Become
<1>6. ring' = ring
  BY DEF HoldTimer
<1> HIDE DEF b, x
<1>7. x \in Live
  BY <1>2, <1>3, <1>4 DEF Live, State
<1>8. y \in Live /\ Carried(x, y) /\ Pushed(y)
  BY <1>5, <1>7, ChangedIs
<1> DEFINE c == [y.b EXCEPT !.hold = FALSE]
           z == [d |-> y.d, b |-> c, k |-> y.k, g |-> y.g]
<1>9. [y EXCEPT !.b.hold = FALSE] = z
  BY <1>8, SetHold, Zenon
<1>10. /\ c \in BTypes /\ ~c.hold /\ c.bstate = y.b.bstate /\ c.eff = y.b.eff
       /\ c.dfr = y.b.dfr /\ c.periodic_slot = y.b.periodic_slot /\ c.leaked = y.b.leaked
  BY <1>8, ZenonT(60) DEF Live, BTypes
<1> HIDE DEF c
<1>11. z \in Live /\ z.d.present /\ z.b.bstate # "ON_HOLD" /\ z.b.leaked <= MaxLeaked
  BY <1>1, <1>3, <1>4, <1>8, <1>10 DEF Live, Carried, IInv, Types
<1>12. Pushed(z)
  BY <1>8, <1>10, ZenonT(60)
  DEF Pushed, ConfigOf, SpinnerOf, ShouldInject, SkbOf, Interval, DetectTime, RearmTimer
<1>13. dsess' = z.d /\ bsess' = z.b /\ kern' = z.k /\ ghost' = z.g /\ ~z.b.hold
  BY <1>5, <1>9, <1>10
<1>14. ring' \in Seq(Events) /\ Len(ring') <= RingCap
  BY <1>6 DEF IInv, Types
<1> HIDE DEF z
<1> QED
  BY <1>11, <1>12, <1>13, <1>14, WireStep

(* The shutdown timer that bsess refers to. *)
LEMMA StopShwaitTimer ==
  ASSUME NEW x \in Live
  PROVE  LET y == [x EXCEPT !.b.shwait = FALSE]
         IN  y \in Live /\ y.d = x.d /\ y.k = x.k /\ y.g = x.g /\ y.b.hold = x.b.hold
             /\ y.b.period = x.b.period /\ y.b.periodic_slot = x.b.periodic_slot
             /\ y.b.bstate = x.b.bstate /\ y.b.leaked = x.b.leaked
             /\ y.b.eff = x.b.eff /\ y.b.dfr = x.b.dfr
             /\ y.b.qd_change = x.b.qd_change /\ ~y.b.shwait
<1> DEFINE b == [x.b EXCEPT !.shwait = FALSE]
<1>1. [x EXCEPT !.b.shwait = FALSE] = [d |-> x.d, b |-> b, k |-> x.k, g |-> x.g]
  <2>1. ASSUME NEW v
        PROVE  [x EXCEPT !.b.shwait = v] =
               [d |-> x.d, b |-> [x.b EXCEPT !.shwait = v], k |-> x.k, g |-> x.g]
    BY DEF Live
  <2> QED
    BY <2>1, Zenon
<1>2. /\ b \in BTypes /\ b.hold = x.b.hold /\ b.bstate = x.b.bstate
      /\ b.leaked = x.b.leaked /\ b.eff = x.b.eff /\ b.dfr = x.b.dfr
      /\ b.qd_change = x.b.qd_change /\ ~b.shwait
      /\ b.period = x.b.period /\ b.periodic_slot = x.b.periodic_slot
  BY Zenon DEF Live, BTypes
<1> HIDE DEF b
<1> QED
  BY <1>1, <1>2, Zenon DEF Live

LEMMA ShwaitStep ==
  ASSUME IInv, ShwaitTimer
  PROVE  IInv'
<1> DEFINE x == [State EXCEPT !.b.shwait = FALSE]
<1>1. bsess.shwait /\ bsess'.leaked <= MaxLeaked /\ ring' = ring
  BY DEF ShwaitTimer
<1>2. dsess.present /\ OnWire
  BY <1>1, Zenon DEF IInv, Absent, Hold, NewBsess, OnWire
<1>3. State \in Live
  BY <1>2, StateLive DEF IInv
<1>4. x \in Live /\ x.d = dsess /\ x.b.hold = bsess.hold /\ x.g = ghost
  BY <1>3, StopShwaitTimer DEF State
<1>5. PICK y \in GotNonFinal(x) : dsess' = y.d /\ bsess' = y.b /\ kern' = y.k /\ ghost' = y.g
  BY DEF ShwaitTimer, Become
<1> HIDE DEF x
<1>6. y \in Live /\ Kept(x, y) /\ Pushed(y)
  BY <1>4, <1>5, GotNonFinalIs
<1>7. Kept(State, y)
  BY <1>4, <1>6 DEF Kept, State
<1>8. ring' \in Seq(Events) /\ Len(ring') <= RingCap
  BY <1>1 DEF IInv, Types
<1> QED
  BY <1>1, <1>2, <1>5, <1>6, <1>7, <1>8, KeptStep

(* Steps that change neither the session nor what the data path has of it. *)
LEMMA AsideStep ==
  ASSUME IInv, UNCHANGED dsess,
         bsess' \in BTypes, bsess'.leaked <= MaxLeaked,
         bsess' = [bsess EXCEPT !.leaked = bsess'.leaked, !.final_slot = bsess'.final_slot],
         bsess'.final_slot => bsess.final_slot,
         kern' \in Maps, kern'.config = kern.config, kern'.spinner = kern.spinner,
         kern'.timer /\ ~kern.timer => kern.config \in Configs /\ kern.config.rearm_timer,
         ghost' \in GTypes, ghost'.broken = ghost.broken,
         ring' \in Seq(Events), Len(ring') <= RingCap
  PROVE  IInv'
<1>1. Types'
  BY DEF Types, IInv
<1>2. /\ bsess'.hold = bsess.hold /\ bsess'.bstate = bsess.bstate
      /\ bsess'.periodic_slot = bsess.periodic_slot /\ bsess'.shwait = bsess.shwait
      /\ bsess'.eff = bsess.eff /\ bsess'.dfr = bsess.dfr /\ bsess'.period = bsess.period
  BY Zenon DEF IInv, Types, BTypes
<1>3. Absent'
  BY <1>2 DEF IInv, Absent
<1>4. Hold'
  BY <1>2 DEF IInv, Hold, Types, Maps
<1>5. Wire'
  <2> SUFFICES ASSUME OnWire' PROVE Pushed(State)'
    BY DEF Wire
  <2>1. Pushed(State)
    BY <1>2 DEF IInv, Wire, OnWire
  <2> QED
    BY <1>2, <2>1
    DEF State, Pushed, ConfigOf, SpinnerOf, ShouldInject, SkbOf, Interval, DetectTime, RearmTimer
<1> QED
  BY <1>1, <1>3, <1>4, <1>5 DEF IInv

LEMMA DrainFinalStep ==
  ASSUME IInv, DrainFinal
  PROVE  IInv'
<1>1. bsess' \in BTypes /\ bsess'.leaked = bsess.leaked /\ ~bsess'.final_slot
  BY Zenon DEF DrainFinal, IInv, Types, BTypes
<1>2. bsess' = [bsess EXCEPT !.leaked = bsess'.leaked, !.final_slot = bsess'.final_slot]
  BY <1>1, Zenon DEF DrainFinal, IInv, Types, BTypes
<1> QED
  BY <1>1, <1>2, AsideStep DEF DrainFinal, IInv, Types

LEMMA DrainPeriodicStep ==
  ASSUME IInv, DrainPeriodic
  PROVE  IInv'
<1> DEFINE x == [State EXCEPT !.b.periodic_slot = FALSE]
           b == [bsess EXCEPT !.periodic_slot = FALSE]
<1>1. bsess.periodic_slot /\ ring' = ring
  BY DEF DrainPeriodic
<1>2. dsess.present /\ OnWire
  BY <1>1, Zenon DEF IInv, Absent, Hold, NewBsess, OnWire
<1>3. State \in Live
  BY <1>2, StateLive DEF IInv
<1>4. x = [d |-> dsess, b |-> b, k |-> kern, g |-> ghost]
  <2>1. ASSUME NEW v
        PROVE  [State EXCEPT !.b.periodic_slot = v] =
               [d |-> dsess, b |-> [bsess EXCEPT !.periodic_slot = v], k |-> kern, g |-> ghost]
    BY DEF State
  <2> QED
    BY <2>1, Zenon
<1>5. b \in BTypes /\ b.hold = bsess.hold /\ b.bstate = bsess.bstate /\ b.leaked = bsess.leaked
  BY Zenon DEF IInv, Types, BTypes
<1>6. PICK y \in {UpdateNow(x)} \cup UpdateFail(x) :
        dsess' = y.d /\ bsess' = y.b /\ kern' = y.k /\ ghost' = y.g
  BY DEF DrainPeriodic, Become
<1> HIDE DEF x, b
<1>7. x \in Live
  BY <1>3, <1>4, <1>5 DEF Live, State
<1>8. y \in Live /\ Carried(x, y) /\ Pushed(y)
  BY <1>6, <1>7, UpdateNowIs, FailIs
<1>9. Kept(State, y) /\ bsess'.leaked <= MaxLeaked
  BY <1>2, <1>4, <1>5, <1>6, <1>8 DEF Kept, Carried, State, OnWire, IInv, Types
<1>10. ring' \in Seq(Events) /\ Len(ring') <= RingCap
  BY <1>1 DEF IInv, Types
<1> QED
  BY <1>2, <1>6, <1>8, <1>9, <1>10, KeptStep

LEMMA LeakedStep ==
  ASSUME IInv, LeakedTimer
  PROVE  IInv'
<1> DEFINE x == [State EXCEPT !.b.leaked = @ - 1]
           b == [bsess EXCEPT !.leaked = bsess.leaked - 1]
<1>1. bsess.leaked > 0 /\ bsess'.leaked <= MaxLeaked /\ ring' = ring
  BY DEF LeakedTimer
<1>2. x = [d |-> dsess, b |-> b, k |-> kern, g |-> ghost]
  BY DEF State
<1>3. /\ b \in BTypes /\ b.hold = bsess.hold /\ b.bstate = bsess.bstate
      /\ b.leaked = bsess.leaked - 1 /\ b.final_slot = bsess.final_slot
  BY <1>1 DEF IInv, Types, BTypes
<1>4. ring' \in Seq(Events) /\ Len(ring') <= RingCap
  BY <1>1 DEF IInv, Types
<1>5. CASE bsess.shwait
  <2> DEFINE w == [x EXCEPT !.b.shwait = FALSE]
  <2>1. dsess.present /\ OnWire
    BY <1>5, Zenon DEF IInv, Absent, Hold, NewBsess, OnWire
  <2>2. PICK y \in GotNonFinal(w) : dsess' = y.d /\ bsess' = y.b /\ kern' = y.k /\ ghost' = y.g
    BY <1>5 DEF LeakedTimer, Become
  <2> HIDE DEF b, x
  <2>3. x \in Live
    BY <1>2, <1>3, <2>1, StateLive DEF IInv, Live, State
  <2>4. w \in Live /\ w.d = dsess /\ w.b.hold = bsess.hold /\ w.g = ghost
    BY <1>2, <1>3, <2>3, StopShwaitTimer
  <2> HIDE DEF w
  <2>5. y \in Live /\ Kept(w, y) /\ Pushed(y)
    BY <2>2, <2>4, GotNonFinalIs
  <2>6. Kept(State, y)
    BY <2>4, <2>5 DEF Kept, State
  <2> QED
    BY <1>1, <1>4, <2>1, <2>2, <2>5, <2>6, KeptStep
<1>6. CASE ~bsess.shwait
  <2> DEFINE g == [ghost EXCEPT !.crashed = TRUE]
  <2>1. [x EXCEPT !.g.crashed = TRUE] = [d |-> dsess, b |-> b, k |-> kern, g |-> g]
    <3> HIDE DEF x, b
    <3>1. ASSUME NEW v
          PROVE  [x EXCEPT !.g.crashed = v] =
                 [d |-> dsess, b |-> b, k |-> kern, g |-> [ghost EXCEPT !.crashed = v]]
      BY <1>2
    <3> QED
      BY <3>1, Zenon
  <2>2. dsess' = dsess /\ bsess' = b /\ kern' = kern /\ ghost' = g
    <3> DEFINE z == [x EXCEPT !.g.crashed = TRUE]
    <3>1. Become({z})
      BY <1>6 DEF LeakedTimer
    <3> HIDE DEF b, g, z
    <3>2. dsess' = z.d /\ bsess' = z.b /\ kern' = z.k /\ ghost' = z.g
      BY <3>1 DEF Become
    <3> QED
      BY <2>1, <3>2, Zenon DEF z
  <2>3. g \in GTypes /\ g.broken = ghost.broken
    BY Zenon DEF IInv, Types, GTypes
  <2>4. b = [bsess EXCEPT !.leaked = b.leaked, !.final_slot = b.final_slot]
    BY <1>3, Zenon DEF IInv, Types, BTypes
  <2> HIDE DEF b, g, x
  <2> QED
    BY <1>1, <1>3, <1>4, <2>2, <2>3, <2>4, AsideStep, Zenon DEF IInv, Types
<1> QED
  BY <1>5, <1>6

LEMMA EventType ==
  ASSUME NEW e \in Events, e # Timeout
  PROVE  e.pkt \in Packets
  BY DEF Events, Unexpected

LEMMA HeadTail ==
  ASSUME NEW S, NEW q \in Seq(S), q # <<>>
  PROVE  Head(q) \in S /\ Tail(q) \in Seq(S) /\ Len(Tail(q)) <= Len(q)
  OBVIOUS

(* The abort of bbdd_bpf_rb_handle_timeout. *)
LEMMA CrashStep ==
  ASSUME IInv, UNCHANGED <<dsess, bsess, kern>>, ghost' = [ghost EXCEPT !.crashed = TRUE],
         ring' \in Seq(Events), Len(ring') <= RingCap
  PROVE  IInv'
<1>1. ghost' \in GTypes /\ ghost'.broken = ghost.broken
  BY Zenon DEF IInv, Types, GTypes
<1>2. bsess' = [bsess EXCEPT !.leaked = bsess'.leaked, !.final_slot = bsess'.final_slot]
  BY Zenon DEF IInv, Types, BTypes
<1> QED
  BY <1>1, <1>2, AsideStep DEF IInv, Types

LEMMA SameStep ==
  ASSUME IInv, UNCHANGED <<dsess, bsess, kern, ghost>>,
         ring' \in Seq(Events), Len(ring') <= RingCap
  PROVE  IInv'
<1>1. bsess' = [bsess EXCEPT !.leaked = bsess'.leaked, !.final_slot = bsess'.final_slot]
  BY Zenon DEF IInv, Types, BTypes
<1> QED
  BY <1>1, AsideStep DEF IInv, Types

LEMMA TimeoutIs ==
  ASSUME NEW x \in Live, x.d.present, x.b.bstate # "ON_HOLD", Pushed(x),
         NEW y \in HandleTimeout(x)
  PROVE  y \in Live /\ Kept(x, y) /\ Pushed(y)
<1>1. CASE x.b.bstate = "STABLE"
  <2>1. y \in TimedOut(x)
    BY <1>1 DEF HandleTimeout, MidPoll
  <2> QED
    BY <2>1, TimedOutIs
<1>2. CASE MidPoll(x)
  <2>1. PICK z \in GotNonFinal(x) : y \in TimedOut(z)
    BY <1>2 DEF HandleTimeout, MidPoll, Then
  <2>2. z \in Live /\ Kept(x, z) /\ Pushed(z)
    BY <2>1, GotNonFinalIs
  <2> QED
    BY <2>1, <2>2, TimedOutIs, Zenon DEF Kept
<1>3. CASE x.b.bstate = "SHUTTING_DOWN"
  <2> DEFINE w == [x EXCEPT !.b.shwait = FALSE]
  <2>1. PICK z \in GotNonFinal(w) : y \in TimedOut(z)
    BY <1>3, Zenon DEF HandleTimeout, MidPoll, Then
  <2>2. w \in Live /\ w.d = x.d /\ w.b.hold = x.b.hold /\ w.g = x.g
    BY StopShwaitTimer
  <2> HIDE DEF w
  <2>3. z \in Live /\ Kept(w, z) /\ Pushed(z)
    BY <2>1, <2>2, GotNonFinalIs
  <2> QED
    BY <2>1, <2>2, <2>3, TimedOutIs, Zenon DEF Kept
<1> QED
  BY <1>1, <1>2, <1>3 DEF Live, BTypes, BStates, MidPoll

LEMMA EventStep ==
  ASSUME IInv, HandleEvent
  PROVE  IInv'
<1> DEFINE e == Head(ring)
<1>1. /\ ring # <<>> /\ bsess'.leaked <= MaxLeaked /\ ring' = Tail(ring)
      /\ Become(IF e = Timeout THEN HandleTimeout(State) ELSE HandlePacket(State, e.pkt))
  BY DEF HandleEvent
<1>2. e \in Events /\ ring' \in Seq(Events) /\ Len(ring') <= RingCap
  <2>1. ring \in Seq(Events) /\ Len(ring) <= RingCap /\ RingCap \in Nat
    BY SessionAssumption DEF IInv, Types
  <2> QED
    BY <1>1, <2>1, HeadTail
<1> HIDE DEF e
<1>3. CASE e = Timeout
  <2>1. PICK y \in HandleTimeout(State) :
          dsess' = y.d /\ bsess' = y.b /\ kern' = y.k /\ ghost' = y.g
    BY <1>1, <1>3 DEF Become
  <2>2. CASE ~dsess.present
    <3>1. y = State
      BY <2>1, <2>2, Zenon DEF HandleTimeout, State
    <3> QED
      BY <1>2, <2>1, <3>1, SameStep DEF State
  <2>3. CASE dsess.present /\ bsess.bstate = "ON_HOLD"
    <3>1. y = [State EXCEPT !.g.crashed = TRUE]
      BY <2>1, <2>3, Zenon DEF HandleTimeout, State, MidPoll
    <3>2. dsess' = dsess /\ bsess' = bsess /\ kern' = kern
          /\ ghost' = [ghost EXCEPT !.crashed = TRUE]
      BY <2>1, <3>1 DEF State
    <3> QED
      BY <1>2, <3>2, CrashStep
  <2>4. CASE OnWire
    <3>1. State \in Live /\ Pushed(State) /\ State.d.present /\ State.b.bstate # "ON_HOLD"
      BY <2>4, StateLive DEF IInv, Wire, OnWire, State
    <3>2. y \in Live /\ Kept(State, y) /\ Pushed(y)
      BY <2>1, <3>1, TimeoutIs
    <3> QED
      BY <1>1, <1>2, <2>1, <2>4, <3>2, KeptStep
  <2> QED
    BY <2>2, <2>3, <2>4 DEF OnWire
<1>4. CASE e # Timeout
  <2>0. e.pkt \in Packets
    BY <1>2, <1>4, EventType
  <2>1. PICK y \in HandlePacket(State, e.pkt) :
          dsess' = y.d /\ bsess' = y.b /\ kern' = y.k /\ ghost' = y.g
    BY <1>1, <1>4 DEF Become
  <2>2. CASE PacketIgnored(State, e.pkt)
    <3>1. y = State
      BY <2>1, <2>2 DEF HandlePacket
    <3> QED
      BY <1>2, <2>1, <3>1, SameStep DEF State
  <2>3. CASE ~PacketIgnored(State, e.pkt)
    <3>1. OnWire
      BY <2>3 DEF PacketIgnored, State, OnWire
    <3>2. State \in Live /\ Pushed(State)
      BY <3>1, StateLive DEF IInv, Wire, OnWire
    <3>3. y \in Live /\ Kept(State, y) /\ Pushed(y)
      BY <2>0, <2>1, <2>3, <3>2, PacketIs
    <3> QED
      BY <1>1, <1>2, <2>1, <3>1, <3>3, KeptStep
  <2> QED
    BY <2>2, <2>3
<1> QED
  BY <1>3, <1>4

LEMMA NotifyIs ==
  ASSUME IInv, NEW e \in Events, Notify(e)
  PROVE  /\ ghost' \in GTypes /\ ghost'.broken = ghost.broken
         /\ ring' \in Seq(Events) /\ Len(ring') <= RingCap
<1>1. ring \in Seq(Events) /\ Len(ring) <= RingCap /\ ghost \in GTypes /\ RingCap \in Nat
  BY SessionAssumption DEF IInv, Types
<1>2. CASE Len(ring) < RingCap
  <2>1. ring' = Append(ring, e) /\ ghost' = ghost
    BY <1>2 DEF Notify
  <2>2. Append(ring, e) \in Seq(Events) /\ Len(Append(ring, e)) = Len(ring) + 1
    BY <1>1
  <2>3. Len(ring) \in Nat
    BY <1>1
  <2> QED
    BY <1>1, <1>2, <2>1, <2>2, <2>3
<1>3. CASE ~(Len(ring) < RingCap)
  <2> DEFINE l == ghost.lost \/ e = Timeout
  <2>1. ring' = ring /\ ghost' = [ghost EXCEPT !.lost = l]
    BY <1>3 DEF Notify
  <2>2. l \in BOOLEAN
    OBVIOUS
  <2> HIDE DEF l
  <2> QED
    BY <1>1, <2>1, <2>2 DEF GTypes
<1> QED
  BY <1>2, <1>3

LEMMA RecvStep ==
  ASSUME IInv, NEW p \in Packets, Recv(p)
  PROVE  IInv'
<1>1. UNCHANGED <<dsess, bsess>>
  BY DEF Recv
<1>2. bsess' = [bsess EXCEPT !.leaked = bsess'.leaked, !.final_slot = bsess'.final_slot]
  BY <1>1, Zenon DEF IInv, Types, BTypes
<1>3. CASE p.your /\ ExpectedPacket(kern.config, p)
  <2> DEFINE t == kern.timer \/ kern.config.rearm_timer
  <2>1. /\ kern.config # None /\ kern' = [kern EXCEPT !.timer = t]
        /\ UNCHANGED <<ghost, ring>>
    BY <1>3 DEF Recv
  <2>2. kern.config \in Configs /\ t \in BOOLEAN /\ (t /\ ~kern.timer => kern.config.rearm_timer)
    BY <2>1 DEF IInv, Types, Maps
  <2> HIDE DEF t
  <2>3. /\ kern' \in Maps /\ kern'.config = kern.config /\ kern'.spinner = kern.spinner
        /\ kern'.timer = t
    BY <2>1, <2>2 DEF IInv, Types, Maps
  <2> QED
    BY <1>1, <1>2, <2>1, <2>2, <2>3, AsideStep DEF IInv, Types
<1>4. CASE ~(p.your /\ ExpectedPacket(kern.config, p))
  <2>1. Notify(Unexpected(p)) /\ UNCHANGED kern
    BY <1>4 DEF Recv
  <2>2. Unexpected(p) \in Events
    BY DEF Events
  <2> QED
    BY <1>1, <1>2, <2>1, <2>2, NotifyIs, AsideStep DEF IInv, Types
<1> QED
  BY <1>3, <1>4

LEMMA ExpireStep ==
  ASSUME IInv, TimerExpires
  PROVE  IInv'
<1>1. UNCHANGED <<dsess, bsess>> /\ Notify(Timeout) /\ kern' = [kern EXCEPT !.timer = FALSE]
  BY DEF TimerExpires
<1>2. bsess' = [bsess EXCEPT !.leaked = bsess'.leaked, !.final_slot = bsess'.final_slot]
  BY <1>1, Zenon DEF IInv, Types, BTypes
<1>3. kern' \in Maps /\ kern'.config = kern.config /\ kern'.spinner = kern.spinner /\ ~kern'.timer
  BY <1>1, Zenon DEF IInv, Types, Maps
<1>4. Timeout \in Events
  BY DEF Events
<1> QED
  BY <1>1, <1>2, <1>3, <1>4, NotifyIs, AsideStep DEF IInv, Types

LEMMA NextIInv == IInv /\ [Next]_vars => IInv'
<1> SUFFICES ASSUME IInv, [Next]_vars PROVE IInv'
  OBVIOUS
<1>1. CASE \E t \in Timings, sh \in Shutdowns : SessionAdd(t, sh)
  BY <1>1, AddStep
<1>2. CASE \E t \in Timings, sh \in Shutdowns : SessionSet(t, sh)
  BY <1>2, SetStep
<1>3. CASE SessionDel
  BY <1>3, DelStep
<1>4. CASE HoldTimer
  BY <1>4, HoldTimerStep
<1>5. CASE ShwaitTimer
  BY <1>5, ShwaitStep
<1>6. CASE LeakedTimer
  BY <1>6, LeakedStep
<1>7. CASE DrainPeriodic
  BY <1>7, DrainPeriodicStep
<1>8. CASE DrainFinal
  BY <1>8, DrainFinalStep
<1>9. CASE HandleEvent
  BY <1>9, EventStep
<1>10. CASE \E p \in Packets : Recv(p)
  BY <1>10, RecvStep
<1>11. CASE TimerExpires
  BY <1>11, ExpireStep
<1>12. CASE UNCHANGED vars
  BY <1>12, SameStep DEF vars, IInv, Types
<1> QED
  BY <1>1, <1>2, <1>3, <1>4, <1>5, <1>6, <1>7, <1>8, <1>9, <1>10, <1>11, <1>12 DEF Next

LEMMA Inductive == Spec => []IInv
<1>1. Init => IInv
  BY InitIInv
<1>2. IInv /\ [Next]_vars => IInv'
  BY NextIInv
<1> QED
  BY <1>1, <1>2, PTL DEF Spec

-----------------------------------------------------------------------------
(* Theorems *)

(* The variables have their types, whatever the peer sends and whatever    *)
(* fails; shutdown timers are left behind, but never more than MaxLeaked,  *)
(* by which the model is bounded.                                          *)
THEOREM TypeCorrect == Spec => []TypeOK
<1>1. IInv => TypeOK
  BY DEF IInv, Types, TypeOK, DTypes, BTypes, GTypes, Maps
<1> QED
  BY <1>1, Inductive, PTL

(* A session on hold sends nothing, its detection timer does not run, and  *)
(* nothing is queued for it, so the assertions against handlers that meet  *)
(* one (invalid_on_hold_abort in inject_pkt) cannot fail.                  *)
THEOREM HoldStaysQuiet == Spec => []HoldIsQuiet
<1>1. IInv => HoldIsQuiet
  BY DEF IInv, Hold, HoldIsQuiet
<1> QED
  BY <1>1, Inductive, PTL

(* Every handler, on every path through it, leaves the BPF config and the  *)
(* spinner in accordance with the session, unless a push is queued or the  *)
(* last one failed (__bbdd_bpf_session_update).                            *)
THEOREM DataPathFollows == Spec => []DataPathCurrent
<1>1. IInv => DataPathCurrent
  BY DEF IInv, Wire, Pushed, DataPathCurrent, State
<1> QED
  BY <1>1, Inductive, PTL

-----------------------------------------------------------------------------
(***************************************************************************)
(* That the loss of the peer is noticed, if sendmsg does not fail.         *)
(*                                                                         *)
(* timer_period_us, period, suppresses the rearm packet of a push.  It may *)
(* do so because a timer that counts as started runs, or its expiry is     *)
(* about to be handled, and because while it counts as started the config  *)
(* rearms it for every packet, that which brings the session up included.  *)
(***************************************************************************)

(* sendmsg does not fail, and a receive interval is not zero, as           *)
(* MANDATORY_NON0 in bbdd_d_session_apply_c has it.                        *)
Usable == "send" \notin Faults /\ \A t \in Timings : t.rx > 0

(* A started timer is rearmed by packets. *)
Rearms(x) == x.b.period # 0 => x.k.config.rearm_timer

(* A timer that counts as started runs, or its expiry q is pending. *)
Runs(x, q) == RearmTimer(x) /\ x.b.period # 0 => x.k.timer \/ q

Secured(x, q) ==
  /\ Rearms(x)
  /\ Runs(x, q)
  /\ RearmTimer(x) /\ ~x.g.broken => x.k.timer \/ q \/ x.b.periodic_slot

LEMMA TimesPositive ==
  ASSUME NEW a \in Nat, NEW b \in Nat, a > 0, b > 0
  PROVE  a * b > 0
  OBVIOUS

LEMMA DetectTimePositive ==
  ASSUME NEW x \in Live, Usable
  PROVE  DetectTime(x) # 0
<1>1. x.b.eff.timing.rx \in Nat /\ x.b.eff.timing.rx > 0
  BY SessionAssumption DEF Live, BTypes, Datas, Usable
<1>2. x.d.remote \in Remotes
  BY DEF Live, DTypes
<1>3. x.d.remote.timing.tx \in Nat /\ x.d.remote.timing.mult \in Nat
  BY <1>2, RemoteTiming
<1>4. x.d.remote.timing.mult > 0
  <2>1. x.d.remote.timing \in RemoteTimings
          \cup [tx : {DefaultTiming.tx}, rx : {DefaultTiming.rx}, mult : {1}]
    BY <1>2 DEF Remotes
  <2> QED
    BY <2>1, SessionAssumption
<1> DEFINE m == Max(x.b.eff.timing.rx, x.d.remote.timing.tx)
<1>5. m \in Nat /\ m > 0
  BY <1>1, <1>3 DEF Max
<1> HIDE DEF m
<1>6. m * x.d.remote.timing.mult > 0
  BY <1>3, <1>4, <1>5, TimesPositive
<1>7. DetectTime(x) = m * x.d.remote.timing.mult
  BY DEF DetectTime, m
<1> QED
  BY <1>6, <1>7

(* The tail of __bbdd_bpf_session_update. *)
LEMMA PeriodIs ==
  ASSUME NEW x \in Live
  PROVE  LET u == UpdatePeriod(x)
             first == RearmTimer(x) /\ x.b.period # DetectTime(x)
         IN  /\ first => /\ u.b.period = DetectTime(x)
                         /\ u.k.timer = (x.k.timer \/ x.k.config.rearm_timer)
             /\ ~first => u.b.period = 0 /\ u.k.timer = x.k.timer
<1> DEFINE r == Rearmed(x)
           first == RearmTimer(x) /\ x.b.period # DetectTime(x)
<1>1. r \in Live /\ r.k.timer = (x.k.timer \/ x.k.config.rearm_timer)
  BY RearmedIs
<1> HIDE DEF r
<1>2. CASE first
  <2>1. UpdatePeriod(x) = [r EXCEPT !.b.period = DetectTime(x)]
    BY <1>2 DEF UpdatePeriod, r
  <2>2. UpdatePeriod(x).b.period = DetectTime(x) /\ UpdatePeriod(x).k = r.k
    BY <1>1, <2>1 DEF Live, BTypes
  <2> QED
    BY <1>1, <1>2, <2>2
<1>3. CASE ~first
  <2>1. UpdatePeriod(x) = [x EXCEPT !.b.period = 0]
    BY <1>3 DEF UpdatePeriod
  <2>2. UpdatePeriod(x).b.period = 0 /\ UpdatePeriod(x).k = x.k
    BY <2>1 DEF Live, BTypes
  <2> QED
    BY <1>3, <2>2
<1> QED
  BY <1>2, <1>3

LEMMA NowSecures ==
  ASSUME NEW x \in Live, Usable, NEW q \in BOOLEAN, Runs(x, q)
  PROVE  Secured(UpdateNow(x), q)
<1> DEFINE s == NewSpinner(x)
           u == UpdatePeriod(s)
           y == UpdateNow(x)
<1>1. /\ s \in Live /\ Carried(x, s) /\ s.b = x.b
      /\ s.k.config = ConfigOf(x) /\ s.k.timer = x.k.timer
  BY NewSpinnerIs
<1>2. /\ RearmTimer(s) = RearmTimer(x) /\ DetectTime(s) = DetectTime(x)
      /\ s.k.config.rearm_timer = RearmTimer(x)
  BY <1>1 DEF Carried, RearmTimer, DetectTime, ConfigOf
<1> HIDE DEF s
<1>3. /\ u \in Live /\ Carried(s, u) /\ u.k.config = s.k.config
      /\ RearmTimer(s) /\ s.b.period # DetectTime(s) =>
           u.b.period = DetectTime(s) /\ u.k.timer = (s.k.timer \/ s.k.config.rearm_timer)
      /\ ~(RearmTimer(s) /\ s.b.period # DetectTime(s)) =>
           u.b.period = 0 /\ u.k.timer = s.k.timer
  BY <1>1, PeriodIs, UpdatePeriodIs
<1> HIDE DEF u
<1>4. y.b = u.b /\ y.k = u.k /\ y.d = u.d
  <2>1. y = [u EXCEPT !.g.broken = FALSE]
    BY DEF UpdateNow, u, s
  <2> HIDE DEF y
  <2> QED
    BY <1>3, <2>1 DEF Live
<1>5. RearmTimer(y) = RearmTimer(x)
  BY <1>1, <1>3, <1>4 DEF Carried, RearmTimer
<1>6. DetectTime(x) # 0
  BY DetectTimePositive
<1> HIDE DEF y
<1>7. CASE RearmTimer(x) /\ x.b.period # DetectTime(x)
  <2>1. y.k.timer /\ y.k.config.rearm_timer
    BY <1>1, <1>2, <1>3, <1>4, <1>7, Zenon
  <2> QED
    BY <1>5, <1>7, <2>1 DEF Secured, Rearms, Runs, y
<1>8. CASE ~(RearmTimer(x) /\ x.b.period # DetectTime(x))
  <2>1. y.b.period = 0 /\ y.k.timer = x.k.timer
    BY <1>1, <1>2, <1>3, <1>4, <1>8
  <2>2. RearmTimer(x) => x.k.timer \/ q
    BY <1>6, <1>8 DEF Runs
  <2> QED
    BY <1>5, <2>1, <2>2 DEF Secured, Rearms, Runs, y
<1> QED
  BY <1>7, <1>8

LEMMA CallSecures ==
  ASSUME NEW x \in Live, Usable, NEW q \in BOOLEAN, Rearms(x), Runs(x, q),
         NEW y \in CallUpdate(x)
  PROVE  Secured(y, q)
<1>1. y = UpdateNow(x) \/ y = Deferred(x) \/ y = [x EXCEPT !.g.broken = TRUE]
  BY DEF CallUpdate, UpdateOk, UpdateFail, Usable
<1>2. CASE y = Deferred(x)
  <2>1. y.d = x.d /\ y.k = x.k /\ y.b.period = x.b.period /\ y.b.periodic_slot
    BY <1>2 DEF Deferred, Live, BTypes
  <2> QED
    BY <2>1 DEF Secured, Rearms, Runs, RearmTimer
<1>3. CASE y = [x EXCEPT !.g.broken = TRUE]
  <2>1. y.d = x.d /\ y.k = x.k /\ y.b = x.b /\ y.g.broken
    BY <1>3 DEF Live, GTypes
  <2> QED
    BY <2>1 DEF Secured, Rearms, Runs, RearmTimer
<1> QED
  BY <1>1, <1>2, <1>3, NowSecures

LEMMA TellSecures ==
  ASSUME NEW x \in Live, NEW q, Secured(x, q), NEW y \in Tell(x)
  PROVE  Secured(y, q)
<1>1. y.d = x.d /\ y.b = x.b /\ y.k = x.k /\ y.g.broken = x.g.broken
  BY DEF Tell, Live, GTypes
<1> QED
  BY <1>1 DEF Secured, Rearms, Runs, RearmTimer

LEMMA ChangedSecures ==
  ASSUME NEW x \in Live, Usable, NEW q \in BOOLEAN, Rearms(x), Runs(x, q),
         NEW y \in StateChanged(x)
  PROVE  Secured(y, q)
<1>1. PICK z \in CallUpdate(x) : y \in Tell(z)
  BY DEF StateChanged, Then
<1> QED
  BY <1>1, CallIs, CallSecures, TellSecures

LEMMA PreparedRuns ==
  ASSUME NEW x, NEW y, Prepared(x, y), NEW q, Rearms(x), Runs(x, q)
  PROVE  Rearms(y) /\ Runs(y, q)
  BY DEF Prepared, Rearms, Runs

LEMMA FinalSecures ==
  ASSUME NEW x \in Live, Usable, NEW q \in BOOLEAN, Secured(x, q), NEW y \in GotFinal(x)
  PROVE  Secured(y, q)
<1> DEFINE w == [x EXCEPT !.b.bstate = "AWAIT_NON_FINAL"]
<1>1. w \in Live /\ Prepared(x, w)
  BY DEF Live, BTypes, BStates, Prepared, Kept, RearmTimer
<1>2. y \in CallUpdate(w)
  BY DEF GotFinal
<1> HIDE DEF w
<1>3. Rearms(w) /\ Runs(w, q)
  BY <1>1, PreparedRuns DEF Secured
<1> QED
  BY <1>1, <1>2, <1>3, CallSecures

LEMMA NonFinalSecures ==
  ASSUME NEW x \in Live, Usable, NEW q \in BOOLEAN, Secured(x, q), NEW y \in GotNonFinal(x)
  PROVE  Secured(y, q)
<1>1. PICK z \in Live : Prepared(x, z) /\ y \in CallUpdate(z)
  BY NonFinalPrepared
<1>2. Rearms(z) /\ Runs(z, q)
  BY <1>1, PreparedRuns DEF Secured
<1> QED
  BY <1>1, <1>2, CallSecures

(* A packet rearms the timer first, if the config of the moment says so;   *)
(* only then may the session come up.                                      *)
LEMMA PacketSecures ==
  ASSUME NEW x \in Live, Usable, NEW q \in BOOLEAN, Secured(x, q),
         NEW p \in Packets, ~PacketIgnored(x, p), NEW y \in HandlePacket(x, p)
  PROVE  Secured(y, q)
<1>1. PICK x1 \in InjectRearm(x) :
        \E x2 \in (IF ParsedPacket(x1, p).d # x.d THEN StateChanged(ParsedPacket(x1, p))
                   ELSE {ParsedPacket(x1, p)}) :
        \E x3 \in RespondFinal(x2, p) : PolledOn(x3, y, p)
  BY PacketSteps
<1> DEFINE w == ParsedPacket(x1, p)
<1>2. PICK x2 \in (IF w.d # x.d THEN StateChanged(w) ELSE {w}) :
        \E x3 \in RespondFinal(x2, p) : PolledOn(x3, y, p)
  BY <1>1
<1>3. PICK x3 \in RespondFinal(x2, p) : PolledOn(x3, y, p)
  BY <1>2
<1>4. /\ x1 \in Live /\ x1.b = x.b /\ x1.g = x.g
      /\ x1.k.config = x.k.config /\ x1.k.timer = (x.k.timer \/ x.k.config.rearm_timer)
  <2>1. x1 = Rearmed(x)
    BY <1>1 DEF InjectRearm, Usable
  <2> QED
    BY <2>1, RearmedIs
<1>5. w \in Live /\ w.b = x1.b /\ w.k = x1.k /\ w.g = x1.g
  BY <1>4, ParsedIs DEF PacketIgnored
<1> HIDE DEF w
<1>6. Rearms(w) /\ Runs(w, q)
  BY <1>4, <1>5, ZenonT(60) DEF Secured, Rearms, Runs
<1>7. x2 \in Live /\ Secured(x2, q)
  <2>1. CASE w.d # x.d
    <3>1. x2 \in StateChanged(w)
      BY <1>2, <2>1
    <3> QED
      BY <1>5, <1>6, <3>1, ChangedIs, ChangedSecures
  <2>2. CASE w.d = x.d
    <3>1. x2 = w
      BY <1>2, <2>2
    <3> QED
      BY <1>4, <1>5, <1>6, <2>2, <3>1, ZenonT(60) DEF Secured, RearmTimer
  <2> QED
    BY <2>1, <2>2
<1>8. /\ x3 \in Live /\ x3.d = x2.d /\ x3.k = x2.k /\ x3.g = x2.g
      /\ x3.b.period = x2.b.period /\ x3.b.periodic_slot = x2.b.periodic_slot
  BY <1>3, <1>7, RespondIs
<1>9. Secured(x3, q)
  BY <1>7, <1>8 DEF Secured, Rearms, Runs, RearmTimer
<1> QED
  BY <1>3, <1>8, <1>9, FinalSecures, NonFinalSecures DEF PolledOn

(* A timeout that is handled leaves a session that needs no timer. *)
LEMMA TimedOutSecures ==
  ASSUME NEW x \in Live, Usable, NEW q \in BOOLEAN, Secured(x, TRUE), NEW y \in TimedOut(x)
  PROVE  Secured(y, q)
<1>1. CASE x.d.local \in {"INIT", "UP"}
  <2> DEFINE w == TimeoutState(x)
  <2>1. y \in StateChanged(w)
    BY <1>1 DEF TimedOut, TimeoutState
  <2>2. w \in Live /\ w.b = x.b /\ w.k = x.k /\ w.d.local = "DOWN"
    BY TimeoutStateIs
  <2> HIDE DEF w
  <2>3. Rearms(w) /\ Runs(w, q)
    BY <2>2 DEF Secured, Rearms, Runs, RearmTimer
  <2> QED
    BY <2>1, <2>2, <2>3, ChangedSecures
<1>2. CASE x.d.local \notin {"INIT", "UP"}
  <2>1. y = x /\ ~RearmTimer(x)
    BY <1>2 DEF TimedOut, RearmTimer, Live, DTypes, BfdStates
  <2> QED
    BY <2>1 DEF Secured, Rearms, Runs
<1> QED
  BY <1>1, <1>2

LEMMA TimeoutSecures ==
  ASSUME NEW x \in Live, x.d.present, x.b.bstate # "ON_HOLD", Usable,
         NEW q \in BOOLEAN, Secured(x, TRUE), NEW y \in HandleTimeout(x)
  PROVE  Secured(y, q)
<1>1. CASE x.b.bstate = "STABLE"
  <2>1. y \in TimedOut(x)
    BY <1>1 DEF HandleTimeout, MidPoll
  <2> QED
    BY <2>1, TimedOutSecures, Zenon
<1>2. CASE MidPoll(x)
  <2>1. PICK z \in GotNonFinal(x) : y \in TimedOut(z)
    BY <1>2 DEF HandleTimeout, MidPoll, Then
  <2>2. z \in Live /\ Secured(z, TRUE)
    BY <2>1, GotNonFinalIs, NonFinalSecures, Zenon
  <2> QED
    BY <2>1, <2>2, TimedOutSecures, Zenon
<1>3. CASE x.b.bstate = "SHUTTING_DOWN"
  <2> DEFINE w == [x EXCEPT !.b.shwait = FALSE]
  <2>1. PICK z \in GotNonFinal(w) : y \in TimedOut(z)
    BY <1>3, Zenon DEF HandleTimeout, MidPoll, Then
  <2>2. /\ w \in Live /\ w.d = x.d /\ w.k = x.k /\ w.g = x.g
        /\ w.b.period = x.b.period /\ w.b.periodic_slot = x.b.periodic_slot
    BY StopShwaitTimer
  <2> HIDE DEF w
  <2>3. Secured(w, TRUE)
    BY <2>2 DEF Secured, Rearms, Runs, RearmTimer
  <2>4. z \in Live /\ Secured(z, TRUE)
    BY <2>1, <2>2, <2>3, GotNonFinalIs, NonFinalSecures, Zenon
  <2> QED
    BY <2>1, <2>4, TimedOutSecures, Zenon
<1> QED
  BY <1>1, <1>2, <1>3 DEF Live, BTypes, BStates, MidPoll

-----------------------------------------------------------------------------
(* The invariant of the timer *)

(* The expiry of the timer was reported and not yet handled, or the ring   *)
(* buffer had no room for it.                                              *)
Pending == ghost.lost \/ \E i \in DOMAIN ring : ring[i] = Timeout

TInv == OnWire => Secured(State, Pending)

LEMMA PendingType == Pending \in BOOLEAN /\ Pending' \in BOOLEAN
  BY DEF Pending

LEMMA PendingSame ==
  ASSUME ghost'.lost = ghost.lost, ring' = ring
  PROVE  Pending' = Pending
  BY DEF Pending

LEMMA SecuredStep ==
  ASSUME NEW x \in Live, dsess' = x.d, bsess' = x.b, kern' = x.k, ghost' = x.g,
         Secured(x, Pending')
  PROVE  TInv'
<1>1. Secured(State, Pending)'
  BY DEF Secured, Rearms, Runs, RearmTimer, State
<1> QED
  BY <1>1 DEF TInv

(* Steps that leave the session, the config and the queue alone. *)
LEMMA TimerAside ==
  ASSUME IInv, TInv, UNCHANGED dsess,
         bsess'.bstate = bsess.bstate, bsess'.period = bsess.period,
         bsess'.periodic_slot = bsess.periodic_slot,
         kern'.config = kern.config, ghost'.broken = ghost.broken,
         kern.timer \/ Pending => kern'.timer \/ Pending'
  PROVE  TInv'
<1> SUFFICES ASSUME OnWire' PROVE Secured(State, Pending)'
  BY DEF TInv
<1>1. Secured(State, Pending)
  BY DEF TInv, OnWire
<1> QED
  BY <1>1, Zenon DEF Secured, Rearms, Runs, RearmTimer, State

LEMMA SetTimer ==
  ASSUME IInv, TInv, Usable, NEW t \in Timings, NEW sh \in Shutdowns, SessionSet(t, sh)
  PROVE  TInv'
<1> DEFINE x == [State EXCEPT !.d.timing = t, !.d.shutdown = sh]
           d == [dsess EXCEPT !.timing = t, !.shutdown = sh]
           Tells(y) == IF x.d # dsess THEN Tell(y) ELSE {y}
           Pushes(y) == Then(UpdateOk(y), Tells) \cup UpdateFail(y)
<1>1. State \in Live /\ dsess.present
  BY StateLive DEF SessionSet, IInv
<1>2. sh \in BOOLEAN
  BY SessionAssumption
<1>3. d \in DTypes /\ d.local = dsess.local
  BY <1>2, Zenon DEF IInv, Types, DTypes
<1>4. x = [d |-> d, b |-> bsess, k |-> kern, g |-> ghost]
  <2> DEFINE x1 == [State EXCEPT !.d.timing = t]
             d1 == [dsess EXCEPT !.timing = t]
  <2>1. x1 = [d |-> d1, b |-> bsess, k |-> kern, g |-> ghost]
    BY DEF State
  <2> HIDE DEF x1, d1
  <2>2. [x1 EXCEPT !.d.shutdown = sh] =
        [d |-> [d1 EXCEPT !.shutdown = sh], b |-> bsess, k |-> kern, g |-> ghost]
    BY <2>1
  <2> QED
    BY <2>2 DEF x1, d1
<1>5. PICK y \in (IF bsess.bstate = "ON_HOLD" THEN {x}
                  ELSE Pushes(HandleSessionUpdate(x)) \cup UpdateRefused(x)) :
        dsess' = y.d /\ bsess' = y.b /\ kern' = y.k /\ ghost' = y.g
  BY DEF SessionSet, Become
<1>6. ring' = ring
  BY DEF SessionSet
<1> HIDE DEF d, x
<1>7. x \in Live
  BY <1>1, <1>3, <1>4 DEF Live, State
<1>8. CASE bsess.bstate = "ON_HOLD"
  <2>1. y = x
    BY <1>5, <1>8
  <2>2. bsess' = bsess
    BY <1>4, <1>5, <2>1
  <2> QED
    BY <1>8, <2>2 DEF TInv, OnWire
<1>9. CASE bsess.bstate # "ON_HOLD"
  <2>1. Secured(State, Pending)
    BY <1>1, <1>9 DEF TInv, OnWire
  <2>2. Secured(x, Pending)
    BY <1>3, <1>4, <2>1 DEF State, Secured, Rearms, Runs, RearmTimer
  <2>3. CASE y \in UpdateRefused(x)
    <3>1. y = x
      BY <2>3 DEF UpdateRefused
    <3>2. Pending' = Pending
      BY <1>4, <1>5, <1>6, <3>1, PendingSame
    <3> QED
      BY <1>5, <1>7, <2>2, <3>1, <3>2, SecuredStep
  <2>4. CASE y \in Pushes(HandleSessionUpdate(x))
    <3> DEFINE h == HandleSessionUpdate(x)
    <3>1. h \in Live /\ Prepared(x, h)
      BY <1>4, <1>7, <1>9, SessionUpdateIs
    <3>2. PICK z \in CallUpdate(h) : y \in Tell(z) \/ y = z
      BY <2>4 DEF Then, CallUpdate
    <3> HIDE DEF h
    <3>3. z \in Live /\ Carried(h, z) /\ Secured(z, Pending)
      <4>1. Rearms(h) /\ Runs(h, Pending)
        BY <2>2, <3>1, PreparedRuns DEF Secured
      <4> QED
        BY <3>1, <3>2, <4>1, CallIs, CallSecures, PendingType
    <3>4. y \in Live /\ Carried(z, y) /\ Secured(y, Pending)
      <4>1. CASE y \in Tell(z)
        BY <3>3, <4>1, TellIs, TellSecures
      <4>2. CASE y = z
        BY <3>3, <4>2 DEF Carried
      <4> QED
        BY <3>2, <4>1, <4>2
    <3>5. Pending' = Pending
      <4>1. y.g.lost = ghost.lost
        BY <1>4, <3>1, <3>3, <3>4 DEF Prepared, Kept, Carried
      <4> QED
        BY <1>5, <1>6, <4>1, PendingSame
    <3> QED
      BY <1>5, <3>4, <3>5, SecuredStep
  <2> QED
    BY <1>5, <1>9, <2>3, <2>4
<1> QED
  BY <1>8, <1>9

LEMMA HoldTimerTimer ==
  ASSUME IInv, Usable, HoldTimer
  PROVE  TInv'
<1> DEFINE x == [State EXCEPT !.b.eff = UserBdata(State), !.b.bstate = "STABLE"]
           b == [bsess EXCEPT !.eff = UserBdata(State), !.bstate = "STABLE"]
<1>1. dsess.present /\ bsess.hold
  BY DEF IInv, Absent, HoldTimer, NewBsess
<1>2. State \in Live /\ dsess.local = "DOWN" /\ bsess.period = 0
  BY <1>1, StateLive, Zenon DEF IInv, Hold
<1>3. x = [d |-> dsess, b |-> b, k |-> kern, g |-> ghost]
  <2> DEFINE x1 == [State EXCEPT !.b.eff = UserBdata(State)]
             b1 == [bsess EXCEPT !.eff = UserBdata(State)]
  <2>1. x1 = [d |-> dsess, b |-> b1, k |-> kern, g |-> ghost]
    BY DEF State
  <2> HIDE DEF x1, b1
  <2>2. [x1 EXCEPT !.b.bstate = "STABLE"] =
        [d |-> dsess, b |-> [b1 EXCEPT !.bstate = "STABLE"], k |-> kern, g |-> ghost]
    BY <2>1
  <2> QED
    BY <2>2 DEF x1, b1
<1>4. b \in BTypes /\ b.period = 0
  BY <1>2, UserBdataType, Zenon DEF IInv, Types, BTypes, BStates
<1>5. PICK y \in StateChanged(x) :
        LET z == [y EXCEPT !.b.hold = FALSE]
        IN  dsess' = z.d /\ bsess' = z.b /\ kern' = z.k /\ ghost' = z.g
  BY Zenon DEF HoldTimer, Become
<1>6. ring' = ring
  BY DEF HoldTimer
<1> HIDE DEF b, x
<1>7. x \in Live /\ Rearms(x) /\ Runs(x, Pending)
  BY <1>2, <1>3, <1>4, Zenon DEF Live, State, Rearms, Runs
<1>8. y \in Live /\ Carried(x, y) /\ Secured(y, Pending)
  BY <1>5, <1>7, ChangedIs, ChangedSecures, PendingType
<1> DEFINE c == [y.b EXCEPT !.hold = FALSE]
           z == [d |-> y.d, b |-> c, k |-> y.k, g |-> y.g]
<1>9. [y EXCEPT !.b.hold = FALSE] = z
  BY <1>8, SetHold, Zenon
<1>10. c \in BTypes /\ c.period = y.b.period /\ c.periodic_slot = y.b.periodic_slot
  BY <1>8, ZenonT(60) DEF Live, BTypes
<1> HIDE DEF c
<1>11. dsess' = z.d /\ bsess' = z.b /\ kern' = z.k /\ ghost' = z.g
  BY <1>5, <1>9
<1>12. z \in Live /\ Secured(z, Pending)
  BY <1>8, <1>10 DEF Live, Secured, Rearms, Runs, RearmTimer
<1>13. Pending' = Pending
  <2>1. z.g.lost = ghost.lost
    BY <1>3, <1>8 DEF Carried
  <2> QED
    BY <1>6, <1>11, <2>1, PendingSame, ZenonT(60)
<1> HIDE DEF z
<1> QED
  BY <1>11, <1>12, <1>13, SecuredStep

(* The callback of a shutdown timer, from the state x in which it finds    *)
(* the session.                                                            *)
LEMMA ShwaitCallback ==
  ASSUME IInv, TInv, Usable, OnWire, NEW x \in Live,
         x.d = dsess, x.k = kern, x.g = ghost, x.b.period = bsess.period,
         x.b.periodic_slot = bsess.periodic_slot, ring' = ring,
         Become(GotNonFinal([x EXCEPT !.b.shwait = FALSE]))
  PROVE  TInv'
<1> DEFINE w == [x EXCEPT !.b.shwait = FALSE]
<1>1. /\ w \in Live /\ w.d = dsess /\ w.k = kern /\ w.g = ghost
      /\ w.b.period = bsess.period /\ w.b.periodic_slot = bsess.periodic_slot
  BY StopShwaitTimer
<1>2. PICK y \in GotNonFinal(w) : dsess' = y.d /\ bsess' = y.b /\ kern' = y.k /\ ghost' = y.g
  BY DEF Become
<1> HIDE DEF w
<1>3. Secured(w, Pending)
  BY <1>1 DEF TInv, State, Secured, Rearms, Runs, RearmTimer
<1>4. y \in Live /\ Kept(w, y) /\ Secured(y, Pending)
  BY <1>1, <1>2, <1>3, GotNonFinalIs, NonFinalSecures, PendingType
<1>5. Pending' = Pending
  BY <1>1, <1>2, <1>4, PendingSame DEF Kept
<1> QED
  BY <1>2, <1>4, <1>5, SecuredStep

LEMMA ShwaitTimerTimer ==
  ASSUME IInv, TInv, Usable, ShwaitTimer
  PROVE  TInv'
<1>1. OnWire /\ dsess.present
  BY Zenon DEF ShwaitTimer, IInv, Absent, Hold, NewBsess, OnWire
<1>2. State \in Live
  BY <1>1, StateLive DEF IInv
<1>3. ring' = ring /\ Become(GotNonFinal([State EXCEPT !.b.shwait = FALSE]))
  BY DEF ShwaitTimer
<1>4. /\ State.d = dsess /\ State.k = kern /\ State.g = ghost
      /\ State.b.period = bsess.period /\ State.b.periodic_slot = bsess.periodic_slot
  BY DEF State
<1> HIDE DEF State
<1> QED
  BY <1>1, <1>2, <1>3, <1>4, ShwaitCallback

LEMMA LeakedTimerTimer ==
  ASSUME IInv, TInv, Usable, LeakedTimer
  PROVE  TInv'
<1> DEFINE x == [State EXCEPT !.b.leaked = @ - 1]
           b == [bsess EXCEPT !.leaked = bsess.leaked - 1]
<1>1. bsess.leaked > 0 /\ ring' = ring
  BY DEF LeakedTimer
<1>2. x = [d |-> dsess, b |-> b, k |-> kern, g |-> ghost]
  BY DEF State
<1>3. /\ b \in BTypes /\ b.period = bsess.period /\ b.bstate = bsess.bstate
      /\ b.periodic_slot = bsess.periodic_slot
  BY <1>1 DEF IInv, Types, BTypes
<1>4. CASE bsess.shwait
  <2>1. dsess.present /\ OnWire
    BY <1>4, Zenon DEF IInv, Absent, Hold, NewBsess, OnWire
  <2>2. Become(GotNonFinal([x EXCEPT !.b.shwait = FALSE]))
    BY <1>4 DEF LeakedTimer
  <2> HIDE DEF b, x
  <2>3. x \in Live
    BY <1>2, <1>3, <2>1, StateLive, Zenon DEF IInv, Live, State
  <2> QED
    BY <1>1, <1>2, <1>3, <2>1, <2>2, <2>3, ShwaitCallback
<1>5. CASE ~bsess.shwait
  <2> DEFINE g == [ghost EXCEPT !.crashed = TRUE]
  <2>1. [x EXCEPT !.g.crashed = TRUE] = [d |-> dsess, b |-> b, k |-> kern, g |-> g]
    <3> HIDE DEF x, b
    <3>1. ASSUME NEW v
          PROVE  [x EXCEPT !.g.crashed = v] =
                 [d |-> dsess, b |-> b, k |-> kern, g |-> [ghost EXCEPT !.crashed = v]]
      BY <1>2
    <3> QED
      BY <3>1, Zenon
  <2>2. dsess' = dsess /\ bsess' = b /\ kern' = kern /\ ghost' = g
    <3> DEFINE z == [x EXCEPT !.g.crashed = TRUE]
    <3>1. Become({z})
      BY <1>5 DEF LeakedTimer
    <3> HIDE DEF b, g, z
    <3>2. dsess' = z.d /\ bsess' = z.b /\ kern' = z.k /\ ghost' = z.g
      BY <3>1 DEF Become
    <3> QED
      BY <2>1, <3>2, Zenon DEF z
  <2>3. g.broken = ghost.broken /\ g.lost = ghost.lost
    BY DEF IInv, Types, GTypes
  <2> HIDE DEF b, g, x
  <2>4. Pending' = Pending
    BY <1>1, <2>2, <2>3, PendingSame
  <2> QED
    BY <1>3, <2>2, <2>3, <2>4, TimerAside
<1> QED
  BY <1>4, <1>5

LEMMA DrainPeriodicTimer ==
  ASSUME IInv, TInv, Usable, DrainPeriodic
  PROVE  TInv'
<1> DEFINE x == [State EXCEPT !.b.periodic_slot = FALSE]
           b == [bsess EXCEPT !.periodic_slot = FALSE]
<1>1. bsess.periodic_slot /\ ring' = ring
  BY DEF DrainPeriodic
<1>2. dsess.present /\ OnWire
  BY <1>1, Zenon DEF IInv, Absent, Hold, NewBsess, OnWire
<1>3. State \in Live
  BY <1>2, StateLive DEF IInv
<1>4. x = [d |-> dsess, b |-> b, k |-> kern, g |-> ghost]
  <2>1. ASSUME NEW v
        PROVE  [State EXCEPT !.b.periodic_slot = v] =
               [d |-> dsess, b |-> [bsess EXCEPT !.periodic_slot = v], k |-> kern, g |-> ghost]
    BY DEF State
  <2> QED
    BY <2>1, Zenon
<1>5. b \in BTypes /\ b.period = bsess.period
  BY Zenon DEF IInv, Types, BTypes
<1>6. PICK y \in {UpdateNow(x)} \cup UpdateFail(x) :
        dsess' = y.d /\ bsess' = y.b /\ kern' = y.k /\ ghost' = y.g
  BY DEF DrainPeriodic, Become
<1> HIDE DEF x, b
<1>7. x \in Live
  BY <1>3, <1>4, <1>5 DEF Live, State
<1>8. Rearms(x) /\ Runs(x, Pending)
  BY <1>2, <1>4, <1>5 DEF TInv, State, Secured, Rearms, Runs, RearmTimer
<1>9. y \in CallUpdate(x)
  BY <1>6 DEF CallUpdate, UpdateOk
<1>10. y \in Live /\ Carried(x, y) /\ Secured(y, Pending)
  BY <1>7, <1>8, <1>9, CallIs, CallSecures, PendingType
<1>11. Pending' = Pending
  BY <1>1, <1>4, <1>6, <1>10, PendingSame DEF Carried
<1> QED
  BY <1>6, <1>10, <1>11, SecuredStep

LEMMA RingHead ==
  ASSUME ring \in Seq(Events), ring # <<>>, ring' = Tail(ring), ghost'.lost = ghost.lost
  PROVE  /\ Head(ring) # Timeout => Pending' = Pending
         /\ Head(ring) = Timeout => Pending
<1>1. Head(ring) = ring[1] /\ Len(ring) \in Nat /\ 1 \in DOMAIN ring
  OBVIOUS
<1>2. ASSUME NEW i \in DOMAIN Tail(ring)
      PROVE  i + 1 \in DOMAIN ring /\ Tail(ring)[i] = ring[i + 1]
  OBVIOUS
<1>3. ASSUME NEW i \in DOMAIN ring, i # 1
      PROVE  i - 1 \in DOMAIN Tail(ring) /\ Tail(ring)[i - 1] = ring[i]
  <2>1. i \in 2 .. Len(ring) /\ Len(Tail(ring)) = Len(ring) - 1 /\ Tail(ring) \in Seq(Events)
    BY <1>1, <1>3
  <2>2. i - 1 \in 1 .. Len(Tail(ring)) /\ (i - 1) + 1 = i
    BY <1>1, <2>1
  <2>3. i - 1 \in DOMAIN Tail(ring)
    BY <2>1, <2>2
  <2> QED
    BY <1>2, <2>2, <2>3
<1>4. ASSUME Head(ring) # Timeout, \E i \in DOMAIN ring : ring[i] = Timeout
      PROVE  \E i \in DOMAIN Tail(ring) : Tail(ring)[i] = Timeout
  <2>1. PICK i \in DOMAIN ring : ring[i] = Timeout
    BY <1>4
  <2> QED
    BY <1>1, <1>3, <1>4, <2>1, Zenon
<1>5. ASSUME \E i \in DOMAIN Tail(ring) : Tail(ring)[i] = Timeout
      PROVE  \E i \in DOMAIN ring : ring[i] = Timeout
  BY <1>2, <1>5
<1>6. Head(ring) # Timeout => Pending' = Pending
  <2> HIDE DEF Timeout
  <2> QED
    BY <1>4, <1>5 DEF Pending
<1>7. Head(ring) = Timeout => Pending
  BY <1>1 DEF Pending
<1> QED
  BY <1>6, <1>7

LEMMA EventTimer ==
  ASSUME IInv, TInv, Usable, HandleEvent
  PROVE  TInv'
<1> DEFINE e == Head(ring)
<1>1. /\ ring # <<>> /\ ring' = Tail(ring)
      /\ Become(IF e = Timeout THEN HandleTimeout(State) ELSE HandlePacket(State, e.pkt))
  BY DEF HandleEvent
<1>2. ring \in Seq(Events) /\ e \in Events
  BY <1>1, HeadTail DEF IInv, Types
<1>3. ghost'.lost = ghost.lost =>
        (e # Timeout => Pending' = Pending) /\ (e = Timeout => Pending)
  BY <1>1, <1>2, RingHead
<1> HIDE DEF e
<1>4. CASE e = Timeout
  <2>1. PICK y \in HandleTimeout(State) :
          dsess' = y.d /\ bsess' = y.b /\ kern' = y.k /\ ghost' = y.g
    BY <1>1, <1>4 DEF Become
  <2>2. CASE ~dsess.present
    <3>1. y = State
      BY <2>1, <2>2, Zenon DEF HandleTimeout, State
    <3> QED
      BY <2>1, <2>2, <3>1 DEF TInv, OnWire, State
  <2>3. CASE dsess.present /\ bsess.bstate = "ON_HOLD"
    <3>1. y = [State EXCEPT !.g.crashed = TRUE]
      BY <2>1, <2>3, ZenonT(60) DEF HandleTimeout, State, MidPoll
    <3>2. bsess' = bsess
      BY <2>1, <3>1 DEF State
    <3> QED
      BY <2>3, <3>2 DEF TInv, OnWire
  <2>4. CASE OnWire
    <3>1. State \in Live /\ Pushed(State) /\ State.d.present /\ State.b.bstate # "ON_HOLD"
          /\ State.g = ghost
      BY <2>4, StateLive DEF IInv, Wire, OnWire, State
    <3>2. y \in Live /\ Kept(State, y)
      BY <2>1, <3>1, TimeoutIs
    <3>3. Secured(State, TRUE)
      BY <2>4 DEF TInv, Secured, Runs
    <3>4. Secured(y, Pending')
      BY <2>1, <3>1, <3>3, TimeoutSecures, PendingType, Zenon
    <3> QED
      BY <2>1, <3>2, <3>4, SecuredStep
  <2> QED
    BY <2>2, <2>3, <2>4 DEF OnWire
<1>5. CASE e # Timeout
  <2>0. e.pkt \in Packets
    BY <1>2, <1>5, EventType
  <2>1. PICK y \in HandlePacket(State, e.pkt) :
          dsess' = y.d /\ bsess' = y.b /\ kern' = y.k /\ ghost' = y.g
    BY <1>1, <1>5 DEF Become
  <2>2. CASE PacketIgnored(State, e.pkt)
    <3>1. y = State
      BY <2>1, <2>2 DEF HandlePacket
    <3>2. dsess' = dsess /\ bsess' = bsess /\ kern' = kern /\ ghost' = ghost
      BY <2>1, <3>1 DEF State
    <3>3. Pending' = Pending
      BY <1>3, <1>5, <3>2
    <3> QED
      BY <3>2, <3>3, TimerAside
  <2>3. CASE ~PacketIgnored(State, e.pkt)
    <3>1. OnWire
      BY <2>3 DEF PacketIgnored, State, OnWire
    <3>2. State \in Live /\ Pushed(State) /\ State.g = ghost /\ Secured(State, Pending)
      BY <3>1, StateLive DEF IInv, Wire, OnWire, TInv, State
    <3>3. y \in Live /\ Kept(State, y)
      BY <2>0, <2>1, <2>3, <3>2, PacketIs
    <3>4. Secured(y, Pending)
      BY <2>0, <2>1, <2>3, <3>2, PacketSecures, PendingType
    <3>5. Pending' = Pending
      BY <1>3, <1>5, <2>1, <3>2, <3>3 DEF Kept
    <3> QED
      BY <2>1, <3>3, <3>4, <3>5, SecuredStep
  <2> QED
    BY <2>2, <2>3
<1> QED
  BY <1>4, <1>5

LEMMA NotifyPending ==
  ASSUME IInv, NEW e \in Events, Notify(e)
  PROVE  /\ ghost'.broken = ghost.broken
         /\ Pending => Pending'
         /\ e = Timeout => Pending'
<1>1. ring \in Seq(Events) /\ ghost \in GTypes
  BY DEF IInv, Types
<1>2. CASE Len(ring) < RingCap
  <2>1. ring' = Append(ring, e) /\ ghost' = ghost
    BY <1>2 DEF Notify
  <2>2. /\ \A i \in DOMAIN ring : i \in DOMAIN ring' /\ ring'[i] = ring[i]
        /\ Len(ring) + 1 \in DOMAIN ring' /\ ring'[Len(ring) + 1] = e
    BY <1>1, <2>1
  <2> HIDE DEF Timeout
  <2> QED
    BY <2>1, <2>2 DEF Pending
<1>3. CASE ~(Len(ring) < RingCap)
  <2> DEFINE l == ghost.lost \/ e = Timeout
  <2>1. ring' = ring /\ ghost' = [ghost EXCEPT !.lost = l]
    BY <1>3 DEF Notify
  <2>2. l = (ghost.lost \/ e = Timeout)
    OBVIOUS
  <2> HIDE DEF l
  <2>3. ghost'.lost = l /\ ghost'.broken = ghost.broken
    BY <1>1, <2>1 DEF GTypes
  <2> QED
    BY <2>1, <2>2, <2>3, Zenon DEF Pending
<1> QED
  BY <1>2, <1>3

LEMMA RecvTimer ==
  ASSUME IInv, TInv, NEW p \in Packets, Recv(p)
  PROVE  TInv'
<1>1. UNCHANGED <<dsess, bsess>>
  BY DEF Recv
<1>2. CASE p.your /\ ExpectedPacket(kern.config, p)
  <2> DEFINE t == kern.timer \/ kern.config.rearm_timer
  <2>1. kern' = [kern EXCEPT !.timer = t] /\ UNCHANGED <<ghost, ring>>
    BY <1>2 DEF Recv
  <2>2. kern.timer => t
    OBVIOUS
  <2> HIDE DEF t
  <2>3. kern'.config = kern.config /\ kern'.timer = t
    BY <2>1 DEF IInv, Types, Maps
  <2>4. Pending' = Pending
    BY <2>1, PendingSame
  <2> QED
    BY <1>1, <2>1, <2>2, <2>3, <2>4, TimerAside
<1>3. CASE ~(p.your /\ ExpectedPacket(kern.config, p))
  <2>1. Notify(Unexpected(p)) /\ UNCHANGED kern
    BY <1>3 DEF Recv
  <2>2. Unexpected(p) \in Events
    BY DEF Events
  <2> QED
    BY <1>1, <2>1, <2>2, NotifyPending, TimerAside
<1> QED
  BY <1>2, <1>3

LEMMA ExpireTimer ==
  ASSUME IInv, TInv, TimerExpires
  PROVE  TInv'
<1>1. UNCHANGED <<dsess, bsess>> /\ Notify(Timeout) /\ kern' = [kern EXCEPT !.timer = FALSE]
  BY DEF TimerExpires
<1>2. Timeout \in Events
  BY DEF Events
<1>3. ghost'.broken = ghost.broken /\ Pending'
  BY <1>1, <1>2, NotifyPending
<1>4. kern'.config = kern.config
  BY <1>1 DEF IInv, Types, Maps
<1> QED
  BY <1>1, <1>3, <1>4, TimerAside

LEMMA NextTInv == IInv /\ TInv /\ Usable /\ [Next]_vars => TInv'
<1> SUFFICES ASSUME IInv, TInv, Usable, [Next]_vars PROVE TInv'
  OBVIOUS
<1>1. CASE \E t \in Timings, sh \in Shutdowns : SessionAdd(t, sh)
  BY <1>1 DEF SessionAdd, NewBsess, TInv, OnWire
<1>2. CASE \E t \in Timings, sh \in Shutdowns : SessionSet(t, sh)
  BY <1>2, SetTimer
<1>3. CASE SessionDel
  BY <1>3 DEF SessionDel, NewDsess, TInv, OnWire
<1>4. CASE HoldTimer
  BY <1>4, HoldTimerTimer
<1>5. CASE ShwaitTimer
  BY <1>5, ShwaitTimerTimer
<1>6. CASE LeakedTimer
  BY <1>6, LeakedTimerTimer
<1>7. CASE DrainPeriodic
  BY <1>7, DrainPeriodicTimer
<1>8. CASE DrainFinal
  <2>1. /\ bsess'.bstate = bsess.bstate /\ bsess'.period = bsess.period
        /\ bsess'.periodic_slot = bsess.periodic_slot
        /\ UNCHANGED <<dsess, kern, ghost, ring>>
    BY <1>8 DEF DrainFinal, IInv, Types, BTypes
  <2> QED
    BY <2>1, PendingSame, TimerAside
<1>9. CASE HandleEvent
  BY <1>9, EventTimer
<1>10. CASE \E p \in Packets : Recv(p)
  BY <1>10, RecvTimer
<1>11. CASE TimerExpires
  BY <1>11, ExpireTimer
<1>12. CASE UNCHANGED vars
  BY <1>12, PendingSame, TimerAside DEF vars
<1> QED
  BY <1>1, <1>2, <1>3, <1>4, <1>5, <1>6, <1>7, <1>8, <1>9, <1>10, <1>11, <1>12 DEF Next

-----------------------------------------------------------------------------
(* Theorem *)

(* In states Init and Up the detection timer runs, its expiry is waiting   *)
(* to be handled, or an update that will arm it is queued: a rearm packet  *)
(* that timer_period_us suppresses is never one that was needed.  Pushes   *)
(* may be queued and updates of the BPF maps may fail; that sendmsg does   *)
(* not is a hypothesis the code needs.  When it fails after the new config *)
(* was written, timer_period_us is that of a config no longer there.       *)
THEOREM LossIsNoticed ==
  ASSUME "send" \notin Faults, \A t \in Timings : t.rx > 0
  PROVE  Spec => []Guarded
<1>0. Usable
  BY DEF Usable
<1>1. Init => TInv
  BY DEF Init, NewDsess, TInv, OnWire
<1>2. IInv /\ TInv /\ [Next]_vars => TInv'
  BY <1>0, NextTInv
<1>3. TInv => Guarded
  BY DEF TInv, Guarded, Secured, State, RearmTimer, Pending
<1>4. Spec => []IInv
  BY Inductive
<1> QED
  BY <1>1, <1>2, <1>3, <1>4, PTL DEF Spec

-----------------------------------------------------------------------------
(***************************************************************************)
(* Poll sequences, shutdowns and what is announced: the action properties  *)
(* compare a session before and after a whole handler.                     *)
(*                                                                         *)
(* Unless a shutdown timer was left behind (ghost.left), it runs exactly   *)
(* while the session is shutting down, which is AdminDown; and a poll      *)
(* sequence does not make a shutdown effective that was not before.        *)
(***************************************************************************)
Orderly(x) ==
  x.g.left \/
    /\ x.b.shwait <=> x.b.bstate = "SHUTTING_DOWN"
    /\ x.b.shwait => x.d.local = "ADMINDOWN"
    /\ MidPoll(x) /\ x.b.dfr.shutdown => x.b.eff.shutdown

(* What the user wants to be shut down is, unless a change is queued. *)
Faithful(x) ==
  x.g.left \/ (MidPoll(x) /\ x.b.qd_change) \/ (x.d.shutdown <=> Bdata(x).shutdown)

(* What a push leaves alone of the history. *)
LEMMA CallKeeps ==
  ASSUME NEW x \in Live, NEW y \in CallUpdate(x)
  PROVE  y.g.left = x.g.left /\ y.g.told = x.g.told
<1>1. NewConfig(x).g = x.g
  BY NewConfigIs
<1>2. NewSpinner(x).g.left = x.g.left /\ NewSpinner(x).g.told = x.g.told
  <2> DEFINE c == NewConfig(x)
             e == [c EXCEPT !.k.spinner = SpinnerOf(x)]
  <2>1. c \in Live /\ NewSpinner(x) = [e EXCEPT !.g.polled = Polled(x)]
    BY NewConfigIs DEF NewSpinner
  <2> HIDE DEF c
  <2>2. e.g = c.g /\ DOMAIN e = {"d", "b", "k", "g"}
    BY <2>1 DEF Live
  <2> HIDE DEF e
  <2>3. NewSpinner(x).g = [c.g EXCEPT !.polled = Polled(x)]
    BY <2>1, <2>2
  <2>4. LET g == [c.g EXCEPT !.polled = Polled(x)]
        IN  g.left = c.g.left /\ g.told = c.g.told
    BY <2>1 DEF Live, GTypes
  <2> QED
    BY <1>1, <2>3, <2>4 DEF c
<1>3. UpdatePeriod(NewSpinner(x)).g = NewSpinner(x).g
  <2> DEFINE s == NewSpinner(x)
  <2>1. s \in Live
    BY NewSpinnerIs
  <2> HIDE DEF s
  <2>2. UpdatePeriod(s).g = s.g
    BY <2>1, RearmedIs DEF UpdatePeriod, Live
  <2> QED
    BY <2>2 DEF s
<1>4. CASE y = UpdateNow(x)
  <2> DEFINE u == UpdatePeriod(NewSpinner(x))
  <2>1. y = [u EXCEPT !.g.broken = FALSE]
    BY <1>4 DEF UpdateNow
  <2>2. u \in Live
    BY NewSpinnerIs, UpdatePeriodIs
  <2> HIDE DEF u
  <2>3. y.g.left = u.g.left /\ y.g.told = u.g.told
    BY <2>1, <2>2 DEF Live, GTypes
  <2> QED
    BY <1>2, <1>3, <2>3 DEF u
<1>5. CASE y = Deferred(x)
  BY <1>5 DEF Deferred, Live
<1>6. CASE y \in UpdateFail(x)
  <2>1. PICK z \in {x, NewConfig(x), NewSpinner(x)} : y = [z EXCEPT !.g.broken = TRUE]
    BY <1>6 DEF UpdateFail
  <2>2. z \in Live /\ z.g.left = x.g.left /\ z.g.told = x.g.told
    BY <1>1, <1>2, <2>1, NewConfigIs, NewSpinnerIs
  <2> QED
    BY <2>1, <2>2 DEF Live, GTypes
<1> QED
  BY <1>4, <1>5, <1>6 DEF CallUpdate, UpdateOk

Now(x) == <<x.d.local, x.d.remote.state>>

LEMMA TellKeeps ==
  ASSUME NEW x \in Live, NEW y \in Tell(x)
  PROVE  y.d = x.d /\ y.b = x.b /\ y.g.left = x.g.left /\ y.g.told = Now(x)
  BY DEF Tell, Live, GTypes, Now

LEMMA ChangedKeeps ==
  ASSUME NEW x \in Live, NEW y \in StateChanged(x)
  PROVE  y.g.left = x.g.left /\ y.g.told = Now(y)
<1>1. PICK z \in CallUpdate(x) : y \in Tell(z)
  BY DEF StateChanged, Then
<1>2. z \in Live /\ z.g.left = x.g.left
  BY <1>1, CallIs, CallKeeps
<1> QED
  BY <1>1, <1>2, TellKeeps DEF Now

(* Both are about what a push leaves alone. *)
LEMMA OrderCarried ==
  ASSUME NEW x, NEW y, Carried(x, y), y.g.left = x.g.left
  PROVE  (Orderly(x) => Orderly(y)) /\ (Faithful(x) => Faithful(y))
  BY DEF Orderly, Faithful, Carried, MidPoll, Bdata

-----------------------------------------------------------------------------
(* bbdd_bpf_handle_session_update, field by field *)

(* Of b, what a change of the configuration may touch, and b but for that. *)
LEMMA AppliedHas ==
  ASSUME NEW x \in Live
  PROVE  LET a == Applied(x)
         IN  /\ a.d = x.d /\ a.g = x.g
             /\ a.b.bstate = x.b.bstate /\ a.b.shwait = x.b.shwait
             /\ a.b.qd_change = x.b.qd_change
             /\ a.b.eff = IF ApplyImm(x) /\ x.b.bstate = "STABLE" THEN UserBdata(x) ELSE x.b.eff
             /\ a.b.dfr = IF ApplyImm(x) /\ x.b.bstate # "STABLE" THEN UserBdata(x) ELSE x.b.dfr
<1> DEFINE u == UserBdata(x)
           e == [x EXCEPT !.b.eff = u]
           f == [x EXCEPT !.b.dfr = u]
<1>1. Applied(x) = IF ~ApplyImm(x) THEN x ELSE IF x.b.bstate = "STABLE" THEN e ELSE f
  BY Zenon DEF Applied
<1> HIDE DEF u
<1>2. /\ e.d = x.d /\ e.g = x.g /\ e.b.bstate = x.b.bstate /\ e.b.shwait = x.b.shwait
      /\ e.b.qd_change = x.b.qd_change /\ e.b.eff = u /\ e.b.dfr = x.b.dfr
  BY DEF Live, BTypes
<1>3. /\ f.d = x.d /\ f.g = x.g /\ f.b.bstate = x.b.bstate /\ f.b.shwait = x.b.shwait
      /\ f.b.qd_change = x.b.qd_change /\ f.b.eff = x.b.eff /\ f.b.dfr = u
  BY DEF Live, BTypes
<1> HIDE DEF e, f
<1>4. CASE ~ApplyImm(x)
  BY <1>1, <1>4, Zenon
<1>5. CASE ApplyImm(x) /\ x.b.bstate = "STABLE"
  BY <1>1, <1>2, <1>5, Zenon DEF u
<1>6. CASE ApplyImm(x) /\ x.b.bstate # "STABLE"
  BY <1>1, <1>3, <1>6, Zenon DEF u
<1> QED
  BY <1>4, <1>5, <1>6, Zenon

LEMMA EnabledHas ==
  ASSUME NEW x \in Live
  PROVE  LET e == Enabled(x)
         IN  /\ e.d.local = "DOWN" /\ e.d.shutdown = x.d.shutdown /\ e.d.timing = x.d.timing
             /\ e.d.remote = x.d.remote
             /\ e.g = x.g
             /\ e.b.eff = x.b.eff /\ e.b.dfr = x.b.dfr /\ e.b.qd_change = x.b.qd_change
             /\ e.b.shwait <=> x.b.shwait /\ x.b.bstate # "SHUTTING_DOWN"
             /\ e.b.bstate = IF x.b.bstate = "SHUTTING_DOWN" THEN "AWAIT_FINAL" ELSE x.b.bstate
<1> DEFINE w == x.b.shwait /\ x.b.bstate # "SHUTTING_DOWN"
           bs == IF x.b.bstate = "SHUTTING_DOWN" THEN "AWAIT_FINAL" ELSE x.b.bstate
<1>1. Enabled(x) = [x EXCEPT !.d.local = "DOWN", !.b.shwait = w, !.b.bstate = bs]
  BY DEF Enabled
<1> HIDE DEF w, bs
<1> DEFINE d == [x.d EXCEPT !.local = "DOWN"]
           b == [x.b EXCEPT !.shwait = w, !.bstate = bs]
<1>2. Enabled(x) = [d |-> d, b |-> b, k |-> x.k, g |-> x.g]
  BY <1>1, Zenon DEF Live
<1>3. /\ d.local = "DOWN" /\ d.shutdown = x.d.shutdown /\ d.timing = x.d.timing
      /\ d.remote = x.d.remote
  BY DEF Live, DTypes
<1>4. /\ b.eff = x.b.eff /\ b.dfr = x.b.dfr /\ b.qd_change = x.b.qd_change
      /\ b.shwait = w /\ b.bstate = bs
  BY DEF Live, BTypes
<1> HIDE DEF d, b
<1>5. /\ Enabled(x).d = d /\ Enabled(x).b = b /\ Enabled(x).g = x.g
  BY <1>2
<1> QED
  BY <1>3, <1>4, <1>5, Zenon DEF w, bs

LEMMA StartPollHas ==
  ASSUME NEW x \in Live
  PROVE  LET p == StartPoll(x)
         IN  /\ p.d = x.d /\ p.g.told = x.g.told
             /\ p.g.left <=> x.g.left \/ x.b.shwait
             /\ p.b.eff = x.b.eff /\ p.b.dfr = UserBdata(x)
             /\ p.b.qd_change = x.b.qd_change /\ p.b.shwait = x.b.shwait
             /\ p.b.bstate = "AWAIT_FINAL"
<1> DEFINE l == x.g.left \/ x.b.shwait
           u == UserBdata(x)
<1>1. StartPoll(x) = [x EXCEPT !.b.dfr = u, !.b.bstate = "AWAIT_FINAL", !.g.left = l]
  BY DEF StartPoll
<1> HIDE DEF l, u
<1> DEFINE b == [x.b EXCEPT !.dfr = u, !.bstate = "AWAIT_FINAL"]
           g == [x.g EXCEPT !.left = l]
<1>2. StartPoll(x) = [d |-> x.d, b |-> b, k |-> x.k, g |-> g]
  BY <1>1, Zenon DEF Live
<1>3. /\ b.eff = x.b.eff /\ b.dfr = u /\ b.qd_change = x.b.qd_change
      /\ b.shwait = x.b.shwait /\ b.bstate = "AWAIT_FINAL"
  BY DEF Live, BTypes
<1>4. g.left = l /\ g.told = x.g.told
  BY DEF Live, GTypes
<1> HIDE DEF b, g
<1>5. StartPoll(x).d = x.d /\ StartPoll(x).b = b /\ StartPoll(x).g = g
  BY <1>2
<1> QED
  BY <1>3, <1>4, <1>5, Zenon DEF l, u

LEMMA StartShwaitHas ==
  ASSUME NEW x \in Live
  PROVE  LET w == StartShwait(x)
         IN  /\ w.d.local = "ADMINDOWN" /\ w.d.shutdown = x.d.shutdown
             /\ w.d.timing = x.d.timing
             /\ w.g = x.g
             /\ w.b.eff = x.b.eff /\ w.b.dfr = UserBdata(x) /\ w.b.qd_change = x.b.qd_change
             /\ w.b.shwait /\ w.b.bstate = "SHUTTING_DOWN"
<1>1. StartShwait(x) = [d |-> ShwaitD(x), b |-> ShwaitB(x), k |-> x.k, g |-> x.g]
  BY StartShwaitForm
<1>2. /\ ShwaitD(x).local = "ADMINDOWN" /\ ShwaitD(x).shutdown = x.d.shutdown
      /\ ShwaitD(x).timing = x.d.timing
  BY DEF ShwaitD, Live, DTypes
<1>3. /\ ShwaitB(x).eff = x.b.eff /\ ShwaitB(x).dfr = UserBdata(x)
      /\ ShwaitB(x).qd_change = x.b.qd_change /\ ShwaitB(x).shwait
      /\ ShwaitB(x).bstate = "SHUTTING_DOWN"
  <2> DEFINE n == IF x.b.shwait THEN x.b.leaked + 1 ELSE x.b.leaked
             u == UserBdata(x)
  <2>1. ShwaitB(x) = [x.b EXCEPT !.leaked = n, !.shwait = TRUE, !.dfr = u,
                                 !.bstate = "SHUTTING_DOWN"]
    BY Zenon DEF ShwaitB
  <2> HIDE DEF n, u
  <2>2. /\ ShwaitB(x).eff = x.b.eff /\ ShwaitB(x).dfr = u
        /\ ShwaitB(x).qd_change = x.b.qd_change /\ ShwaitB(x).shwait
        /\ ShwaitB(x).bstate = "SHUTTING_DOWN"
    BY <2>1 DEF Live, BTypes
  <2> QED
    BY <2>2, Zenon DEF u
<1>4. /\ StartShwait(x).d = ShwaitD(x) /\ StartShwait(x).b = ShwaitB(x)
      /\ StartShwait(x).g = x.g
  BY <1>1
<1> QED
  BY <1>2, <1>3, <1>4, Zenon

(* Timing that may not take effect at once while the session is Up *)
Harder(e, f) == f.timing.tx > e.timing.tx \/ f.timing.rx < e.timing.rx

LEMMA NotHarder ==
  ASSUME NEW e \in Datas, NEW f, f.timing = e.timing
  PROVE  ~Harder(e, f)
<1>1. e.timing.tx \in Nat /\ e.timing.rx \in Nat
  BY SessionAssumption DEF Datas
<1> QED
  BY <1>1 DEF Harder

LEMMA ImmediateHas ==
  ASSUME NEW x \in Live
  PROVE  /\ Bdata(x) \in Datas
         /\ ApplyImm(x) => /\ x.d.shutdown => Bdata(x).shutdown
                           /\ x.d.local = "UP" => ~Harder(Bdata(x), UserBdata(x))
         /\ ~NeedShwait(x) /\ ~NeedPoll(x) => ApplyImm(x)
<1>1. Bdata(x) \in Datas
  BY DEF Bdata, Live, BTypes
<1>2. UserBdata(x).timing = x.d.timing
  BY DEF UserBdata
<1>3. ApplyImm(x) <=> ~NeedShwait(x) /\ ~(x.d.local = "UP" /\ Harder(Bdata(x), UserBdata(x)))
  BY <1>2, Zenon DEF ApplyImm, Harder
<1>4. ~NeedShwait(x) /\ ~NeedPoll(x) => ~Harder(Bdata(x), UserBdata(x))
  BY <1>1, <1>2, NotHarder DEF NeedPoll
<1>5. ~NeedShwait(x) => (x.d.shutdown => Bdata(x).shutdown)
  BY DEF NeedShwait
<1> QED
  BY <1>1, <1>3, <1>4, <1>5, Zenon

(* bbdd_bpf_handle_session_update: what is applied at once. *)
LEMMA AppliedKeeps ==
  ASSUME NEW x \in Live, NEW a, a = Applied(x)
  PROVE  /\ a.b.eff.shutdown => x.b.eff.shutdown
         /\ x.d.local = "UP" => ~Harder(x.b.eff, a.b.eff)
         /\ x.b.bstate # "STABLE" /\ a.b.dfr.shutdown => x.b.dfr.shutdown
         /\ ~NeedShwait(x) /\ ~NeedPoll(x) => Bdata(a) = UserBdata(x)
<1> DEFINE u == UserBdata(x)
<1>1. /\ a.b.bstate = x.b.bstate
      /\ a.b.eff = IF ApplyImm(x) /\ x.b.bstate = "STABLE" THEN u ELSE x.b.eff
      /\ a.b.dfr = IF ApplyImm(x) /\ x.b.bstate # "STABLE" THEN u ELSE x.b.dfr
  BY AppliedHas, Zenon
<1>2. u.shutdown = x.d.shutdown
  BY DEF UserBdata
<1>3. x.b.eff \in Datas
  BY DEF Live, BTypes
<1> HIDE DEF u
<1>4. Bdata(x) = IF x.b.bstate = "STABLE" THEN x.b.eff ELSE x.b.dfr
  BY DEF Bdata
<1>5. Bdata(a) = IF x.b.bstate = "STABLE" THEN a.b.eff ELSE a.b.dfr
  BY <1>1, Zenon DEF Bdata
<1>6. a.b.eff.shutdown => x.b.eff.shutdown
  BY <1>1, <1>2, <1>4, ImmediateHas, Zenon
<1>7. x.d.local = "UP" => ~Harder(x.b.eff, a.b.eff)
  <2>1. ~Harder(x.b.eff, x.b.eff)
    BY <1>3, NotHarder
  <2> QED
    BY <1>1, <1>4, <2>1, ImmediateHas, Zenon DEF u
<1>8. x.b.bstate # "STABLE" /\ a.b.dfr.shutdown => x.b.dfr.shutdown
  BY <1>1, <1>2, <1>4, ImmediateHas, Zenon
<1>9. ~NeedShwait(x) /\ ~NeedPoll(x) => Bdata(a) = UserBdata(x)
  BY <1>1, <1>5, ImmediateHas, Zenon DEF u
<1> QED
  BY <1>6, <1>7, <1>8, <1>9, Zenon

(* A session that nobody ever asked to shut down. *)
Calm(x) == ~x.d.shutdown /\ ~x.b.shwait /\ ~x.g.left

(* What a change of the configuration does to the session. *)
Reconfigured(x, y) ==
  /\ Calm(x) => Calm(y)
  /\ y.d.shutdown = x.d.shutdown
  /\ y.g.told = x.g.told /\ (x.g.left => y.g.left)
  /\ y.b.eff.shutdown => x.b.eff.shutdown
  /\ x.d.local = "ADMINDOWN" /\ y.d.local # "ADMINDOWN" => ~x.d.shutdown
  /\ y.d.local = "UP" => x.d.local = "UP" /\ ~Harder(x.b.eff, y.b.eff)
  /\ Now(y) # Now(x) => ~MidPoll(x) /\ (NeedShwait(x) \/ StopShwait(x))

(* ... in the middle of a poll sequence, where it is queued *)
LEMMA QueuedChange ==
  ASSUME NEW x \in Live, MidPoll(x), NEW h, h = HandleSessionUpdate(x)
  PROVE  Reconfigured(x, h) /\ Faithful(h) /\ (Orderly(x) => Orderly(h))
<1> DEFINE a == Applied(x)
           q == a.b.qd_change \/ NeedPoll(x) \/ NeedShwait(x) \/ StopShwait(x)
<1>1. h = [a EXCEPT !.b.qd_change = q]
  BY DEF HandleSessionUpdate
<1>2. a \in Live
  BY AppliedIs DEF MidPoll
<1>3. /\ a.d = x.d /\ a.g = x.g /\ a.b.bstate = x.b.bstate /\ a.b.shwait = x.b.shwait
      /\ a.b.eff = IF ApplyImm(x) /\ x.b.bstate = "STABLE" THEN UserBdata(x) ELSE x.b.eff
      /\ a.b.dfr = IF ApplyImm(x) /\ x.b.bstate # "STABLE" THEN UserBdata(x) ELSE x.b.dfr
  BY AppliedHas, Zenon
<1>4. /\ a.b.eff.shutdown => x.b.eff.shutdown
      /\ x.d.local = "UP" => ~Harder(x.b.eff, a.b.eff)
      /\ x.b.bstate # "STABLE" /\ a.b.dfr.shutdown => x.b.dfr.shutdown
      /\ ~NeedShwait(x) /\ ~NeedPoll(x) => Bdata(a) = UserBdata(x)
  BY AppliedKeeps, Zenon
<1>5. x.b.bstate # "STABLE" /\ x.b.bstate # "SHUTTING_DOWN"
  BY DEF MidPoll
<1>6. ~q => ~NeedPoll(x) /\ ~NeedShwait(x)
  OBVIOUS
<1> HIDE DEF a, q
<1>7. /\ h.d = a.d /\ h.g = a.g /\ h.b.bstate = a.b.bstate /\ h.b.shwait = a.b.shwait
      /\ h.b.eff = a.b.eff /\ h.b.dfr = a.b.dfr /\ h.b.qd_change = q
  BY <1>1, <1>2 DEF Live, BTypes
<1>8. Now(h) = Now(x)
  BY <1>3, <1>7, Zenon DEF Now
<1>9. Reconfigured(x, h)
  BY <1>3, <1>4, <1>7, <1>8, Zenon DEF Reconfigured, Calm
<1>10. MidPoll(h)
  BY <1>3, <1>7, Zenon DEF MidPoll
<1>11. Faithful(h)
  <2>1. CASE q
    BY <1>7, <1>10, <2>1, Zenon DEF Faithful
  <2>2. CASE ~q
    <3>1. Bdata(h) = UserBdata(x)
      BY <1>4, <1>6, <1>7, <2>2, Zenon DEF Bdata
    <3>2. UserBdata(x).shutdown = h.d.shutdown
      BY <1>3, <1>7, Zenon DEF UserBdata
    <3> QED
      BY <3>1, <3>2, Zenon DEF Faithful
  <2> QED
    BY <2>1, <2>2
<1>12. Orderly(x) => Orderly(h)
  BY <1>3, <1>4, <1>5, <1>7, ZenonT(60) DEF Orderly, MidPoll
<1> QED
  BY <1>9, <1>11, <1>12

(* ... otherwise, before a poll sequence or a shutdown is started *)
LEMMA EnabledOrNot ==
  ASSUME NEW x \in Live, x.b.bstate # "ON_HOLD", ~MidPoll(x),
         NEW y, y = IF StopShwait(x) THEN Enabled(Applied(x)) ELSE Applied(x)
  PROVE  /\ y \in Live /\ y.g = x.g
         /\ y.d.shutdown = x.d.shutdown /\ y.d.timing = x.d.timing
         /\ UserBdata(y) = UserBdata(x)
         /\ y.d.local = x.d.local \/ (y.d.local = "DOWN" /\ StopShwait(x))
         /\ y.d.remote = x.d.remote
         /\ y.b.eff = Applied(x).b.eff /\ y.b.dfr = Applied(x).b.dfr
         /\ y.b.shwait <=> x.b.shwait /\ (StopShwait(x) => x.b.bstate # "SHUTTING_DOWN")
         /\ y.b.bstate = IF StopShwait(x) /\ x.b.bstate = "SHUTTING_DOWN" THEN "AWAIT_FINAL"
                         ELSE x.b.bstate
         /\ Reconfigured(x, y)
<1> DEFINE a == Applied(x)
<1>1. a \in Live /\ a.b.bstate # "ON_HOLD"
  BY AppliedIs DEF Prepared, Kept
<1>2. a.d = x.d /\ a.g = x.g /\ a.b.bstate = x.b.bstate /\ a.b.shwait = x.b.shwait
  BY AppliedHas, Zenon
<1>3. /\ a.b.eff.shutdown => x.b.eff.shutdown
      /\ x.d.local = "UP" => ~Harder(x.b.eff, a.b.eff)
  BY AppliedKeeps, Zenon
<1> HIDE DEF a
<1>4. CASE StopShwait(x)
  <2>1. y = Enabled(a)
    BY <1>4 DEF a
  <2>2. y \in Live
    BY <1>1, <2>1, EnabledIs
  <2>3. /\ y.d.local = "DOWN" /\ y.d.shutdown = a.d.shutdown /\ y.d.timing = a.d.timing
        /\ y.d.remote = a.d.remote
        /\ y.g = a.g
        /\ y.b.eff = a.b.eff /\ y.b.dfr = a.b.dfr
        /\ y.b.shwait <=> a.b.shwait /\ a.b.bstate # "SHUTTING_DOWN"
        /\ y.b.bstate = IF a.b.bstate = "SHUTTING_DOWN" THEN "AWAIT_FINAL" ELSE a.b.bstate
    BY <1>1, <2>1, EnabledHas
  <2>4. UserBdata(y) = UserBdata(x)
    BY <1>2, <2>3, Zenon DEF UserBdata
  <2>5. ~x.d.shutdown
    BY <1>4 DEF StopShwait
  <2>6. Reconfigured(x, y)
    <3>1. y.d.local # "UP"
      BY <2>3
    <3> QED
      BY <1>2, <1>3, <1>4, <2>3, <2>5, <3>1, ZenonT(60) DEF Reconfigured, Calm
  <2> QED
    BY <1>2, <1>4, <2>2, <2>3, <2>4, <2>6, ZenonT(60) DEF a
<1>5. CASE ~StopShwait(x)
  <2>1. y = a
    BY <1>5 DEF a
  <2>2. Reconfigured(x, y)
    BY <1>2, <1>3, <2>1, Zenon DEF Reconfigured, Now, Calm
  <2>3. UserBdata(y) = UserBdata(x)
    BY <1>2, <2>1, ZenonT(60) DEF UserBdata
  <2> QED
    BY <1>1, <1>2, <1>5, <2>1, <2>2, <2>3, Zenon DEF a
<1> QED
  BY <1>4, <1>5, ZenonT(60)

LEMMA ChangeAtOnce ==
  ASSUME NEW x \in Live, x.b.bstate # "ON_HOLD", ~MidPoll(x), NEW h, h = HandleSessionUpdate(x)
  PROVE  Reconfigured(x, h) /\ Faithful(h) /\ (Orderly(x) => Orderly(h))
<1> DEFINE y == IF StopShwait(x) THEN Enabled(Applied(x)) ELSE Applied(x)
           a == Applied(x)
           u == UserBdata(x)
<1>1. h = IF NeedPoll(x) THEN StartPoll(y) ELSE IF NeedShwait(x) THEN StartShwait(y) ELSE y
  BY Zenon DEF HandleSessionUpdate
<1>2. /\ y \in Live /\ y.g = x.g
      /\ y.d.shutdown = x.d.shutdown /\ y.d.timing = x.d.timing
      /\ UserBdata(y) = UserBdata(x)
      /\ y.d.local = x.d.local \/ (y.d.local = "DOWN" /\ StopShwait(x))
      /\ y.d.remote = x.d.remote
      /\ y.b.eff = Applied(x).b.eff /\ y.b.dfr = Applied(x).b.dfr
      /\ y.b.shwait <=> x.b.shwait /\ (StopShwait(x) => x.b.bstate # "SHUTTING_DOWN")
      /\ y.b.bstate = IF StopShwait(x) /\ x.b.bstate = "SHUTTING_DOWN" THEN "AWAIT_FINAL"
                      ELSE x.b.bstate
      /\ Reconfigured(x, y)
  BY EnabledOrNot, ZenonT(60)
<1>3. /\ x.b.bstate # "STABLE" /\ a.b.dfr.shutdown => x.b.dfr.shutdown
      /\ ~NeedShwait(x) /\ ~NeedPoll(x) => Bdata(a) = UserBdata(x)
  BY AppliedKeeps, Zenon
<1>4. a.b.bstate = x.b.bstate /\ (a.b.eff.shutdown => x.b.eff.shutdown)
  BY AppliedHas, AppliedKeeps, Zenon
<1>5. /\ u.shutdown = x.d.shutdown
      /\ x.b.bstate \in {"STABLE", "SHUTTING_DOWN"}
      /\ Bdata(x) = IF x.b.bstate = "STABLE" THEN x.b.eff ELSE x.b.dfr
  BY DEF UserBdata, Bdata, MidPoll, Live, BTypes, BStates
<1>6. /\ NeedPoll(x) => ~NeedShwait(x)
      /\ NeedShwait(x) <=> x.d.shutdown /\ ~Bdata(x).shutdown
      /\ StopShwait(x) <=> ~x.d.shutdown /\ Bdata(x).shutdown
  BY Zenon DEF NeedPoll, NeedShwait, StopShwait
<1> HIDE DEF y, a, u
<1>7. CASE NeedPoll(x)
  <2>1. h = StartPoll(y)
    BY <1>1, <1>7
  <2>2. /\ h.d = y.d /\ h.g.told = y.g.told /\ (h.g.left <=> y.g.left \/ y.b.shwait)
        /\ h.b.eff = y.b.eff /\ h.b.dfr = u /\ h.b.shwait = y.b.shwait
        /\ h.b.bstate = "AWAIT_FINAL"
    BY <1>2, <2>1, StartPollHas, ZenonT(60) DEF u
  <2>3. Reconfigured(x, h)
    BY <1>2, <2>2, Zenon DEF Reconfigured, Now, Calm
  <2>4. Bdata(h) = u /\ MidPoll(h) /\ h.b.bstate # "SHUTTING_DOWN"
    BY <2>2 DEF Bdata, MidPoll
  <2>5. Faithful(h)
    BY <1>2, <1>5, <2>2, <2>4, Zenon DEF Faithful
  <2>6. Orderly(x) => Orderly(h)
    <3> SUFFICES ASSUME Orderly(x), ~h.g.left PROVE Orderly(h)
      BY Zenon DEF Orderly
    <3>1. ~h.b.shwait /\ ~x.g.left
      BY <1>2, <2>2, Zenon
    <3>2. x.d.shutdown => x.b.bstate = "STABLE"
      BY <1>2, <1>5, <1>6, <1>7, <2>2, <3>1, Zenon DEF Orderly
    <3>3. u.shutdown => h.b.eff.shutdown
      <4> SUFFICES ASSUME x.d.shutdown PROVE h.b.eff.shutdown
        BY <1>5, Zenon
      <4>1. x.b.bstate = "STABLE" /\ x.b.eff.shutdown
        BY <1>5, <1>6, <1>7, <3>2, Zenon
      <4>2. a.b.eff = x.b.eff \/ a.b.eff = u
        BY AppliedHas, Zenon DEF a, u
      <4> QED
        BY <1>2, <1>5, <2>2, <4>1, <4>2, Zenon DEF a
    <3> QED
      BY <2>2, <2>4, <3>1, <3>3, Zenon DEF Orderly
  <2> QED
    BY <2>3, <2>5, <2>6
<1>8. CASE ~NeedPoll(x) /\ NeedShwait(x)
  <2>1. h = StartShwait(y)
    BY <1>1, <1>8
  <2>2. /\ h.d.local = "ADMINDOWN" /\ h.d.shutdown = y.d.shutdown
        /\ h.g = y.g
        /\ h.b.eff = y.b.eff /\ h.b.dfr = u
        /\ h.b.shwait /\ h.b.bstate = "SHUTTING_DOWN"
    BY <1>2, <2>1, StartShwaitHas, ZenonT(60) DEF u
  <2>3. Reconfigured(x, h)
    <3>1. h.d.local # "UP"
      BY <2>2
    <3> QED
      BY <1>2, <1>6, <1>8, <2>2, <3>1, Zenon DEF Reconfigured, Calm
  <2>4. Bdata(h) = u /\ ~MidPoll(h)
    BY <2>2 DEF Bdata, MidPoll
  <2>5. Faithful(h)
    BY <1>2, <1>5, <2>2, <2>4, Zenon DEF Faithful
  <2>6. Orderly(h)
    BY <2>2, <2>4, ZenonT(60) DEF Orderly
  <2> QED
    BY <2>3, <2>5, <2>6
<1>9. CASE ~NeedPoll(x) /\ ~NeedShwait(x)
  <2>1. h = y
    BY <1>1, <1>9
  <2>2. Bdata(a) = u
    BY <1>3, <1>9 DEF u
  <2>3. Bdata(h) = u
    <3>1. (h.b.bstate = "STABLE") <=> (x.b.bstate = "STABLE")
      BY <1>2, <1>5, <2>1
    <3> QED
      BY <1>2, <1>4, <2>1, <2>2, <3>1, ZenonT(60) DEF Bdata, a
  <2>4. Faithful(h)
    BY <1>2, <1>5, <2>1, <2>3, Zenon DEF Faithful
  <2>5. Orderly(x) => Orderly(h)
    <3>1. CASE StopShwait(x) /\ x.b.bstate = "SHUTTING_DOWN"
      <4>1. h.b.bstate = "AWAIT_FINAL" /\ ~h.b.shwait
        BY <1>2, <2>1, <3>1, Zenon
      <4>2. ~h.b.dfr.shutdown
        <5>1. h.b.bstate # "STABLE"
          BY <4>1
        <5> QED
          BY <1>5, <1>6, <2>3, <3>1, <5>1, Zenon DEF Bdata
      <4>3. h.b.bstate # "SHUTTING_DOWN"
        BY <4>1
      <4> QED
        BY <4>1, <4>2, <4>3, Zenon DEF Orderly
    <3>2. CASE ~(StopShwait(x) /\ x.b.bstate = "SHUTTING_DOWN")
      <4>1. h.b.bstate = x.b.bstate /\ (h.b.shwait <=> x.b.shwait) /\ h.g = x.g
        BY <1>2, <2>1, <3>2, Zenon
      <4>2. ~MidPoll(h)
        BY <4>1, Zenon DEF MidPoll
      <4>3. x.b.bstate = "SHUTTING_DOWN" => h.d.local = x.d.local
        BY <1>2, <2>1, <3>2, ZenonT(60)
      <4> QED
        BY <4>1, <4>2, <4>3, Zenon DEF Orderly
    <3> QED
      BY <3>1, <3>2
  <2> QED
    BY <1>2, <2>1, <2>4, <2>5, ZenonT(60)
<1> QED
  BY <1>7, <1>8, <1>9

LEMMA ChangeOrders ==
  ASSUME NEW x \in Live, x.b.bstate # "ON_HOLD", NEW h, h = HandleSessionUpdate(x)
  PROVE  Reconfigured(x, h) /\ Faithful(h) /\ (Orderly(x) => Orderly(h))
  BY QueuedChange, ChangeAtOnce

-----------------------------------------------------------------------------
(* Handlers *)

(* What the action properties say of a whole handler. *)
Held(x, y) ==
  x.d.local = "UP" /\ y.d.local = "UP" /\ Harder(x.b.eff, y.b.eff) =>
    x.b.bstate = "AWAIT_NON_FINAL"

Announced(x, y) ==
  /\ y.b.eff.shutdown /\ ~x.b.eff.shutdown => x.d.local = "ADMINDOWN"
  /\ x.d.local = "ADMINDOWN" /\ y.d.local # "ADMINDOWN" => ~y.d.shutdown

Reported(x, y) ==
  y.g.left \/ y.g.told = Now(y) \/ x.b.qd_change \/ x.g.told # Now(x)

Ordered(x, y) ==
  /\ Orderly(y)
  /\ TRUE \notin Shutdowns /\ Calm(x) => Calm(y)
  /\ x.g.left \/ (Held(x, y) /\ Announced(x, y))
Followed(x, y) == Faithful(y) /\ Reported(x, y)

(* Nothing fails but for the room in the socket. *)
Reliable == Faults \cap {"conf", "send", "timer"} = {}

(* bbdd_bpf_got_non_final *)
LEMMA NonFinalOrders ==
  ASSUME NEW x \in Live, NEW y \in GotNonFinal(x)
  PROVE  /\ y.d.shutdown = x.d.shutdown /\ y.g.told = x.g.told /\ (x.g.left => y.g.left)
         /\ Calm(x) => Calm(y)
         /\ y.b.eff.shutdown => x.b.dfr.shutdown
         /\ x.d.local = "ADMINDOWN" /\ y.d.local # "ADMINDOWN" => ~x.d.shutdown
         /\ ~x.b.qd_change => Now(y) = Now(x)
         /\ x.g.left \/ ~x.b.shwait => Orderly(y)
         /\ Reliable /\ (x.b.qd_change \/ (x.d.shutdown <=> x.b.dfr.shutdown)) => Faithful(y)
<1> DEFINE w == [x EXCEPT !.b.eff = x.b.dfr, !.b.bstate = "STABLE", !.b.qd_change = FALSE]
           b == [x.b EXCEPT !.eff = x.b.dfr, !.bstate = "STABLE", !.qd_change = FALSE]
<1>1. w = [d |-> x.d, b |-> b, k |-> x.k, g |-> x.g]
  <2> DEFINE e1 == [x EXCEPT !.b.eff = x.b.dfr]
             b1 == [x.b EXCEPT !.eff = x.b.dfr]
             e2 == [e1 EXCEPT !.b.bstate = "STABLE"]
             b2 == [b1 EXCEPT !.bstate = "STABLE"]
  <2>1. w = [e2 EXCEPT !.b.qd_change = FALSE] /\ b = [b2 EXCEPT !.qd_change = FALSE]
    BY DEF Live, BTypes
  <2>2. e1 = [d |-> x.d, b |-> b1, k |-> x.k, g |-> x.g]
    BY DEF Live
  <2> HIDE DEF e1, b1
  <2>3. e2 = [d |-> x.d, b |-> b2, k |-> x.k, g |-> x.g]
    BY <2>2
  <2> HIDE DEF e2, b2, w, b
  <2> QED
    BY <2>1, <2>3, Zenon
<1>2. /\ b \in BTypes /\ b.eff = x.b.dfr /\ b.bstate = "STABLE" /\ b.shwait = x.b.shwait
      /\ b.dfr = x.b.dfr
  BY Zenon DEF Live, BTypes, BStates
<1>3. PICK z \in {w, HandleSessionUpdate(w)} : /\ y \in CallUpdate(z)
                                               /\ ~x.b.qd_change => z = w
                                               /\ x.b.qd_change /\ Reliable =>
                                                    z = HandleSessionUpdate(w)
  <2> HIDE DEF w
  <2>1. y \in Then(IF x.b.qd_change THEN {HandleSessionUpdate(w)} \cup UpdateRefused(w)
                   ELSE {w}, CallUpdate)
    BY DEF GotNonFinal, w
  <2>2. PICK z \in (IF x.b.qd_change THEN {HandleSessionUpdate(w)} \cup UpdateRefused(w)
                   ELSE {w}) : y \in CallUpdate(z)
    BY <2>1 DEF Then
  <2>3. UpdateRefused(w) \subseteq {w} /\ (Reliable => UpdateRefused(w) = {})
    BY DEF UpdateRefused, Reliable
  <2> QED
    BY <2>2, <2>3
<1> HIDE DEF b, w
<1>4. /\ w \in Live /\ w.d = x.d /\ w.g = x.g /\ w.b.eff = x.b.dfr /\ w.b.bstate = "STABLE"
      /\ w.b.shwait = x.b.shwait
  BY <1>1, <1>2 DEF Live
<1>5. ~MidPoll(w) /\ Bdata(w) = x.b.dfr /\ w.b.bstate # "ON_HOLD" /\ w.b.bstate # "SHUTTING_DOWN"
  BY <1>4 DEF MidPoll, Bdata
<1>6. Now(w) = Now(x) /\ (Calm(x) => Calm(w))
  BY <1>4, Zenon DEF Now, Calm
<1>7. x.g.left \/ ~x.b.shwait => Orderly(w)
  BY <1>4, <1>5, Zenon DEF Orderly
<1>8. (x.d.shutdown <=> x.b.dfr.shutdown) => Faithful(w)
  BY <1>4, <1>5, ZenonT(60) DEF Faithful
<1> DEFINE h == HandleSessionUpdate(w)
<1>9. h \in Live /\ Reconfigured(w, h) /\ Faithful(h) /\ (Orderly(w) => Orderly(h))
  BY <1>4, <1>5, SessionUpdateIs, ChangeOrders
<1>10. /\ z \in Live /\ z.d.shutdown = x.d.shutdown /\ z.g.told = x.g.told
       /\ (x.g.left => z.g.left) /\ (Calm(x) => Calm(z))
       /\ z.b.eff.shutdown => x.b.dfr.shutdown
       /\ x.d.local = "ADMINDOWN" /\ z.d.local # "ADMINDOWN" => ~x.d.shutdown
       /\ ~x.b.qd_change => Now(z) = Now(x)
       /\ x.g.left \/ ~x.b.shwait => Orderly(z)
       /\ Reliable /\ (x.b.qd_change \/ (x.d.shutdown <=> x.b.dfr.shutdown)) => Faithful(z)
  <2> HIDE DEF h
  <2>1. CASE z = w
    <3>1. x.b.qd_change /\ Reliable => w = h
      BY <1>3, <2>1, Zenon DEF h
    <3>2. Reliable /\ (x.b.qd_change \/ (x.d.shutdown <=> x.b.dfr.shutdown)) => Faithful(w)
      BY <1>8, <1>9, <3>1, Zenon
    <3> QED
      BY <1>4, <1>6, <1>7, <2>1, <3>2, Zenon
  <2>2. CASE z = h
    <3>1. ~x.b.qd_change => h = w
      BY <1>3, <2>2, Zenon
    <3>2. /\ h.d.shutdown = x.d.shutdown /\ h.g.told = x.g.told /\ (x.g.left => h.g.left)
          /\ Calm(x) => Calm(h)
      BY <1>4, <1>6, <1>9, Zenon DEF Reconfigured
    <3>3. h.b.eff.shutdown => x.b.dfr.shutdown
      BY <1>4, <1>9, Zenon DEF Reconfigured
    <3>4. x.d.local = "ADMINDOWN" /\ h.d.local # "ADMINDOWN" => ~x.d.shutdown
      BY <1>4, <1>9, ZenonT(60) DEF Reconfigured
    <3> QED
      BY <1>6, <1>7, <1>9, <2>2, <3>1, <3>2, <3>3, <3>4, Zenon
  <2> QED
    BY <1>3, <2>1, <2>2, Zenon DEF h
<1>11. y \in Live /\ Carried(z, y) /\ y.g.left = z.g.left /\ y.g.told = z.g.told
  BY <1>3, <1>10, CallIs, CallKeeps, Zenon
<1>12. (Orderly(z) => Orderly(y)) /\ (Faithful(z) => Faithful(y))
  BY <1>11, OrderCarried
<1>13. y.d = z.d /\ y.b.eff = z.b.eff /\ Now(y) = Now(z) /\ (Calm(z) => Calm(y))
  BY <1>11, Zenon DEF Carried, Now, Calm
<1> QED
  BY <1>10, <1>11, <1>12, <1>13, Zenon

(* ... from a state w that differs from x in the shutdown timer, which     *)
(* does not run any more,                                                  *)
Ending(x, w) ==
  /\ x.g.left \/ MidPoll(x) \/ x.b.bstate = "SHUTTING_DOWN"
  /\ w.d = x.d /\ w.g = x.g /\ w.b.eff = x.b.eff /\ w.b.dfr = x.b.dfr
  /\ w.b.qd_change = x.b.qd_change
  /\ ~w.b.shwait \/ w.b.shwait = x.b.shwait
  /\ w.b.shwait => MidPoll(x)

(* ... to a state z. *)
Ended(x, z) ==
  /\ Orderly(z) /\ (Calm(x) => Calm(z)) /\ (x.g.left => z.g.left)
  /\ z.d.shutdown = x.d.shutdown
  /\ x.g.left \/ Announced(x, z)
  /\ x.b.bstate # "AWAIT_FINAL" => x.g.left \/ Held(x, z)
  /\ Reported(x, z)
  /\ Reliable /\ Faithful(x) => Faithful(z)

LEMMA PollEnds ==
  ASSUME NEW x, NEW w \in Live, NEW z \in GotNonFinal(w), Orderly(x), Ending(x, w)
  PROVE  Ended(x, z)
<1> USE DEF Ending
<1>1. /\ z.d.shutdown = w.d.shutdown /\ z.g.told = w.g.told /\ (w.g.left => z.g.left)
      /\ Calm(w) => Calm(z)
      /\ z.b.eff.shutdown => w.b.dfr.shutdown
      /\ w.d.local = "ADMINDOWN" /\ z.d.local # "ADMINDOWN" => ~w.d.shutdown
      /\ ~w.b.qd_change => Now(z) = Now(w)
      /\ w.g.left \/ ~w.b.shwait => Orderly(z)
      /\ Reliable /\ (w.b.qd_change \/ (w.d.shutdown <=> w.b.dfr.shutdown)) => Faithful(z)
  BY NonFinalOrders, ZenonT(60)
<1>2. /\ MidPoll(x) => x.b.bstate # "SHUTTING_DOWN" /\ x.b.bstate # "STABLE"
      /\ "SHUTTING_DOWN" # "STABLE" /\ "ADMINDOWN" # "UP"
      /\ x.b.bstate # "AWAIT_FINAL" /\ MidPoll(x) => x.b.bstate = "AWAIT_NON_FINAL"
  BY DEF MidPoll
<1>3. Now(w) = Now(x)
  BY Zenon DEF Now
<1>4. Orderly(z)
  BY <1>1, <1>2, Zenon DEF Orderly
<1>5. Calm(x) => Calm(z)
  BY <1>1, Zenon DEF Calm
<1>6. x.g.left \/ Announced(x, z)
  <2> SUFFICES ASSUME ~x.g.left PROVE Announced(x, z)
    OBVIOUS
  <2>1. x.b.dfr.shutdown => x.b.eff.shutdown \/ x.d.local = "ADMINDOWN"
    BY Zenon DEF Orderly
  <2> QED
    BY <1>1, <2>1, ZenonT(60) DEF Announced
<1>7. ASSUME x.b.bstate # "AWAIT_FINAL", ~x.g.left PROVE Held(x, z)
  <2>1. CASE MidPoll(x)
    BY <1>2, <1>7, <2>1, Zenon DEF Held
  <2>2. CASE x.b.bstate = "SHUTTING_DOWN"
    <3>1. x.d.local # "UP"
      BY <1>2, <1>7, <2>2, Zenon DEF Orderly
    <3> QED
      BY <3>1, Zenon DEF Held
  <2> QED
    BY <1>7, <2>1, <2>2
<1>8. Reported(x, z)
  BY <1>1, <1>3, Zenon DEF Reported
<1>9. Reliable /\ Faithful(x) => Faithful(z)
  <2> SUFFICES ASSUME Reliable, Faithful(x), ~x.g.left PROVE Faithful(z)
    BY <1>1, Zenon DEF Faithful
  <2>1. Bdata(x) = x.b.dfr
    BY <1>2, Zenon DEF Bdata
  <2>2. x.b.qd_change \/ (x.d.shutdown <=> x.b.dfr.shutdown)
    BY <2>1, ZenonT(60) DEF Faithful
  <2> QED
    BY <1>1, <2>2, Zenon
<1> QED
  BY <1>1, <1>4, <1>5, <1>6, <1>7, <1>8, <1>9, ZenonT(60) DEF Ended

(* bbdd_bpf_rb_handle_timeout: the session does not stay Up. *)
LEMMA TimedOutOrders ==
  ASSUME NEW x \in Live, NEW y \in TimedOut(x)
  PROVE  /\ y.b.eff = x.b.eff /\ y.d.shutdown = x.d.shutdown /\ y.g.left = x.g.left
         /\ y.d.local # "UP"
         /\ x.d.local = "ADMINDOWN" => y.d.local = "ADMINDOWN"
         /\ y = x \/ y.g.told = Now(y)
         /\ (Orderly(x) => Orderly(y)) /\ (Faithful(x) => Faithful(y))
         /\ Calm(x) => Calm(y)
<1>1. CASE x.d.local \in {"INIT", "UP"}
  <2> DEFINE w == TimeoutState(x)
  <2>1. y \in StateChanged(w)
    BY <1>1 DEF TimedOut, TimeoutState
  <2>2. /\ w \in Live /\ w.b = x.b /\ w.g = x.g /\ w.d.shutdown = x.d.shutdown
        /\ w.d.local = "DOWN"
    BY TimeoutStateIs
  <2>3. x.d.local # "ADMINDOWN" /\ w.d.local # "UP"
    BY <1>1, <2>2
  <2> HIDE DEF w
  <2>4. Carried(w, y) /\ y.g.left = w.g.left /\ y.g.told = Now(y)
    BY <2>1, <2>2, ChangedIs, ChangedKeeps
  <2>5. (Orderly(x) => Orderly(w)) /\ (Faithful(x) => Faithful(w)) /\ (Calm(x) => Calm(w))
    BY <2>2, <2>3, Zenon DEF Orderly, Faithful, Calm, MidPoll, Bdata
  <2>6. (Orderly(w) => Orderly(y)) /\ (Faithful(w) => Faithful(y))
    BY <2>4, OrderCarried
  <2>7. y.d = w.d /\ y.b.eff = w.b.eff /\ (Calm(w) => Calm(y))
    BY <2>4, Zenon DEF Carried, Calm
  <2> QED
    BY <2>2, <2>3, <2>4, <2>5, <2>6, <2>7, Zenon
<1>2. CASE x.d.local \notin {"INIT", "UP"}
  <2>1. y = x
    BY <1>2 DEF TimedOut
  <2>2. x.d.local # "UP"
    BY <1>2
  <2> QED
    BY <2>1, <2>2, Zenon
<1> QED
  BY <1>1, <1>2

LEMMA TimeoutOrders ==
  ASSUME NEW x \in Live, x.d.present, x.b.bstate # "ON_HOLD", Orderly(x),
         NEW y \in HandleTimeout(x)
  PROVE  Ordered(x, y) /\ (Reliable /\ Faithful(x) => Followed(x, y))
<1>1. CASE x.b.bstate = "STABLE"
  <2>1. y \in TimedOut(x)
    BY <1>1 DEF HandleTimeout, MidPoll
  <2>2. /\ y.b.eff = x.b.eff /\ y.d.shutdown = x.d.shutdown /\ y.g.left = x.g.left
        /\ y.d.local # "UP"
        /\ x.d.local = "ADMINDOWN" => y.d.local = "ADMINDOWN"
        /\ y = x \/ y.g.told = Now(y)
        /\ (Orderly(x) => Orderly(y)) /\ (Faithful(x) => Faithful(y))
        /\ Calm(x) => Calm(y)
    BY <2>1, TimedOutOrders
  <2> QED
    BY <2>2, Zenon DEF Ordered, Held, Announced, Followed, Reported
<1>2. ASSUME NEW w \in Live, Ending(x, w), NEW z \in GotNonFinal(w), y \in TimedOut(z)
      PROVE  Ordered(x, y) /\ (Reliable /\ Faithful(x) => Followed(x, y))
  <2>1. /\ Orderly(z) /\ (Calm(x) => Calm(z)) /\ (x.g.left => z.g.left)
        /\ z.d.shutdown = x.d.shutdown
        /\ x.g.left \/ Announced(x, z)
        /\ Reported(x, z)
        /\ Reliable /\ Faithful(x) => Faithful(z)
    <3>1. Ended(x, z)
      BY <1>2, PollEnds, Zenon
    <3> QED
      BY <3>1, Zenon DEF Ended
  <2>2. z \in Live
    BY <1>2, GotNonFinalIs
  <2>3. /\ y.b.eff = z.b.eff /\ y.d.shutdown = z.d.shutdown /\ y.g.left = z.g.left
        /\ y.d.local # "UP"
        /\ z.d.local = "ADMINDOWN" => y.d.local = "ADMINDOWN"
        /\ y = z \/ y.g.told = Now(y)
        /\ (Orderly(z) => Orderly(y)) /\ (Faithful(z) => Faithful(y))
        /\ Calm(z) => Calm(y)
    BY <1>2, <2>2, TimedOutOrders
  <2>4. (x.g.left \/ Announced(x, y)) /\ Held(x, y) /\ Reported(x, y)
    BY <2>1, <2>3, ZenonT(60) DEF Announced, Held, Reported
  <2> QED
    BY <2>1, <2>3, <2>4, ZenonT(60) DEF Ordered, Followed
<1>3. CASE MidPoll(x)
  <2>1. PICK z \in GotNonFinal(x) : y \in TimedOut(z)
    BY <1>3 DEF HandleTimeout, MidPoll, Then
  <2>2. Ending(x, x)
    BY <1>3, Zenon DEF Ending
  <2> QED
    BY <1>2, <2>1, <2>2, Zenon
<1>4. CASE x.b.bstate = "SHUTTING_DOWN"
  <2> DEFINE w == [x EXCEPT !.b.shwait = FALSE]
  <2>1. PICK z \in GotNonFinal(w) : y \in TimedOut(z)
    BY <1>4, Zenon DEF HandleTimeout, MidPoll, Then
  <2>2. /\ w \in Live /\ w.d = x.d /\ w.g = x.g /\ w.b.eff = x.b.eff /\ w.b.dfr = x.b.dfr
        /\ w.b.qd_change = x.b.qd_change /\ ~w.b.shwait
    BY StopShwaitTimer
  <2> HIDE DEF w
  <2>3. Ending(x, w)
    BY <1>4, <2>2, Zenon DEF Ending
  <2> QED
    BY <1>2, <2>1, <2>2, <2>3, Zenon
<1> QED
  BY <1>1, <1>3, <1>4 DEF Live, BTypes, BStates, MidPoll

(* bbdd_bpf_handle_packet: up to the poll sequence, only the state of the  *)
(* session changes.                                                        *)
LEMMA PacketOrders ==
  ASSUME NEW x \in Live, NEW p \in Packets, ~PacketIgnored(x, p), Orderly(x),
         NEW y \in HandlePacket(x, p)
  PROVE  Ordered(x, y) /\ (Reliable /\ Faithful(x) => Followed(x, y))
<1>1. PICK x1 \in InjectRearm(x) :
        \E x2 \in (IF ParsedPacket(x1, p).d # x.d THEN StateChanged(ParsedPacket(x1, p))
                   ELSE {ParsedPacket(x1, p)}) :
        \E x3 \in RespondFinal(x2, p) : PolledOn(x3, y, p)
  BY PacketSteps, ZenonT(60)
<1> DEFINE w == ParsedPacket(x1, p)
<1>2. PICK x2 \in (IF w.d # x.d THEN StateChanged(w) ELSE {w}) :
        \E x3 \in RespondFinal(x2, p) : PolledOn(x3, y, p)
  BY <1>1
<1>3. PICK x3 \in RespondFinal(x2, p) : PolledOn(x3, y, p)
  BY <1>2, ZenonT(60)
<1>4. x1 \in Live /\ x1.d = x.d /\ x1.b = x.b /\ x1.g.left = x.g.left /\ x1.g.told = x.g.told
  BY InjectIs
<1>5. w \in Live /\ w.b = x1.b /\ w.g = x1.g /\ w.d.shutdown = x1.d.shutdown
  BY <1>4, ParsedIs DEF PacketIgnored
<1> HIDE DEF w
<1>6. /\ x2 \in Live /\ x2.d = w.d
      /\ x2.b.bstate = x.b.bstate /\ x2.b.eff = x.b.eff /\ x2.b.dfr = x.b.dfr
      /\ x2.b.qd_change = x.b.qd_change /\ x2.b.shwait = x.b.shwait
      /\ x2.g.left = x.g.left
      /\ x2.g.told = Now(x2) \/ (x2.g.told = x.g.told /\ Now(x2) = Now(x))
  <2>1. CASE w.d # x.d
    <3>1. x2 \in StateChanged(w)
      BY <1>2, <2>1, ZenonT(60)
    <3>2. x2 \in Live /\ Carried(w, x2) /\ x2.g.left = w.g.left /\ x2.g.told = Now(x2)
      BY <1>5, <3>1, ChangedIs, ChangedKeeps, Zenon
    <3> QED
      BY <1>4, <1>5, <3>2, ZenonT(60) DEF Carried
  <2>2. CASE w.d = x.d
    <3>1. x2 = w
      BY <1>2, <2>2, Zenon
    <3> QED
      BY <1>4, <1>5, <2>2, <3>1, ZenonT(60) DEF Now
  <2> QED
    BY <2>1, <2>2
<1>7. /\ x3 \in Live /\ x3.d = x2.d /\ x3.g = x2.g
      /\ x3.b.bstate = x2.b.bstate /\ x3.b.eff = x2.b.eff /\ x3.b.dfr = x2.b.dfr
      /\ x3.b.qd_change = x2.b.qd_change /\ x3.b.shwait = x2.b.shwait
  BY <1>3, <1>6, RespondIs
<1>8. /\ x3.d.shutdown = x.d.shutdown /\ x3.g.left = x.g.left
      /\ x3.b.bstate = x.b.bstate /\ x3.b.eff = x.b.eff /\ x3.b.dfr = x.b.dfr
      /\ x3.b.qd_change = x.b.qd_change /\ x3.b.shwait = x.b.shwait
      /\ x3.g.told = Now(x3) \/ (x3.g.told = x.g.told /\ Now(x3) = Now(x))
  BY <1>4, <1>5, <1>6, <1>7, ZenonT(60) DEF Now
<1>9. x.d.local # "ADMINDOWN" /\ x.b.bstate # "SHUTTING_DOWN"
  BY Zenon DEF PacketIgnored
<1>10. x.g.left \/ ~x.b.shwait
  BY <1>9, Zenon DEF Orderly
<1>11. /\ Orderly(x3) /\ (Calm(x) => Calm(x3)) /\ (Faithful(x) => Faithful(x3))
       /\ Reported(x, x3)
  BY <1>8, <1>10, Zenon DEF Orderly, Calm, Faithful, Reported, MidPoll, Bdata
<1>12. CASE y = x3
  <2>1. ~Harder(x.b.eff, x.b.eff)
    BY NotHarder DEF Live, BTypes
  <2>2. Held(x, y) /\ Announced(x, y)
    BY <1>8, <1>9, <1>12, <2>1, Zenon DEF Held, Announced
  <2> QED
    BY <1>11, <1>12, <2>2, ZenonT(60) DEF Ordered, Followed
<1>13. CASE x3.b.bstate = "AWAIT_FINAL" /\ y \in GotFinal(x3)
  <2> DEFINE v == [x3 EXCEPT !.b.bstate = "AWAIT_NON_FINAL"]
  <2>1. /\ v \in Live /\ v.d = x3.d /\ v.g = x3.g /\ v.b.bstate = "AWAIT_NON_FINAL"
        /\ v.b.eff = x3.b.eff /\ v.b.dfr = x3.b.dfr /\ v.b.qd_change = x3.b.qd_change
        /\ v.b.shwait = x3.b.shwait
    BY <1>7 DEF Live, BTypes, BStates
  <2>2. y \in CallUpdate(v)
    BY <1>13 DEF GotFinal
  <2> HIDE DEF v
  <2>3. /\ y.d = v.d /\ y.b.bstate = v.b.bstate /\ y.b.eff = v.b.eff /\ y.b.dfr = v.b.dfr
        /\ y.b.qd_change = v.b.qd_change /\ y.b.shwait = v.b.shwait
        /\ y.g.left = v.g.left /\ y.g.told = v.g.told
    BY <2>1, <2>2, CallIs, CallKeeps, ZenonT(60) DEF Carried
  <2>4. MidPoll(x3) /\ MidPoll(y) /\ Bdata(y) = Bdata(x3) /\ y.b.bstate # "SHUTTING_DOWN"
    BY <1>13, <2>1, <2>3, Zenon DEF MidPoll, Bdata
  <2>5. Now(y) = Now(x3)
    BY <2>1, <2>3, Zenon DEF Now
  <2>6. Orderly(y)
    BY <1>8, <1>10, <1>11, <2>1, <2>3, <2>4, Zenon DEF Orderly
  <2>7. (Calm(x) => Calm(y)) /\ (Faithful(x) => Faithful(y)) /\ Reported(x, y)
    BY <1>11, <2>1, <2>3, <2>4, <2>5, Zenon DEF Calm, Faithful, Reported
  <2>8. ~Harder(x.b.eff, x.b.eff)
    BY NotHarder DEF Live, BTypes
  <2>9. Held(x, y) /\ Announced(x, y)
    BY <1>8, <1>9, <2>1, <2>3, <2>8, Zenon DEF Held, Announced
  <2> QED
    BY <2>6, <2>7, <2>9, Zenon DEF Ordered, Followed
<1>14. CASE x3.b.bstate = "AWAIT_NON_FINAL" /\ y \in GotNonFinal(x3)
  <2>1. MidPoll(x3) /\ x3.b.bstate # "AWAIT_FINAL" /\ x3 \in Live
    BY <1>7, <1>14 DEF MidPoll
  <2>2. /\ Orderly(y) /\ (Calm(x3) => Calm(y)) /\ (x3.g.left => y.g.left)
        /\ y.d.shutdown = x3.d.shutdown
        /\ x3.g.left \/ Announced(x3, y)
        /\ Reported(x3, y)
        /\ Reliable /\ Faithful(x3) => Faithful(y)
    <3>1. Ending(x3, x3)
      BY <2>1, Zenon DEF Ending
    <3>2. Ended(x3, y)
      BY <1>11, <1>14, <2>1, <3>1, PollEnds, Zenon
    <3> QED
      BY <3>2, Zenon DEF Ended
  <2>3. Held(x, y)
    BY <1>8, <1>14, Zenon DEF Held
  <2>4. x.g.left \/ Announced(x, y)
    <3>1. y.b.eff.shutdown => x3.b.dfr.shutdown
      BY <1>7, <1>14, NonFinalOrders, Zenon
    <3>2. MidPoll(x)
      BY <1>8, <2>1, Zenon DEF MidPoll
    <3> QED
      BY <1>8, <1>9, <3>1, <3>2, Zenon DEF Announced, Orderly
  <2>5. Reported(x, y)
    BY <1>8, <2>2, Zenon DEF Reported
  <2> QED
    BY <1>8, <1>11, <2>2, <2>3, <2>4, <2>5, ZenonT(60) DEF Ordered, Followed
<1> QED
  BY <1>3, <1>12, <1>13, <1>14, ZenonT(60) DEF PolledOn

-----------------------------------------------------------------------------
(* The steps *)

WInv == OnWire => Orderly(State)
FInv == OnWire => Faithful(State)
CInv == dsess.present => Calm(State)

(* What every step does for them and for the action properties. *)
OrderStep ==
  /\ WInv'
  /\ TRUE \notin Shutdowns /\ CInv => CInv'
  /\ OnWire /\ OnWire' => ghost.left \/ (Held(State, State') /\ Announced(State, State'))

FollowStep ==
  /\ FInv'
  /\ OnWire' => \/ ghost'.left \/ ghost'.told = Current'
                \/ OnWire /\ (bsess.qd_change \/ ghost.told # Current)

Steps == OrderStep /\ (Reliable /\ FInv => FollowStep)

(* A handler of a session on the wire that ends in x. *)
LEMMA OrderedStep ==
  ASSUME OnWire, NEW x \in Live, dsess' = x.d, bsess' = x.b, kern' = x.k, ghost' = x.g,
         Ordered(State, x), Reliable /\ Faithful(State) => Followed(State, x)
  PROVE  Steps
<1>1. State' = x
  BY DEF State, Live
<1>2. State.g = ghost /\ State.b = bsess /\ Now(State) = Current
  BY DEF State, Now, Current
<1>3. Now(x) = Current' /\ x.g = ghost'
  BY DEF Now, Current
<1>4. WInv'
  <2>1. Orderly(x)
    BY Zenon DEF Ordered
  <2> QED
    BY <2>1, Zenon DEF WInv, Orderly, MidPoll, State
<1>5. TRUE \notin Shutdowns /\ CInv => CInv'
  <2>1. TRUE \notin Shutdowns /\ Calm(State) => Calm(x)
    BY ZenonT(60) DEF Ordered
  <2>2. Calm(x) => CInv'
    BY DEF CInv, Calm, State
  <2>3. CInv => Calm(State)
    BY DEF CInv, OnWire
  <2> QED
    BY <2>1, <2>2, <2>3, Zenon
<1>6. OrderStep
  <2>1. ghost.left \/ (Held(State, x) /\ Announced(State, x))
    BY <1>2, Zenon DEF Ordered
  <2> QED
    BY <1>1, <1>4, <1>5, <2>1, Zenon DEF OrderStep
<1>7. ASSUME Reliable, FInv PROVE FollowStep
  <2>1. Faithful(x) /\ Reported(State, x)
    BY <1>7, ZenonT(60) DEF FInv, Followed
  <2>2. FInv'
    BY <2>1, Zenon DEF FInv, Faithful, MidPoll, Bdata, State
  <2> QED
    BY <1>2, <1>3, <2>1, <2>2, Zenon DEF FollowStep, Reported
<1> QED
  BY <1>6, <1>7, Zenon DEF Steps

(* Steps that leave what they are about alone. *)
LEMMA OrderAside ==
  ASSUME IInv, WInv, UNCHANGED dsess,
         bsess'.bstate = bsess.bstate, bsess'.eff = bsess.eff, bsess'.dfr = bsess.dfr,
         bsess'.qd_change = bsess.qd_change, bsess'.shwait = bsess.shwait,
         ghost'.left = ghost.left, ghost'.told = ghost.told
  PROVE  Steps
<1>1. (OnWire' <=> OnWire) /\ Current' = Current
  BY DEF OnWire, Current
<1>2. WInv'
  BY ZenonT(60) DEF WInv, OnWire, Orderly, MidPoll, State
<1>3. CInv => CInv'
  BY ZenonT(60) DEF CInv, Calm, State
<1>4. ~Harder(bsess.eff, bsess.eff)
  BY NotHarder DEF IInv, Types, BTypes
<1>5. /\ State'.d = dsess /\ State.d = dsess /\ State.b = bsess
      /\ State'.b.eff = bsess.eff
  BY DEF State
<1>6. Held(State, State') /\ Announced(State, State')
  BY <1>4, <1>5, ZenonT(60) DEF Held, Announced
<1>7. FInv => FInv'
  BY Zenon DEF FInv, OnWire, Faithful, MidPoll, Bdata, State
<1> QED
  BY <1>1, <1>2, <1>3, <1>6, <1>7, ZenonT(60) DEF Steps, OrderStep, FollowStep

LEMMA AddOrders ==
  ASSUME IInv, NEW t \in Timings, NEW sh \in Shutdowns, SessionAdd(t, sh)
  PROVE  Steps
<1>1. dsess' = NewDsess(TRUE, t, sh) /\ bsess' = NewBsess(TRUE)
  BY DEF SessionAdd
<1>2. ~OnWire'
  BY <1>1 DEF NewBsess, OnWire
<1>3. ASSUME TRUE \notin Shutdowns, CInv PROVE CInv'
  <2>1. sh = FALSE
    BY <1>3, SessionAssumption, ZenonT(60)
  <2>2. ~dsess'.shutdown /\ ~bsess'.shwait
    BY <1>1, <2>1 DEF NewDsess, NewBsess
  <2>3. ~ghost'.left
    BY DEF SessionAdd, IInv, Types, GTypes
  <2> QED
    BY <2>2, <2>3 DEF CInv, Calm, State
<1> QED
  BY <1>2, <1>3, Zenon DEF Steps, OrderStep, FollowStep, WInv, FInv

LEMMA DelOrders ==
  ASSUME SessionDel
  PROVE  Steps
<1>1. ~dsess'.present /\ ~OnWire'
  BY DEF SessionDel, NewDsess, OnWire
<1> QED
  BY <1>1, Zenon DEF Steps, OrderStep, FollowStep, WInv, FInv, CInv

(* bbdd_bpf_hold_timer_cb makes effective what the user wants. *)
LEMMA HoldTimerOrders ==
  ASSUME IInv, HoldTimer
  PROVE  Steps
<1> DEFINE u == UserBdata(State)
           x == [State EXCEPT !.b.eff = u, !.b.bstate = "STABLE"]
           b == [bsess EXCEPT !.eff = u, !.bstate = "STABLE"]
<1>1. dsess.present /\ bsess.hold
  BY DEF IInv, Absent, HoldTimer, NewBsess
<1>2. State \in Live /\ ~bsess.shwait /\ ~OnWire
  BY <1>1, StateLive, Zenon DEF IInv, Hold, OnWire
<1>3. u \in Datas /\ u.shutdown = dsess.shutdown
  BY <1>2, UserBdataType DEF UserBdata, State
<1>4. PICK y \in StateChanged(x) :
        LET z == [y EXCEPT !.b.hold = FALSE]
        IN  dsess' = z.d /\ bsess' = z.b /\ kern' = z.k /\ ghost' = z.g
  BY Zenon DEF HoldTimer, Become
<1> HIDE DEF u
<1>5. x = [d |-> dsess, b |-> b, k |-> kern, g |-> ghost]
  <2> DEFINE x1 == [State EXCEPT !.b.eff = u]
             b1 == [bsess EXCEPT !.eff = u]
  <2>1. x1 = [d |-> dsess, b |-> b1, k |-> kern, g |-> ghost]
    BY DEF State
  <2> HIDE DEF x1, b1
  <2>2. [x1 EXCEPT !.b.bstate = "STABLE"] =
        [d |-> dsess, b |-> [b1 EXCEPT !.bstate = "STABLE"], k |-> kern, g |-> ghost]
    BY <2>1
  <2> QED
    BY <2>2 DEF x1, b1
<1>6. b \in BTypes /\ b.eff = u /\ b.bstate = "STABLE" /\ b.shwait = bsess.shwait
  BY <1>3, Zenon DEF IInv, Types, BTypes, BStates
<1> HIDE DEF b, x
<1>7. x \in Live
  BY <1>2, <1>5, <1>6, Zenon DEF Live, State
<1>8. y \in Live /\ Carried(x, y) /\ y.g.left = x.g.left /\ y.g.told = Now(y)
  BY <1>4, <1>7, ChangedIs, ChangedKeeps
<1> DEFINE c == [y.b EXCEPT !.hold = FALSE]
<1>9. [y EXCEPT !.b.hold = FALSE] = [d |-> y.d, b |-> c, k |-> y.k, g |-> y.g]
  BY <1>8, SetHold, Zenon
<1>10. c.bstate = y.b.bstate /\ c.eff = y.b.eff /\ c.shwait = y.b.shwait
  BY <1>8, ZenonT(60) DEF Live, BTypes
<1> HIDE DEF c
<1>11. dsess' = y.d /\ bsess' = c /\ ghost' = y.g
  BY <1>4, <1>9
<1>12. /\ dsess' = dsess /\ bsess'.bstate = "STABLE" /\ bsess'.eff.shutdown = dsess.shutdown
       /\ ~bsess'.shwait /\ ghost'.left = ghost.left /\ ghost'.told = Current'
  BY <1>2, <1>3, <1>5, <1>6, <1>8, <1>10, <1>11, ZenonT(60) DEF Carried, Now, Current
<1>13. WInv' /\ FInv' /\ (CInv => CInv')
  <2>1. Orderly(State)' /\ Faithful(State)'
    BY <1>12, ZenonT(60) DEF Orderly, Faithful, MidPoll, Bdata, State
  <2>2. CInv => CInv'
    BY <1>12 DEF CInv, Calm, State
  <2> QED
    BY <2>1, <2>2, ZenonT(60) DEF WInv, FInv
<1> QED
  BY <1>2, <1>12, <1>13, Zenon DEF Steps, OrderStep, FollowStep

(* The callback of a shutdown timer, from the state x in which it finds    *)
(* the session.                                                            *)
LEMMA ShwaitOrders ==
  ASSUME IInv, WInv, OnWire, bsess.shwait, NEW x \in Live,
         x.d = dsess, x.g = ghost, x.b.bstate = bsess.bstate, x.b.eff = bsess.eff,
         x.b.dfr = bsess.dfr, x.b.qd_change = bsess.qd_change, x.b.shwait = bsess.shwait,
         Become(GotNonFinal([x EXCEPT !.b.shwait = FALSE]))
  PROVE  Steps
<1> DEFINE w == [x EXCEPT !.b.shwait = FALSE]
<1>1. /\ w \in Live /\ w.d = dsess /\ w.g = ghost /\ w.b.eff = bsess.eff
      /\ w.b.dfr = bsess.dfr /\ w.b.qd_change = bsess.qd_change /\ ~w.b.shwait
  BY StopShwaitTimer
<1>2. PICK y \in GotNonFinal(w) : dsess' = y.d /\ bsess' = y.b /\ kern' = y.k /\ ghost' = y.g
  BY DEF Become
<1> HIDE DEF w
<1>3. Orderly(State) /\ State.d = dsess /\ State.b = bsess /\ State.g = ghost
  BY DEF WInv, State
<1>4. State.g.left \/ State.b.bstate = "SHUTTING_DOWN"
  BY <1>3, Zenon DEF Orderly
<1>5. State.b.bstate = "SHUTTING_DOWN" => State.b.bstate # "AWAIT_FINAL"
  OBVIOUS
<1> HIDE DEF State
<1>6. /\ Orderly(y) /\ (Calm(State) => Calm(y)) /\ (State.g.left => y.g.left)
      /\ State.g.left \/ Announced(State, y)
      /\ State.b.bstate # "AWAIT_FINAL" => State.g.left \/ Held(State, y)
      /\ Reported(State, y)
      /\ Reliable /\ Faithful(State) => Faithful(y)
  <2>1. Ending(State, w)
    BY <1>1, <1>3, <1>4, Zenon DEF Ending
  <2>2. Ended(State, y)
    BY <1>1, <1>2, <1>3, <2>1, PollEnds, Zenon
  <2> QED
    BY <2>2, Zenon DEF Ended
<1>7. Ordered(State, y) /\ (Reliable /\ Faithful(State) => Followed(State, y))
  BY <1>4, <1>5, <1>6, Zenon DEF Ordered, Followed
<1>8. y \in Live
  BY <1>1, <1>2, GotNonFinalIs
<1> QED
  BY <1>2, <1>7, <1>8, OrderedStep

LEMMA ShwaitTimerOrders ==
  ASSUME IInv, WInv, ShwaitTimer
  PROVE  Steps
<1>1. OnWire /\ dsess.present /\ bsess.shwait
  BY Zenon DEF ShwaitTimer, IInv, Absent, Hold, NewBsess, OnWire
<1>2. State \in Live
  BY <1>1, StateLive DEF IInv
<1>3. Become(GotNonFinal([State EXCEPT !.b.shwait = FALSE]))
  BY DEF ShwaitTimer
<1>4. State.d = dsess /\ State.b = bsess /\ State.g = ghost
  BY DEF State
<1> HIDE DEF State
<1> QED
  BY <1>1, <1>2, <1>3, <1>4, ShwaitOrders, Zenon

LEMMA LeakedTimerOrders ==
  ASSUME IInv, WInv, LeakedTimer
  PROVE  Steps
<1> DEFINE x == [State EXCEPT !.b.leaked = @ - 1]
           b == [bsess EXCEPT !.leaked = bsess.leaked - 1]
<1>1. bsess.leaked > 0
  BY DEF LeakedTimer
<1>2. x = [d |-> dsess, b |-> b, k |-> kern, g |-> ghost]
  BY DEF State
<1>3. /\ b \in BTypes /\ b.bstate = bsess.bstate /\ b.eff = bsess.eff /\ b.dfr = bsess.dfr
      /\ b.qd_change = bsess.qd_change /\ b.shwait = bsess.shwait
  BY <1>1 DEF IInv, Types, BTypes
<1>4. CASE bsess.shwait
  <2>1. dsess.present /\ OnWire
    BY <1>4, Zenon DEF IInv, Absent, Hold, NewBsess, OnWire
  <2>2. Become(GotNonFinal([x EXCEPT !.b.shwait = FALSE]))
    BY <1>4 DEF LeakedTimer
  <2> HIDE DEF b, x
  <2>3. x \in Live
    BY <1>2, <1>3, <2>1, StateLive DEF IInv, Live, State
  <2> QED
    BY <1>2, <1>3, <1>4, <2>1, <2>2, <2>3, ShwaitOrders, ZenonT(60)
<1>5. CASE ~bsess.shwait
  <2> DEFINE g == [ghost EXCEPT !.crashed = TRUE]
  <2>1. [x EXCEPT !.g.crashed = TRUE] = [d |-> dsess, b |-> b, k |-> kern, g |-> g]
    <3> HIDE DEF x, b
    <3>1. ASSUME NEW v
          PROVE  [x EXCEPT !.g.crashed = v] =
                 [d |-> dsess, b |-> b, k |-> kern, g |-> [ghost EXCEPT !.crashed = v]]
      BY <1>2
    <3> QED
      BY <3>1, Zenon
  <2>2. dsess' = dsess /\ bsess' = b /\ ghost' = g
    <3> DEFINE z == [x EXCEPT !.g.crashed = TRUE]
    <3>1. Become({z})
      BY <1>5 DEF LeakedTimer
    <3> HIDE DEF b, g, z
    <3>2. dsess' = z.d /\ bsess' = z.b /\ ghost' = z.g
      BY <3>1 DEF Become
    <3> QED
      BY <2>1, <3>2, Zenon DEF z
  <2>3. g.left = ghost.left /\ g.told = ghost.told
    BY DEF IInv, Types, GTypes
  <2> HIDE DEF b, g, x
  <2> QED
    BY <1>3, <2>2, <2>3, OrderAside
<1> QED
  BY <1>4, <1>5

LEMMA DrainPeriodicOrders ==
  ASSUME IInv, WInv, DrainPeriodic
  PROVE  Steps
<1> DEFINE x == [State EXCEPT !.b.periodic_slot = FALSE]
           b == [bsess EXCEPT !.periodic_slot = FALSE]
<1>1. dsess.present
  BY Zenon DEF DrainPeriodic, IInv, Absent, NewBsess
<1>2. State \in Live
  BY <1>1, StateLive DEF IInv
<1>3. x = [d |-> dsess, b |-> b, k |-> kern, g |-> ghost]
  <2>1. ASSUME NEW v
        PROVE  [State EXCEPT !.b.periodic_slot = v] =
               [d |-> dsess, b |-> [bsess EXCEPT !.periodic_slot = v], k |-> kern, g |-> ghost]
    BY DEF State
  <2> QED
    BY <2>1, Zenon
<1>4. /\ b \in BTypes /\ b.bstate = bsess.bstate /\ b.eff = bsess.eff /\ b.dfr = bsess.dfr
      /\ b.qd_change = bsess.qd_change /\ b.shwait = bsess.shwait
  BY Zenon DEF IInv, Types, BTypes
<1>5. PICK y \in {UpdateNow(x)} \cup UpdateFail(x) :
        dsess' = y.d /\ bsess' = y.b /\ kern' = y.k /\ ghost' = y.g
  BY DEF DrainPeriodic, Become
<1> HIDE DEF x, b
<1>6. x \in Live
  BY <1>2, <1>3, <1>4 DEF Live, State
<1>7. y \in CallUpdate(x)
  BY <1>5 DEF CallUpdate, UpdateOk
<1>8. Carried(x, y) /\ y.g.left = x.g.left /\ y.g.told = x.g.told
  BY <1>6, <1>7, CallIs, CallKeeps
<1>9. /\ dsess' = dsess /\ bsess'.bstate = bsess.bstate /\ bsess'.eff = bsess.eff
      /\ bsess'.dfr = bsess.dfr /\ bsess'.qd_change = bsess.qd_change
      /\ bsess'.shwait = bsess.shwait /\ ghost'.left = ghost.left /\ ghost'.told = ghost.told
  BY <1>3, <1>4, <1>5, <1>8, Zenon DEF Carried
<1> QED
  BY <1>9, OrderAside

(* bbdd_d_handle_session_set.  When the configuration does not change,     *)
(* nobody is told, and there is nothing to tell.                           *)
LEMMA SetOrders ==
  ASSUME IInv, WInv, NEW t \in Timings, NEW sh \in Shutdowns, SessionSet(t, sh)
  PROVE  Steps
<1> DEFINE x == [State EXCEPT !.d.timing = t, !.d.shutdown = sh]
           d == [dsess EXCEPT !.timing = t, !.shutdown = sh]
           Tells(y) == IF x.d # dsess THEN Tell(y) ELSE {y}
           Pushes(y) == Then(UpdateOk(y), Tells) \cup UpdateFail(y)
<1>1. State \in Live /\ dsess.present
  BY StateLive DEF SessionSet, IInv
<1>2. sh \in BOOLEAN
  BY SessionAssumption
<1>3. /\ d \in DTypes /\ d.local = dsess.local /\ d.remote = dsess.remote
      /\ d.shutdown = sh /\ d.present = dsess.present
  BY <1>2, Zenon DEF IInv, Types, DTypes
<1>4. x = [d |-> d, b |-> bsess, k |-> kern, g |-> ghost]
  <2> DEFINE x1 == [State EXCEPT !.d.timing = t]
             d1 == [dsess EXCEPT !.timing = t]
  <2>1. x1 = [d |-> d1, b |-> bsess, k |-> kern, g |-> ghost]
    BY DEF State
  <2> HIDE DEF x1, d1
  <2>2. [x1 EXCEPT !.d.shutdown = sh] =
        [d |-> [d1 EXCEPT !.shutdown = sh], b |-> bsess, k |-> kern, g |-> ghost]
    BY <2>1
  <2> QED
    BY <2>2 DEF x1, d1
<1>5. PICK y \in (IF bsess.bstate = "ON_HOLD" THEN {x}
                  ELSE Pushes(HandleSessionUpdate(x)) \cup UpdateRefused(x)) :
        dsess' = y.d /\ bsess' = y.b /\ kern' = y.k /\ ghost' = y.g
  BY ZenonT(60) DEF SessionSet, Become
<1> HIDE DEF d, x, Tells, Pushes
<1>6. x \in Live /\ x.d = d /\ x.b = bsess /\ x.g = ghost
  BY <1>1, <1>3, <1>4, ZenonT(60) DEF Live, State
<1>7. State.d = dsess /\ State.b = bsess /\ State.g = ghost
  BY DEF State
<1>8. TRUE \notin Shutdowns /\ Calm(State) => Calm(x)
  <2>1. TRUE \notin Shutdowns => ~sh
    BY <1>2, Zenon
  <2> QED
    BY <1>3, <1>6, <1>7, <2>1, Zenon DEF Calm
<1>9. CASE bsess.bstate = "ON_HOLD"
  <2>1. y = x
    BY <1>5, <1>9
  <2>2. ~OnWire /\ ~OnWire'
    BY <1>5, <1>6, <1>9, <2>1 DEF OnWire
  <2>3. TRUE \notin Shutdowns /\ CInv => CInv'
    <3>1. Calm(x) => CInv'
      BY <1>5, <2>1 DEF CInv, Calm, State
    <3> QED
      BY <1>1, <1>8, <3>1, Zenon DEF CInv
  <2> QED
    BY <2>2, <2>3, Zenon DEF Steps, OrderStep, FollowStep, WInv, FInv
<1>10. CASE bsess.bstate # "ON_HOLD"
  <2>1. OnWire /\ Orderly(State)
    BY <1>1, <1>10 DEF WInv, OnWire
  <2>2. Orderly(x) /\ Now(x) = Now(State)
    BY <1>3, <1>6, <1>7, <2>1, Zenon DEF Orderly, MidPoll, Now
  <2>3. ~Harder(bsess.eff, bsess.eff)
    BY NotHarder DEF IInv, Types, BTypes
  <2>4. CASE y \in UpdateRefused(x)
    <3>1. y = x /\ ~Reliable
      BY <2>4 DEF UpdateRefused, Reliable
    <3>2. Held(State, x) /\ Announced(State, x)
      BY <1>3, <1>6, <1>7, <2>3, Zenon DEF Held, Announced
    <3>3. Ordered(State, x)
      BY <1>8, <2>2, <3>2, ZenonT(60) DEF Ordered
    <3> QED
      BY <1>5, <1>6, <2>1, <3>1, <3>3, OrderedStep
  <2>5. CASE y \in Pushes(HandleSessionUpdate(x))
    <3> DEFINE h == HandleSessionUpdate(x)
    <3>1. h \in Live /\ Reconfigured(x, h) /\ Faithful(h) /\ Orderly(h)
      BY <1>6, <1>10, <2>2, SessionUpdateIs, ChangeOrders, ZenonT(60)
    <3>2. PICK z \in CallUpdate(h) : /\ y \in Tell(z) \/ y = z
                                     /\ Reliable /\ d # dsess => y \in Tell(z)
      <4> HIDE DEF h
      <4>1. CASE y \in UpdateFail(h)
        <5>1. ~Reliable
          BY <4>1 DEF UpdateFail, Reliable
        <5> QED
          BY <4>1, <5>1 DEF CallUpdate
      <4>2. CASE y \in Then(UpdateOk(h), Tells)
        <5>1. PICK z \in UpdateOk(h) : y \in Tells(z)
          BY <4>2 DEF Then
        <5> QED
          BY <1>6, <5>1 DEF CallUpdate, Tells
      <4> QED
        BY <2>5, <4>1, <4>2 DEF h, Pushes
    <3> HIDE DEF h
    <3>3. z \in Live /\ Carried(h, z) /\ z.g.left = h.g.left /\ z.g.told = h.g.told
      BY <3>1, <3>2, CallIs, CallKeeps
    <3>4. /\ y \in Live /\ y.d = h.d /\ y.b.eff = h.b.eff /\ y.b.shwait = h.b.shwait
          /\ y.g.left = h.g.left
          /\ Carried(h, y)
          /\ y.g.told = h.g.told \/ y.g.told = Now(y)
          /\ y \in Tell(z) => y.g.told = Now(y)
      <4>1. CASE y \in Tell(z)
        <5>1. /\ y \in Live /\ Carried(z, y) /\ y.g.left = z.g.left /\ y.g.told = Now(z)
              /\ y.d = z.d
          BY <3>3, <4>1, TellIs, TellKeeps
        <5> QED
          BY <3>3, <5>1, ZenonT(60) DEF Carried, Now
      <4>2. CASE y = z
        <5>1. y \in Tell(z) => y.g.told = Now(y)
          BY <3>3, <4>2, TellKeeps
        <5> QED
          BY <3>3, <4>2, <5>1, ZenonT(60) DEF Carried
      <4> QED
        BY <3>2, <4>1, <4>2, ZenonT(60)
    <3>5. Orderly(y) /\ Faithful(y)
      BY <3>1, <3>4, OrderCarried
    <3>6. Calm(h) => Calm(y)
      BY <3>4, Zenon DEF Calm
    <3>7. Held(State, y) /\ Announced(State, y)
      BY <1>3, <1>6, <1>7, <3>1, <3>4, Zenon DEF Held, Announced, Reconfigured
    <3>8. Ordered(State, y)
      BY <1>8, <3>1, <3>5, <3>6, <3>7, Zenon DEF Ordered, Reconfigured
    <3>9. ASSUME Reliable, Faithful(State) PROVE Reported(State, y)
      <4>1. CASE d # dsess
        BY <3>2, <3>4, <3>9, <4>1, Zenon DEF Reported
      <4>2. CASE d = dsess
        <5>1. Faithful(x)
          BY <1>6, <1>7, <3>9, <4>2, Zenon DEF Faithful, MidPoll, Bdata
        <5>2. x.g.left \/ MidPoll(x) \/ (~NeedShwait(x) /\ ~StopShwait(x))
          BY <5>1, Zenon DEF Faithful, NeedShwait, StopShwait
        <5>3. x.g.left \/ Now(y) = Now(x)
          <6>1. Now(y) = Now(h)
            BY <3>4, Zenon DEF Now
          <6> QED
            BY <3>1, <5>2, <6>1, Zenon DEF Reconfigured
        <5>4. x.g.left => y.g.left
          BY <3>1, <3>4, Zenon DEF Reconfigured
        <5>5. h.g.told = x.g.told
          BY <3>1, Zenon DEF Reconfigured
        <5> QED
          BY <1>6, <1>7, <2>2, <3>4, <5>3, <5>4, <5>5, Zenon DEF Reported
      <4> QED
        BY <4>1, <4>2
    <3>10. Reliable /\ Faithful(State) => Followed(State, y)
      BY <3>5, <3>9, Zenon DEF Followed
    <3> QED
      BY <1>5, <2>1, <3>4, <3>8, <3>10, OrderedStep, ZenonT(60)
  <2> QED
    BY <1>5, <1>10, <2>4, <2>5
<1> QED
  BY <1>9, <1>10

LEMMA EventOrders ==
  ASSUME IInv, WInv, HandleEvent
  PROVE  Steps
<1> DEFINE e == Head(ring)
<1>1. /\ ring # <<>>
      /\ Become(IF e = Timeout THEN HandleTimeout(State) ELSE HandlePacket(State, e.pkt))
  BY DEF HandleEvent
<1>2. e \in Events
  BY <1>1, HeadTail DEF IInv, Types
<1> HIDE DEF e
<1>3. ASSUME NEW y, dsess' = y.d, bsess' = y.b, ghost' = y.g,
             y = State \/ y = [State EXCEPT !.g.crashed = TRUE]
      PROVE  Steps
  <2>1. y.d = dsess /\ y.b = bsess
    BY <1>3 DEF State
  <2>2. y.g.left = ghost.left /\ y.g.told = ghost.told
    BY <1>3 DEF State, IInv, Types, GTypes
  <2> QED
    BY <1>3, <2>1, <2>2, OrderAside
<1>4. CASE e = Timeout
  <2>1. PICK y \in HandleTimeout(State) :
          dsess' = y.d /\ bsess' = y.b /\ kern' = y.k /\ ghost' = y.g
    BY <1>1, <1>4 DEF Become
  <2>2. CASE ~dsess.present
    <3>1. y = State
      BY <2>1, <2>2, Zenon DEF HandleTimeout, State
    <3> QED
      BY <1>3, <2>1, <3>1
  <2>3. CASE dsess.present /\ bsess.bstate = "ON_HOLD"
    <3>1. y = [State EXCEPT !.g.crashed = TRUE]
      BY <2>1, <2>3, ZenonT(60) DEF HandleTimeout, State, MidPoll
    <3> QED
      BY <1>3, <2>1, <3>1, ZenonT(60)
  <2>4. CASE OnWire
    <3>1. State \in Live /\ Pushed(State) /\ State.d.present /\ State.b.bstate # "ON_HOLD"
          /\ Orderly(State)
      BY <2>4, StateLive DEF IInv, Wire, OnWire, WInv, State
    <3>2. y \in Live
      BY <2>1, <3>1, TimeoutIs
    <3>3. Ordered(State, y) /\ (Reliable /\ Faithful(State) => Followed(State, y))
      BY <2>1, <3>1, TimeoutOrders
    <3> QED
      BY <2>1, <2>4, <3>2, <3>3, OrderedStep
  <2> QED
    BY <2>2, <2>3, <2>4 DEF OnWire
<1>5. CASE e # Timeout
  <2>0. e.pkt \in Packets
    BY <1>2, <1>5, EventType
  <2>1. PICK y \in HandlePacket(State, e.pkt) :
          dsess' = y.d /\ bsess' = y.b /\ kern' = y.k /\ ghost' = y.g
    BY <1>1, <1>5 DEF Become
  <2>2. CASE PacketIgnored(State, e.pkt)
    <3>1. y = State
      BY <2>1, <2>2 DEF HandlePacket
    <3> QED
      BY <1>3, <2>1, <3>1
  <2>3. CASE ~PacketIgnored(State, e.pkt)
    <3>1. OnWire
      BY <2>3 DEF PacketIgnored, State, OnWire
    <3>2. State \in Live /\ Pushed(State) /\ Orderly(State)
      BY <3>1, StateLive DEF IInv, Wire, OnWire, WInv
    <3>3. y \in Live
      BY <2>0, <2>1, <2>3, <3>2, PacketIs
    <3>4. Ordered(State, y) /\ (Reliable /\ Faithful(State) => Followed(State, y))
      BY <2>0, <2>1, <2>3, <3>2, PacketOrders
    <3> QED
      BY <2>1, <3>1, <3>3, <3>4, OrderedStep
  <2> QED
    BY <2>2, <2>3
<1> QED
  BY <1>4, <1>5

(* An event that is lost is not part of it. *)
LEMMA NotifyOrders ==
  ASSUME IInv, WInv, NEW e, Notify(e) \/ UNCHANGED ghost, UNCHANGED <<dsess, bsess>>
  PROVE  Steps
<1>1. ghost'.left = ghost.left /\ ghost'.told = ghost.told
  <2>1. ghost \in GTypes
    BY DEF IInv, Types
  <2> DEFINE l == ghost.lost \/ e = Timeout
  <2>2. ghost' = ghost \/ ghost' = [ghost EXCEPT !.lost = l]
    BY DEF Notify
  <2> HIDE DEF l
  <2> QED
    BY <2>1, <2>2 DEF GTypes
<1> QED
  BY <1>1, OrderAside

LEMMA NextOrders == IInv /\ WInv /\ [Next]_vars => Steps
<1> SUFFICES ASSUME IInv, WInv, [Next]_vars PROVE Steps
  OBVIOUS
<1>1. CASE \E t \in Timings, sh \in Shutdowns : SessionAdd(t, sh)
  BY <1>1, AddOrders
<1>2. CASE \E t \in Timings, sh \in Shutdowns : SessionSet(t, sh)
  BY <1>2, SetOrders
<1>3. CASE SessionDel
  BY <1>3, DelOrders
<1>4. CASE HoldTimer
  BY <1>4, HoldTimerOrders
<1>5. CASE ShwaitTimer
  BY <1>5, ShwaitTimerOrders
<1>6. CASE LeakedTimer
  BY <1>6, LeakedTimerOrders
<1>7. CASE DrainPeriodic
  BY <1>7, DrainPeriodicOrders
<1>8. CASE DrainFinal
  <2>1. /\ bsess'.bstate = bsess.bstate /\ bsess'.eff = bsess.eff /\ bsess'.dfr = bsess.dfr
        /\ bsess'.qd_change = bsess.qd_change /\ bsess'.shwait = bsess.shwait
        /\ UNCHANGED <<dsess, ghost>>
    BY <1>8 DEF DrainFinal, IInv, Types, BTypes
  <2> QED
    BY <2>1, OrderAside
<1>9. CASE HandleEvent
  BY <1>9, EventOrders
<1>10. CASE \E p \in Packets : Recv(p)
  <2>1. PICK p \in Packets : Recv(p)
    BY <1>10
  <2>2. UNCHANGED <<dsess, bsess>> /\ (Notify(Unexpected(p)) \/ UNCHANGED ghost)
    BY <2>1 DEF Recv
  <2> QED
    BY <2>2, NotifyOrders
<1>11. CASE TimerExpires
  BY <1>11, NotifyOrders DEF TimerExpires
<1>12. CASE UNCHANGED vars
  BY <1>12, NotifyOrders DEF vars
<1> QED
  BY <1>1, <1>2, <1>3, <1>4, <1>5, <1>6, <1>7, <1>8, <1>9, <1>10, <1>11, <1>12 DEF Next

LEMMA AlwaysOrderly == Spec => [](IInv /\ WInv)
<1>1. Init => WInv
  BY DEF Init, NewDsess, WInv, OnWire
<1>2. IInv /\ WInv /\ [Next]_vars => WInv'
  BY NextOrders, Zenon DEF Steps, OrderStep
<1> QED
  BY <1>1, <1>2, Inductive, PTL DEF Spec

-----------------------------------------------------------------------------
(* Theorems *)

(* A shutdown of a session on the wire becomes effective, and the session  *)
(* silent, only from AdminDown, and AdminDown is left only when the user   *)
(* enables the session: in every interleaving of requests, packets, the    *)
(* shutdown timer and timeouts, whatever push or allocation fails.         *)
THEOREM ShutdownAnnounced == Spec => ShutdownIsAnnounced
<1>1. IInv /\ WInv /\ [Next]_vars =>
        [OnWire /\ OnWire' /\ ~ghost.left =>
           /\ bsess'.eff.shutdown /\ ~bsess.eff.shutdown => dsess.local = "ADMINDOWN"
           /\ dsess.local = "ADMINDOWN" /\ dsess'.local # "ADMINDOWN" => ~dsess'.shutdown]_vars
  <2> SUFFICES ASSUME IInv, WInv, [Next]_vars, OnWire, OnWire', ~ghost.left
               PROVE  /\ bsess'.eff.shutdown /\ ~bsess.eff.shutdown =>
                           dsess.local = "ADMINDOWN"
                      /\ dsess.local = "ADMINDOWN" /\ dsess'.local # "ADMINDOWN" =>
                           ~dsess'.shutdown
    BY Zenon
  <2>1. Announced(State, State')
    BY NextOrders, Zenon DEF Steps, OrderStep
  <2> QED
    BY <2>1 DEF Announced, State
<1> QED
  BY <1>1, AlwaysOrderly, PTL DEF Spec, ShutdownIsAnnounced

(* RFC 5880 6.8.3: while a session stays Up, a longer transmit interval or *)
(* a shorter receive interval takes effect only in the handler that ends a *)
(* poll sequence whose Final was received, unless a shutdown timer was     *)
(* left behind.                                                            *)
EffHeldUnlessLeft ==
  [][ /\ dsess.present /\ dsess'.present /\ ~ghost.left
      /\ dsess.local = "UP" /\ dsess'.local = "UP"
      /\ Harder(bsess.eff, bsess'.eff)
      => bsess.bstate = "AWAIT_NON_FINAL"]_vars

(* It holds of every session, shut down or not, whatever fails: the        *)
(* comment on apply_imm in bbdd_bpf_handle_session_update.                 *)
THEOREM EffHeldWhileUp == Spec => EffHeldUnlessLeft
<1>1. IInv /\ WInv /\ [Next]_vars =>
        [ /\ dsess.present /\ dsess'.present /\ ~ghost.left
          /\ dsess.local = "UP" /\ dsess'.local = "UP"
          /\ Harder(bsess.eff, bsess'.eff)
          => bsess.bstate = "AWAIT_NON_FINAL"]_vars
  <2> SUFFICES ASSUME IInv, WInv, [Next]_vars, dsess.present, dsess'.present, ~ghost.left,
                      dsess.local = "UP", dsess'.local = "UP", Harder(bsess.eff, bsess'.eff)
               PROVE  bsess.bstate = "AWAIT_NON_FINAL"
    BY Zenon
  <2>1. IInv'
    BY NextIInv
  <2>2. "DOWN" # "UP"
    OBVIOUS
  <2>3. OnWire
    BY <2>2, Zenon DEF IInv, Hold, OnWire
  <2>4. OnWire'
    <3>1. Hold'
      BY <2>1, Zenon DEF IInv
    <3> QED
      BY <2>2, <3>1, Zenon DEF Hold, OnWire
  <2>5. Held(State, State')
    BY <2>3, <2>4, NextOrders, Zenon DEF Steps, OrderStep
  <2> QED
    BY <2>5 DEF Held, State
<1> QED
  BY <1>1, AlwaysOrderly, PTL DEF Spec, EffHeldUnlessLeft

(* Without the exception for sessions that are never shut down.  With a    *)
(* shutdown timer left behind, what it finds in dfr_data takes effect.     *)
THEOREM EffHeld ==
  ASSUME TRUE \notin Shutdowns
  PROVE  Spec => EffHeldDuringPoll
<1>1. Init => CInv
  BY DEF Init, NewDsess, CInv
<1>2. IInv /\ WInv /\ CInv /\ [Next]_vars => CInv'
  BY NextOrders, Zenon DEF Steps, OrderStep
<1>3. CInv /\ [ /\ dsess.present /\ dsess'.present /\ ~ghost.left
                /\ dsess.local = "UP" /\ dsess'.local = "UP"
                /\ Harder(bsess.eff, bsess'.eff)
                => bsess.bstate = "AWAIT_NON_FINAL"]_vars =>
        [ /\ dsess.present /\ dsess'.present
          /\ dsess.local = "UP" /\ dsess'.local = "UP"
          /\ \/ bsess'.eff.timing.tx > bsess.eff.timing.tx
             \/ bsess'.eff.timing.rx < bsess.eff.timing.rx
          => \/ bsess.bstate = "AWAIT_NON_FINAL"
             \/ /\ bsess.bstate = "AWAIT_FINAL"
                /\ bsess'.bstate = "AWAIT_NON_FINAL"]_vars
  <2>1. CInv /\ dsess.present => ~ghost.left
    BY DEF CInv, Calm, State
  <2> QED
    BY <2>1, Zenon DEF Harder
<1> QED
  BY <1>1, <1>2, <1>3, AlwaysOrderly, EffHeldWhileUp, PTL
  DEF Spec, EffHeldUnlessLeft, EffHeldDuringPoll

(* The monitor and bfdd are told of every change of the state of a session *)
(* on the wire, but for one made when a queued change is handled.  Pushes  *)
(* may be queued; that none fails, and that the shutdown timer can be      *)
(* allocated, are hypotheses the code needs: bbdd_d_handle_session_set     *)
(* tells nobody when the update reports an error.                          *)
THEOREM ToldOfAll ==
  ASSUME Faults \cap {"conf", "send", "timer"} = {}
  PROVE  Spec => ToldUnlessQueued
<1>0. Reliable
  BY DEF Reliable
<1>1. Init => FInv
  BY DEF Init, NewDsess, FInv, OnWire
<1>2. IInv /\ WInv /\ FInv /\ [Next]_vars => FInv'
  BY <1>0, NextOrders, Zenon DEF Steps, FollowStep
<1>3. IInv /\ WInv /\ FInv /\ [Next]_vars =>
        [OnWire' /\ ~ghost'.left /\ ghost'.told # Current' =>
           OnWire /\ (bsess.qd_change \/ ghost.told # Current)]_vars
  BY <1>0, NextOrders, Zenon DEF Steps, FollowStep
<1> QED
  BY <1>1, <1>2, <1>3, AlwaysOrderly, PTL DEF Spec, ToldUnlessQueued
=============================================================================
