------------------------------- MODULE Timers -------------------------------
(***************************************************************************)
(* The timers of bbdd-timer.c: a list of timers ordered by deadline, and   *)
(* one timerfd, armed for the first of them, that the event loop polls.    *)
(*                                                                         *)
(* When the timerfd expires, bbdd_timers_fd_cb walks the list and invokes  *)
(* the callbacks of the timers that are due, then frees what it invoked    *)
(* and arms the timerfd again.  A callback may cancel the timer it runs    *)
(* for and set others, as those of the hold and shutdown timers do.  It    *)
(* may cancel a different timer, too: a session that leaves its shutdown   *)
(* timer behind refers to the next one that it starts, and the callback of *)
(* the old timer then cancels the new one (see LeakedTimer in BfdSession). *)
(* The clock advances at any time, also during the walk.                   *)
(***************************************************************************)
EXTENDS Integers, Sequences

CONSTANTS
  Timer,    \* timer objects
  Delays,   \* delays a user may ask for
  MaxTime,  \* bound: the clock stops here, and nobody sets timers any more
  Faults    \* subset of FaultKinds

(***************************************************************************)
(* "rearm":    timerfd_settime fails                                       *)
(* "callback": a callback returns an error                                 *)
(* "next":     the timer that a callback cancels instead of its own may be *)
(*             the one that comes right after it on the list               *)
(***************************************************************************)
FaultKinds == {"rearm", "callback", "next"}

ASSUME TimersAssumption ==
  /\ Delays \subseteq Nat
  /\ MaxTime \in Nat
  /\ Faults \subseteq FaultKinds

Never == -1
None == "none"

ASSUME NoneIsNoTimer == None \notin Timer

VARIABLES
  now,       \* CLOCK_MONOTONIC
  list,      \* timers->head and its successors
  deadline,  \* timer->deadline_ns
  armed,     \* when the timerfd will expire, or Never
  readable,  \* the timerfd expired and was not read
  event,     \* epoll_wait reported the timerfd, its handler is yet to run
  phase,     \* where bbdd_timers_fd_cb is
  now_ns,    \* its local variables now_ns, timer, tmp, failed
  timer,
  tmp,
  failed,
  fate,      \* history: what became of the timer after it was last set
  older,     \* history: which of the timers on the list were set before it
  lapsed     \* history: the timerfd is not armed for the head of the list

fd == <<armed, readable>>
locals == <<now_ns, timer, tmp, failed>>
vars == <<now, list, deadline, fd, event, phase, locals, fate, older, lapsed>>

Listed == {list[i] : i \in DOMAIN list}
Pos(t) == CHOOSE i \in DOMAIN list : list[i] = t
Ptr == Timer \cup {None}

TypeOK ==
  /\ now \in 0 .. MaxTime
  /\ list \in Seq(Timer)
  /\ \A i, j \in DOMAIN list : list[i] = list[j] => i = j
  /\ deadline \in [Timer -> 0 .. MaxTime]
  /\ armed \in {Never} \cup 0 .. MaxTime
  /\ readable \in BOOLEAN
  /\ event \in BOOLEAN
  /\ phase \in {"idle", "walk", "callback", "reap"}
  /\ now_ns \in 0 .. MaxTime
  /\ timer \in Ptr /\ tmp \in Ptr /\ failed \in Ptr
  /\ fate \in [Timer -> {"none", "rung", "cancelled"}]
  /\ older \in [Timer -> SUBSET Timer]
  /\ lapsed \in BOOLEAN

Init ==
  /\ now = 0
  /\ list = <<>>
  /\ deadline = [t \in Timer |-> 0]
  /\ armed = Never
  /\ readable = FALSE
  /\ event = FALSE
  /\ phase = "idle"
  /\ now_ns = 0
  /\ timer = None /\ tmp = None /\ failed = None
  /\ fate = [t \in Timer |-> "none"]
  /\ older = [t \in Timer |-> {}]
  /\ lapsed = FALSE

-----------------------------------------------------------------------------
(* bbdd_timers_rearm: arm the timerfd for the head of the new list, or     *)
(* disarm it.  timerfd_settime also forgets an expiration not yet read.    *)
RearmOk ==
  /\ armed' = IF list' = <<>> THEN Never ELSE deadline'[list'[1]]
  /\ readable' = FALSE
  /\ lapsed' = FALSE

RearmFails ==
  /\ "rearm" \in Faults
  /\ UNCHANGED fd

Rearm == RearmOk \/ (RearmFails /\ lapsed' = TRUE)

-----------------------------------------------------------------------------
(* DL_INSERT_INORDER: t becomes the k-th timer, before the first one that  *)
(* is not due earlier.                                                     *)
InsertPoint(k, at) ==
  /\ \A i \in 1 .. k - 1 : deadline[list[i]] < at
  /\ k <= Len(list) => at <= deadline[list[k]]

Insert(k, t) == SubSeq(list, 1, k - 1) \o <<t>> \o SubSeq(list, k, Len(list))

Enlist(t, at) ==
  /\ \E k \in 1 .. Len(list) + 1 : InsertPoint(k, at) /\ list' = Insert(k, t)
  /\ deadline' = [deadline EXCEPT ![t] = at]
  /\ older' = [older EXCEPT ![t] = Listed]

(* A timer that is freed is older than none: its memory may be used again. *)
Forget ==
  older' = [t \in Timer |->
              IF t \in Listed' THEN older[t] \cap Listed' ELSE {}]

Delete(t) ==
  SubSeq(list, 1, Pos(t) - 1) \o SubSeq(list, Pos(t) + 1, Len(list))

(* Variant: the timerfd is left alone when the new timer is the first. *)
SetNoRearm(t, delay) ==
  /\ phase \in {"idle", "callback"}
  /\ now < MaxTime /\ now + delay <= MaxTime
  /\ t \notin Listed
  /\ phase = "callback" => delay > 0
  /\ Enlist(t, now + delay)
  /\ fate' = [fate EXCEPT ![t] = "none"]
  /\ IF list = <<>> THEN Rearm ELSE UNCHANGED <<fd, lapsed>>
  /\ UNCHANGED <<now, event, phase, locals>>

(* bbdd_timer_set, called by a handler of the event loop or by a callback. *)
(* The delays that callbacks ask for are detection times, never zero.  If  *)
(* the timerfd cannot be armed for a new head, the timer is not set.       *)
Set(t, delay) ==
  /\ phase \in {"idle", "callback"}
  /\ now < MaxTime /\ now + delay <= MaxTime
  /\ t \notin Listed
  /\ phase = "callback" => delay > 0
  /\ Enlist(t, now + delay)
  /\ fate' = [fate EXCEPT ![t] = "none"]
  /\ IF list'[1] = t THEN RearmOk ELSE UNCHANGED <<fd, lapsed>>
  /\ UNCHANGED <<now, event, phase, locals>>

SetFails(t, delay) ==
  /\ phase \in {"idle", "callback"}
  /\ now < MaxTime /\ now + delay <= MaxTime
  /\ t \notin Listed
  /\ InsertPoint(1, now + delay)
  /\ RearmFails
  /\ UNCHANGED <<now, list, deadline, event, phase, locals, fate,
                 older, lapsed>>

(* bbdd_timer_cancel, called by a handler of the event loop. *)
Unschedule(t) ==
  /\ t \in Listed
  /\ list' = Delete(t)
  /\ Forget
  /\ UNCHANGED deadline
  /\ IF list[1] = t THEN Rearm ELSE UNCHANGED <<fd, lapsed>>

Cancel(t) ==
  /\ phase = "idle"
  /\ Unschedule(t)
  /\ fate' = [fate EXCEPT ![t] = "cancelled"]
  /\ UNCHANGED <<now, event, phase, locals>>

-----------------------------------------------------------------------------
(* The kernel and epoll. *)
Tick ==
  /\ now < MaxTime
  /\ now' = now + 1
  /\ UNCHANGED <<list, deadline, fd, event, phase, locals, fate,
                 older, lapsed>>

Expire ==
  /\ armed # Never
  /\ armed <= now
  /\ readable' = TRUE
  /\ armed' = Never
  /\ UNCHANGED <<now, list, deadline, event, phase, locals, fate,
                 older, lapsed>>

(* Other handlers of the same batch may run between this and FdCb. *)
PollReports ==
  /\ phase = "idle"
  /\ readable
  /\ ~event
  /\ event' = TRUE
  /\ UNCHANGED <<now, list, deadline, fd, phase, locals, fate, older, lapsed>>

-----------------------------------------------------------------------------
(* bbdd_timers_fd_cb.  DL_FOREACH_SAFE looks up the successor before the   *)
(* callback runs.                                                          *)
Successor(t) ==
  IF Pos(t) = Len(list) THEN None ELSE list[Pos(t) + 1]

(* What the walk reads of a timer.  If the timer was freed, that may be    *)
(* anything.                                                               *)
Successors(t) == IF t \in Listed THEN {Successor(t)} ELSE Ptr

FdCb ==
  /\ phase = "idle"
  /\ event
  /\ event' = FALSE
  /\ readable' = FALSE
  /\ now_ns' = now
  /\ timer' = IF list = <<>> THEN None ELSE list[1]
  /\ phase' = "walk"
  /\ UNCHANGED <<now, list, deadline, armed, tmp, failed, fate, older, lapsed>>

Due(t) == deadline[t] <= now_ns

InvokeEarly == \* variant: the callback of a timer that is not due runs
  /\ phase = "walk"
  /\ timer # None
  /\ tmp' \in Successors(timer)
  /\ fate' = [fate EXCEPT ![timer] = "rung"]
  /\ phase' = "callback"
  /\ UNCHANGED <<now, list, deadline, fd, event, now_ns, timer, failed,
                 older, lapsed>>

Invoke ==
  /\ phase = "walk"
  /\ timer # None
  /\ timer \in Listed => Due(timer)
  /\ tmp' \in Successors(timer)
  /\ fate' = [fate EXCEPT ![timer] = "rung"]
  /\ phase' = "callback"
  /\ UNCHANGED <<now, list, deadline, fd, event, now_ns, timer, failed,
                 older, lapsed>>

(* A freed timer may be allocated again: the callback cancels its own only *)
(* while that is still the timer that rang.                                *)
Own == timer \in Listed /\ fate[timer] = "rung"

CancelOwn ==
  /\ phase = "callback"
  /\ Own
  /\ Unschedule(timer)
  /\ UNCHANGED <<now, event, phase, locals, fate>>

(* bbdd_bpf_shwait_timer_cb of a timer that was left behind: what it       *)
(* cancels is the shutdown timer that the session has started since.       *)
CancelOther(t) ==
  /\ phase = "callback"
  /\ t # timer
  /\ timer \in older[t]
  /\ fate[t] = "none"
  /\ t = tmp => "next" \in Faults
  /\ Unschedule(t)
  /\ fate' = [fate EXCEPT ![t] = "cancelled"]
  /\ UNCHANGED <<now, event, phase, locals>>

CallbackReturnsUnsafe == \* variant: DL_FOREACH, not DL_FOREACH_SAFE
  /\ phase = "callback"
  /\ timer' \in Successors(timer)
  /\ tmp' = None
  /\ phase' = "walk"
  /\ UNCHANGED <<now, list, deadline, fd, event, now_ns, failed, fate,
                 older, lapsed>>

CallbackReturns ==
  /\ phase = "callback"
  /\ timer' = tmp
  /\ tmp' = None
  /\ phase' = "walk"
  /\ UNCHANGED <<now, list, deadline, fd, event, now_ns, failed, fate,
                 older, lapsed>>

(* "A function that returned error should not have modified its            *)
(* environment": in particular it has not cancelled its timer.             *)
CallbackFails ==
  /\ phase = "callback"
  /\ "callback" \in Faults
  /\ Own
  /\ failed' = timer
  /\ phase' = "reap"
  /\ UNCHANGED <<now, list, deadline, fd, event, now_ns, timer, tmp, fate,
                 older, lapsed>>

WalkEnds ==
  /\ phase = "walk"
  /\ timer \in Listed => ~Due(timer)
  /\ phase' = "reap"
  /\ UNCHANGED <<now, list, deadline, fd, event, locals, fate, older, lapsed>>

(* The second pass frees the first n timers: those that are due, up to the *)
(* one that failed.                                                        *)
Frees(n) ==
  /\ \A i \in 1 .. n : Due(list[i])
  /\ \A i \in 1 .. n - 1 : list[i] # failed
  /\ n < Len(list) =>
       ~Due(list[n + 1]) \/ (n > 0 /\ list[n] = failed)

Dealloc ==
  /\ \E n \in 0 .. Len(list) :
       Frees(n) /\ list' = SubSeq(list, n + 1, Len(list))
  /\ Forget

ReapNoRearm == \* variant: the timerfd is armed only when a timer is set
  /\ phase = "reap"
  /\ Dealloc
  /\ UNCHANGED <<deadline, fd, lapsed>>
  /\ timer' = None /\ tmp' = None /\ failed' = None
  /\ now_ns' = 0
  /\ phase' = "idle"
  /\ UNCHANGED <<now, event, fate>>

ReapNothing == \* variant: timers are freed by their callbacks only
  /\ phase = "reap"
  /\ UNCHANGED <<list, deadline, older>>
  /\ Rearm
  /\ timer' = None /\ tmp' = None /\ failed' = None
  /\ now_ns' = 0
  /\ phase' = "idle"
  /\ UNCHANGED <<now, event, fate>>

Reap ==
  /\ phase = "reap"
  /\ Dealloc
  /\ UNCHANGED deadline
  /\ IF failed # None
     THEN UNCHANGED fd /\ lapsed' = TRUE
     ELSE Rearm
  /\ timer' = None /\ tmp' = None /\ failed' = None
  /\ now_ns' = 0
  /\ phase' = "idle"
  /\ UNCHANGED <<now, event, fate>>

Next ==
  \/ Tick \/ Expire \/ PollReports
  \/ \E t \in Timer, delay \in Delays : Set(t, delay) \/ SetFails(t, delay)
  \/ \E t \in Timer : Cancel(t) \/ CancelOther(t)
  \/ FdCb \/ Invoke \/ CancelOwn \/ CallbackReturns \/ CallbackFails
  \/ WalkEnds \/ Reap

Spec == Init /\ [][Next]_vars

(* The clock advances, the kernel expires an armed timerfd, the event loop *)
(* polls and runs the handlers of what it is told, and handlers return.    *)
Fairness ==
  /\ WF_vars(Tick) /\ WF_vars(Expire) /\ WF_vars(PollReports)
  /\ WF_vars(FdCb) /\ WF_vars(Invoke) /\ WF_vars(CallbackReturns)
  /\ WF_vars(WalkEnds) /\ WF_vars(Reap)

FairSpec == Spec /\ Fairness

-----------------------------------------------------------------------------
(* Properties *)

Waiting == {t \in Listed : fate[t] = "none"}

Clock == INSTANCE AlarmClock
  WITH alarms <- {[timer |-> t, at |-> deadline[t]] : t \in Waiting}

(* The list, the timerfd and the two passes of bbdd_timers_fd_cb implement *)
(* the alarm clock of bbdd-timer.h: no timer rings early, twice or after   *)
(* it was cancelled, and none is freed before it rang.  This is so only if *)
(* no callback cancels the timer right after its own ("next").             *)
RingsOnce == Clock!Spec

(* Whenever the event loop is between handlers, the timerfd is armed for   *)
(* the head of the list or its expiration is on its way, unless arming it  *)
(* failed or a callback reported an error (bbdd_timers_rearm, and the      *)
(* callers that skip it because the head did not change).                  *)
ArmedForHead ==
  phase = "idle" /\ list # <<>> /\ ~lapsed =>
    armed = deadline[list[1]] \/ readable \/ event

(* The comment in bbdd_timers_fd_cb: "To allow callbacks destroying their  *)
(* objects, including descheduling the very timer the callback was invoked *)
(* for, first just walk the prefix and invoke the callbacks."  Whatever    *)
(* they deschedule, the walk goes on to a timer that still exists.         *)
CallbacksMayDestroy ==
  /\ phase = "callback" => tmp \in Listed \cup {None}
  /\ phase = "walk" => timer \in Listed \cup {None}

(* The variables have their types.  As long as no callback cancels the     *)
(* timer right after its own ("next"), the walk never steps on a freed     *)
(* timer, whatever else the callbacks cancel and set: the successor that   *)
(* DL_FOREACH_SAFE saved is still on the list when the callback returns.   *)
(* The timer whose callback failed is found by the second pass, as the     *)
(* assertion of bbdd_timers_fd_cb says.                                    *)
WalkIsSafe ==
  /\ TypeOK
  /\ CallbacksMayDestroy
  /\ phase = "reap" /\ failed # None =>
       \A n \in 0 .. Len(list) :
         Frees(n) => \E i \in 1 .. n : list[i] = failed

(* Between handlers no timer that already rang is left on the list: it     *)
(* cancelled itself or the second pass freed it.                           *)
RungAreFreed == phase = "idle" => Waiting = Listed

(* A timer that waits rings or is cancelled in the end, unless the timerfd *)
(* stays unarmed for good after a failure.                                 *)
EventuallyRings ==
  \A t \in Timer : t \in Waiting ~> (t \notin Waiting \/ []lapsed)

=============================================================================
