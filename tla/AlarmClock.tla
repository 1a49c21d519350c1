----------------------------- MODULE AlarmClock -----------------------------
(***************************************************************************)
(* What bbdd-timer.h promises its users: a timer that was set runs its     *)
(* callback once, when its time has come, unless it is cancelled first.    *)
(***************************************************************************)
EXTENDS Naturals

CONSTANTS
  Timer,  \* timers a user may hold
  Delays  \* delays a user may ask for

VARIABLES
  now,     \* the clock
  alarms,  \* timers that wait, records [timer, at]
  fate     \* what became of the timer after it was last set

vars == <<now, alarms, fate>>

Fates == {"none", "rung", "cancelled"}

TypeOK ==
  /\ now \in Nat
  /\ alarms \subseteq [timer : Timer, at : Nat]
  /\ fate \in [Timer -> Fates]

Init ==
  /\ now = 0
  /\ alarms = {}
  /\ fate = [t \in Timer |-> "none"]

Tick ==
  /\ now' = now + 1
  /\ UNCHANGED <<alarms, fate>>

Set(t, delay) ==
  /\ \A a \in alarms : a.timer # t
  /\ alarms' = alarms \cup {[timer |-> t, at |-> now + delay]}
  /\ fate' = [fate EXCEPT ![t] = "none"]
  /\ UNCHANGED now

Cancel(t) ==
  /\ \E a \in alarms :
       /\ a.timer = t
       /\ alarms' = alarms \ {a}
  /\ fate' = [fate EXCEPT ![t] = "cancelled"]
  /\ UNCHANGED now

Ring(t) ==
  /\ \E a \in alarms :
       /\ a.timer = t
       /\ a.at <= now
       /\ alarms' = alarms \ {a}
  /\ fate' = [fate EXCEPT ![t] = "rung"]
  /\ UNCHANGED now

Next ==
  \/ Tick
  \/ \E t \in Timer : Cancel(t) \/ Ring(t)
  \/ \E t \in Timer, delay \in Delays : Set(t, delay)

Spec == Init /\ [][Next]_vars

=============================================================================
