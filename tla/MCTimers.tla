------------------------------ MODULE MCTimers ------------------------------
(* Instances of Timers for TLC. *)
EXTENDS Timers

CONSTANTS t1, t2, t3

MCTimer == {t1, t2, t3}

=============================================================================
