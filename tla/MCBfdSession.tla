---------------------------- MODULE MCBfdSession ----------------------------
(* Instances of BfdSession for TLC. *)
EXTENDS BfdSession

T(tx, rx) == [tx |-> tx, rx |-> rx]

MCOneTiming == {T(2, 2)}
MCTwoTimings == {T(2, 2), T(3, 2)}
MCTimingsApart == {T(2, 2), T(3, 3)}
MCDefaultTiming == T(2, 2)
MCRemoteTimings == {[tx |-> 1, rx |-> 1, mult |-> 2]}

Pkt(your, state, poll, final) ==
  [your |-> your, discr |-> 7, state |-> state,
   timing |-> [tx |-> 1, rx |-> 1, mult |-> 2], poll |-> poll,
   final |-> final]

(* A peer that comes up, answers polls and goes down. *)
MCPeer == {Pkt(TRUE, "DOWN", FALSE, FALSE), Pkt(TRUE, "UP", FALSE, FALSE),
           Pkt(TRUE, "UP", FALSE, TRUE)}

(* One that also loses our discriminator, is shut down, polls, and sends a *)
(* detection multiplier of zero; none.                                     *)
MCNoPeer == {}
MCAnyPeer ==
  {Pkt(TRUE, st, FALSE, FALSE) : st \in BfdStates}
  \cup {Pkt(FALSE, "DOWN", FALSE, FALSE), Pkt(TRUE, "UP", TRUE, FALSE),
        [Pkt(TRUE, "UP", FALSE, FALSE) EXCEPT !.timing.mult = 0]}

(* The history told and polled has no influence on anything else. *)
View == <<dsess, bsess, kern, ghost.broken, ghost.lost, ghost.crashed,
          ghost.left, ring>>
ViewTold == <<View, ghost.told>>

=============================================================================
