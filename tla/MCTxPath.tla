------------------------------ MODULE MCTxPath ------------------------------
(* Instances of TxPath for TLC. *)
EXTENDS TxPath, TLC

CONSTANTS d1, d2

MCDiscrs == {d1, d2}
MCOneDiscr == {d1}

Symm == Permutations(MCDiscrs)

=============================================================================
