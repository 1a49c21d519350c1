------------------------------- MODULE MCLink -------------------------------
(* Small instances of Link. *)
EXTENDS Link, TLC

CONSTANTS br, dp1, dp2, c1, c2, c3

MCDps == {dp1, dp2}
MCClients == {c1, c2, c3}
MCAt == c1 :> br @@ c2 :> br @@ c3 :> dp1
=============================================================================
