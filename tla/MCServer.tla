------------------------------ MODULE MCServer ------------------------------
(* Two control connections, which between them do all there is to do.      *)
EXTENDS Server, TLC

CONSTANTS p1, p2

MCPeers == {p1, p2}

MCScripts ==
  (p1 :> {<<"subscribe">>, <<"ask", "bad">>}) @@
  (p2 :> {<<"disconnect", "connect">>, <<"stop">>, <<"half">>})

MCMaxSays == (p1 :> 2) @@ (p2 :> 1)
=============================================================================
