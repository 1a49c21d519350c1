---------------------------- MODULE MCSessionDir ----------------------------
(* A small instance of SessionDir: a plain interface and two VRFs, sessions *)
(* 1 and 2 drawn, asked for or given by BFDD, two ports.                 *)
EXTENDS SessionDir, TLC

eth == 1
red == 2
blue == 3

MCLinks == {eth, red, blue}
MCVrfTable == eth :> 0 @@ red :> 10 @@ blue :> 20

v4(h) == [af |-> 4, host |-> h]
v6(h) == [af |-> 6, host |-> h]

ByName(i) == [NoNetif EXCEPT !.name = <<i>>]
ByIndex(i) == [NoNetif EXCEPT !.index = <<i>>]
Unset == [NoNetif EXCEPT !.unset = TRUE]

To(a) == [NoChange EXCEPT !.dst = <<a>>]

(* A session as bbdd would be asked for through the bridge *)
Full(discr) ==
  [To(v4(1)) EXCEPT !.discr = <<discr>>, !.tx = <<1>>, !.rx = <<1>>,
                    !.mult = <<1>>, !.hold = <<3>>,
                    !.remote = <<7>>, !.vrf.netif = ByName(red)]

MCChanges ==
  {To(v4(1)),
   Full(1),
   [To(v6(1)) EXCEPT !.discr = <<2>>, !.netif = ByIndex(eth)],
   [NoChange EXCEPT !.src = <<v4(2)>>, !.vrf.netif = ByName(blue)],
   [NoChange EXCEPT !.src = <<NoAddr>>, !.netif = Unset, !.vrf.netif = Unset,
                    !.vrf.table = <<20>>],
   [NoChange EXCEPT !.tx = <<0>>],
   [NoChange EXCEPT !.netif = ByName(0)],
   [To([af |-> 4, host |-> Garbled]) EXCEPT !.discr = <<2>>]}

(* The same and a VRF that is given by its index alone *)
MCChangesByIndex ==
  MCChanges \cup {[NoChange EXCEPT !.vrf.netif = ByIndex(red)]}

MCQueries ==
  {NoChange,
   [NoChange EXCEPT !.vrf.netif = ByName(red)],
   To([af |-> 4, host |-> Garbled])}

Msg(c) == ToMsg(DissectValidate(c, MCLinks)[1], MCLinks)[1]

MCMessages ==
  {Msg(Full(2)),
   [Msg(Full(2)) EXCEPT !.vrf_id = 0, !.vrfname = 0, !.src = 3],
   [Msg(Full(1)) EXCEPT !.lid = 0],
   [Msg(Full(1)) EXCEPT !.hold_time = MaxU32],
   [Msg(Full(1)) EXCEPT !.unsupported = TRUE]}

MCPackets ==
  {[ifindex |-> i, multihop |-> FALSE, ttl |-> 255, my_disc |-> 7,
    src |-> v4(1), dst |-> v4(2)] : i \in {red}}
=============================================================================
