---------------------------- MODULE SessionConf ----------------------------
(***************************************************************************)
(* What a request does to the configuration of one session: parsing and    *)
(* validating it, applying it to a bbdd_d_session, selecting sessions by   *)
(* it, matching a packet to a session, and the translation to and from the *)
(* DP_ADD_SESSION message of the BFDD protocol.                            *)
(*                                                                         *)
(* A field that a request may leave out (a C field x with its x_seen flag) *)
(* is a sequence: <<>> when it was not given, <<v>> when it was.  An       *)
(* operation that may fail returns <<>> for an error and <<r>> for its     *)
(* result r.                                                               *)
(***************************************************************************)
EXTENDS Integers, Sequences

CONSTANTS
  Links,     \* network interfaces, a set of ifindex values
  VrfTable,  \* routing table of those of them that are VRFs, else 0
  Slow,      \* bbdd_prog_slow_interval_us
  MaxU32,    \* UINT32_MAX
  MsInUs     \* microseconds in a millisecond, 1000 in the code

ASSUME ConfAssumption ==
  /\ Links \subseteq Nat \ {0}
  /\ VrfTable \in [Links -> Nat]
  /\ Slow \in Nat \ {0}
  /\ MaxU32 \in Nat
  /\ MsInUs \in Nat \ {0}

Error == <<>>
Ok(r) == <<r>>
Failed(r) == r = Error

Given(f) == f # <<>>
Or(f, v) == IF Given(f) THEN f[1] ELSE v
NonZero(v) == IF v = 0 THEN <<>> ELSE <<v>>

Flags == {"multihop", "cpi", "passive", "shutdown"}
NoFlags == [f \in Flags |-> <<>>]

(* Addresses.  One that is not set has family 0; a string that is not an   *)
(* address of its family is the host Garbled.                              *)
NoAddr == [af |-> 0, host |-> 0]
Garbled == -1

(* struct bbdd_c_session_netif and _vrf.  An interface has one name and    *)
(* one index, so both are given as the element of Links they belong to;    *)
(* the empty name is 0.                                                    *)
NoNetif == [unset |-> FALSE, name |-> <<>>, index |-> <<>>]
NoVrf == [netif |-> NoNetif, table |-> <<>>]

(* struct bbdd_c_session with nothing given.  src and name may be unset,   *)
(* which is <<NoAddr>> and <<"">>.                                         *)
NoChange ==
  [discr |-> <<>>, remote |-> <<>>, name |-> <<>>, flags |-> NoFlags,
   src |-> <<>>, dst |-> <<>>, tx |-> <<>>, rx |-> <<>>, mult |-> <<>>,
   hold |-> <<>>, ttl |-> <<>>, netif |-> NoNetif, vrf |-> NoVrf]

(* What the parser of a request may yield.  A name of null is "unset", so  *)
(* an interface is not both unset and named; dst cannot be null.           *)
Optional(S) == {f \in Seq(S) : Len(f) <= 1}

AddrType == [af : {4, 6}, host : Nat \cup {Garbled}]

NetifType ==
  {n \in [unset : BOOLEAN, name : Optional(Nat), index : Optional(Nat)] :
     n.unset => ~Given(n.name)}

ChangeType ==
  [discr : Optional(Nat), remote : Optional(Nat), name : Optional(STRING),
   flags : [Flags -> Optional(BOOLEAN)],
   src : Optional(AddrType \cup {NoAddr}), dst : Optional(AddrType),
   tx : Optional(Nat), rx : Optional(Nat), mult : Optional(Nat),
   hold : Optional(0..MaxU32), ttl : Optional(Nat),
   netif : NetifType, vrf : [netif : NetifType, table : Optional(Nat)]]

(* struct bbdd_d_session, without the state of the protocol. *)
ZeroSession ==
  [discr |-> 0, remote |-> 0, user_remote |-> 0, name |-> "",
   flags |-> [f \in Flags |-> FALSE], src |-> NoAddr, dst |-> NoAddr,
   sport |-> 0, dport |-> 0, ifindex |-> 0, vrf_ifindex |-> 0,
   vrf_table |-> 0, tx |-> 0, rx |-> 0, mult |-> 0, hold |-> 0, ttl |-> 0]

-----------------------------------------------------------------------------
(* Interfaces.  present is the set of interfaces that exist right now. *)

(* bbdd_d_session_validate_netif: what is given must exist and agree, and  *)
(* what is missing is filled in.  The empty name has index zero.           *)
ValidateNetif(n, present) ==
  LET seen == {f[1] : f \in {n.name, n.index} \ {<<>>}}
  IN  IF seen = {} THEN Ok(n)
      ELSE IF \/ seen \subseteq present /\ \A i, j \in seen : i = j
              \/ seen = {0} /\ ~Given(n.index)
           THEN LET i == CHOOSE i \in seen : TRUE
                IN  Ok([n EXCEPT !.name = <<i>>, !.index = <<i>>])
           ELSE Error

(* bbdd_d_session_validate_vrf: the interface must be a VRF, and the table *)
(* is filled in from it or must agree with it.                             *)
ValidateVrf(v, present) ==
  LET r == ValidateNetif(v.netif, present)
  IN  IF Failed(r) THEN Error
      ELSE IF ~Given(r[1].index) THEN Ok(v)
      ELSE LET i == r[1].index[1]
               table == IF i = 0 THEN 0 ELSE VrfTable[i]
           IN  IF table = 0 \/ Or(v.table, table) # table THEN Error
               ELSE Ok([netif |-> r[1], table |-> <<table>>])

(* bbdd_d_jrpc_dissect_session_one: what may not be zero. *)
DissectOne(c) ==
  IF <<0>> \in {c.discr, c.netif.index, c.vrf.netif.index} THEN Error
  ELSE Ok(c)

(* bbdd_d_jrpc_dissect_validate_session.  The VRF is looked at only when   *)
(* it is given by name.                                                    *)
DissectValidate(c, present) ==
  LET netif == ValidateNetif(c.netif, present)
      vrf == IF Given(c.vrf.netif.name) THEN ValidateVrf(c.vrf, present)
             ELSE Ok(c.vrf)
  IN  IF Failed(DissectOne(c)) \/ Failed(netif) \/ Failed(vrf) THEN Error
      ELSE Ok([c EXCEPT !.netif = netif[1], !.vrf = vrf[1]])

-----------------------------------------------------------------------------
(* bbdd_d_session_apply_c *)

DiscrChanges(d, c) == d.discr # 0 /\ Or(c.discr, d.discr) # d.discr

FamiliesSet(d, c) == Or(c.dst, d.dst).af # 0 \* variant: not compared

FamiliesAgree(d, c) ==
  LET dst == Or(c.dst, d.dst).af
      src == Or(c.src, d.src).af
  IN  dst # 0 /\ src \in {0, dst}

(* bbdd_d_session_apply_c_addr *)
AddrsParse(c) == \A f \in {c.src, c.dst} : Given(f) => f[1].host # Garbled

(* The VRF as it will be: bbdd_d_session_to_c_vrf with the request on top. *)
VrfView(d, c) ==
  LET own == IF c.vrf.netif.unset THEN <<>> ELSE NonZero(d.vrf_ifindex)
      table == NonZero(d.vrf_table)
      over(f, g) == IF Given(f) THEN f ELSE g
  IN  [netif |-> [unset |-> d.vrf_ifindex = 0,
                  name |-> over(c.vrf.netif.name, own),
                  index |-> over(c.vrf.netif.index, own)],
       table |-> over(c.vrf.table, table)]

MandatoryNonZero(d, c) ==
  /\ Or(c.discr, d.discr) # 0
  /\ Or(c.rx, d.rx) # 0
  /\ Or(c.tx, d.tx) # 0
  /\ Or(c.mult, d.mult) # 0

(* What bbdd_d_session_add starts a session from. *)
NewSession(discr, sport) ==
  [ZeroSession EXCEPT !.discr = discr, !.sport = sport, !.ttl = 255,
                      !.mult = 1, !.rx = Slow, !.tx = Slow]

BfdPort(multihop) == IF multihop THEN 4784 ELSE 3784

IfindexKept(d, c) == Or(c.netif.index, d.ifindex) \* variant: "no netif" is lost
IfindexAssigned(d, c) ==
  IF c.netif.unset THEN 0 ELSE Or(c.netif.index, d.ifindex)

(* __bbdd_d_session_apply_c.  The source port is preserved, and is the one *)
(* field of dsess that a request cannot change.                            *)
Assigned(d, c) ==
  LET flags == [f \in Flags |-> Or(c.flags[f], d.flags[f])]
      gone == c.vrf.netif.unset
  IN  [discr |-> Or(c.discr, d.discr),
       remote |-> Or(c.remote, d.remote),
       user_remote |-> Or(c.remote, d.user_remote),
       name |-> Or(c.name, d.name),
       flags |-> flags,
       src |-> Or(c.src, d.src),
       dst |-> Or(c.dst, d.dst),
       sport |-> d.sport,
       dport |-> BfdPort(flags["multihop"]),
       ifindex |-> IfindexAssigned(d, c),
       vrf_ifindex |-> IF gone THEN 0
                       ELSE Or(c.vrf.netif.index, d.vrf_ifindex),
       vrf_table |-> Or(c.vrf.table, IF gone THEN 0 ELSE d.vrf_table),
       tx |-> Or(c.tx, d.tx),
       rx |-> Or(c.rx, d.rx),
       mult |-> Or(c.mult, d.mult),
       hold |-> Or(c.hold, d.hold),
       ttl |-> Or(c.ttl, d.ttl)]

ApplyC(d, c, present) ==
  IF \/ DiscrChanges(d, c)
     \/ ~FamiliesAgree(d, c)
     \/ ~AddrsParse(c)
     \/ Failed(ValidateVrf(VrfView(d, c), present))
     \/ ~MandatoryNonZero(d, c)
  THEN Error
  ELSE Ok(Assigned(d, c))

-----------------------------------------------------------------------------
(* bbdd_d_session_matches: does the session satisfy the query? *)

Wants(f, v) == Or(f, v) = v

(* bbdd_d_session_addr_matches.  "no src" in a query selects on nothing. *)
AddrMatches(f, a) == Given(f) /\ f[1].af # 0 => f[1] = a
AddrGarbled(f) == Given(f) /\ f[1].host = Garbled

FlagsMatch(q, d) == \A f \in Flags : Wants(q.flags[f], d.flags[f])

(* The addresses of the query are parsed once the flags match. *)
MatchFails(q, d) ==
  /\ FlagsMatch(q, d)
  /\ \/ AddrGarbled(q.src)
     \/ AddrMatches(q.src, d.src) /\ AddrGarbled(q.dst)

Matches(q, d) ==
  /\ FlagsMatch(q, d)
  /\ AddrMatches(q.src, d.src)
  /\ AddrMatches(q.dst, d.dst)
  /\ q.netif.unset => d.ifindex = 0
  /\ q.vrf.netif.unset => d.vrf_ifindex = 0
  /\ Wants(q.discr, d.discr)
  /\ Wants(q.mult, d.mult) /\ Wants(q.tx, d.tx) /\ Wants(q.rx, d.rx)
  /\ Wants(q.hold, d.hold) /\ Wants(q.ttl, d.ttl)
  /\ Wants(q.netif.index, d.ifindex)
  /\ Wants(q.vrf.netif.index, d.vrf_ifindex)
  /\ Wants(q.vrf.table, d.vrf_table)
  /\ Wants(q.remote, d.remote)
  /\ Wants(q.name, d.name)

(* The digest of a packet that does not carry our discriminator, made in   *)
(* bbdd_bpf_rb_handle_discr_0: in a VRF, the interface is that of the VRF. *)
Digest(p) ==
  LET table == VrfTable[p.ifindex]
  IN  [multihop |-> p.multihop, ttl |-> p.ttl, my_disc |-> p.my_disc,
       src |-> p.src, dst |-> p.dst, table |-> table,
       ifindex |-> IF table # 0 THEN 0 ELSE p.ifindex]

(* bbdd_d_match_session, the test of one session: is p, a digest, for it? *)
MatchesPacket(p, d) ==
  /\ p.multihop = d.flags["multihop"]
  /\ d.ifindex = 0 \/ p.ifindex = 0 \/ d.ifindex = p.ifindex
  /\ d.vrf_table = p.table
  /\ p.ttl >= d.ttl
  /\ d.user_remote = 0 \/ p.my_disc = d.user_remote
  /\ d.src.af = 0 \/ d.src = p.dst
  /\ d.dst.af = 0 \/ d.dst = p.src

-----------------------------------------------------------------------------
RemoteLearned(d) == d.remote \* variant: what the peer told us is reported
RemoteReported(d) == d.user_remote

(* bbdd_d_session_to_c: the session as it is reported. *)
ToC(d) ==
  [discr |-> <<d.discr>>, remote |-> NonZero(RemoteReported(d)),
   name |-> <<d.name>>, flags |-> [f \in Flags |-> <<d.flags[f]>>],
   src |-> <<d.src>>, dst |-> <<d.dst>>,
   tx |-> <<d.tx>>, rx |-> <<d.rx>>, mult |-> <<d.mult>>,
   hold |-> NonZero(d.hold), ttl |-> <<d.ttl>>,
   netif |-> [unset |-> d.ifindex = 0, name |-> NonZero(d.ifindex),
              index |-> NonZero(d.ifindex)],
   vrf |-> [netif |-> [unset |-> d.vrf_ifindex = 0,
                       name |-> NonZero(d.vrf_ifindex),
                       index |-> NonZero(d.vrf_ifindex)],
            table |-> NonZero(d.vrf_table)]]

-----------------------------------------------------------------------------
(* DP_ADD_SESSION *)

(* The message that bbdd_bfdd_d_add_session fills in.  A session without a *)
(* table is sent in the standard form of the message, which ends before    *)
(* vrf_id and vrfname.                                                     *)
AddMsg(d) ==
  [lid |-> d.discr, flags |-> d.flags, ipv6 |-> d.dst.af = 6,
   unsupported |-> FALSE, src |-> d.src.host, dst |-> d.dst.host,
   min_tx |-> d.tx, min_rx |-> d.rx, hold_time |-> d.hold \div MsInUs,
   ttl |-> d.ttl, detect_mult |-> d.mult,
   ifindex |-> d.ifindex, ifname |-> d.ifindex, vrf_id |-> d.vrf_table,
   vrfname |-> IF d.vrf_table = 0 THEN 0 ELSE d.vrf_ifindex]

(* bbdd_bfdd_session_d_from_c and bbdd_bfdd_d_add_session *)
ToMsg(c, present) ==
  LET r == ApplyC([ZeroSession EXCEPT !.ttl = 255], c, present)
  IN  IF Failed(r) \/ ~({r[1].vrf_ifindex, r[1].ifindex} \ {0} \subseteq present)
      THEN Error
      ELSE Ok(AddMsg(r[1]))

HoldRaw(m) == m.hold_time \* variant: milliseconds are taken for microseconds
HoldScaled(m) == m.hold_time * MsInUs

(* bbdd_bfdd_session_to_c.  unsupported is a request for the Echo function *)
(* or for Demand mode.                                                     *)
FromMsg(m) ==
  LET af == IF m.ipv6 THEN 6 ELSE 4
  IN  IF m.unsupported \/ m.hold_time > MaxU32 \div MsInUs THEN Error
      ELSE Ok([NoChange EXCEPT
                 !.discr = NonZero(m.lid),
                 !.flags = [f \in Flags |-> <<m.flags[f]>>],
                 !.src = IF m.src = 0 THEN <<NoAddr>>
                         ELSE <<[af |-> af, host |-> m.src]>>,
                 !.dst = <<[af |-> af, host |-> m.dst]>>,
                 !.tx = <<m.min_tx>>, !.rx = <<m.min_rx>>,
                 !.hold = <<HoldScaled(m)>>, !.ttl = <<m.ttl>>,
                 !.mult = <<m.detect_mult>>,
                 !.netif = IF m.ifindex = 0
                           THEN [NoNetif EXCEPT !.unset = TRUE]
                           ELSE [NoNetif EXCEPT !.index = <<m.ifindex>>,
                                                !.name = NonZero(m.ifname)],
                 !.vrf = IF m.vrf_id = 0
                         THEN [NoVrf EXCEPT !.netif.unset = TRUE]
                         ELSE [netif |-> [NoNetif EXCEPT
                                            !.name = NonZero(m.vrfname)],
                               table |-> <<m.vrf_id>>]])

(* The validation in bbdd_d_bfdd_handle_add_session_vrf. *)
ValidateMsg(c, present) ==
  LET netif == ValidateNetif(c.netif, present)
      vrf == ValidateVrf(c.vrf, present)
  IN  IF ~Given(c.discr) \/ Failed(netif) \/ Failed(vrf) THEN Error
      ELSE Ok([c EXCEPT !.netif = netif[1], !.vrf = vrf[1]])

=============================================================================
