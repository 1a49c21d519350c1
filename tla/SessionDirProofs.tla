-------------------------- MODULE SessionDirProofs --------------------------
(***************************************************************************)
(* The places where a session is known agree, whatever requests are made,  *)
(* in whatever order and with whatever failures: proofs about SessionDir   *)
(* for all interfaces, ports, discriminators, requests and messages.       *)
(***************************************************************************)
EXTENDS SessionDir, TLAPS

(* A step that names no prover is left to Z3 or Zenon. *)
USE SMTT(15), ZenonT(15), Z3T(30)

(* No request gives a VRF by its index alone, which is the one case in     *)
(* which bbdd_d_jrpc_dissect_validate_session does not look for the table. *)
VrfsNamed == \A c \in Changes : Given(c.vrf.netif.index) => Given(c.vrf.netif.name)

(* The table of the VRF of a validated request was filled in. *)
Derives(c) ==
  ~c.vrf.netif.unset /\ Given(c.vrf.netif.index) =>
    c.vrf.table = <<VrfTable[c.vrf.netif.index[1]]>>

(* Its addresses were parsed, and its VRF is one whose table is the        *)
(* session's, if it has one; it does when VRFs are named.                  *)
Bound(s) ==
  /\ s.src.host # Garbled /\ s.dst.host # Garbled
  /\ s.vrf_ifindex # 0 =>
       /\ s.vrf_ifindex \in Links /\ VrfTable[s.vrf_ifindex] # 0
       /\ s.vrf_table \in {0, VrfTable[s.vrf_ifindex]}
       /\ VrfsNamed => s.vrf_table # 0

(* A session that satisfies what bbdd_d_session_apply_c demands. *)
Sound(s) ==
  /\ s = [f \in DOMAIN ZeroSession |-> s[f]]
  /\ s.flags = [f \in Flags |-> s.flags[f]]
  /\ s.discr # 0
  /\ s.dst.af # 0
  /\ s.src.af \in {0, s.dst.af}
  /\ 0 \notin {s.tx, s.rx, s.mult}
  /\ s.dport = BfdPort(s.flags["multihop"])
  /\ Bound(s)

(* The inductive invariant.  sdir is a function, which the invariants of   *)
(* SessionDir do not say: it is what makes "unwound" the directory that it *)
(* was.                                                                    *)
IInv ==
  /\ TypeOK
  /\ \A d \in Sessions : Sound(sdir[d])
  /\ PortsExact
  /\ DirsAgree
  /\ sdir = [d \in Sessions |-> sdir[d]]

-----------------------------------------------------------------------------
(* One session *)

(* What bbdd_d_session_validate_netif makes of an interface.               *)
LEMMA NetifIs ==
  ASSUME NEW n, NEW p, ~Failed(ValidateNetif(n, p))
  PROVE  /\ ~Given(n.name) /\ ~Given(n.index) => ValidateNetif(n, p) = <<n>>
         /\ Given(n.name) \/ Given(n.index) =>
              \E i : /\ ValidateNetif(n, p) = <<[n EXCEPT !.name = <<i>>, !.index = <<i>>]>>
                     /\ Given(n.name) => n.name[1] = i
                     /\ Given(n.index) => n.index[1] = i
                     /\ i \in p \/ (i = 0 /\ ~Given(n.index))
<1> DEFINE seen == {f[1] : f \in {n.name, n.index} \ {<<>>}}
<1>1. CASE ~Given(n.name) /\ ~Given(n.index)
  <2>1. seen = {}
    BY <1>1 DEF Given
  <2>2. ValidateNetif(n, p) = <<n>>
    BY <2>1 DEF ValidateNetif, Ok
  <2> QED
    BY <1>1, <2>2, Zenon
<1>2. CASE Given(n.name) \/ Given(n.index)
  <2>1. /\ seen # {}
        /\ Given(n.name) => n.name[1] \in seen
        /\ Given(n.index) => n.index[1] \in seen
    BY <1>2 DEF Given
  <2> DEFINE i == CHOOSE i \in seen : TRUE
  <2>2. i \in seen
    BY <2>1
  <2> HIDE DEF seen
  <2>3. \/ seen \subseteq p /\ \A j, k \in seen : j = k
        \/ seen = {0} /\ ~Given(n.index)
    BY <2>1, Zenon DEF ValidateNetif, Failed, Error, seen
  <2>4. ValidateNetif(n, p) = <<[n EXCEPT !.name = <<i>>, !.index = <<i>>]>>
    BY <2>1, <2>3, Zenon DEF ValidateNetif, Ok, seen
  <2> HIDE DEF i
  <2>5. /\ Given(n.name) => n.name[1] = i
        /\ Given(n.index) => n.index[1] = i
        /\ i \in p \/ (i = 0 /\ ~Given(n.index))
    BY <2>1, <2>2, <2>3
  <2> QED
    BY <1>2, <2>4, <2>5, Zenon
<1> QED
  BY <1>1, <1>2, ZenonT(60)

(* A VRF that passes bbdd_d_session_validate_vrf is there, and has the     *)
(* table that is filled in.                                                *)
LEMMA VrfIs ==
  ASSUME NEW v, "index" \in DOMAIN v.netif, NEW p, p \subseteq Links, ~Failed(ValidateVrf(v, p))
  PROVE  /\ ~Given(v.netif.name) /\ ~Given(v.netif.index) => ValidateVrf(v, p) = <<v>>
         /\ Given(v.netif.name) \/ Given(v.netif.index) =>
              \E i \in p :
                /\ ValidateVrf(v, p) =
                     <<[netif |-> [v.netif EXCEPT !.name = <<i>>, !.index = <<i>>],
                        table |-> <<VrfTable[i]>>]>>
                /\ Given(v.netif.name) => v.netif.name[1] = i
                /\ Given(v.netif.index) => v.netif.index[1] = i
                /\ VrfTable[i] # 0
                /\ Given(v.table) => v.table[1] = VrfTable[i]
<1> DEFINE r == ValidateNetif(v.netif, p)
<1>1. ~Failed(r)
  BY DEF ValidateVrf, Failed
<1>2. CASE ~Given(v.netif.name) /\ ~Given(v.netif.index)
  <2>1. r = <<v.netif>>
    BY <1>1, <1>2, NetifIs, Zenon
  <2>2. r[1] = v.netif
    BY <2>1
  <2> HIDE DEF r
  <2>3. ValidateVrf(v, p) = <<v>>
    BY <1>1, <1>2, <2>2 DEF ValidateVrf, Ok, r
  <2> QED
    BY <1>2, <2>3, ZenonT(60)
<1>3. CASE Given(v.netif.name) \/ Given(v.netif.index)
  <2>1. PICK i : /\ r = <<[v.netif EXCEPT !.name = <<i>>, !.index = <<i>>]>>
                 /\ Given(v.netif.name) => v.netif.name[1] = i
                 /\ Given(v.netif.index) => v.netif.index[1] = i
                 /\ i \in p \/ (i = 0 /\ ~Given(v.netif.index))
    BY <1>1, <1>3, NetifIs
  <2> DEFINE e == [v.netif EXCEPT !.name = <<i>>, !.index = <<i>>]
  <2>2. e.index = <<i>> /\ r = <<e>>
    BY <2>1
  <2> HIDE DEF r, e
  <2>3. r[1] = e /\ Given(r[1].index) /\ r[1].index[1] = i
    BY <2>2 DEF Given
  <2> DEFINE table == IF i = 0 THEN 0 ELSE VrfTable[i]
  <2>4. table # 0 /\ Or(v.table, table) = table
        /\ ValidateVrf(v, p) = <<[netif |-> e, table |-> <<table>>]>>
    BY <1>1, <2>3 DEF ValidateVrf, Failed, Error, Ok, r
  <2>5. i # 0 /\ i \in p /\ table = VrfTable[i]
    BY <2>1, <2>4
  <2> HIDE DEF table
  <2>6. Given(v.table) => v.table[1] = table
    BY <2>4 DEF Or
  <2> QED
    BY <1>3, <2>1, <2>4, <2>5, <2>6, Zenon DEF e
<1> QED
  BY <1>2, <1>3

(* The VRF as it will be is the one that was validated.                    *)
LEMMA VrfApplied ==
  ASSUME NEW d, Bound(d), NEW c, VrfsNamed => Derives(c), NEW p, p \subseteq Links,
         ~Failed(ValidateVrf(VrfView(d, c), p)), Assigned(d, c).vrf_ifindex # 0
  PROVE  /\ Assigned(d, c).vrf_ifindex \in p
         /\ VrfTable[Assigned(d, c).vrf_ifindex] # 0
         /\ Assigned(d, c).vrf_table \in {0, VrfTable[Assigned(d, c).vrf_ifindex]}
         /\ VrfsNamed => Assigned(d, c).vrf_table # 0
<1> DEFINE v == VrfView(d, c)
           i == Assigned(d, c).vrf_ifindex
           t == Assigned(d, c).vrf_table
<1>1. /\ ~c.vrf.netif.unset
      /\ i = Or(c.vrf.netif.index, d.vrf_ifindex)
      /\ t = Or(c.vrf.table, d.vrf_table)
  BY DEF Assigned
<1>2. /\ "index" \in DOMAIN v.netif
      /\ v.netif.index = IF Given(c.vrf.netif.index) THEN c.vrf.netif.index ELSE NonZero(d.vrf_ifindex)
      /\ v.table = IF Given(c.vrf.table) THEN c.vrf.table ELSE NonZero(d.vrf_table)
  BY <1>1 DEF VrfView
<1>3. i # 0
  OBVIOUS
<1> HIDE DEF v, i, t
<1>4. Given(v.netif.index) /\ v.netif.index[1] = i
  <2>1. CASE Given(c.vrf.netif.index)
    BY <1>1, <1>2, <2>1 DEF Or
  <2>2. CASE ~Given(c.vrf.netif.index)
    <3>1. i = d.vrf_ifindex /\ v.netif.index = <<i>>
      BY <1>1, <1>2, <1>3, <2>2 DEF Or, NonZero
    <3> QED
      BY <3>1 DEF Given
  <2> QED
    BY <2>1, <2>2
<1>5. i \in p /\ VrfTable[i] # 0 /\ (Given(v.table) => v.table[1] = VrfTable[i])
  <2>1. ~Failed(ValidateVrf(v, p))
    BY DEF v
  <2> QED
    BY <1>2, <1>4, <2>1, VrfIs, ZenonT(60)
<1>6. t \in {0, VrfTable[i]} /\ (VrfsNamed => t # 0)
  <2>1. CASE Given(c.vrf.table)
    BY <1>1, <1>2, <1>5, <2>1 DEF Or
  <2>2. CASE ~Given(c.vrf.table) /\ d.vrf_table # 0
    <3>1. t = d.vrf_table /\ v.table = <<t>>
      BY <1>1, <1>2, <2>2 DEF Or, NonZero
    <3> QED
      BY <1>5, <3>1 DEF Given
  <2>3. CASE ~Given(c.vrf.table) /\ d.vrf_table = 0
    <3>1. t = 0
      BY <1>1, <2>3 DEF Or
    <3>2. CASE Given(c.vrf.netif.index)
      <4>1. Derives(c) => Given(c.vrf.table)
        <5>1. Derives(c) => c.vrf.table = <<VrfTable[c.vrf.netif.index[1]]>>
          BY <1>1, <3>2 DEF Derives
        <5> QED
          BY <5>1 DEF Given
      <4> QED
        BY <2>3, <3>1, <4>1
    <3>3. CASE ~Given(c.vrf.netif.index)
      BY <1>1, <1>3, <2>3, <3>1, <3>3 DEF Or, Bound
    <3> QED
      BY <3>2, <3>3
  <2> QED
    BY <2>1, <2>2, <2>3
<1> QED
  BY <1>5, <1>6 DEF i, t

(* So an accepted change leaves the session bound as it should be.         *)
LEMMA BoundKept ==
  ASSUME NEW d, Bound(d), NEW c, VrfsNamed => Derives(c), NEW p, p \subseteq Links,
         AddrsParse(c), ~Failed(ValidateVrf(VrfView(d, c), p))
  PROVE  Bound(Assigned(d, c))
<1> DEFINE a == Assigned(d, c)
<1>1. a.src = Or(c.src, d.src) /\ a.dst = Or(c.dst, d.dst)
  BY DEF Assigned
<1>2. a.src.host # Garbled /\ a.dst.host # Garbled
  BY <1>1 DEF AddrsParse, Or, Bound
<1>3. a.vrf_ifindex # 0 =>
        /\ a.vrf_ifindex \in Links /\ VrfTable[a.vrf_ifindex] # 0
        /\ a.vrf_table \in {0, VrfTable[a.vrf_ifindex]}
        /\ VrfsNamed => a.vrf_table # 0
  BY VrfApplied
<1> QED
  BY <1>2, <1>3 DEF Bound

(* __bbdd_d_session_apply_c assigns all fields. *)
LEMMA AssignedRecord ==
  ASSUME NEW d, NEW c
  PROVE  Assigned(d, c) = [f \in DOMAIN Assigned(d, c) |-> Assigned(d, c)[f]]
<1> DEFINE x5 == [f \in Flags |-> Or(c.flags[f], d.flags[f])]
           x9 == BfdPort(x5["multihop"])
           y1 == IfindexAssigned(d, c)
           y2 == IF c.vrf.netif.unset THEN 0 ELSE Or(c.vrf.netif.index, d.vrf_ifindex)
           y3 == Or(c.vrf.table, IF c.vrf.netif.unset THEN 0 ELSE d.vrf_table)
           r == [discr |-> Or(c.discr, d.discr), remote |-> Or(c.remote, d.remote),
                 user_remote |-> Or(c.remote, d.user_remote), name |-> Or(c.name, d.name),
                 flags |-> x5, src |-> Or(c.src, d.src), dst |-> Or(c.dst, d.dst),
                 sport |-> d.sport, dport |-> x9, ifindex |-> y1, vrf_ifindex |-> y2,
                 vrf_table |-> y3, tx |-> Or(c.tx, d.tx), rx |-> Or(c.rx, d.rx),
                 mult |-> Or(c.mult, d.mult), hold |-> Or(c.hold, d.hold), ttl |-> Or(c.ttl, d.ttl)]
<1>1. Assigned(d, c) = r
  BY Zenon DEF Assigned
<1> HIDE DEF x5, x9, y1, y2, y3
<1>2. r = [f \in DOMAIN r |-> r[f]]
  OBVIOUS
<1> HIDE DEF r
<1> QED
  BY <1>1, <1>2

(* A change that bbdd_d_session_apply_c accepts yields a sound session and *)
(* touches neither the source port nor a discriminator that was there.     *)
LEMMA ApplySound ==
  ASSUME NEW d, Bound(d), NEW c, VrfsNamed => Derives(c), NEW p, p \subseteq Links,
         ~Failed(ApplyC(d, c, p))
  PROVE  /\ Sound(ApplyC(d, c, p)[1])
         /\ ApplyC(d, c, p)[1].sport = d.sport
         /\ d.discr # 0 => ApplyC(d, c, p)[1].discr = d.discr
         /\ Given(c.discr) => ApplyC(d, c, p)[1].discr = c.discr[1]
<1>1. /\ ~DiscrChanges(d, c)
      /\ FamiliesAgree(d, c)
      /\ MandatoryNonZero(d, c)
      /\ AddrsParse(c)
      /\ ~Failed(ValidateVrf(VrfView(d, c), p))
      /\ ApplyC(d, c, p) = <<Assigned(d, c)>>
  BY DEF ApplyC, Failed, Error, Ok
<1>2. ApplyC(d, c, p)[1] = Assigned(d, c)
  BY <1>1
<1> DEFINE a == Assigned(d, c)
<1>3. /\ a.discr = Or(c.discr, d.discr)
      /\ a.sport = d.sport
      /\ a.dst = Or(c.dst, d.dst)
      /\ a.src = Or(c.src, d.src)
      /\ a.tx = Or(c.tx, d.tx)
      /\ a.rx = Or(c.rx, d.rx)
      /\ a.mult = Or(c.mult, d.mult)
      /\ a.dport = BfdPort(a.flags["multihop"])
  BY Zenon DEF Assigned
<1>4. /\ a = [f \in DOMAIN ZeroSession |-> a[f]]
      /\ a.flags = [f \in Flags |-> a.flags[f]]
  <2>1. DOMAIN a = DOMAIN ZeroSession
    BY Zenon DEF Assigned, ZeroSession
  <2>2. a = [f \in DOMAIN a |-> a[f]]
    BY AssignedRecord
  <2>3. a.flags = [f \in Flags |-> Or(c.flags[f], d.flags[f])]
    BY DEF Assigned
  <2> HIDE DEF a
  <2>4. a.flags = [f \in Flags |-> a.flags[f]]
    BY <2>3
  <2> QED
    BY <2>1, <2>2, <2>4
<1>5. a.discr # 0 /\ 0 \notin {a.tx, a.rx, a.mult}
  BY <1>1, <1>3, ZenonT(60) DEF MandatoryNonZero
<1>6. a.dst.af # 0 /\ a.src.af \in {0, a.dst.af}
  BY <1>1, <1>3 DEF FamiliesAgree
<1>7. d.discr # 0 => a.discr = d.discr
  BY <1>1, <1>3 DEF DiscrChanges
<1>8. Given(c.discr) => a.discr = c.discr[1]
  BY <1>3 DEF Or
<1>9. Bound(a)
  BY <1>1, BoundKept
<1> HIDE DEF a
<1> QED
  BY <1>2, <1>3, <1>4, <1>5, <1>6, <1>7, <1>8, <1>9 DEF Sound, a

(* bbdd_d_session_add starts from the discriminator and the port given. *)
LEMMA NewFields ==
  ASSUME NEW discr, NEW port
  PROVE  /\ NewSession(discr, port).discr = discr /\ NewSession(discr, port).sport = port
         /\ Bound(NewSession(discr, port))
BY DEF NewSession, ZeroSession, NoAddr, Garbled, Bound

-----------------------------------------------------------------------------
(* Requests and messages *)

(* The interfaces are the only fields of a request that are filled in. *)
LEMMA FieldsKept ==
  ASSUME NEW c \in ChangeType, NEW a, NEW b, NEW e, e = [c EXCEPT !.netif = a, !.vrf = b]
  PROVE  /\ e.netif = a /\ e.vrf = b
         /\ e.discr = c.discr /\ e.remote = c.remote /\ e.name = c.name /\ e.flags = c.flags
         /\ e.src = c.src /\ e.dst = c.dst /\ e.tx = c.tx /\ e.rx = c.rx /\ e.mult = c.mult
         /\ e.hold = c.hold /\ e.ttl = c.ttl
BY DEF ChangeType

(* What bbdd_d_jrpc_dissect_validate_session makes of a request *)
LEMMA DissectIs ==
  ASSUME NEW c \in ChangeType, NEW p, p \subseteq Links, ~Failed(DissectValidate(c, p)),
         NEW e, e = DissectValidate(c, p)[1]
  PROVE  /\ ~Failed(DissectOne(c))
         /\ ~Failed(ValidateNetif(c.netif, p))
         /\ Given(c.vrf.netif.name) => ~Failed(ValidateVrf(c.vrf, p))
         /\ e = [c EXCEPT !.netif = ValidateNetif(c.netif, p)[1],
                          !.vrf = IF Given(c.vrf.netif.name) THEN ValidateVrf(c.vrf, p)[1] ELSE c.vrf]
<1> DEFINE netif == ValidateNetif(c.netif, p)
           vrf == IF Given(c.vrf.netif.name) THEN ValidateVrf(c.vrf, p) ELSE Ok(c.vrf)
<1>1. /\ ~Failed(DissectOne(c)) /\ ~Failed(netif) /\ ~Failed(vrf)
      /\ DissectValidate(c, p) = <<[c EXCEPT !.netif = netif[1], !.vrf = vrf[1]]>>
  BY DEF DissectValidate, Failed, Error, Ok
<1>2. vrf[1] = IF Given(c.vrf.netif.name) THEN ValidateVrf(c.vrf, p)[1] ELSE c.vrf
  BY DEF Ok
<1>3. Given(c.vrf.netif.name) => ~Failed(ValidateVrf(c.vrf, p))
  BY <1>1
<1> HIDE DEF netif, vrf
<1>4. e = [c EXCEPT !.netif = netif[1], !.vrf = vrf[1]]
  BY <1>1
<1> QED
  BY <1>1, <1>2, <1>3, <1>4 DEF netif

(* Both the name and the index are set. *)
LEMMA NamedAndIndexed ==
  ASSUME NEW n \in NetifType, NEW a
  PROVE  [n EXCEPT !.name = a, !.index = a] = [unset |-> n.unset, name |-> a, index |-> a]
<1>1. n \in [unset : BOOLEAN, name : Optional(Nat), index : Optional(Nat)]
  BY DEF NetifType
<1>2. DOMAIN n = {"unset", "name", "index"} /\ n = [f \in DOMAIN n |-> n[f]]
  BY <1>1
<1> DEFINE y == [n EXCEPT !.name = a, !.index = a]
           z == [unset |-> n.unset, name |-> a, index |-> a]
<1>3. DOMAIN y = DOMAIN n /\ y = [f \in DOMAIN n |-> y[f]]
  BY <1>2, Zenon
<1>4. y["unset"] = n["unset"] /\ y["name"] = a /\ y["index"] = a
  BY <1>2
<1>5. z = [f \in {"unset", "name", "index"} |-> z[f]]
  OBVIOUS
<1>6. z["unset"] = n["unset"] /\ z["name"] = a /\ z["index"] = a
  OBVIOUS
<1> HIDE DEF y, z
<1>7. \A f \in {"unset", "name", "index"} : y[f] = z[f]
  BY <1>4, <1>6
<1>8. y = z
  BY <1>2, <1>3, <1>5, <1>7
<1> QED
  BY <1>8 DEF y, z

(* An interface after it was filled in *)
LEMMA NetifFilled ==
  ASSUME NEW n \in NetifType, NEW p, ~Failed(ValidateNetif(n, p)),
         NEW e, e = ValidateNetif(n, p)[1]
  PROVE  /\ e.unset = n.unset
         /\ ~Given(n.name) /\ ~Given(n.index) => e = n
         /\ Given(n.name) \/ Given(n.index) =>
              \E i : /\ e = [unset |-> n.unset, name |-> <<i>>, index |-> <<i>>]
                     /\ Given(n.name) => n.name[1] = i
                     /\ Given(n.index) => n.index[1] = i
                     /\ i \in p \/ (i = 0 /\ ~Given(n.index))
<1>1. CASE ~Given(n.name) /\ ~Given(n.index)
  <2>1. ValidateNetif(n, p) = <<n>>
    BY <1>1, NetifIs, Zenon
  <2>2. e = n
    BY <2>1
  <2> QED
    BY <1>1, <2>2
<1>2. CASE Given(n.name) \/ Given(n.index)
  <2>1. PICK i : /\ ValidateNetif(n, p) = <<[n EXCEPT !.name = <<i>>, !.index = <<i>>]>>
                 /\ Given(n.name) => n.name[1] = i
                 /\ Given(n.index) => n.index[1] = i
                 /\ i \in p \/ (i = 0 /\ ~Given(n.index))
    BY <1>2, NetifIs, Zenon
  <2>2. [n EXCEPT !.name = <<i>>, !.index = <<i>>] = [unset |-> n.unset, name |-> <<i>>, index |-> <<i>>]
    BY NamedAndIndexed, Zenon
  <2> DEFINE x == [unset |-> n.unset, name |-> <<i>>, index |-> <<i>>]
  <2>3. x.unset = n.unset
    OBVIOUS
  <2>4. ValidateNetif(n, p) = <<x>>
    BY <2>1, <2>2
  <2> HIDE DEF x
  <2>5. e = x
    BY <2>4
  <2> QED
    BY <1>2, <2>1, <2>3, <2>5, Zenon DEF x
<1> QED
  BY <1>1, <1>2, Zenon

(* A VRF after it was filled in *)
LEMMA VrfFilled ==
  ASSUME NEW v, v.netif \in NetifType, NEW p, p \subseteq Links, ~Failed(ValidateVrf(v, p)),
         NEW e, e = ValidateVrf(v, p)[1]
  PROVE  /\ e.netif.unset = v.netif.unset
         /\ ~Given(v.netif.name) /\ ~Given(v.netif.index) => e = v
         /\ Given(v.netif.name) \/ Given(v.netif.index) =>
              \E i \in p :
                /\ e = [netif |-> [unset |-> v.netif.unset, name |-> <<i>>, index |-> <<i>>],
                        table |-> <<VrfTable[i]>>]
                /\ Given(v.netif.name) => v.netif.name[1] = i
                /\ Given(v.netif.index) => v.netif.index[1] = i
                /\ VrfTable[i] # 0
                /\ Given(v.table) => v.table[1] = VrfTable[i]
<1>0. "index" \in DOMAIN v.netif
  BY DEF NetifType
<1>1. CASE ~Given(v.netif.name) /\ ~Given(v.netif.index)
  <2>1. ValidateVrf(v, p) = <<v>>
    BY <1>0, <1>1, VrfIs, Zenon
  <2>2. e = v
    BY <2>1
  <2> QED
    BY <1>1, <2>2
<1>2. CASE Given(v.netif.name) \/ Given(v.netif.index)
  <2>1. PICK i \in p :
          /\ ValidateVrf(v, p) =
               <<[netif |-> [v.netif EXCEPT !.name = <<i>>, !.index = <<i>>],
                  table |-> <<VrfTable[i]>>]>>
          /\ Given(v.netif.name) => v.netif.name[1] = i
          /\ Given(v.netif.index) => v.netif.index[1] = i
          /\ VrfTable[i] # 0
          /\ Given(v.table) => v.table[1] = VrfTable[i]
    BY <1>0, <1>2, VrfIs, Zenon
  <2> DEFINE n == [unset |-> v.netif.unset, name |-> <<i>>, index |-> <<i>>]
             x == [netif |-> n, table |-> <<VrfTable[i]>>]
  <2>2. [v.netif EXCEPT !.name = <<i>>, !.index = <<i>>] = n
    BY NamedAndIndexed, Zenon
  <2>3. n.unset = v.netif.unset
    OBVIOUS
  <2> HIDE DEF n
  <2>4. x.netif = n
    OBVIOUS
  <2>5. ValidateVrf(v, p) = <<x>>
    BY <2>1, <2>2
  <2> HIDE DEF x
  <2>6. e = x
    BY <2>5
  <2>7. e.netif.unset = v.netif.unset
    BY <2>3, <2>4, <2>6
  <2> QED
    BY <1>2, <2>1, <2>6, <2>7, Zenon DEF x, n
<1> QED
  BY <1>1, <1>2

(* A VRF that is named gets its table. *)
LEMMA DissectDerives ==
  ASSUME NEW c \in ChangeType, Given(c.vrf.netif.index) => Given(c.vrf.netif.name),
         NEW p, p \subseteq Links, ~Failed(DissectValidate(c, p)),
         NEW e, e.vrf = DissectValidate(c, p)[1].vrf
  PROVE  Derives(e)
<1> DEFINE g == DissectValidate(c, p)[1]
           netif == ValidateNetif(c.netif, p)[1]
           vrf == IF Given(c.vrf.netif.name) THEN ValidateVrf(c.vrf, p)[1] ELSE c.vrf
<1>1. /\ Given(c.vrf.netif.name) => ~Failed(ValidateVrf(c.vrf, p))
      /\ g = [c EXCEPT !.netif = netif, !.vrf = vrf]
  BY DissectIs, Zenon
<1>2. e.vrf = vrf
  <2> HIDE DEF g, netif, vrf
  <2>1. g.vrf = vrf
    <3>1. g = [c EXCEPT !.netif = netif, !.vrf = vrf]
      BY <1>1
    <3> QED
      BY <3>1 DEF ChangeType
  <2> QED
    BY <2>1 DEF g
<1>3. c.vrf.netif \in NetifType
  BY DEF ChangeType
<1>4. CASE ~Given(c.vrf.netif.name)
  BY <1>2, <1>4 DEF Derives
<1>5. CASE Given(c.vrf.netif.name)
  <2> DEFINE x == ValidateVrf(c.vrf, p)[1]
  <2>1. e.vrf = x
    BY <1>2, <1>5
  <2>2. PICK i : x = [netif |-> [unset |-> c.vrf.netif.unset, name |-> <<i>>, index |-> <<i>>],
                      table |-> <<VrfTable[i]>>]
    BY <1>1, <1>3, <1>5, VrfFilled
  <2>3. x.netif.index = <<i>> /\ x.table = <<VrfTable[i]>>
    BY <2>2
  <2> HIDE DEF x
  <2> QED
    BY <2>1, <2>3 DEF Derives
<1> QED
  BY <1>4, <1>5

(* So does that of a message, which is never given by its index. *)
LEMMA MsgDerives ==
  ASSUME NEW m, NEW p, p \subseteq Links, ~Failed(FromMsg(m)), ~Failed(ValidateMsg(FromMsg(m)[1], p))
  PROVE  Derives(ValidateMsg(FromMsg(m)[1], p)[1])
<1> DEFINE c == FromMsg(m)[1]
           r == ValidateMsg(c, p)[1]
           v == ValidateVrf(c.vrf, p)
<1>1. /\ "vrf" \in DOMAIN c /\ "index" \in DOMAIN c.vrf.netif
      /\ c.vrf.netif.index = <<>>
      /\ c.vrf.netif.unset => c.vrf.netif.name = <<>>
  <2>1. /\ "vrf" \in DOMAIN c
        /\ c.vrf = IF m.vrf_id = 0 THEN [NoVrf EXCEPT !.netif.unset = TRUE]
                   ELSE [netif |-> [NoNetif EXCEPT !.name = NonZero(m.vrfname)],
                         table |-> <<m.vrf_id>>]
    BY DEF FromMsg, Failed, Error, Ok, NoChange
  <2>2. NoNetif.index = <<>> /\ NoNetif.unset = FALSE /\ NoNetif.name = <<>>
        /\ DOMAIN NoNetif = {"unset", "name", "index"}
    BY DEF NoNetif
  <2> HIDE DEF c
  <2>3. CASE m.vrf_id = 0
    <3>1. c.vrf.netif = [NoNetif EXCEPT !.unset = TRUE]
      BY <2>1, <2>3 DEF NoVrf
    <3> QED
      BY <2>1, <2>2, <3>1
  <2>4. CASE m.vrf_id # 0
    <3>1. c.vrf.netif = [NoNetif EXCEPT !.name = NonZero(m.vrfname)]
      BY <2>1, <2>4
    <3> QED
      BY <2>1, <2>2, <3>1
  <2> QED
    BY <2>3, <2>4
<1> HIDE DEF c
<1>2. ~Failed(v) /\ \E n : r = [c EXCEPT !.netif = n, !.vrf = v[1]]
  BY Zenon DEF ValidateMsg, Failed, Error, Ok, c
<1>3. r.vrf = v[1]
  BY <1>1, <1>2
<1> HIDE DEF r
<1>4. CASE ~Given(c.vrf.netif.name)
  <2>1. v = <<c.vrf>>
    BY <1>1, <1>2, <1>4, VrfIs, Zenon DEF Given
  <2>2. r.vrf = c.vrf
    BY <1>3, <2>1
  <2> QED
    BY <1>1, <2>2 DEF Derives, Given, r, c
<1>5. CASE Given(c.vrf.netif.name)
  <2>1. PICK i : v = <<[netif |-> [c.vrf.netif EXCEPT !.name = <<i>>, !.index = <<i>>],
                        table |-> <<VrfTable[i]>>]>>
    <3> DEFINE w == c.vrf
    <3>1. "index" \in DOMAIN w.netif /\ ~Failed(ValidateVrf(w, p)) /\ Given(w.netif.name)
      BY <1>1, <1>2, <1>5
    <3> HIDE DEF w
    <3>2. \E i \in p :
            /\ ValidateVrf(w, p) =
                 <<[netif |-> [w.netif EXCEPT !.name = <<i>>, !.index = <<i>>],
                    table |-> <<VrfTable[i]>>]>>
            /\ Given(w.netif.name) => w.netif.name[1] = i
            /\ Given(w.netif.index) => w.netif.index[1] = i
            /\ VrfTable[i] # 0
            /\ Given(w.table) => w.table[1] = VrfTable[i]
      BY <3>1, VrfIs, Zenon
    <3> QED
      BY <3>2, Zenon DEF w
  <2> DEFINE n == [c.vrf.netif EXCEPT !.name = <<i>>, !.index = <<i>>]
             x == [netif |-> n, table |-> <<VrfTable[i]>>]
  <2>2. n.index = <<i>>
    BY <1>1
  <2> HIDE DEF n
  <2>3. x.netif = n /\ x.table = <<VrfTable[i]>> /\ v = <<x>>
    BY <2>1 DEF n
  <2> HIDE DEF x
  <2>4. r.vrf = x
    BY <1>3, <2>3
  <2> QED
    BY <2>2, <2>3, <2>4 DEF Derives, r, c
<1> QED
  BY <1>4, <1>5

-----------------------------------------------------------------------------
(* bbdd_d_session_add *)

(* Entering a session again replaces it. *)
LEMMA WithTwice ==
  ASSUME NEW f, NEW e, NEW v, NEW w
  PROVE  With(With(f, e, v), e, w) = With(f, e, w)
BY DEF With

(* Taking out a session that was just entered restores the directory. *)
LEMMA WithoutWith ==
  ASSUME NEW f, f = [d \in DOMAIN f |-> f[d]], NEW e, e \notin DOMAIN f, NEW v
  PROVE  Without(With(f, e, v), {e}) = f
BY DEF With, Without

(* The state that a successful bbdd_d_session_add leaves. *)
Grown(n, port, s) ==
  [sdir |-> With(sdir, n, s), spa |-> spa \cup {port},
   bpf |-> With(bpf, n, "ON_HOLD"), maps |-> maps \cup {n}]

(* bbdd_bpf_session_add leaves the daemon's own state alone. *)
LEMMA BpfAddIs ==
  ASSUME NEW a, NEW b, NEW f, NEW g, NEW n
  PROVE  BpfAdd([sdir |-> a, spa |-> b, bpf |-> f, maps |-> g], n)
         = [sdir |-> a, spa |-> b, bpf |-> With(f, n, "ON_HOLD"), maps |-> g \cup {n}]
<1> DEFINE x == [sdir |-> a, spa |-> b, bpf |-> f, maps |-> g]
<1>1. x.bpf = f /\ x.maps = g
  OBVIOUS
<1>2. BpfAdd(x, n) = [x EXCEPT !.bpf = With(f, n, "ON_HOLD"), !.maps = g \cup {n}]
  BY <1>1 DEF BpfAdd
<1> QED
  BY <1>2, Zenon

(* On a free port, all or nothing happens. *)
LEMMA AddOnOutcome ==
  ASSUME sdir = [d \in Sessions |-> sdir[d]], present \subseteq Links,
         NEW n, n \notin Sessions,
         NEW c, c.discr = <<n>>, VrfsNamed => Derives(c),
         NEW port \in Ports \ spa,
         NEW o \in AddOn(State, c, port)
  PROVE  /\ ~o.ok => o.x = State
         /\ o.ok => \E s : /\ Sound(s) /\ s.discr = n /\ s.sport = port
                          /\ o.x = Grown(n, port, s)
<1> DEFINE got == SportTaken(State, port)
           d == NewSession(n, port)
           entered == DirAdd(got, d)
           unwound == SportPut(DirDel(entered, d.discr), port)
           r == ApplyC(d, c, present)
<1>1. c.discr[1] = n /\ Given(c.discr)
  BY DEF Given
<1>2. d.discr = n /\ d.sport = port
  BY NewFields
<1>3. got = [State EXCEPT !.spa = spa \cup {port}]
  BY DEF SportTaken, State
<1>4. SportPut(got, port) = State
  <2>1. (spa \cup {port}) \ {port} = spa
    OBVIOUS
  <2>2. got.spa = spa \cup {port}
    BY <1>3 DEF State
  <2>3. SportPut(got, port) = [got EXCEPT !.spa = spa]
    BY <2>1, <2>2 DEF SportPut
  <2> QED
    BY <1>3, <2>3 DEF State
<1>5. entered = [got EXCEPT !.sdir = With(sdir, n, d)]
  BY <1>2, <1>3 DEF DirAdd, State
<1>6. unwound = State
  <2>1. Without(With(sdir, n, d), {n}) = sdir
    BY WithoutWith DEF Sessions
  <2>2. (spa \cup {port}) \ {port} = spa
    OBVIOUS
  <2>3. DirDel(entered, d.discr) = got
    BY <1>2, <1>3, <1>5, <2>1 DEF DirDel, State
  <2> QED
    BY <1>4, <2>3
<1>7. o \in IfFault("mem", Failure(SportPut(got, port)))
            \cup IF Failed(r) THEN Failure(unwound)
                 ELSE Success(BpfAdd(DirAdd(entered, r[1]), d.discr))
                      \cup IfFault("bpf", Failure(unwound))
  BY <1>1 DEF AddOn
<1>8. CASE o \in Failure(State)
  BY <1>8 DEF Failure
<1>9. CASE ~Failed(r) /\ o \in Success(BpfAdd(DirAdd(entered, r[1]), d.discr))
  <2>1. Sound(r[1]) /\ r[1].sport = port /\ r[1].discr = n
    BY <1>1, <1>2, <1>9, ApplySound, NewFields
  <2> HIDE DEF d, r
  <2>5. entered = [sdir |-> With(sdir, n, d), spa |-> spa \cup {port},
                   bpf |-> bpf, maps |-> maps]
    BY <1>3, <1>5 DEF State
  <2>6. With(With(sdir, n, d), r[1].discr, r[1]) = With(sdir, n, r[1])
    BY <2>1, WithTwice
  <2> HIDE DEF entered
  <2>2. DirAdd(entered, r[1]) = [sdir |-> With(sdir, n, r[1]), spa |-> spa \cup {port},
                                 bpf |-> bpf, maps |-> maps]
    BY <2>5, <2>6 DEF DirAdd
  <2>3. BpfAdd(DirAdd(entered, r[1]), d.discr) = Grown(n, port, r[1])
    <3>1. BpfAdd([sdir |-> With(sdir, n, r[1]), spa |-> spa \cup {port}, bpf |-> bpf, maps |-> maps], n)
            = Grown(n, port, r[1])
      <4> DEFINE f == With(sdir, n, r[1])
                 T == spa \cup {port}
      <4>1. Grown(n, port, r[1]) = [sdir |-> f, spa |-> T, bpf |-> With(bpf, n, "ON_HOLD"), maps |-> maps \cup {n}]
        BY DEF Grown
      <4> HIDE DEF f, T
      <4>2. BpfAdd([sdir |-> f, spa |-> T, bpf |-> bpf, maps |-> maps], n)
              = [sdir |-> f, spa |-> T, bpf |-> With(bpf, n, "ON_HOLD"), maps |-> maps \cup {n}]
        BY BpfAddIs
      <4> QED
        BY <4>1, <4>2, Zenon DEF f, T
    <3> QED
      BY <1>2, <2>2, <3>1, Zenon
  <2>4. o.ok /\ o.x = Grown(n, port, r[1])
    BY <1>9, <2>3 DEF Success, entered
  <2> QED
    BY <2>1, <2>4
<1> QED
  BY <1>4, <1>6, <1>7, <1>8, <1>9 DEF IfFault

(* The same of bbdd_d_session_add: all or nothing happens. *)
LEMMA AddOutcome ==
  ASSUME sdir = [d \in Sessions |-> sdir[d]], present \subseteq Links,
         NEW n, n \notin Sessions,
         NEW c, c.discr = <<n>>, VrfsNamed => Derives(c),
         NEW o \in SessionAdd(State, c)
  PROVE  /\ ~o.ok => o.x = State
         /\ o.ok => \E port \in Ports \ spa : \E s :
                      /\ Sound(s) /\ s.discr = n /\ s.sport = port
                      /\ o.x = Grown(n, port, s)
<1>1. CASE o \in Failure(State)
  BY <1>1 DEF Failure
<1>2. CASE \E port \in SportGet(State) : o \in AddOn(State, c, port)
  <2>1. PICK port \in SportGet(State) : o \in AddOn(State, c, port)
    BY <1>2
  <2>2. port \in Ports \ spa
    BY <2>1 DEF SportGet, State
  <2>3. /\ ~o.ok => o.x = State
        /\ o.ok => \E s : /\ Sound(s) /\ s.discr = n /\ s.sport = port
                         /\ o.x = Grown(n, port, s)
    BY <2>1, <2>2, AddOnOutcome
  <2> QED
    BY <2>2, <2>3
<1> QED
  BY <1>1, <1>2 DEF SessionAdd
-----------------------------------------------------------------------------
(* What the actions do to the directories *)

(* What all actions do to the rest of the state. *)
Around ==
  /\ present' \subseteq Links
  /\ refused' \in BOOLEAN

(* Nothing happens to the directories. *)
LEMMA StillStep ==
  ASSUME IInv, UNCHANGED dirs, Around
  PROVE  IInv'
<1>1. sdir' = sdir /\ spa' = spa /\ bpf' = bpf /\ maps' = maps
  BY DEF dirs
<1>2. TypeOK'
  BY <1>1 DEF IInv, TypeOK, Sessions, Around
<1>3. PortsExact'
  BY <1>1 DEF IInv, PortsExact, Sessions
<1>6. DirsAgree'
  BY <1>1, Zenon DEF IInv, DirsAgree, Sessions
<1>4. (\A d \in Sessions : Sound(sdir[d]))'
  BY <1>1 DEF IInv, Sound, Sessions
<1>5. (sdir = [d \in Sessions |-> sdir[d]])'
  BY <1>1 DEF IInv, Sessions
<1> QED
  BY <1>2, <1>3, <1>4, <1>5, <1>6 DEF IInv

(* A session is added. *)
LEMMA GrowStep ==
  ASSUME IInv, Around,
         NEW n \in Discrs \cup {0}, n \notin Sessions,
         NEW port \in Ports \ spa,
         NEW s, Sound(s), s.discr = n, s.sport = port,
         Become(Grown(n, port, s))
  PROVE  IInv'
<1>1. /\ sdir' = With(sdir, n, s)
      /\ spa' = spa \cup {port}
      /\ bpf' = With(bpf, n, "ON_HOLD")
      /\ maps' = maps \cup {n}
  BY DEF Become, Grown
<1>2. /\ DOMAIN sdir' = Sessions \cup {n}
      /\ sdir'[n] = s
      /\ \A d \in Sessions : sdir'[d] = sdir[d]
  BY <1>1 DEF With, Sessions
<1>3. /\ DOMAIN bpf' = DOMAIN bpf \cup {n}
      /\ bpf'[n] = "ON_HOLD"
      /\ \A d \in DOMAIN bpf : d # n => bpf'[d] = bpf[d]
  BY <1>1 DEF With
<1>4. n # 0
  BY DEF Sound
<1>5. TypeOK'
  BY <1>1, <1>2, <1>3, <1>4 DEF IInv, TypeOK, Sound, Sessions, Around
<1>6. \A d \in Sessions' : Sound(sdir'[d])
  BY <1>2 DEF IInv, Sessions
<1>7. PortsExact'
  BY <1>1, <1>2 DEF IInv, PortsExact, Sessions
<1>8. DirsAgree'
  BY <1>1, <1>2, <1>3 DEF IInv, DirsAgree, Sessions
<1>9. sdir' = [d \in Sessions' |-> sdir'[d]]
  BY <1>1 DEF With, Sessions
<1> QED
  BY <1>5, <1>6, <1>7, <1>8, <1>9 DEF IInv, Sound

(* Sessions are changed in place. *)
LEMMA ChangeStep ==
  ASSUME IInv, Around,
         sdir' = [d \in Sessions |-> sdir'[d]],
         \A d \in Sessions : /\ Sound(sdir'[d])
                             /\ sdir'[d].discr = sdir[d].discr
                             /\ sdir'[d].sport = sdir[d].sport,
         DOMAIN bpf' = DOMAIN bpf,
         \A d \in DOMAIN bpf : bpf'[d] \in {"ON_HOLD", "ACTIVE"},
         UNCHANGED <<spa, maps>>
  PROVE  IInv'
<1>1. DOMAIN sdir' = Sessions
  OBVIOUS
<1>2. TypeOK'
  BY <1>1, ZenonT(60) DEF IInv, TypeOK, Sound, Sessions, Around
<1>3. PortsExact'
  BY <1>1 DEF IInv, PortsExact, Sessions
<1>4. DirsAgree'
  BY <1>1, Zenon DEF IInv, DirsAgree, Sessions
<1> QED
  BY <1>1, <1>2, <1>3, <1>4 DEF IInv, Sound, Sessions

(* Sessions are deleted. *)
LEMMA DelStep ==
  ASSUME IInv, Around, NEW S \in SUBSET Sessions, Del(S)
  PROVE  IInv'
<1>1. /\ DOMAIN sdir' = Sessions \ S
      /\ \A d \in Sessions \ S : sdir'[d] = sdir[d]
      /\ sdir' = [d \in DOMAIN sdir' |-> sdir'[d]]
  BY DEF Del, Without, Sessions
<1>2. /\ DOMAIN bpf' = DOMAIN bpf \ S
      /\ \A d \in DOMAIN bpf \ S : bpf'[d] = bpf[d]
  BY DEF Del, Without
<1>3. spa' = spa \ {sdir[d].sport : d \in S} /\ maps' = maps \ S
  BY DEF Del
<1>4. TypeOK'
  BY <1>1, <1>2, <1>3 DEF IInv, TypeOK, Sessions, Around
<1>5. \A d \in Sessions' : Sound(sdir'[d])
  BY <1>1 DEF IInv, Sessions
<1>6. PortsExact'
  <2>1. \A d, e \in Sessions' : sdir'[d].sport = sdir'[e].sport => d = e
    BY <1>1 DEF IInv, PortsExact, Sessions
  <2>2. ASSUME NEW p \in spa'
        PROVE  p \in {sdir'[d].sport : d \in Sessions'}
    <3>1. PICK d \in Sessions : sdir[d].sport = p
      BY <1>3, <2>2 DEF IInv, PortsExact
    <3>2. d \notin S
      BY <1>3, <2>2, <3>1
    <3> QED
      BY <1>1, <3>1, <3>2 DEF Sessions
  <2>3. ASSUME NEW d \in Sessions'
        PROVE  sdir'[d].sport \in spa'
    <3>1. d \in Sessions \ S /\ sdir'[d] = sdir[d]
      BY <1>1, <2>3 DEF Sessions
    <3>2. \A e \in S : sdir[e].sport # sdir[d].sport
      BY <3>1 DEF IInv, PortsExact
    <3>3. sdir[d].sport \in spa
      BY <3>1 DEF IInv, PortsExact
    <3> QED
      BY <1>3, <3>1, <3>2, <3>3
  <2> QED
    BY <2>1, <2>2, <2>3 DEF PortsExact
<1>7. DirsAgree'
  BY <1>1, <1>2, <1>3, Zenon DEF IInv, DirsAgree, Sessions
<1> QED
  BY <1>1, <1>4, <1>5, <1>6, <1>7 DEF IInv, Sound, Sessions

-----------------------------------------------------------------------------
(* The actions *)

(* Filling in the interfaces leaves the discriminator alone. *)
LEMMA NetifsFilled ==
  ASSUME NEW c, "discr" \in DOMAIN c, NEW a, NEW b
  PROVE  /\ DOMAIN [c EXCEPT !.netif = a, !.vrf = b] = DOMAIN c
         /\ [c EXCEPT !.netif = a, !.vrf = b].discr = c.discr
<1> DEFINE x == [c EXCEPT !.netif = a]
           y == [x EXCEPT !.vrf = b]
<1>1. DOMAIN x = DOMAIN c /\ x.discr = c.discr
  OBVIOUS
<1>2. DOMAIN y = DOMAIN c /\ y.discr = c.discr
  <2> HIDE DEF x
  <2> QED
    BY <1>1
<1>3. y = [c EXCEPT !.netif = a, !.vrf = b]
  OBVIOUS
<1> QED
  BY <1>2, <1>3

(* An accepted request is the request, but for the interfaces. *)
LEMMA DissectKeeps ==
  ASSUME NEW c, DOMAIN c = DOMAIN NoChange, NEW p, ~Failed(DissectValidate(c, p))
  PROVE  /\ DOMAIN DissectValidate(c, p)[1] = DOMAIN NoChange
         /\ DissectValidate(c, p)[1].discr = c.discr
<1>1. PICK netif, vrf :
        DissectValidate(c, p) = <<[c EXCEPT !.netif = netif, !.vrf = vrf]>>
  BY Zenon DEF DissectValidate, Failed, Error, Ok
<1>2. "discr" \in DOMAIN c
  BY DEF NoChange
<1> DEFINE e == [c EXCEPT !.netif = netif, !.vrf = vrf]
<1>3. DOMAIN e = DOMAIN c /\ e.discr = c.discr
  BY <1>2, NetifsFilled
<1>4. DissectValidate(c, p) = <<e>>
  BY <1>1
<1> HIDE DEF e
<1> QED
  BY <1>3, <1>4

(* So is a message that passes bbdd_d_bfdd_handle_add_session_vrf. *)
LEMMA MsgKeeps ==
  ASSUME NEW m, NEW p,
         ~Failed(FromMsg(m)), ~Failed(ValidateMsg(FromMsg(m)[1], p))
  PROVE  m.lid # 0 /\ ValidateMsg(FromMsg(m)[1], p)[1].discr = <<m.lid>>
<1> DEFINE c == FromMsg(m)[1]
<1>1. "discr" \in DOMAIN c /\ c.discr = NonZero(m.lid)
  BY ZenonT(60) DEF FromMsg, Failed, Error, Ok, NoChange
<1> HIDE DEF c
<1>2. Given(c.discr)
  BY DEF ValidateMsg, Failed, Error, c
<1>3. PICK netif, vrf :
        ValidateMsg(c, p) = <<[c EXCEPT !.netif = netif, !.vrf = vrf]>>
  BY Zenon DEF ValidateMsg, Failed, Error, Ok, c
<1>4. ValidateMsg(c, p)[1].discr = c.discr
  <2> DEFINE e == [c EXCEPT !.netif = netif, !.vrf = vrf]
  <2>1. e.discr = c.discr
    BY <1>1, NetifsFilled
  <2>2. ValidateMsg(c, p) = <<e>>
    BY <1>3
  <2> HIDE DEF e
  <2> QED
    BY <2>1, <2>2
<1> QED
  BY <1>1, <1>2, <1>4 DEF NonZero, Given, c

(* A new session, by either way: all or nothing happens. *)
LEMMA AddedStep ==
  ASSUME IInv, NEW n \in Discrs \cup {0}, n \notin Sessions,
         NEW c, c.discr = <<n>>, VrfsNamed => Derives(c),
         NEW o \in SessionAdd(State, c), Added(o)
  PROVE  IInv' /\ (refused' => UNCHANGED dirs)
<1>0. sdir = [d \in Sessions |-> sdir[d]] /\ present \subseteq Links
  BY DEF IInv, TypeOK
<1>1. /\ ~o.ok => o.x = State
      /\ o.ok => \E port \in Ports \ spa : \E s :
                   /\ Sound(s) /\ s.discr = n /\ s.sport = port
                   /\ o.x = Grown(n, port, s)
  BY <1>0, AddOutcome
<1>2. Around /\ Become(o.x) /\ refused' = ~o.ok
  BY <1>0 DEF Added, Around
<1>3. CASE ~o.ok
  <2>1. UNCHANGED dirs
    BY <1>1, <1>2, <1>3 DEF Become, State, dirs
  <2> QED
    BY <1>2, <2>1, StillStep
<1>4. CASE o.ok
  BY <1>1, <1>2, <1>4, GrowStep, Zenon
<1> QED
  BY <1>3, <1>4

(* bbdd_d_handle_session_add *)
LEMMA AddStep ==
  ASSUME IInv, NEW c \in Changes, HandleSessionAdd(c)
  PROVE  IInv' /\ (refused' => UNCHANGED dirs)
<1> DEFINE r == DissectValidate(c, present)
<1>1. CASE Refuse(TRUE)
  BY <1>1, StillStep DEF Refuse, Around, IInv, TypeOK
<1>2. CASE ~Refuse(TRUE)
  <2>1. /\ ~Failed(r)
        /\ ~(Given(c.discr) /\ c.discr[1] \in Sessions)
    BY <1>2, Zenon DEF HandleSessionAdd
  <2>2. PICK n \in (IF Given(c.discr) THEN {c.discr[1]} ELSE UniqueDiscrs) :
          \E o \in SessionAdd(State, [r[1] EXCEPT !.discr = <<n>>]) : Added(o)
    BY <1>2, <2>1, Zenon DEF HandleSessionAdd
  <2>3. n \in Discrs \cup {0} /\ n \notin Sessions
    BY <2>1, InputAssumption DEF UniqueDiscrs, Or, IInv, TypeOK
  <2>4. DOMAIN r[1] = DOMAIN NoChange
    BY <2>1, InputAssumption, DissectKeeps DEF ChangeType, NoChange
  <2> DEFINE e == [r[1] EXCEPT !.discr = <<n>>]
  <2>5. e.discr = <<n>> /\ e.vrf = r[1].vrf
    <3> HIDE DEF r
    <3> QED
      BY <2>4 DEF NoChange
  <2> HIDE DEF e
  <2>6. VrfsNamed => Derives(e)
    <3>1. c \in ChangeType /\ present \subseteq Links
      BY InputAssumption DEF IInv, TypeOK
    <3> QED
      BY <2>1, <2>5, <3>1, DissectDerives DEF VrfsNamed
  <2> QED
    BY <2>2, <2>3, <2>5, <2>6, AddedStep, Zenon DEF e
<1> QED
  BY <1>1, <1>2, Zenon

(* bbdd_d_handle_session_set: also when it stops half way. *)
LEMMA SetStep ==
  ASSUME IInv, NEW q, NEW ch \in Changes, NEW bulk, HandleSessionSet(q, ch, bulk)
  PROVE  IInv' /\ ~refused'
<1> DEFINE c == DissectValidate(ch, present)[1]
           Applies(d) == ~Failed(ApplyC(sdir[d], c, present))
<1>1. CASE Refuse(FALSE)
  BY <1>1, StillStep, Zenon DEF Refuse, Around, IInv, TypeOK
<1>2. CASE ~Refuse(FALSE)
  <2>1. /\ UNCHANGED <<spa, bpf, maps, present>>
        /\ refused' = FALSE
        /\ \E S \in SUBSET Sessions : /\ \A d \in S : Applies(d)
                                      /\ sdir' = Apply(S, c)
    <3>0. Selected(q) \in SUBSET Sessions
      BY DEF Selected
    <3>1. /\ UNCHANGED <<spa, bpf, maps, present>>
          /\ refused' = FALSE
          /\ \/ /\ \A d \in Selected(q) : Applies(d)
                /\ sdir' = Apply(Selected(q), c)
             \/ \E bad \in Selected(q), done \in SUBSET Selected(q) :
                  /\ \A d \in done : Applies(d)
                  /\ \/ sdir' = Apply(done, c)
                     \/ Applies(bad) /\ sdir' = Apply(done \cup {bad}, c)
      BY <1>2, Zenon DEF HandleSessionSet
    <3> HIDE DEF Applies
    <3> QED
      BY <3>0, <3>1, Zenon
  <2>2. PICK S \in SUBSET Sessions : /\ \A d \in S : Applies(d)
                                     /\ sdir' = Apply(S, c)
    BY <2>1
  <2>3. \A d \in Sessions :
          sdir'[d] = IF d \in S THEN ApplyC(sdir[d], c, present)[1] ELSE sdir[d]
    BY <2>2 DEF Apply
  <2>4. \A d \in Sessions : Sound(sdir[d])
    BY DEF IInv
  <2>9. VrfsNamed => Derives(c)
    <3>1. ch \in ChangeType /\ present \subseteq Links
      BY InputAssumption DEF IInv, TypeOK
    <3>2. ~Failed(DissectValidate(ch, present))
      BY <1>2, Zenon DEF HandleSessionSet
    <3> QED
      BY <3>1, <3>2, DissectDerives DEF VrfsNamed
  <2>5. ASSUME NEW d \in Sessions
        PROVE  /\ Sound(sdir'[d])
               /\ sdir'[d].discr = sdir[d].discr
               /\ sdir'[d].sport = sdir[d].sport
    <3>1. CASE d \in S
      <4>1. /\ ~Failed(ApplyC(sdir[d], c, present)) /\ sdir[d].discr # 0
            /\ Bound(sdir[d]) /\ present \subseteq Links
        BY <2>2, <2>4, <3>1, Zenon DEF Sound, IInv, TypeOK
      <4> DEFINE old == sdir[d]
      <4>3. ~Failed(ApplyC(old, c, present)) /\ old.discr # 0 /\ Bound(old)
        BY <4>1
      <4> HIDE DEF c, old
      <4>2. /\ Sound(ApplyC(old, c, present)[1])
            /\ ApplyC(old, c, present)[1].sport = old.sport
            /\ ApplyC(old, c, present)[1].discr = old.discr
        <5>1. (VrfsNamed => Derives(c)) /\ present \subseteq Links
          BY <2>9, <4>1
        <5>2. CASE VrfsNamed
          BY <5>1, <5>2, <4>3, ApplySound
        <5>3. CASE ~VrfsNamed
          BY <5>1, <5>3, <4>3, ApplySound
        <5> QED
          BY <5>2, <5>3
      <4> QED
        BY <2>3, <3>1, <4>2 DEF old
    <3>2. CASE d \notin S
      BY <2>3, <2>4, <3>2
    <3> QED
      BY <3>1, <3>2
  <2>6. sdir' = [d \in Sessions |-> sdir'[d]]
    BY <2>2 DEF Apply
  <2>7. Around
    BY <2>1, Zenon DEF Around, IInv, TypeOK
  <2>8. /\ DOMAIN bpf' = DOMAIN bpf
        /\ \A d \in DOMAIN bpf : bpf'[d] \in {"ON_HOLD", "ACTIVE"}
    BY <2>1 DEF IInv, TypeOK
  <2> QED
    BY <2>1, <2>5, <2>6, <2>7, <2>8, ChangeStep
<1> QED
  BY <1>1, <1>2, Zenon

(* bbdd_d_handle_session_del *)
LEMMA HandleDelStep ==
  ASSUME IInv, NEW q, NEW bulk, HandleSessionDel(q, bulk)
  PROVE  IInv' /\ ~refused'
<1>1. CASE Refuse(FALSE)
  BY <1>1, StillStep, Zenon DEF Refuse, Around, IInv, TypeOK
<1>2. CASE ~Refuse(FALSE)
  <2>1. Del(Selected(q)) /\ refused' = FALSE /\ UNCHANGED present
    BY <1>2, Zenon DEF HandleSessionDel
  <2>2. Selected(q) \in SUBSET Sessions
    BY DEF Selected
  <2>3. Around
    BY <2>1, Zenon DEF Around, IInv, TypeOK
  <2> QED
    BY <2>1, <2>2, <2>3, DelStep
<1> QED
  BY <1>1, <1>2, Zenon

(* One session of the directory is replaced by a sound one. *)
LEMMA ReplaceStep ==
  ASSUME IInv, NEW d \in Sessions, NEW s,
         Sound(s), s.discr = sdir[d].discr, s.sport = sdir[d].sport,
         sdir' = [sdir EXCEPT ![d] = s],
         DOMAIN bpf' = DOMAIN bpf,
         \A e \in DOMAIN bpf : bpf'[e] \in {"ON_HOLD", "ACTIVE"},
         UNCHANGED <<spa, maps, present>>, refused' = FALSE
  PROVE  IInv' /\ ~refused'
<1>1. sdir' = [e \in Sessions |-> sdir'[e]]
  BY Zenon DEF Sessions
<1>2. \A e \in Sessions : /\ Sound(sdir'[e])
                          /\ sdir'[e].discr = sdir[e].discr
                          /\ sdir'[e].sport = sdir[e].sport
  BY DEF IInv, Sessions
<1>3. Around
  BY Zenon DEF Around, IInv, TypeOK
<1> QED
  BY <1>1, <1>2, <1>3, ChangeStep

(* bbdd_d_bfdd_handle_add_session *)
LEMMA BfddAddStep ==
  ASSUME IInv, NEW m \in Messages, BfddAddSession(m)
  PROVE  IInv' /\ (refused' => UNCHANGED dirs)
<1> DEFINE f == FromMsg(m)
           r == IF Failed(f) THEN Error ELSE ValidateMsg(f[1], present)
           discr == m.lid
           applied == ApplyC(sdir[discr], r[1], present)
<1>1. CASE Refuse(FALSE)
  BY <1>1, StillStep, Zenon DEF Refuse, Around, IInv, TypeOK
<1>2. CASE ~Refuse(FALSE) /\ discr \notin Sessions
  <2>1. ~Failed(f) /\ ~Failed(ValidateMsg(f[1], present))
    BY <1>2, Zenon DEF BfddAddSession, Failed
  <2>2. r[1].discr = <<discr>>
    BY <2>1, MsgKeeps, Zenon
  <2>3. discr \in Discrs \cup {0}
    BY InputAssumption
  <2>4. \E o \in SessionAdd(State, r[1]) : Added(o)
    BY <1>2, <2>1 DEF BfddAddSession
  <2>5. Derives(r[1])
    BY <2>1, MsgDerives DEF IInv, TypeOK
  <2> HIDE DEF r, discr
  <2> QED
    BY <1>2, <2>2, <2>3, <2>4, <2>5, AddedStep
<1>3. CASE ~Refuse(FALSE) /\ discr \in Sessions
  <2>1. /\ ~Failed(applied)
        /\ sdir' = [sdir EXCEPT ![discr] = applied[1]]
        /\ refused' = FALSE
        /\ UNCHANGED <<spa, bpf, maps, present>>
    BY <1>3, Zenon DEF BfddAddSession
  <2>2. sdir[discr].discr # 0 /\ Bound(sdir[discr]) /\ present \subseteq Links
    BY <1>3, Zenon DEF IInv, Sound, TypeOK
  <2>5. Derives(r[1])
    <3>1. ~Failed(f) /\ ~Failed(ValidateMsg(f[1], present))
      BY <1>3, Zenon DEF BfddAddSession, Failed
    <3> QED
      BY <2>2, <3>1, MsgDerives
  <2> HIDE DEF r, discr
  <2>3. /\ Sound(applied[1])
        /\ applied[1].sport = sdir[discr].sport
        /\ applied[1].discr = sdir[discr].discr
    <3> DEFINE old == sdir[discr]
               c == r[1]
    <3>1. ~Failed(ApplyC(old, c, present)) /\ old.discr # 0 /\ Bound(old) /\ Derives(c)
      BY <2>1, <2>2, <2>5
    <3> HIDE DEF old, c
    <3>2. /\ Sound(ApplyC(old, c, present)[1])
          /\ ApplyC(old, c, present)[1].sport = old.sport
          /\ ApplyC(old, c, present)[1].discr = old.discr
      BY <2>2, <3>1, ApplySound
    <3> QED
      BY <3>2 DEF old, c
  <2>4. /\ DOMAIN bpf' = DOMAIN bpf
        /\ \A e \in DOMAIN bpf : bpf'[e] \in {"ON_HOLD", "ACTIVE"}
    BY <2>1 DEF IInv, TypeOK
  <2> HIDE DEF applied
  <2> QED
    BY <1>3, <2>1, <2>3, <2>4, ReplaceStep, Zenon
<1> QED
  BY <1>1, <1>2, <1>3, Zenon

(* bbdd_d_bfdd_handle_delete_session *)
LEMMA BfddDeleteStep ==
  ASSUME IInv, NEW d, BfddDeleteSession(d)
  PROVE  IInv' /\ ~refused'
<1>1. CASE Refuse(FALSE)
  BY <1>1, StillStep, Zenon DEF Refuse, Around, IInv, TypeOK
<1>2. CASE ~Refuse(FALSE)
  <2>1. d \in Sessions /\ Del({d}) /\ refused' = FALSE /\ UNCHANGED present
    BY <1>2, Zenon DEF BfddDeleteSession
  <2>2. Around
    BY <2>1, Zenon DEF Around, IInv, TypeOK
  <2> QED
    BY <2>1, <2>2, DelStep
<1> QED
  BY <1>1, <1>2, Zenon

(* A field that the demands do not mention may be anything. *)
LEMMA FieldFree ==
  ASSUME NEW s, Sound(s), NEW v, NEW g \in {"hold", "remote"}
  PROVE  /\ Sound([s EXCEPT ![g] = v])
         /\ [s EXCEPT ![g] = v].discr = s.discr
         /\ [s EXCEPT ![g] = v].sport = s.sport
<1> DEFINE t == [s EXCEPT ![g] = v]
<1>1. DOMAIN s = DOMAIN ZeroSession
  BY DEF Sound
<1>2. DOMAIN t = DOMAIN ZeroSession /\ t = [f \in DOMAIN t |-> t[f]]
  BY <1>1, Zenon
<1>3. {"discr", "sport", "dst", "src", "tx", "rx", "mult", "dport", "flags",
       "vrf_ifindex", "vrf_table"} \subseteq DOMAIN s
  BY <1>1 DEF ZeroSession
<1>4. /\ t.discr = s.discr /\ t.sport = s.sport /\ t.dst = s.dst /\ t.src = s.src
      /\ t.tx = s.tx /\ t.rx = s.rx /\ t.mult = s.mult /\ t.dport = s.dport
      /\ t.flags = s.flags /\ t.vrf_ifindex = s.vrf_ifindex /\ t.vrf_table = s.vrf_table
  BY <1>3
<1> HIDE DEF t
<1>5. Bound(t)
  BY <1>4 DEF Sound, Bound
<1>6. Sound(t)
  BY <1>2, <1>4, <1>5 DEF Sound
<1> QED
  BY <1>4, <1>6 DEF t

(* bbdd_bpf_hold_timer_cb *)
LEMMA HoldStep ==
  ASSUME IInv, NEW d, HoldTimer(d)
  PROVE  IInv' /\ ~refused'
<1>1. /\ d \in Sessions
      /\ bpf' = [bpf EXCEPT ![d] = "ACTIVE"]
      /\ sdir' = [sdir EXCEPT ![d] = [sdir[d] EXCEPT !.hold = 0]]
      /\ refused' = FALSE
      /\ UNCHANGED <<spa, maps, present>>
  BY DEF HoldTimer
<1>2. /\ DOMAIN bpf' = DOMAIN bpf
      /\ \A e \in DOMAIN bpf : bpf'[e] \in {"ON_HOLD", "ACTIVE"}
  BY <1>1 DEF IInv, TypeOK
<1>3. Sound(sdir[d])
  BY <1>1 DEF IInv
<1> QED
  BY <1>1, <1>2, <1>3, FieldFree, ReplaceStep, Zenon

(* bbdd_bpf_rb_handle_discr_0 and bbdd_bpf_rb_handle_timeout *)
LEMMA LearnStep ==
  ASSUME IInv, NEW d \in Sessions, NEW v, Learn(d, v)
  PROVE  IInv' /\ ~refused'
<1>1. /\ sdir' = [sdir EXCEPT ![d] = [sdir[d] EXCEPT !.remote = v]]
      /\ refused' = FALSE
      /\ UNCHANGED <<spa, bpf, maps, present>>
  BY DEF Learn
<1>2. /\ DOMAIN bpf' = DOMAIN bpf
      /\ \A e \in DOMAIN bpf : bpf'[e] \in {"ON_HOLD", "ACTIVE"}
  BY <1>1 DEF IInv, TypeOK
<1>3. Sound(sdir[d])
  BY DEF IInv
<1> QED
  BY <1>1, <1>2, <1>3, FieldFree, ReplaceStep, Zenon

LEMMA InitIInv == Init => IInv
<1> SUFFICES ASSUME Init PROVE IInv
  OBVIOUS
<1>1. Sessions = {} /\ DOMAIN bpf = {}
  BY DEF Init, Sessions
<1>2. sdir = [d \in Sessions |-> sdir[d]]
  BY <1>1 DEF Init
<1>3. TypeOK
  BY <1>1, Zenon DEF Init, TypeOK
<1>4. PortsExact
  BY <1>1 DEF Init, PortsExact
<1> QED
  BY <1>1, <1>2, <1>3, <1>4 DEF Init, IInv, DirsAgree

LEMMA NextIInv ==
  IInv /\ [Next]_vars => IInv' /\ [refused' => UNCHANGED dirs]_vars
<1> SUFFICES ASSUME IInv, [Next]_vars
             PROVE  IInv' /\ [refused' => UNCHANGED dirs]_vars
  OBVIOUS
<1>1. ASSUME NEW c \in Changes, HandleSessionAdd(c)
      PROVE  IInv' /\ (refused' => UNCHANGED dirs)
  BY <1>1, AddStep
<1>2. ASSUME NEW q \in Queries, NEW c \in Changes, NEW bulk \in BOOLEAN,
             HandleSessionSet(q, c, bulk)
      PROVE  IInv' /\ ~refused'
  BY <1>2, SetStep
<1>3. ASSUME NEW q \in Queries, NEW bulk \in BOOLEAN, HandleSessionDel(q, bulk)
      PROVE  IInv' /\ ~refused'
  BY <1>3, HandleDelStep
<1>4. ASSUME NEW m \in Messages, BfddAddSession(m)
      PROVE  IInv' /\ (refused' => UNCHANGED dirs)
  BY <1>4, BfddAddStep
<1>5. ASSUME NEW d \in Discrs, BfddDeleteSession(d)
      PROVE  IInv' /\ ~refused'
  BY <1>5, BfddDeleteStep
<1>6. ASSUME NEW d \in Discrs, HoldTimer(d)
      PROVE  IInv' /\ ~refused'
  BY <1>6, HoldStep
<1>7. ASSUME NEW p \in Packets, HandleDiscr0(p)
      PROVE  IInv' /\ ~refused'
  BY <1>7, LearnStep DEF HandleDiscr0
<1>8. ASSUME NEW d \in Discrs, HandleTimeout(d)
      PROVE  IInv' /\ ~refused'
  BY <1>8, LearnStep DEF HandleTimeout
<1>9. ASSUME NEW i \in Flapping, LinkChange(i)
      PROVE  IInv' /\ ~refused'
  <2>1. Around /\ UNCHANGED dirs /\ ~refused'
    BY <1>9, DirAssumption, ZenonT(60) DEF LinkChange, Around, IInv, TypeOK
  <2> QED
    BY <2>1, StillStep
<1>10. CASE UNCHANGED vars
  BY <1>10, StillStep DEF vars, dirs, Around, IInv, TypeOK
<1> QED
  BY <1>1, <1>2, <1>3, <1>4, <1>5, <1>6, <1>7, <1>8, <1>9, <1>10 DEF Next

LEMMA Inductive == Spec => []IInv
<1>1. IInv /\ [Next]_vars => IInv'
  BY NextIInv
<1> QED
  BY InitIInv, <1>1, PTL DEF Spec

-----------------------------------------------------------------------------
(* The conversions *)

(* A field that was set is found. *)
LEMMA SetIsWanted ==
  ASSUME NEW f, NEW v
  PROVE  Wants(f, Or(f, v)) /\ AddrMatches(f, Or(f, v))
BY DEF Wants, AddrMatches, Or

(* bbdd_d_session_matches after __bbdd_d_session_apply_c *)
LEMMA AssignedMatches ==
  ASSUME NEW d, NEW c,
         c.netif.unset => ~Given(c.netif.index),
         c.vrf.netif.unset => ~Given(c.vrf.netif.index)
  PROVE  Matches(c, Assigned(d, c))
<1> DEFINE a == Assigned(d, c)
<1>1. /\ a.discr = Or(c.discr, d.discr) /\ a.remote = Or(c.remote, d.remote)
      /\ a.name = Or(c.name, d.name)
      /\ a.flags = [f \in Flags |-> Or(c.flags[f], d.flags[f])]
      /\ a.src = Or(c.src, d.src) /\ a.dst = Or(c.dst, d.dst)
      /\ a.tx = Or(c.tx, d.tx) /\ a.rx = Or(c.rx, d.rx) /\ a.mult = Or(c.mult, d.mult)
      /\ a.hold = Or(c.hold, d.hold) /\ a.ttl = Or(c.ttl, d.ttl)
      /\ a.ifindex = IfindexAssigned(d, c)
      /\ a.vrf_ifindex = IF c.vrf.netif.unset THEN 0 ELSE Or(c.vrf.netif.index, d.vrf_ifindex)
      /\ a.vrf_table = Or(c.vrf.table, IF c.vrf.netif.unset THEN 0 ELSE d.vrf_table)
  BY ZenonT(60) DEF Assigned
<1> HIDE DEF a
<1>2. FlagsMatch(c, a)
  <2>1. \A f \in Flags : a.flags[f] = Or(c.flags[f], d.flags[f])
    BY <1>1, ZenonT(60)
  <2> QED
    BY <2>1, SetIsWanted DEF FlagsMatch
<1>3. /\ c.netif.unset => a.ifindex = 0
      /\ Wants(c.netif.index, a.ifindex)
  BY <1>1 DEF IfindexAssigned, Wants, Or
<1>4. /\ c.vrf.netif.unset => a.vrf_ifindex = 0
      /\ Wants(c.vrf.netif.index, a.vrf_ifindex)
  BY <1>1 DEF Wants, Or
<1>5. /\ AddrMatches(c.src, a.src) /\ AddrMatches(c.dst, a.dst)
      /\ Wants(c.discr, a.discr) /\ Wants(c.mult, a.mult) /\ Wants(c.tx, a.tx)
      /\ Wants(c.rx, a.rx) /\ Wants(c.hold, a.hold) /\ Wants(c.ttl, a.ttl)
      /\ Wants(c.vrf.table, a.vrf_table) /\ Wants(c.remote, a.remote) /\ Wants(c.name, a.name)
  <2>1. AddrMatches(c.src, a.src) /\ AddrMatches(c.dst, a.dst) /\ Wants(c.discr, a.discr)
    BY <1>1, SetIsWanted
  <2>2. Wants(c.mult, a.mult) /\ Wants(c.tx, a.tx) /\ Wants(c.rx, a.rx) /\ Wants(c.hold, a.hold)
    BY <1>1, SetIsWanted
  <2>3. Wants(c.ttl, a.ttl) /\ Wants(c.remote, a.remote) /\ Wants(c.name, a.name)
    BY <1>1, SetIsWanted
  <2>4. Wants(c.vrf.table, a.vrf_table)
    BY <1>1, SetIsWanted
  <2> QED
    BY <2>1, <2>2, <2>3, <2>4
<1> QED
  BY <1>2, <1>3, <1>4, <1>5, Zenon DEF Matches, a

(* bbdd_d_session_matches after bbdd_d_session_apply_c *)
LEMMA AppliedMatches ==
  ASSUME NEW d, NEW c \in ChangeType, ~Contradictory(c), NEW p, p \subseteq Links,
         ~Failed(DissectValidate(c, p)),
         ~Failed(ApplyC(d, DissectValidate(c, p)[1], p))
  PROVE  Matches(DissectValidate(c, p)[1], ApplyC(d, DissectValidate(c, p)[1], p)[1])
<1> DEFINE e == DissectValidate(c, p)[1]
           netif == ValidateNetif(c.netif, p)[1]
           vrf == IF Given(c.vrf.netif.name) THEN ValidateVrf(c.vrf, p)[1] ELSE c.vrf
<1>1. /\ ~Failed(ValidateNetif(c.netif, p))
      /\ Given(c.vrf.netif.name) => ~Failed(ValidateVrf(c.vrf, p))
      /\ e = [c EXCEPT !.netif = netif, !.vrf = vrf]
  BY DissectIs, Zenon
<1>2. e.netif = netif /\ e.vrf = vrf
  <2> HIDE DEF e, netif, vrf
  <2>1. e = [c EXCEPT !.netif = netif, !.vrf = vrf]
    BY <1>1
  <2> QED
    BY <2>1 DEF ChangeType
<1>3. /\ c.netif \in NetifType /\ c.vrf.netif \in NetifType
      /\ c.netif.unset => ~Given(c.netif.index) /\ ~Given(c.netif.name)
      /\ c.vrf.netif.unset => ~Given(c.vrf.netif.index) /\ ~Given(c.vrf.netif.name)
  BY DEF ChangeType, NetifType, Contradictory
<1>4. e.netif.unset => ~Given(e.netif.index)
  <2>1. /\ netif.unset = c.netif.unset
        /\ ~Given(c.netif.name) /\ ~Given(c.netif.index) => netif = c.netif
    BY <1>1, <1>3, NetifFilled
  <2> QED
    BY <1>2, <1>3, <2>1
<1>5. e.vrf.netif.unset => ~Given(e.vrf.netif.index)
  <2>1. CASE ~Given(c.vrf.netif.name)
    BY <1>2, <1>3, <2>1
  <2>2. CASE Given(c.vrf.netif.name)
    <3>1. ValidateVrf(c.vrf, p)[1].netif.unset = c.vrf.netif.unset
      BY <1>1, <1>3, <2>2, VrfFilled
    <3> QED
      BY <1>2, <1>3, <2>2, <3>1, Zenon
  <2> QED
    BY <2>1, <2>2
<1> HIDE DEF e
<1>6. ApplyC(d, e, p)[1] = Assigned(d, e)
  BY DEF ApplyC, Failed, Error, Ok, e
<1> QED
  BY <1>4, <1>5, <1>6, AssignedMatches, ZenonT(60) DEF e

(* A reported interface that is there needs no filling in. *)
LEMMA NetifReported ==
  ASSUME NEW p, NEW i, i = 0 \/ i \in p, NEW u,
         NEW n, n = [unset |-> u, name |-> NonZero(i), index |-> NonZero(i)]
  PROVE  ValidateNetif(n, p) = <<n>>
<1> DEFINE seen == {f[1] : f \in {n.name, n.index} \ {<<>>}}
<1>1. n.name = NonZero(i) /\ n.index = NonZero(i)
  OBVIOUS
<1>2. CASE i = 0
  <2>1. seen = {}
    BY <1>1, <1>2 DEF NonZero
  <2> QED
    BY <2>1 DEF ValidateNetif, Ok
<1>3. CASE i # 0
  <2>1. NonZero(i) = <<i>>
    BY <1>3 DEF NonZero
  <2>2. seen = {i}
    BY <1>1, <2>1
  <2>3. (CHOOSE j \in seen : TRUE) = i /\ seen # {} /\ seen \subseteq p /\ \A j, k \in seen : j = k
    BY <1>3, <2>2
  <2>4. [n EXCEPT !.name = <<i>>, !.index = <<i>>] = n
    BY <1>1, <2>1, Zenon
  <2> HIDE DEF seen
  <2>5. ValidateNetif(n, p) = <<[n EXCEPT !.name = <<i>>, !.index = <<i>>]>>
    BY <2>3, Zenon DEF ValidateNetif, Ok, seen
  <2> QED
    BY <2>4, <2>5
<1> QED
  BY <1>2, <1>3

(* Neither does a reported VRF with its table. *)
LEMMA VrfReported ==
  ASSUME NEW p, NEW i, NEW t, i = 0 \/ (i \in p /\ VrfTable[i] # 0 /\ t = VrfTable[i]), NEW u,
         NEW v, v = [netif |-> [unset |-> u, name |-> NonZero(i), index |-> NonZero(i)],
                     table |-> NonZero(t)]
  PROVE  ValidateVrf(v, p) = <<v>>
<1> DEFINE n == [unset |-> u, name |-> NonZero(i), index |-> NonZero(i)]
           r == ValidateNetif(n, p)
<1>0. n.index = NonZero(i)
  OBVIOUS
<1> HIDE DEF n
<1>1. v.netif = n /\ v.table = NonZero(t)
  BY DEF n
<1>2. r = <<n>>
  BY NetifReported DEF n
<1>3. r[1] = n /\ ~Failed(r)
  BY <1>2 DEF Failed, Error
<1> HIDE DEF r
<1>4. CASE i = 0
  <2>1. ~Given(n.index)
    BY <1>0, <1>4 DEF NonZero, Given
  <2> QED
    BY <1>1, <1>3, <2>1, ZenonT(60) DEF ValidateVrf, Ok, r
<1>5. CASE i # 0
  <2>1. n.index = <<i>> /\ t # 0
    BY <1>0, <1>5 DEF NonZero
  <2>2. Given(n.index) /\ n.index[1] = i
    BY <2>1 DEF Given
  <2>3. NonZero(t) = <<t>> /\ Or(NonZero(t), t) = t
    BY <2>1 DEF NonZero, Or, Given
  <2>4. VrfTable[i] = t
    BY <1>5
  <2>5. ValidateVrf(v, p) = <<[netif |-> n, table |-> <<t>>]>>
    BY <1>1, <1>3, <1>5, <2>1, <2>2, <2>3, <2>4, ZenonT(60) DEF ValidateVrf, Ok, r
  <2>6. v = [netif |-> n, table |-> <<t>>]
    BY <2>3 DEF n
  <2> QED
    BY <2>5, <2>6
<1> QED
  BY <1>4, <1>5

(* So "session show" reports what "session add" takes as it is. *)
LEMMA ReportAccepted ==
  ASSUME NEW s, Sound(s), NEW p, {s.ifindex, s.vrf_ifindex} \ {0} \subseteq p,
         s.vrf_ifindex # 0 => s.vrf_table = VrfTable[s.vrf_ifindex]
  PROVE  DissectValidate(ToC(s), p) = <<ToC(s)>>
<1> DEFINE c == ToC(s)
           n == [unset |-> s.ifindex = 0, name |-> NonZero(s.ifindex), index |-> NonZero(s.ifindex)]
           v == [netif |-> [unset |-> s.vrf_ifindex = 0, name |-> NonZero(s.vrf_ifindex),
                            index |-> NonZero(s.vrf_ifindex)],
                 table |-> NonZero(s.vrf_table)]
<1>1. c.netif = n /\ c.vrf = v /\ c.discr = <<s.discr>>
  BY Zenon DEF ToC
<1>2. /\ n.index = NonZero(s.ifindex)
      /\ v.netif.index = NonZero(s.vrf_ifindex)
  OBVIOUS
<1>3. ValidateNetif(n, p) = <<n>>
  <2> DEFINE u == s.ifindex = 0
             i == s.ifindex
  <2>1. n = [unset |-> u, name |-> NonZero(i), index |-> NonZero(i)]
    OBVIOUS
  <2>2. i = 0 \/ i \in p
    OBVIOUS
  <2> HIDE DEF u, i, n
  <2> QED
    BY <2>1, <2>2, NetifReported
<1>4. ValidateVrf(v, p) = <<v>>
  <2>1. \/ s.vrf_ifindex = 0
        \/ /\ s.vrf_ifindex \in p /\ VrfTable[s.vrf_ifindex] # 0
           /\ s.vrf_table = VrfTable[s.vrf_ifindex]
    BY DEF Sound, Bound
  <2> DEFINE u == s.vrf_ifindex = 0
             i == s.vrf_ifindex
             t == s.vrf_table
  <2>2. v = [netif |-> [unset |-> u, name |-> NonZero(i), index |-> NonZero(i)],
             table |-> NonZero(t)]
    BY Zenon
  <2>3. i = 0 \/ (i \in p /\ VrfTable[i] # 0 /\ t = VrfTable[i])
    BY <2>1
  <2> HIDE DEF u, i, t, v
  <2> QED
    BY <2>2, <2>3, VrfReported
<1>5. [c EXCEPT !.netif = n, !.vrf = v] = c
  <2>1. c = [f \in DOMAIN c |-> c[f]] /\ {"netif", "vrf"} \subseteq DOMAIN c
    BY ZenonT(60) DEF ToC
  <2> HIDE DEF c, n, v
  <2> QED
    BY <1>1, <2>1, Zenon
<1> HIDE DEF c, n, v
<1>6. ~Failed(DissectOne(c))
  <2>1. NonZero(s.ifindex) # <<0>> /\ NonZero(s.vrf_ifindex) # <<0>> /\ <<s.discr>> # <<0>>
    BY DEF NonZero, Sound
  <2> QED
    BY <1>1, <1>2, <2>1 DEF DissectOne, Failed, Error, Ok
<1>7. ValidateNetif(c.netif, p) = <<n>>
  BY <1>1, <1>3
<1>8. (IF Given(c.vrf.netif.name) THEN ValidateVrf(c.vrf, p) ELSE Ok(c.vrf)) = <<v>>
  BY <1>1, <1>4 DEF Ok
<1>9. <<n>>[1] = n /\ <<v>>[1] = v /\ <<n>> # <<>> /\ <<v>> # <<>>
  OBVIOUS
<1>10. DissectValidate(c, p) = <<[c EXCEPT !.netif = n, !.vrf = v]>>
  BY <1>6, <1>7, <1>8, <1>9, ZenonT(60) DEF DissectValidate, Failed, Error, Ok
<1> QED
  BY <1>5, <1>10 DEF c

(* What __bbdd_d_session_apply_c assigns. *)
IsAssigned(a, d, c) ==
  /\ DOMAIN a = DOMAIN ZeroSession /\ a = [f \in DOMAIN a |-> a[f]]
  /\ a.discr = Or(c.discr, d.discr) /\ a.remote = Or(c.remote, d.remote)
  /\ a.user_remote = Or(c.remote, d.user_remote) /\ a.name = Or(c.name, d.name)
  /\ a.flags = [f \in Flags |-> Or(c.flags[f], d.flags[f])]
  /\ a.src = Or(c.src, d.src) /\ a.dst = Or(c.dst, d.dst)
  /\ a.sport = d.sport /\ a.dport = BfdPort(a.flags["multihop"])
  /\ a.ifindex = (IF c.netif.unset THEN 0 ELSE Or(c.netif.index, d.ifindex))
  /\ a.vrf_ifindex = (IF c.vrf.netif.unset THEN 0 ELSE Or(c.vrf.netif.index, d.vrf_ifindex))
  /\ a.vrf_table = Or(c.vrf.table, IF c.vrf.netif.unset THEN 0 ELSE d.vrf_table)
  /\ a.tx = Or(c.tx, d.tx) /\ a.rx = Or(c.rx, d.rx) /\ a.mult = Or(c.mult, d.mult)
  /\ a.hold = Or(c.hold, d.hold) /\ a.ttl = Or(c.ttl, d.ttl)

LEMMA AssignedIs ==
  ASSUME NEW d, NEW c, NEW a, a = Assigned(d, c)
  PROVE  IsAssigned(a, d, c)
<1>1. DOMAIN a = DOMAIN ZeroSession
  BY Zenon DEF Assigned, ZeroSession
<1>2. a = [f \in DOMAIN a |-> a[f]]
  BY AssignedRecord
<1>3. /\ a.discr = Or(c.discr, d.discr) /\ a.remote = Or(c.remote, d.remote)
      /\ a.user_remote = Or(c.remote, d.user_remote) /\ a.name = Or(c.name, d.name)
      /\ a.flags = [f \in Flags |-> Or(c.flags[f], d.flags[f])]
  BY ZenonT(60) DEF Assigned
<1>4. /\ a.src = Or(c.src, d.src) /\ a.dst = Or(c.dst, d.dst)
      /\ a.sport = d.sport /\ a.dport = BfdPort(a.flags["multihop"])
      /\ a.ifindex = (IF c.netif.unset THEN 0 ELSE Or(c.netif.index, d.ifindex))
  BY ZenonT(60) DEF Assigned, IfindexAssigned
<1>5. /\ a.vrf_ifindex = (IF c.vrf.netif.unset THEN 0 ELSE Or(c.vrf.netif.index, d.vrf_ifindex))
      /\ a.vrf_table = Or(c.vrf.table, IF c.vrf.netif.unset THEN 0 ELSE d.vrf_table)
  BY ZenonT(60) DEF Assigned
<1>6. /\ a.tx = Or(c.tx, d.tx) /\ a.rx = Or(c.rx, d.rx) /\ a.mult = Or(c.mult, d.mult)
      /\ a.hold = Or(c.hold, d.hold) /\ a.ttl = Or(c.ttl, d.ttl)
  BY Zenon DEF Assigned
<1> QED
  BY <1>1, <1>2, <1>3, <1>4, <1>5, <1>6 DEF IsAssigned

(* A request for all that a session has: bbdd_d_session_apply_c accepts it *)
(* for a new session, and recreates the session up to what the request may *)
(* leave out.                                                              *)
Restated(s, c) ==
  /\ c.discr = <<s.discr>> /\ c.flags = [f \in Flags |-> <<s.flags[f]>>]
  /\ c.src = <<s.src>> /\ c.dst = <<s.dst>> /\ c.tx = <<s.tx>> /\ c.rx = <<s.rx>>
  /\ c.mult = <<s.mult>> /\ c.ttl = <<s.ttl>>
  /\ c.netif.unset = (s.ifindex = 0) /\ c.netif.index = NonZero(s.ifindex)
  /\ c.vrf.netif.unset => s.vrf_ifindex = 0
  /\ c.vrf.netif.index = NonZero(s.vrf_ifindex)
  /\ c.vrf.netif.name = NonZero(s.vrf_ifindex)
  /\ c.vrf.table = NonZero(s.vrf_table)

LEMMA Recreates ==
  ASSUME NEW s, Sound(s), NEW p, p \subseteq Links, {s.ifindex, s.vrf_ifindex} \ {0} \subseteq p,
         s.vrf_ifindex # 0 => s.vrf_table = VrfTable[s.vrf_ifindex],
         NEW c, Restated(s, c)
  PROVE  ApplyC(NewSession(s.discr, s.sport), c, p) =
           <<[s EXCEPT !.remote = Or(c.remote, 0), !.user_remote = Or(c.remote, 0),
                       !.name = Or(c.name, ""), !.hold = Or(c.hold, 0)]>>
<1> DEFINE d == NewSession(s.discr, s.sport)
           a == Assigned(d, c)
           b == [s EXCEPT !.remote = Or(c.remote, 0), !.user_remote = Or(c.remote, 0),
                          !.name = Or(c.name, ""), !.hold = Or(c.hold, 0)]
<1>1. /\ d.discr = s.discr /\ d.sport = s.sport /\ d.remote = 0 /\ d.user_remote = 0
      /\ d.ifindex = 0 /\ d.vrf_ifindex = 0 /\ d.vrf_table = 0 /\ d.hold = 0 /\ d.name = ""
  BY DEF NewSession, ZeroSession
<1>2. /\ c.discr = <<s.discr>> /\ c.flags = [f \in Flags |-> <<s.flags[f]>>]
      /\ c.src = <<s.src>> /\ c.dst = <<s.dst>> /\ c.tx = <<s.tx>> /\ c.rx = <<s.rx>>
      /\ c.mult = <<s.mult>> /\ c.ttl = <<s.ttl>>
      /\ c.netif.unset = (s.ifindex = 0) /\ c.netif.index = NonZero(s.ifindex)
      /\ c.vrf.netif.unset => s.vrf_ifindex = 0
      /\ c.vrf.netif.index = NonZero(s.vrf_ifindex)
      /\ c.vrf.netif.name = NonZero(s.vrf_ifindex)
      /\ c.vrf.table = NonZero(s.vrf_table)
  BY Zenon DEF Restated
<1> HIDE DEF d
<1>3. \A x, y : Or(<<x>>, y) = x /\ Given(<<x>>)
  BY DEF Or, Given
<1>4. \A x : Or(NonZero(x), 0) = x
  BY DEF Or, NonZero, Given
<1>16. \A y : /\ Or(c.discr, y) = s.discr /\ Or(c.src, y) = s.src /\ Or(c.dst, y) = s.dst
              /\ Or(c.tx, y) = s.tx /\ Or(c.rx, y) = s.rx /\ Or(c.mult, y) = s.mult
              /\ Or(c.ttl, y) = s.ttl
  <2>1. \A f, x, y : f = <<x>> => Or(f, y) = x
    BY <1>3
  <2>2. \A y : Or(c.discr, y) = s.discr /\ Or(c.src, y) = s.src /\ Or(c.dst, y) = s.dst
    BY <1>2, <2>1
  <2>3. \A y : Or(c.tx, y) = s.tx /\ Or(c.rx, y) = s.rx
    BY <1>2, <2>1
  <2>4. \A y : Or(c.mult, y) = s.mult /\ Or(c.ttl, y) = s.ttl
    BY <1>2, <2>1
  <2> QED
    BY <2>2, <2>3, <2>4
<1>5. ~DiscrChanges(d, c) /\ FamiliesAgree(d, c) /\ MandatoryNonZero(d, c)
  <2>1. ~DiscrChanges(d, c)
    BY <1>1, <1>16 DEF DiscrChanges
  <2>2. FamiliesAgree(d, c)
    BY <1>16 DEF FamiliesAgree, Sound
  <2>3. MandatoryNonZero(d, c)
    BY <1>16 DEF MandatoryNonZero, Sound
  <2> QED
    BY <2>1, <2>2, <2>3
<1>6. AddrsParse(c)
  BY <1>2, <1>3 DEF AddrsParse, Sound, Bound
<1>7. ~Failed(ValidateVrf(VrfView(d, c), p))
  <2> DEFINE v == [netif |-> [unset |-> TRUE, name |-> NonZero(s.vrf_ifindex),
                              index |-> NonZero(s.vrf_ifindex)],
                   table |-> NonZero(s.vrf_table)]
  <2>1. NonZero(0) = <<>> /\ \A x : (IF Given(NonZero(x)) THEN NonZero(x) ELSE <<>>) = NonZero(x)
    BY DEF NonZero, Given
  <2>2. VrfView(d, c) = v
    BY <1>1, <1>2, <2>1, ZenonT(60) DEF VrfView
  <2>3. \/ s.vrf_ifindex = 0
        \/ /\ s.vrf_ifindex \in p /\ VrfTable[s.vrf_ifindex] # 0
           /\ s.vrf_table = VrfTable[s.vrf_ifindex]
    BY DEF Sound, Bound
  <2>4. ValidateVrf(v, p) = <<v>>
    BY <2>3, VrfReported, Zenon
  <2> HIDE DEF v
  <2> QED
    BY <2>2, <2>4 DEF Failed, Error
<1>8. ApplyC(d, c, p) = <<a>>
  BY <1>5, <1>6, <1>7, ZenonT(60) DEF ApplyC, Ok
<1> HIDE DEF a
<1>0. a = Assigned(d, c)
  BY DEF a
<1>9. IsAssigned(a, d, c)
  BY <1>0, AssignedIs, ZenonT(60)
<1>10. /\ a.discr = s.discr /\ a.src = s.src /\ a.dst = s.dst
       /\ a.sport = s.sport /\ a.tx = s.tx /\ a.rx = s.rx /\ a.mult = s.mult /\ a.ttl = s.ttl
  BY <1>1, <1>9, <1>16, ZenonT(60) DEF IsAssigned
<1>11. /\ a.remote = Or(c.remote, 0) /\ a.user_remote = Or(c.remote, 0)
       /\ a.hold = Or(c.hold, 0) /\ a.name = Or(c.name, "")
  BY <1>1, <1>2, <1>4, <1>9 DEF IsAssigned
<1>12. a.flags = s.flags /\ a.dport = s.dport
  <2>1. a.flags = [f \in Flags |-> Or(c.flags[f], d.flags[f])]
    BY <1>9 DEF IsAssigned
  <2>2. \A f \in Flags : Or(c.flags[f], d.flags[f]) = s.flags[f]
    <3>1. \A f \in Flags : c.flags[f] = <<s.flags[f]>>
      BY <1>2, ZenonT(60)
    <3>2. \A x, y : Or(<<x>>, y) = x
      BY <1>3, Zenon
    <3> QED
      BY <3>1, <3>2, ZenonT(60)
  <2>3. a.flags = s.flags
    BY <2>1, <2>2 DEF Sound
  <2>4. a.dport = BfdPort(a.flags["multihop"])
    BY <1>9 DEF IsAssigned
  <2> QED
    BY <2>3, <2>4 DEF Sound
<1>13. a.ifindex = s.ifindex /\ a.vrf_ifindex = s.vrf_ifindex /\ a.vrf_table = s.vrf_table
  <2>1. (IF c.vrf.netif.unset THEN 0 ELSE d.vrf_table) = 0
    BY <1>1
  <2>2. a.vrf_table = Or(c.vrf.table, 0)
    BY <1>9, <2>1 DEF IsAssigned
  <2>3. a.vrf_ifindex = IF c.vrf.netif.unset THEN 0 ELSE Or(NonZero(s.vrf_ifindex), 0)
    BY <1>1, <1>2, <1>9, ZenonT(60) DEF IsAssigned
  <2>4. a.ifindex = IF s.ifindex = 0 THEN 0 ELSE Or(NonZero(s.ifindex), 0)
    BY <1>1, <1>2, <1>9, ZenonT(60) DEF IsAssigned
  <2> QED
    BY <1>2, <1>4, <2>2, <2>3, <2>4
<1>14. DOMAIN a = DOMAIN ZeroSession /\ a = [f \in DOMAIN a |-> a[f]]
  BY <1>9 DEF IsAssigned
<1>15. a = b
  <2>1. DOMAIN s = DOMAIN ZeroSession
    BY DEF Sound
  <2>2. DOMAIN b = DOMAIN ZeroSession /\ b = [f \in DOMAIN b |-> b[f]]
    BY <2>1, Zenon
  <2>3. /\ b.remote = Or(c.remote, 0) /\ b.user_remote = Or(c.remote, 0)
        /\ b.name = Or(c.name, "") /\ b.hold = Or(c.hold, 0)
        /\ \A f \in DOMAIN s : f \notin {"remote", "user_remote", "name", "hold"} => b[f] = s[f]
    BY <2>1, ZenonT(60) DEF ZeroSession
  <2>4. DOMAIN ZeroSession = {"discr", "remote", "user_remote", "name", "flags", "src", "dst",
          "sport", "dport", "ifindex", "vrf_ifindex", "vrf_table", "tx", "rx", "mult", "hold", "ttl"}
    BY Zenon DEF ZeroSession
  <2> HIDE DEF b
  <2>5. \A f \in DOMAIN ZeroSession : a[f] = b[f]
    BY <1>10, <1>11, <1>12, <1>13, <2>1, <2>3, <2>4, ZenonT(60)
  <2> QED
    BY <1>14, <2>2, <2>5
<1> QED
  BY <1>8, <1>15 DEF d

(* bbdd_d_session_apply_c accepts the report for a new session, and        *)
(* recreates the one that was reported.                                    *)
LEMMA ReportRecreates ==
  ASSUME NEW s, Sound(s), NEW p, p \subseteq Links, {s.ifindex, s.vrf_ifindex} \ {0} \subseteq p,
         s.vrf_ifindex # 0 => s.vrf_table = VrfTable[s.vrf_ifindex]
  PROVE  ApplyC(NewSession(s.discr, s.sport), ToC(s), p) = <<[s EXCEPT !.remote = s.user_remote]>>
<1> DEFINE c == ToC(s)
           b == [s EXCEPT !.remote = s.user_remote, !.user_remote = s.user_remote,
                          !.name = s.name, !.hold = s.hold]
           e == [s EXCEPT !.remote = s.user_remote]
<1>1. Restated(s, c)
  BY Zenon DEF ToC, Restated
<1>2. c.remote = NonZero(s.user_remote) /\ c.name = <<s.name>> /\ c.hold = NonZero(s.hold)
  BY ZenonT(60) DEF ToC, RemoteReported
<1> HIDE DEF c
<1>3. Or(c.remote, 0) = s.user_remote /\ Or(c.name, "") = s.name /\ Or(c.hold, 0) = s.hold
  BY <1>2 DEF Or, NonZero, Given
<1>4. ApplyC(NewSession(s.discr, s.sport), c, p) =
        <<[s EXCEPT !.remote = Or(c.remote, 0), !.user_remote = Or(c.remote, 0),
                    !.name = Or(c.name, ""), !.hold = Or(c.hold, 0)]>>
  BY <1>1, Recreates, Zenon
<1>5. ApplyC(NewSession(s.discr, s.sport), c, p) = <<b>>
  BY <1>3, <1>4
<1>6. b = e
  <2>1. DOMAIN s = DOMAIN ZeroSession /\ s = [f \in DOMAIN s |-> s[f]]
    BY DEF Sound
  <2>2. DOMAIN b = DOMAIN s /\ b = [f \in DOMAIN b |-> b[f]]
    BY <2>1, Zenon
  <2>3. DOMAIN e = DOMAIN s /\ e = [f \in DOMAIN e |-> e[f]]
    BY <2>1
  <2>4. \A f \in DOMAIN s : b[f] = e[f]
    BY Zenon
  <2> HIDE DEF b, e
  <2> QED
    BY <2>2, <2>3, <2>4
<1> QED
  BY <1>5, <1>6 DEF c

-----------------------------------------------------------------------------
(* The bridge *)

(* bbdd_bfdd_session_d_from_c starts from an empty session, and gets what  *)
(* bbdd_d_session_add gets from a new one: the parameters that a new       *)
(* session has must all be given.                                          *)
LEMMA BridgeDirect ==
  ASSUME NEW e, NEW p, ~Failed(ApplyC([ZeroSession EXCEPT !.ttl = 255], e, p)),
         NEW s, s = ApplyC([ZeroSession EXCEPT !.ttl = 255], e, p)[1]
  PROVE  /\ Given(e.discr) /\ e.discr[1] = s.discr /\ s.discr # 0
         /\ ApplyC(NewSession(e.discr[1], 0), e, p) = <<s>>
         /\ s.sport = 0
<1> DEFINE z == [ZeroSession EXCEPT !.ttl = 255]
           d == NewSession(e.discr[1], 0)
           b == Assigned(d, e)
<1>1. /\ z.discr = 0 /\ z.remote = 0 /\ z.user_remote = 0 /\ z.name = ""
      /\ z.flags = ZeroSession.flags /\ z.src = NoAddr /\ z.dst = NoAddr /\ z.sport = 0
      /\ z.ifindex = 0 /\ z.vrf_ifindex = 0 /\ z.vrf_table = 0
      /\ z.tx = 0 /\ z.rx = 0 /\ z.mult = 0 /\ z.hold = 0 /\ z.ttl = 255
  BY ZenonT(60) DEF ZeroSession
<1>2. /\ d.discr = e.discr[1] /\ d.remote = 0 /\ d.user_remote = 0 /\ d.name = ""
      /\ d.flags = ZeroSession.flags /\ d.src = NoAddr /\ d.dst = NoAddr /\ d.sport = 0
      /\ d.ifindex = 0 /\ d.vrf_ifindex = 0 /\ d.vrf_table = 0
      /\ d.hold = 0 /\ d.ttl = 255
  BY ZenonT(60) DEF NewSession, ZeroSession
<1> HIDE DEF z, d
<1>3. /\ FamiliesAgree(z, e) /\ AddrsParse(e) /\ MandatoryNonZero(z, e)
      /\ ~Failed(ValidateVrf(VrfView(z, e), p))
      /\ s = Assigned(z, e)
  <2>1. ~Failed(ApplyC(z, e, p)) /\ s = ApplyC(z, e, p)[1]
    BY DEF z
  <2> QED
    BY <2>1 DEF ApplyC, Failed, Error, Ok
<1>4. /\ Given(e.discr) /\ Given(e.tx) /\ Given(e.rx) /\ Given(e.mult)
      /\ e.discr[1] # 0
  BY <1>1, <1>3 DEF MandatoryNonZero, Or
<1>5. VrfView(d, e) = VrfView(z, e)
  BY <1>1, <1>2 DEF VrfView
<1>6. FamiliesAgree(d, e)
  BY <1>1, <1>2, <1>3, ZenonT(60) DEF FamiliesAgree
<1>7. MandatoryNonZero(d, e)
  BY <1>3, <1>4 DEF MandatoryNonZero, Or
<1>8. ~DiscrChanges(d, e)
  BY <1>2, <1>4 DEF DiscrChanges, Or
<1>9. ApplyC(d, e, p) = <<b>>
  <2>1. ~Failed(ValidateVrf(VrfView(d, e), p))
    BY <1>3, <1>5
  <2> QED
    BY <1>3, <1>6, <1>7, <1>8, <2>1 DEF ApplyC, Ok
<1> HIDE DEF b
<1>10. IsAssigned(b, d, e) /\ IsAssigned(s, z, e)
  <2>1. b = Assigned(d, e)
    BY DEF b
  <2> QED
    BY <1>3, <2>1, AssignedIs, Zenon
<1>11. \A x, y : /\ Or(e.discr, x) = Or(e.discr, y) /\ Or(e.tx, x) = Or(e.tx, y)
                 /\ Or(e.rx, x) = Or(e.rx, y) /\ Or(e.mult, x) = Or(e.mult, y)
  BY <1>4 DEF Or
<1>12. b.discr = s.discr /\ b.tx = s.tx /\ b.rx = s.rx /\ b.mult = s.mult
  BY <1>10, <1>11 DEF IsAssigned
<1>18. /\ d.remote = z.remote /\ d.user_remote = z.user_remote /\ d.name = z.name
       /\ d.flags = z.flags /\ d.src = z.src /\ d.dst = z.dst /\ d.sport = z.sport
       /\ d.ifindex = z.ifindex /\ d.vrf_ifindex = z.vrf_ifindex /\ d.vrf_table = z.vrf_table
       /\ d.hold = z.hold /\ d.ttl = z.ttl
  BY <1>1, <1>2, ZenonT(60)
<1>13. /\ b.remote = s.remote /\ b.user_remote = s.user_remote /\ b.name = s.name
       /\ b.src = s.src /\ b.dst = s.dst /\ b.sport = s.sport /\ b.hold = s.hold /\ b.ttl = s.ttl
  <2>1. b.remote = s.remote /\ b.user_remote = s.user_remote /\ b.name = s.name
    BY <1>10, <1>18 DEF IsAssigned
  <2>2. b.src = s.src /\ b.dst = s.dst /\ b.sport = s.sport
    BY <1>10, <1>18 DEF IsAssigned
  <2>3. b.hold = s.hold /\ b.ttl = s.ttl
    BY <1>10, <1>18 DEF IsAssigned
  <2> QED
    BY <2>1, <2>2, <2>3
<1>14. b.flags = s.flags /\ b.dport = s.dport
  <2>1. b.flags = s.flags
    BY <1>10, <1>18 DEF IsAssigned
  <2>2. b.dport = BfdPort(b.flags["multihop"]) /\ s.dport = BfdPort(s.flags["multihop"])
    BY <1>10 DEF IsAssigned
  <2> QED
    BY <2>1, <2>2
<1>15. b.ifindex = s.ifindex /\ b.vrf_ifindex = s.vrf_ifindex /\ b.vrf_table = s.vrf_table
  <2>1. b.ifindex = s.ifindex
    BY <1>10, <1>18 DEF IsAssigned
  <2>2. b.vrf_ifindex = s.vrf_ifindex
    BY <1>10, <1>18 DEF IsAssigned
  <2>3. b.vrf_table = s.vrf_table
    BY <1>10, <1>18 DEF IsAssigned
  <2> QED
    BY <2>1, <2>2, <2>3
<1>16. b = s
  <2>1. DOMAIN ZeroSession = {"discr", "remote", "user_remote", "name", "flags", "src", "dst",
          "sport", "dport", "ifindex", "vrf_ifindex", "vrf_table", "tx", "rx", "mult", "hold", "ttl"}
    BY DEF ZeroSession
  <2>2. \A f \in DOMAIN ZeroSession : b[f] = s[f]
    BY <1>12, <1>13, <1>14, <1>15, <2>1
  <2>3. /\ DOMAIN b = DOMAIN ZeroSession /\ b = [f \in DOMAIN b |-> b[f]]
        /\ DOMAIN s = DOMAIN ZeroSession /\ s = [f \in DOMAIN s |-> s[f]]
    BY <1>10 DEF IsAssigned
  <2> QED
    BY <2>2, <2>3
<1>17. s.discr = e.discr[1] /\ s.sport = 0
  <2>1. s.discr = Or(e.discr, z.discr) /\ s.sport = z.sport
    BY <1>10 DEF IsAssigned
  <2> QED
    BY <1>1, <1>4, <2>1, ZenonT(60) DEF Or
<1> QED
  BY <1>4, <1>9, <1>16, <1>17 DEF d

(* The hold time of the message fits: rounding down does not exceed it. *)
LEMMA HoldFits ==
  ASSUME NEW h \in 0..MaxU32
  PROVE  h \div MsInUs \in Nat /\ h \div MsInUs <= MaxU32 \div MsInUs
<1> DEFINE k == MsInUs
           q == h \div k
           t == MaxU32 \div k
<1>1. k \in Nat \ {0} /\ h \in Nat /\ MaxU32 \in Nat /\ h <= MaxU32
  BY ConfAssumption
<1>2. q \in Nat /\ t \in Nat
  BY <1>1
<1>3. k * q <= h /\ MaxU32 < k * (t + 1)
  <2>1. \A x \in Nat : k * (x \div k) <= x /\ x < k * ((x \div k) + 1)
    BY <1>1, Z3T(30)
  <2> QED
    BY <1>1, <2>1
<1> HIDE DEF k, q, t
<1>4. ASSUME q > t
      PROVE  FALSE
  <2>1. PICK u \in Nat : q = (t + 1) + u
    <3>1. q - (t + 1) \in Nat
      BY <1>2, <1>4
    <3>2. q = (t + 1) + (q - (t + 1))
      BY <1>2
    <3> QED
      BY <3>1, <3>2
  <2>2. k * q = k * (t + 1) + k * u
    BY <1>1, <1>2, <2>1
  <2>3. k * u \in Nat /\ k * (t + 1) \in Nat /\ k * q \in Nat
    BY <1>1, <1>2, <2>1
  <2> QED
    BY <1>1, <1>3, <2>2, <2>3
<1> QED
  BY <1>2, <1>4 DEF k, q, t

(* What the receiver makes of the message, before the interfaces are       *)
(* looked up: the VRF comes with its name and its table.                   *)
Carried(s, f) ==
  /\ DOMAIN f = DOMAIN NoChange
  /\ f.discr = <<s.discr>> /\ f.remote = <<>> /\ f.name = <<>>
  /\ f.flags = [x \in Flags |-> <<s.flags[x]>>]
  /\ f.src = <<s.src>> /\ f.dst = <<s.dst>> /\ f.tx = <<s.tx>> /\ f.rx = <<s.rx>>
  /\ f.mult = <<s.mult>> /\ f.ttl = <<s.ttl>>
  /\ f.hold = <<(s.hold \div MsInUs) * MsInUs>>
  /\ f.netif = [unset |-> s.ifindex = 0, name |-> NonZero(s.ifindex), index |-> NonZero(s.ifindex)]
  /\ f.vrf = [netif |-> [unset |-> s.vrf_table = 0, name |-> NonZero(s.vrf_ifindex), index |-> <<>>],
              table |-> NonZero(s.vrf_table)]

(* The family of the addresses is that of the destination, and no source   *)
(* is an all-zero source.                                                  *)
LEMMA AddrsCarried ==
  ASSUME NEW src \in AddrType \cup {NoAddr}, NEW dst \in AddrType,
         src.af \in {0, dst.af}, src.host # 0 \/ src.af = 0,
         NEW af, af = IF dst.af = 6 THEN 6 ELSE 4
  PROVE  /\ <<[af |-> af, host |-> dst.host]>> = <<dst>>
         /\ (IF src.host = 0 THEN <<NoAddr>> ELSE <<[af |-> af, host |-> src.host]>>) = <<src>>
<1>1. af = dst.af
  BY DEF AddrType
<1>2. \A a \in AddrType : [af |-> a.af, host |-> a.host] = a
  BY DEF AddrType
<1>3. NoAddr.host = 0 /\ NoAddr.af = 0
  BY DEF NoAddr
<1>4. CASE src.host = 0
  <2>1. src \notin AddrType
    BY <1>4 DEF AddrType
  <2> QED
    BY <1>1, <1>2, <1>4, <2>1
<1>5. CASE src.host # 0
  <2>1. src \in AddrType
    BY <1>3, <1>5
  <2>2. src.af = af
    BY <1>1, <2>1 DEF AddrType
  <2>3. [af |-> af, host |-> src.host] = src
    BY <1>2, <2>1, <2>2
  <2> QED
    BY <1>1, <1>2, <1>5, <2>3
<1> QED
  BY <1>4, <1>5

(* bbdd_bfdd_session_to_c *)
LEMMA MsgCarries ==
  ASSUME NEW s, s.discr # 0, s.hold \in 0..MaxU32,
         s.src \in AddrType \cup {NoAddr}, s.dst \in AddrType,
         s.src.af \in {0, s.dst.af}, s.src.host # 0 \/ s.src.af = 0,
         s.vrf_ifindex # 0 => s.vrf_table # 0
  PROVE  \E f : FromMsg(AddMsg(s)) = <<f>> /\ Carried(s, f)
<1> DEFINE m == AddMsg(s)
           af == IF m.ipv6 THEN 6 ELSE 4
           src == IF m.src = 0 THEN <<NoAddr>> ELSE <<[af |-> af, host |-> m.src]>>
           dst == <<[af |-> af, host |-> m.dst]>>
           netif == IF m.ifindex = 0 THEN [NoNetif EXCEPT !.unset = TRUE]
                    ELSE [NoNetif EXCEPT !.index = <<m.ifindex>>, !.name = NonZero(m.ifname)]
           vrf == IF m.vrf_id = 0 THEN [NoVrf EXCEPT !.netif.unset = TRUE]
                  ELSE [netif |-> [NoNetif EXCEPT !.name = NonZero(m.vrfname)], table |-> <<m.vrf_id>>]
           flags == [x \in Flags |-> <<m.flags[x]>>]
           f == [NoChange EXCEPT !.discr = NonZero(m.lid), !.flags = flags, !.src = src, !.dst = dst,
                   !.tx = <<m.min_tx>>, !.rx = <<m.min_rx>>, !.hold = <<HoldScaled(m)>>,
                   !.ttl = <<m.ttl>>, !.mult = <<m.detect_mult>>, !.netif = netif, !.vrf = vrf]
<1>1. /\ m.lid = s.discr /\ m.flags = s.flags /\ m.ipv6 = (s.dst.af = 6) /\ m.unsupported = FALSE
      /\ m.src = s.src.host /\ m.dst = s.dst.host /\ m.min_tx = s.tx /\ m.min_rx = s.rx
      /\ m.hold_time = s.hold \div MsInUs /\ m.ttl = s.ttl /\ m.detect_mult = s.mult
      /\ m.ifindex = s.ifindex /\ m.ifname = s.ifindex /\ m.vrf_id = s.vrf_table
      /\ m.vrfname = IF s.vrf_table = 0 THEN 0 ELSE s.vrf_ifindex
  BY Zenon DEF AddMsg
<1> HIDE DEF m
<1>2. FromMsg(m) = <<f>>
  <2>1. ~(m.unsupported \/ m.hold_time > MaxU32 \div MsInUs)
    <3>1. MaxU32 \div MsInUs \in Int
      BY ConfAssumption
    <3>2. s.hold \div MsInUs \in Nat /\ s.hold \div MsInUs <= MaxU32 \div MsInUs
      BY HoldFits
    <3> QED
      BY <1>1, <3>1, <3>2
  <2> QED
    BY <2>1 DEF FromMsg, Ok
<1>3. src = <<s.src>> /\ dst = <<s.dst>>
  <2>1. af = IF s.dst.af = 6 THEN 6 ELSE 4
    BY <1>1, Zenon
  <2> HIDE DEF af
  <2> QED
    BY <1>1, <2>1, AddrsCarried
<1>4. netif = [unset |-> s.ifindex = 0, name |-> NonZero(s.ifindex), index |-> NonZero(s.ifindex)]
  <2>1. CASE s.ifindex = 0
    BY <1>1, <2>1, Zenon DEF NoNetif, NonZero
  <2>2. CASE s.ifindex # 0
    BY <1>1, <2>2, Zenon DEF NoNetif, NonZero
  <2> QED
    BY <2>1, <2>2
<1>5. vrf = [netif |-> [unset |-> s.vrf_table = 0, name |-> NonZero(s.vrf_ifindex), index |-> <<>>],
             table |-> NonZero(s.vrf_table)]
  <2>1. CASE s.vrf_table = 0
    BY <1>1, <2>1, Zenon DEF NoVrf, NoNetif, NonZero
  <2>2. CASE s.vrf_table # 0
    BY <1>1, <2>2, ZenonT(60) DEF NoNetif, NonZero
  <2> QED
    BY <2>1, <2>2
<1>6. /\ NonZero(m.lid) = <<s.discr>> /\ flags = [x \in Flags |-> <<s.flags[x]>>]
      /\ HoldScaled(m) = (s.hold \div MsInUs) * MsInUs
  BY <1>1 DEF NonZero, HoldScaled
<1> HIDE DEF src, dst, netif, vrf, flags
<1>7. /\ DOMAIN f = DOMAIN NoChange
      /\ f.discr = NonZero(m.lid) /\ f.remote = <<>> /\ f.name = <<>> /\ f.flags = flags
      /\ f.src = src /\ f.dst = dst /\ f.tx = <<m.min_tx>> /\ f.rx = <<m.min_rx>>
      /\ f.hold = <<HoldScaled(m)>> /\ f.ttl = <<m.ttl>> /\ f.mult = <<m.detect_mult>>
      /\ f.netif = netif /\ f.vrf = vrf
  BY DEF NoChange
<1> HIDE DEF f
<1>8. Carried(s, f)
  BY <1>1, <1>3, <1>4, <1>5, <1>6, <1>7, Zenon DEF Carried
<1> QED
  BY <1>2, <1>8 DEF m

(* A VRF that comes with its name gets its index. *)
LEMMA VrfNamed ==
  ASSUME NEW p, NEW i, NEW t, i = 0 \/ (i \in p /\ VrfTable[i] # 0 /\ t = VrfTable[i]), NEW u,
         NEW v, v = [netif |-> [unset |-> u, name |-> NonZero(i), index |-> <<>>],
                     table |-> NonZero(t)],
         NEW w, w = [netif |-> [unset |-> u, name |-> NonZero(i), index |-> NonZero(i)],
                     table |-> NonZero(t)]
  PROVE  ValidateVrf(v, p) = <<w>>
<1>1. CASE i = 0
  <2>1. NonZero(i) = <<>>
    BY <1>1 DEF NonZero
  <2>2. v = [netif |-> [unset |-> u, name |-> NonZero(i), index |-> NonZero(i)],
             table |-> NonZero(t)]
    BY <2>1
  <2>3. ValidateVrf(v, p) = <<v>>
    BY <1>1, <2>2, VrfReported, Zenon
  <2> QED
    BY <2>2, <2>3, Zenon
<1>2. CASE i # 0
  <2> DEFINE n == [unset |-> u, name |-> NonZero(i), index |-> <<>>]
             x == [unset |-> u, name |-> <<i>>, index |-> <<i>>]
             seen == {f[1] : f \in {n.name, n.index} \ {<<>>}}
             r == ValidateNetif(n, p)
  <2>1. NonZero(i) = <<i>> /\ t # 0 /\ NonZero(t) = <<t>>
    BY <1>2 DEF NonZero
  <2>2. n.name = <<i>> /\ n.index = <<>> /\ v.netif = n /\ v.table = <<t>>
    BY <2>1
  <2>3. [n EXCEPT !.name = <<i>>, !.index = <<i>>] = x
    <3> DEFINE y == [n EXCEPT !.name = <<i>>, !.index = <<i>>]
    <3>1. DOMAIN n = {"unset", "name", "index"} /\ n.unset = u
      OBVIOUS
    <3>2. x = [f \in {"unset", "name", "index"} |-> x[f]]
      OBVIOUS
    <3>3. x.unset = u /\ x.name = <<i>> /\ x.index = <<i>>
      OBVIOUS
    <3> HIDE DEF n, x
    <3>4. y = [f \in {"unset", "name", "index"} |-> y[f]]
      BY <3>1, ZenonT(60)
    <3>5. y.unset = u /\ y.name = <<i>> /\ y.index = <<i>>
      BY <3>1
    <3> HIDE DEF y
    <3>6. \A f \in {"unset", "name", "index"} : x[f] = y[f]
      BY <3>3, <3>5
    <3>7. x = y
      BY <3>2, <3>4, <3>6
    <3> QED
      BY <3>7 DEF y
  <2>9. x.index = <<i>>
    OBVIOUS
  <2> HIDE DEF n, x
  <2>4. seen = {i}
    <3>1. {n.name, n.index} \ {<<>>} = {<<i>>}
      <4>1. <<i>> # <<>>
        OBVIOUS
      <4>2. \A a, b : a # b => {a, b} \ {b} = {a}
        OBVIOUS
      <4> QED
        BY <2>2, <4>1, <4>2
    <3>2. <<i>>[1] = i
      OBVIOUS
    <3> QED
      BY <3>1, <3>2, Zenon
  <2>5. r = <<x>>
    <3> HIDE DEF seen
    <3>1. seen # {} /\ seen \subseteq p /\ \A j, k \in seen : j = k
      BY <1>2, <2>4
    <3>2. (CHOOSE j \in seen : TRUE) = i
      BY <2>4
    <3> QED
      BY <2>3, <3>1, <3>2, Zenon DEF ValidateNetif, Ok, seen
  <2> HIDE DEF r
  <2>6. r[1] = x /\ ~Failed(r) /\ Given(r[1].index) /\ r[1].index[1] = i
    <3>1. r[1] = x /\ r # <<>>
      BY <2>5
    <3>2. <<i>> # <<>> /\ <<i>>[1] = i
      OBVIOUS
    <3> QED
      BY <2>9, <3>1, <3>2 DEF Failed, Error, Given
  <2>7. VrfTable[i] = t /\ Or(v.table, t) = t
    BY <1>2, <2>2 DEF Or
  <2>8. ValidateVrf(v, p) = <<[netif |-> x, table |-> <<t>>]>>
    BY <1>2, <2>1, <2>2, <2>6, <2>7, ZenonT(60) DEF ValidateVrf, Ok, r
  <2> QED
    BY <2>1, <2>8 DEF x
<1> QED
  BY <1>1, <1>2

(* The links that a session names are there, and the table is its VRF's. *)
Resolves(s, p) ==
  /\ {s.ifindex, s.vrf_ifindex} \ {0} \subseteq p
  /\ s.vrf_ifindex # 0 => VrfTable[s.vrf_ifindex] # 0 /\ s.vrf_table = VrfTable[s.vrf_ifindex]

(* The daemon accepts the request f as one that restates session s. *)
AcceptedAs(f, s, p) ==
  \E g : /\ ValidateMsg(f, p) = <<g>> /\ Restated(s, g)
         /\ g.remote = <<>> /\ g.name = <<>> /\ g.hold = f.hold

(* bbdd_d_bfdd_handle_add_session_vrf: what is carried is accepted. *)
LEMMA CarriedAccepted ==
  ASSUME NEW s, NEW p, Resolves(s, p), NEW f, Carried(s, f)
  PROVE  AcceptedAs(f, s, p)
<1> DEFINE n == [unset |-> s.ifindex = 0, name |-> NonZero(s.ifindex), index |-> NonZero(s.ifindex)]
           v == [netif |-> [unset |-> s.vrf_table = 0, name |-> NonZero(s.vrf_ifindex), index |-> <<>>],
                 table |-> NonZero(s.vrf_table)]
           w == [netif |-> [unset |-> s.vrf_table = 0, name |-> NonZero(s.vrf_ifindex),
                            index |-> NonZero(s.vrf_ifindex)],
                 table |-> NonZero(s.vrf_table)]
           g == [f EXCEPT !.netif = n, !.vrf = w]
<1>1. ValidateNetif(n, p) = <<n>>
  <2> DEFINE u == s.ifindex = 0
             i == s.ifindex
  <2>1. n = [unset |-> u, name |-> NonZero(i), index |-> NonZero(i)]
    BY Zenon
  <2>2. i = 0 \/ i \in p
    BY DEF Resolves
  <2> HIDE DEF u, i, n
  <2> QED
    BY <2>1, <2>2, NetifReported
<1>2. ValidateVrf(v, p) = <<w>>
  <2> DEFINE u == s.vrf_table = 0
             i == s.vrf_ifindex
             t == s.vrf_table
  <2>1. v = [netif |-> [unset |-> u, name |-> NonZero(i), index |-> <<>>], table |-> NonZero(t)]
    OBVIOUS
  <2>2. w = [netif |-> [unset |-> u, name |-> NonZero(i), index |-> NonZero(i)], table |-> NonZero(t)]
    OBVIOUS
  <2>3. i = 0 \/ (i \in p /\ VrfTable[i] # 0 /\ t = VrfTable[i])
    BY DEF Resolves
  <2> HIDE DEF u, i, t, v, w
  <2> QED
    BY <2>1, <2>2, <2>3, VrfNamed
<1>3. f.netif = n /\ f.vrf = v /\ f.discr = <<s.discr>>
  BY ZenonT(60) DEF Carried
<1>4. /\ n.unset = (s.ifindex = 0) /\ n.index = NonZero(s.ifindex)
      /\ w.netif.unset = (s.vrf_table = 0)
      /\ w.netif.index = NonZero(s.vrf_ifindex) /\ w.netif.name = NonZero(s.vrf_ifindex)
      /\ w.table = NonZero(s.vrf_table)
  OBVIOUS
<1> HIDE DEF n, v, w
<1>5. ValidateMsg(f, p) = <<g>>
  <2>1. ValidateNetif(f.netif, p) = <<n>> /\ ValidateVrf(f.vrf, p) = <<w>> /\ Given(f.discr)
    <3>1. <<s.discr>> # <<>>
      OBVIOUS
    <3>2. Given(f.discr)
      BY <1>3, <3>1, Zenon DEF Given
    <3>3. ValidateNetif(f.netif, p) = <<n>> /\ ValidateVrf(f.vrf, p) = <<w>>
      BY <1>1, <1>2, <1>3, ZenonT(60)
    <3> QED
      BY <3>2, <3>3, Zenon
  <2>2. <<n>>[1] = n /\ <<w>>[1] = w /\ <<n>> # <<>> /\ <<w>> # <<>>
    OBVIOUS
  <2> QED
    BY <2>1, <2>2 DEF ValidateMsg, Failed, Error, Ok
<1>6. /\ g.netif = n /\ g.vrf = w
      /\ g.discr = f.discr /\ g.remote = f.remote /\ g.name = f.name /\ g.flags = f.flags
      /\ g.src = f.src /\ g.dst = f.dst /\ g.tx = f.tx /\ g.rx = f.rx /\ g.mult = f.mult
      /\ g.hold = f.hold /\ g.ttl = f.ttl
  <2>1. DOMAIN f = {"discr", "remote", "name", "flags", "src", "dst", "tx", "rx", "mult", "hold",
                    "ttl", "netif", "vrf"}
    BY Zenon DEF Carried, NoChange
  <2> QED
    BY <2>1
<1> HIDE DEF g
<1>7. s.vrf_table = 0 => s.vrf_ifindex = 0
  BY DEF Resolves
<1>8. Restated(s, g)
  BY <1>4, <1>6, <1>7, ZenonT(60) DEF Restated, Carried
<1>9. g.remote = <<>> /\ g.name = <<>> /\ g.hold = f.hold
  BY <1>6, Zenon DEF Carried
<1> QED
  BY <1>5, <1>8, <1>9, ZenonT(60) DEF AcceptedAs

(* What is known of an accepted request, and of the session it asks for *)
LEMMA AskedFor ==
  ASSUME NEW c \in ChangeType, NEW p, p \subseteq Links, ~Failed(DissectValidate(c, p)),
         NEW e, e = DissectValidate(c, p)[1],
         NEW s, IsAssigned(s, [ZeroSession EXCEPT !.ttl = 255], e), s.dst.af # 0
  PROVE  /\ e.discr = c.discr
         /\ s.hold \in 0..MaxU32
         /\ s.src \in AddrType \cup {NoAddr} /\ s.dst \in AddrType
         /\ s.src = Or(c.src, NoAddr)
<1> DEFINE z == [ZeroSession EXCEPT !.ttl = 255]
<1>1. z.src = NoAddr /\ z.dst = NoAddr /\ z.hold = 0
  BY ZenonT(60) DEF ZeroSession
<1> HIDE DEF z
<1>2. e.discr = c.discr /\ e.src = c.src /\ e.dst = c.dst /\ e.hold = c.hold
  <2> DEFINE a == ValidateNetif(c.netif, p)[1]
             b == IF Given(c.vrf.netif.name) THEN ValidateVrf(c.vrf, p)[1] ELSE c.vrf
  <2>1. e = [c EXCEPT !.netif = a, !.vrf = b]
    BY DissectIs, Zenon
  <2> HIDE DEF a, b
  <2> QED
    BY <2>1 DEF ChangeType
<1>3. s.src = Or(c.src, NoAddr) /\ s.dst = Or(c.dst, NoAddr) /\ s.hold = Or(c.hold, 0)
  <2>1. s.src = Or(e.src, z.src) /\ s.dst = Or(e.dst, z.dst) /\ s.hold = Or(e.hold, z.hold)
    BY DEF IsAssigned, z
  <2> QED
    BY <1>1, <1>2, <2>1
<1>4. \A S : \A x \in Optional(S) : Given(x) => x[1] \in S
  BY DEF Optional, Given
<1>5. c.src \in Optional(AddrType \cup {NoAddr}) /\ c.dst \in Optional(AddrType) /\ c.hold \in Optional(0..MaxU32)
  BY DEF ChangeType
<1>6. s.src \in AddrType \cup {NoAddr}
  BY <1>3, <1>4, <1>5 DEF Or
<1>7. s.dst \in AddrType
  <2>1. NoAddr.af = 0
    BY DEF NoAddr
  <2> QED
    BY <1>3, <1>4, <1>5, <2>1 DEF Or
<1>8. s.hold \in 0..MaxU32
  <2>1. 0 \in 0..MaxU32
    BY ConfAssumption
  <2> QED
    BY <1>3, <1>4, <1>5, <2>1, Zenon DEF Or
<1> QED
  BY <1>2, <1>3, <1>6, <1>7, <1>8

(* The request, the message and the session that each way creates *)
Bridged(c, p, e, m) ==
  \E s, f, g :
    /\ ApplyC(NewSession(c.discr[1], 0), e, p) = <<s>>
    /\ FromMsg(m) = <<f>>
    /\ ValidateMsg(f, p) = <<g>>
    /\ ApplyC(NewSession(c.discr[1], 0), g, p) =
         <<[s EXCEPT !.name = "", !.remote = 0, !.user_remote = 0,
                     !.hold = (s.hold \div MsInUs) * MsInUs]>>

LEMMA BridgeCreates ==
  ASSUME VrfsNamed, NEW c \in Changes, NEW p, p \subseteq Links,
         NEW r, r = DissectValidate(c, p), ~Failed(r),
         NEW m, m = ToMsg(r[1], p), ~Failed(m),
         Or(c.src, NoAddr).host # 0 \/ Or(c.src, NoAddr).af = 0
  PROVE  Bridged(c, p, r[1], m[1])
<1> DEFINE e == r[1]
           z == [ZeroSession EXCEPT !.ttl = 255]
           a == ApplyC(z, e, p)
           s == a[1]
<1>1. c \in ChangeType
  BY InputAssumption
<1>2. e = DissectValidate(c, p)[1] /\ ~Failed(DissectValidate(c, p))
  OBVIOUS
<1>3. Derives(e)
  BY <1>1, <1>2, DissectDerives DEF VrfsNamed
<1> HIDE DEF e
<1>4. Bound(z)
  BY DEF Bound, ZeroSession, NoAddr, Garbled
<1>5. ~Failed(a) /\ {s.vrf_ifindex, s.ifindex} \ {0} \subseteq p /\ m = <<AddMsg(s)>>
  <2>1. m = ToMsg(e, p) /\ ~Failed(m)
    BY DEF e
  <2>2. ~Failed(a) /\ {s.vrf_ifindex, s.ifindex} \ {0} \subseteq p
    BY <2>1 DEF ToMsg, Failed, Error
  <2>3. ToMsg(e, p) = <<AddMsg(s)>>
    <3>1. ~(Failed(a) \/ ~({a[1].vrf_ifindex, a[1].ifindex} \ {0} \subseteq p))
      BY <2>2
    <3> QED
      BY <3>1 DEF ToMsg, Ok
  <2> QED
    BY <2>1, <2>2, <2>3
<1>6. Sound(s)
  <2> HIDE DEF z
  <2> QED
    BY <1>3, <1>4, <1>5, ApplySound, Zenon
<1>7. /\ Given(e.discr) /\ e.discr[1] = s.discr /\ s.discr # 0 /\ s.sport = 0
      /\ ApplyC(NewSession(e.discr[1], 0), e, p) = <<s>>
  BY <1>5, BridgeDirect
<1>8. IsAssigned(s, z, e)
  <2> HIDE DEF z
  <2>1. s = Assigned(z, e)
    BY <1>5, Zenon DEF ApplyC, Failed, Error, Ok
  <2> HIDE DEF s
  <2> QED
    BY <2>1, AssignedIs, ZenonT(60)
<1> HIDE DEF s, a
<1>9. /\ e.discr = c.discr /\ s.hold \in 0..MaxU32
      /\ s.src \in AddrType \cup {NoAddr} /\ s.dst \in AddrType
      /\ s.src = Or(c.src, NoAddr)
  <2>1. s.dst.af # 0
    BY <1>6 DEF Sound
  <2> QED
    BY <1>1, <1>2, <1>8, <2>1, AskedFor
<1>10. s.vrf_ifindex # 0 =>
         /\ VrfTable[s.vrf_ifindex] # 0 /\ s.vrf_table = VrfTable[s.vrf_ifindex]
  BY <1>6 DEF Sound, Bound
<1>11. PICK f : FromMsg(AddMsg(s)) = <<f>> /\ Carried(s, f)
  <2>1. s.src.af \in {0, s.dst.af} /\ (s.src.host # 0 \/ s.src.af = 0)
    BY <1>6, <1>9 DEF Sound
  <2>2. s.vrf_ifindex # 0 => s.vrf_table # 0
    BY <1>10
  <2> QED
    BY <1>7, <1>9, <2>1, <2>2, MsgCarries, ZenonT(60)
<1>12. FromMsg(m[1]) = <<f>>
  <2>1. m[1] = AddMsg(s)
    BY <1>5
  <2> QED
    BY <1>11, <2>1
<1>13. PICK g : /\ ValidateMsg(f, p) = <<g>> /\ Restated(s, g)
                /\ g.remote = <<>> /\ g.name = <<>> /\ g.hold = f.hold
  <2>1. Resolves(s, p)
    BY <1>5, <1>10 DEF Resolves
  <2>2. Carried(s, f)
    BY <1>11
  <2>3. AcceptedAs(f, s, p)
    BY <2>1, <2>2, CarriedAccepted
  <2> QED
    BY <2>3, Zenon DEF AcceptedAs
<1>14. ApplyC(NewSession(s.discr, s.sport), g, p) =
         <<[s EXCEPT !.remote = Or(g.remote, 0), !.user_remote = Or(g.remote, 0),
                     !.name = Or(g.name, ""), !.hold = Or(g.hold, 0)]>>
  <2>1. {s.ifindex, s.vrf_ifindex} \ {0} \subseteq p
    BY <1>5
  <2>2. s.vrf_ifindex # 0 => s.vrf_table = VrfTable[s.vrf_ifindex]
    BY <1>10
  <2> QED
    BY <1>6, <1>13, <2>1, <2>2, Recreates, ZenonT(60)
<1>15. /\ Or(g.remote, 0) = 0 /\ Or(g.name, "") = ""
       /\ Or(g.hold, 0) = (s.hold \div MsInUs) * MsInUs
  <2>1. g.hold = <<(s.hold \div MsInUs) * MsInUs>>
    BY <1>11, <1>13, Zenon DEF Carried
  <2> QED
    BY <1>13, <2>1 DEF Or, Given
<1> DEFINE h == (s.hold \div MsInUs) * MsInUs
           x == [s EXCEPT !.remote = 0, !.user_remote = 0, !.name = "", !.hold = h]
           y == [s EXCEPT !.name = "", !.remote = 0, !.user_remote = 0, !.hold = h]
<1>16. ApplyC(NewSession(s.discr, s.sport), g, p) = <<x>>
  BY <1>14, <1>15
<1>17. x = y
  <2> HIDE DEF h
  <2>1. DOMAIN x = DOMAIN s /\ x = [k \in DOMAIN x |-> x[k]]
    BY Zenon
  <2>2. DOMAIN y = DOMAIN s /\ y = [k \in DOMAIN y |-> y[k]]
    BY Zenon
  <2>3. \A k \in DOMAIN s : x[k] = y[k]
    BY Zenon
  <2> HIDE DEF x, y
  <2> QED
    BY <2>1, <2>2, <2>3
<1>18. s.discr = c.discr[1] /\ s.sport = 0
  BY <1>7, <1>9, Zenon
<1>19. ApplyC(NewSession(c.discr[1], 0), g, p) = <<y>>
  BY <1>16, <1>17, <1>18
<1>20. ApplyC(NewSession(c.discr[1], 0), r[1], p) = <<s>>
  BY <1>7, <1>9, Zenon DEF e
<1> QED
  BY <1>12, <1>13, <1>19, <1>20, Zenon DEF Bridged, h, y

-----------------------------------------------------------------------------
(* Theorems *)

(* The port allocator of bbdd_d_sport_get and bbdd_d_sport_put holds the   *)
(* source ports of the sessions and nothing else, and no two sessions      *)
(* share a port: whatever is added, refused half way and deleted.          *)
THEOREM PortsAreExact == Spec => []PortsExact
<1>1. IInv => PortsExact
  BY DEF IInv
<1> QED
  BY Inductive, <1>1, PTL

(* The daemon's directory, the directory of the BPF part and the BPF maps  *)
(* hold the same sessions.                                                 *)
THEOREM DirectoriesAgree == Spec => []DirsAgree
<1>1. IInv => DirsAgree
  BY DEF IInv
<1> QED
  BY Inductive, <1>1, PTL

(* What bbdd_d_session_apply_c demands of a session holds of all sessions  *)
(* at all times, and no session has discriminator zero.                    *)
THEOREM AllSessionsValid == Spec => []SessionsValid
<1>1. IInv => SessionsValid
  BY Zenon DEF IInv, SessionsValid, Sound
<1> QED
  BY Inductive, <1>1, PTL

(* The error paths of bbdd_d_session_add undo all that was done. *)
THEOREM RefusalsAreClean == Spec => RefusedAddLeavesNoTrace
<1>1. IInv /\ [Next]_vars => [refused' => UNCHANGED dirs]_vars
  BY NextIInv
<1> QED
  BY Inductive, <1>1, PTL DEF Spec, RefusedAddLeavesNoTrace

(* What bbdd_d_session_apply_c sets, bbdd_d_session_matches selects: any   *)
(* session, any change that the parser accepts and that does not           *)
(* contradict itself.                                                      *)
THEOREM SetSelects == Spec => []SetThenSelect
<1>1. IInv => SetThenSelect
  BY AppliedMatches, InputAssumption, Zenon DEF IInv, TypeOK, SetThenSelect
<1> QED
  BY Inductive, <1>1, PTL

(* Any session whose VRF has its table is recreated by what                *)
(* bbdd_d_session_to_c reports of it, up to what was learned from the      *)
(* peer, as long as its interfaces are there; and a query that can be      *)
(* evaluated is always answered.                                           *)
THEOREM ShowIsComplete == Spec => [](VrfTableDerived => ShowRecreates)
<1>1. IInv => (VrfTableDerived => ShowRecreates)
  <2> SUFFICES ASSUME IInv, VrfTableDerived, NEW q \in Queries, ~SelectFails(q)
               PROVE  /\ ~Failed(HandleSessionStats(q))
                      /\ ~Failed(HandleSessionShow(q))
                      /\ \A c \in HandleSessionShow(q)[1] :
                           LET s == sdir[c.discr[1]]
                               r == DissectValidate(c, present)
                               a == ApplyC(NewSession(s.discr, s.sport), r[1], present)
                           IN  {s.ifindex, s.vrf_ifindex} \ {0} \subseteq present =>
                                 /\ ~Failed(r)
                                 /\ ~Failed(a)
                                 /\ a[1] = [s EXCEPT !.remote = s.user_remote]
    BY DEF ShowRecreates
  <2>1. Selected(q) \subseteq Sessions /\ Sessions = DOMAIN bpf /\ Sessions = maps
    BY DEF Selected, IInv, DirsAgree
  <2>2. /\ HandleSessionStats(q) = <<Selected(q)>>
        /\ HandleSessionShow(q) = <<{ToC(sdir[d]) : d \in Selected(q)}>>
    BY <2>1 DEF HandleSessionStats, HandleSessionShow, Ok
  <2>3. ~Failed(HandleSessionStats(q)) /\ ~Failed(HandleSessionShow(q))
    BY <2>2 DEF Failed, Error
  <2>4. ASSUME NEW c \in HandleSessionShow(q)[1],
               {sdir[c.discr[1]].ifindex, sdir[c.discr[1]].vrf_ifindex} \ {0} \subseteq present
        PROVE  /\ DissectValidate(c, present) = <<c>>
               /\ ApplyC(NewSession(sdir[c.discr[1]].discr, sdir[c.discr[1]].sport), c, present)
                    = <<[sdir[c.discr[1]] EXCEPT !.remote = sdir[c.discr[1]].user_remote]>>
    <3>1. PICK d \in Selected(q) : c = ToC(sdir[d])
      BY <2>2
    <3>2. d \in Sessions /\ Sound(sdir[d]) /\ sdir[d].discr = d /\ present \subseteq Links
      BY <2>1 DEF IInv, DirsAgree, TypeOK
    <3>3. c.discr[1] = d
      BY <3>1, <3>2, ZenonT(60) DEF ToC
    <3> DEFINE s == sdir[d]
    <3>4. s.vrf_ifindex # 0 => s.vrf_table = VrfTable[s.vrf_ifindex]
      BY <3>2, ZenonT(60) DEF VrfTableDerived
    <3>5. {s.ifindex, s.vrf_ifindex} \ {0} \subseteq present
      BY <2>4, <3>3, ZenonT(60)
    <3> HIDE DEF s
    <3>6. Sound(s) /\ c = ToC(s)
      BY <3>1, <3>2, ZenonT(60) DEF s
    <3>7. DissectValidate(c, present) = <<c>>
      BY <3>4, <3>5, <3>6, ReportAccepted, Zenon
    <3>8. ApplyC(NewSession(s.discr, s.sport), c, present) = <<[s EXCEPT !.remote = s.user_remote]>>
      BY <3>2, <3>4, <3>5, <3>6, ReportRecreates
    <3> QED
      BY <3>3, <3>7, <3>8 DEF s
  <2>5. ASSUME NEW c \in HandleSessionShow(q)[1]
        PROVE  LET s == sdir[c.discr[1]]
                   r == DissectValidate(c, present)
                   a == ApplyC(NewSession(s.discr, s.sport), r[1], present)
               IN  {s.ifindex, s.vrf_ifindex} \ {0} \subseteq present =>
                     /\ ~Failed(r)
                     /\ ~Failed(a)
                     /\ a[1] = [s EXCEPT !.remote = s.user_remote]
    <3> DEFINE s == sdir[c.discr[1]]
               r == DissectValidate(c, present)
               b == [s EXCEPT !.remote = s.user_remote]
    <3> SUFFICES ASSUME {s.ifindex, s.vrf_ifindex} \ {0} \subseteq present
                 PROVE  /\ ~Failed(r)
                        /\ ~Failed(ApplyC(NewSession(s.discr, s.sport), r[1], present))
                        /\ ApplyC(NewSession(s.discr, s.sport), r[1], present)[1] = b
      OBVIOUS
    <3>1. r = <<c>> /\ ApplyC(NewSession(s.discr, s.sport), c, present) = <<b>>
      BY <2>4
    <3> HIDE DEF s, r, b
    <3> QED
      BY <3>1 DEF Failed, Error
  <2> QED
    BY <2>3, <2>5
<1> QED
  BY Inductive, <1>1, PTL

(* man/bbdd-session: "When the VRF name or index is given, the daemon can  *)
(* derive the routing table ID automatically".  It does when the name is   *)
(* given, with the index or without, and keeps it through all changes: the *)
(* VRF that is given by its index alone is the only exception.             *)
THEOREM TablesDerived ==
  ASSUME VrfsNamed
  PROVE  Spec => []VrfTableDerived
<1>1. IInv => VrfTableDerived
  BY ZenonT(60) DEF IInv, Sound, Bound, VrfTableDerived
<1> QED
  BY Inductive, <1>1, PTL

(* So where VRFs are named, "session show" always reports what recreates   *)
(* the session.                                                            *)
THEOREM NamedShowIsComplete ==
  ASSUME VrfsNamed
  PROVE  Spec => []ShowRecreates
BY ShowIsComplete, TablesDerived, PTL

(* A session that is added through the bridge is the one that would have   *)
(* been added directly, for every request and whatever interfaces exist:   *)
(* bbdd_bfdd_d_add_session and bbdd_bfdd_session_to_c are inverse to each  *)
(* other but for what the message has no room for.                         *)
THEOREM BridgeIsFaithful ==
  ASSUME VrfsNamed
  PROVE  Spec => []BridgeKeeps
<1>1. IInv => BridgeKeeps
  <2> SUFFICES ASSUME IInv, NEW c \in Changes
               PROVE  LET r == DissectValidate(c, present)
                          m == ToMsg(r[1], present)
                          f == FromMsg(m[1])
                          v == ValidateMsg(f[1], present)
                          new == NewSession(c.discr[1], 0)
                          direct == ApplyC(new, r[1], present)
                          via == ApplyC(new, v[1], present)
                      IN  /\ ~Failed(r) /\ ~Failed(m)
                          /\ Or(c.src, NoAddr).host # 0 \/ Or(c.src, NoAddr).af = 0
                          => /\ ~Failed(f) /\ ~Failed(v) /\ ~Failed(via) /\ ~Failed(direct)
                             /\ via[1] = [direct[1] EXCEPT
                                  !.name = "", !.remote = 0, !.user_remote = 0,
                                  !.hold = (@ \div MsInUs) * MsInUs]
    BY ZenonT(60) DEF BridgeKeeps
  <2> DEFINE r == DissectValidate(c, present)
             m == ToMsg(r[1], present)
             f == FromMsg(m[1])
             v == ValidateMsg(f[1], present)
             new == NewSession(c.discr[1], 0)
             direct == ApplyC(new, r[1], present)
             via == ApplyC(new, v[1], present)
  <2> SUFFICES ASSUME ~Failed(r), ~Failed(m),
                      Or(c.src, NoAddr).host # 0 \/ Or(c.src, NoAddr).af = 0
               PROVE  /\ ~Failed(f) /\ ~Failed(v) /\ ~Failed(via) /\ ~Failed(direct)
                      /\ via[1] = [direct[1] EXCEPT
                           !.name = "", !.remote = 0, !.user_remote = 0,
                           !.hold = (@ \div MsInUs) * MsInUs]
    OBVIOUS
  <2>1. present \subseteq Links
    BY DEF IInv, TypeOK
  <2>2. PICK s, x, g :
          /\ direct = <<s>> /\ f = <<x>>
          /\ ValidateMsg(x, present) = <<g>>
          /\ ApplyC(new, g, present) =
               <<[s EXCEPT !.name = "", !.remote = 0, !.user_remote = 0,
                           !.hold = (s.hold \div MsInUs) * MsInUs]>>
    <3>1. r = DissectValidate(c, present) /\ m = ToMsg(r[1], present)
      OBVIOUS
    <3> HIDE DEF r, m
    <3>2. Bridged(c, present, r[1], m[1])
      BY <2>1, <3>1, BridgeCreates
    <3> QED
      BY <3>2, Zenon DEF Bridged
  <2>3. f[1] = x /\ v = <<g>>
    BY <2>2
  <2>4. v[1] = g
    BY <2>3
  <2> DEFINE b == [s EXCEPT !.name = "", !.remote = 0, !.user_remote = 0,
                            !.hold = (s.hold \div MsInUs) * MsInUs]
  <2>5. via = <<b>>
    BY <2>2, <2>4
  <2> HIDE DEF r, m, f, v, direct, via, b
  <2>6. direct[1] = s /\ via[1] = b
    BY <2>2, <2>5
  <2>7. ~Failed(f) /\ ~Failed(v) /\ ~Failed(via) /\ ~Failed(direct)
    BY <2>2, <2>3, <2>5 DEF Failed, Error
  <2> QED
    BY <2>6, <2>7 DEF b
<1> QED
  BY Inductive, <1>1, PTL

=============================================================================
