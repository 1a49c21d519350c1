----------------------------- MODULE SessionDir -----------------------------
(***************************************************************************)
(* The sessions of the daemon and the requests that add, change, select    *)
(* and delete them: the JSON-RPC methods of the control socket and the     *)
(* DP_ADD_SESSION and DP_DELETE_SESSION messages of BFDD.  A session is    *)
(* known in four places that have to agree: the directory of the daemon    *)
(* (sdir), the allocator of source ports (spa), the directory of the BPF   *)
(* part (bpf) and the BPF maps (maps).                                     *)
(*                                                                         *)
(* A request is handled in one step.  In between, hold timers expire,      *)
(* packets arrive and interfaces come and go.  A bulk request visits the   *)
(* sessions in the order of the hash table, which is taken as arbitrary.   *)
(***************************************************************************)
EXTENDS SessionConf

CONSTANTS
  Discrs,     \* discriminators that may be drawn at random or asked for
  Ports,      \* source ports, lo .. hi in the code
  Changes,    \* the "change" part of a request
  Queries,    \* the "select" part of a request
  Messages,   \* DP_ADD_SESSION messages
  Packets,    \* packets with a Your Discriminator of zero
  Flapping,   \* interfaces that may disappear and come back
  Faults      \* which of FaultKinds the environment may produce

(***************************************************************************)
(* "mem":    the entry in the directory cannot be allocated                *)
(* "bpf":    the hold timer, the socket or the maps refuse a new session   *)
(* "update": the BPF part refuses a changed session                        *)
(***************************************************************************)
FaultKinds == {"mem", "bpf", "update"}

ASSUME DirAssumption ==
  /\ Discrs \subseteq Nat
  /\ Ports \subseteq Nat \ {0}
  /\ Flapping \subseteq Links
  /\ Faults \subseteq FaultKinds

(* Requests and messages name discriminators of Discrs, or none. *)
ASSUME InputAssumption ==
  /\ Changes \subseteq ChangeType
  /\ \A c \in Changes : Or(c.discr, 0) \in Discrs \cup {0}
  /\ \A m \in Messages : m.lid \in Discrs \cup {0}

VARIABLES
  sdir,     \* bbdd_sess_dir, from discriminator to bbdd_d_session
  spa,      \* bbdd_d_sport_alloc, the ports that are taken
  bpf,      \* sdir of struct bbdd_bpf, from discriminator to its state
  maps,     \* keys of session_config_hash and session_data_hash
  present,  \* the interfaces that exist
  refused   \* the last step was a request for a new session, and refused

dirs == <<sdir, spa, bpf, maps>>
vars == <<sdir, spa, bpf, maps, present, refused>>

Sessions == DOMAIN sdir
With(f, e, v) == [d \in DOMAIN f \cup {e} |-> IF d = e THEN v ELSE f[d]]
Without(f, S) == [d \in DOMAIN f \ S |-> f[d]]
OnHold(d) == bpf[d] = "ON_HOLD"

Init ==
  /\ sdir = <<>>
  /\ spa = {}
  /\ bpf = <<>>
  /\ maps = {}
  /\ present = Links
  /\ refused = FALSE

Refuse(new) == refused' = new /\ UNCHANGED <<dirs, present>>

-----------------------------------------------------------------------------
(* Adding a session: bbdd_d_session_add.  x is the part of the state it    *)
(* works on; the result is the set of outcomes [x, ok].                    *)

State == [sdir |-> sdir, spa |-> spa, bpf |-> bpf, maps |-> maps]

Become(x) ==
  /\ sdir' = x.sdir
  /\ spa' = x.spa
  /\ bpf' = x.bpf
  /\ maps' = x.maps

(* bbdd_d_sport_get, which finds the lowest port, and bbdd_d_sport_put *)
SportGet(x) == {p \in Ports \ x.spa : \A q \in Ports \ x.spa : p <= q}
SportTaken(x, p) == [x EXCEPT !.spa = @ \cup {p}]
SportPut(x, p) == [x EXCEPT !.spa = @ \ {p}]

(* bbdd_sess_dir_add_session and bbdd_sess_dir_del_session *)
DirAdd(x, d) == [x EXCEPT !.sdir = With(@, d.discr, d)]
DirDel(x, discr) == [x EXCEPT !.sdir = Without(@, {discr})]

(* bbdd_bpf_session_add: sessions start on hold.  It undoes what it did    *)
(* before it fails.                                                        *)
BpfAdd(x, discr) ==
  [x EXCEPT !.bpf = With(@, discr, "ON_HOLD"), !.maps = @ \cup {discr}]

Success(x) == {[x |-> x, ok |-> TRUE]}
Failure(x) == {[x |-> x, ok |-> FALSE]}
IfFault(f, X) == IF f \in Faults THEN X ELSE {}

AddOnKeepPort(x, c, port) == \* variant: the port of a refused session is kept
  LET got == SportTaken(x, port)
      d == NewSession(c.discr[1], port)
      entered == DirAdd(got, d)
      unwound == DirDel(entered, d.discr)
      r == ApplyC(d, c, present)
  IN  IfFault("mem", Failure(SportPut(got, port)))
      \cup IF Failed(r) THEN Failure(unwound)
           ELSE Success(BpfAdd(DirAdd(entered, r[1]), d.discr))
                \cup IfFault("bpf", Failure(unwound))

AddOnKeepEntry(x, c, port) == \* variant: the session stays in the directory
  LET got == SportTaken(x, port)
      d == NewSession(c.discr[1], port)
      entered == DirAdd(got, d)
      r == ApplyC(d, c, present)
  IN  IfFault("mem", Failure(SportPut(got, port)))
      \cup IF Failed(r) THEN Failure(SportPut(DirDel(entered, d.discr), port))
           ELSE Success(BpfAdd(DirAdd(entered, r[1]), d.discr))
                \cup IfFault("bpf", Failure(DirAdd(entered, r[1])))

AddOn(x, c, port) ==
  LET got == SportTaken(x, port)
      d == NewSession(c.discr[1], port)
      entered == DirAdd(got, d)
      unwound == SportPut(DirDel(entered, d.discr), port)
      r == ApplyC(d, c, present)
  IN  IfFault("mem", Failure(SportPut(got, port)))
      \cup IF Failed(r) THEN Failure(unwound)
           ELSE Success(BpfAdd(DirAdd(entered, r[1]), d.discr))
                \cup IfFault("bpf", Failure(unwound))

SessionAdd(x, c) ==
  IF Ports \subseteq x.spa THEN Failure(x)
  ELSE UNION {AddOn(x, c, port) : port \in SportGet(x)}

Added(o) ==
  /\ Become(o.x)
  /\ refused' = ~o.ok
  /\ UNCHANGED present

(* bbdd_sess_get_unique_discr: zero is not rejected. *)
UniqueDiscrs == {0} \cup (Discrs \ Sessions)

HandleSessionAdd(c) ==
  LET r == DissectValidate(c, present)
  IN  IF Failed(r) THEN Refuse(TRUE)
      ELSE IF Given(c.discr) /\ c.discr[1] \in Sessions THEN Refuse(TRUE)
      ELSE \E discr \in IF Given(c.discr) THEN {c.discr[1]} ELSE UniqueDiscrs :
             \E o \in SessionAdd(State, [r[1] EXCEPT !.discr = <<discr>>]) :
               Added(o)

-----------------------------------------------------------------------------
(* Selecting sessions: bbdd_d_parse_select_sessions *)

SelectFails(q) ==
  LET r == DissectValidate(q, present)
  IN  ~Failed(r) => \E d \in Sessions : MatchFails(r[1], sdir[d])

Selected(q) ==
  LET r == DissectValidate(q, present)
  IN  {d \in Sessions : Matches(r[1], sdir[d])}

(* bbdd_d_handle_session_check_bulk *)
BulkOk(S, bulk) == S # {} /\ (bulk \/ \A d, e \in S : d = e)

(* bbdd_bpf_session_update may refuse a session that is not on hold. *)
UpdateMayFail(d) == "update" \in Faults /\ ~OnHold(d)

(* The sessions of S that were visited get the change. *)
Apply(S, c) == [d \in Sessions |-> IF d \in S THEN ApplyC(sdir[d], c, present)[1]
                                   ELSE sdir[d]]

HandleSessionSet(q, ch, bulk) ==
  LET r == DissectValidate(ch, present)
      S == Selected(q)
      c == r[1]
      Applies(d) == ~Failed(ApplyC(sdir[d], c, present))
  IN  IF SelectFails(q) \/ Failed(r) \/ ~BulkOk(S, bulk) THEN Refuse(FALSE)
      ELSE /\ UNCHANGED <<spa, bpf, maps, present>>
           /\ refused' = FALSE
           /\ \/ /\ \A d \in S : Applies(d)
                 /\ sdir' = Apply(S, c)
              \/ \E bad \in S, done \in SUBSET S :
                   /\ bad \notin done
                   /\ \A d \in done : Applies(d)
                   /\ \/ ~Applies(bad) /\ sdir' = Apply(done, c)
                      \/ /\ Applies(bad) /\ UpdateMayFail(bad)
                         /\ sdir' = Apply(done \cup {bad}, c)

DelKeepBpf(S) == \* variant: the BPF part is not told
  /\ sdir' = Without(sdir, S)
  /\ spa' = spa \ {sdir[d].sport : d \in S}
  /\ UNCHANGED <<bpf, maps>>

(* bbdd_d_handle_session_del_one, for each of S *)
Del(S) ==
  /\ sdir' = Without(sdir, S)
  /\ spa' = spa \ {sdir[d].sport : d \in S}
  /\ bpf' = Without(bpf, S)
  /\ maps' = maps \ S

HandleSessionDel(q, bulk) ==
  IF SelectFails(q) \/ ~BulkOk(Selected(q), bulk) THEN Refuse(FALSE)
  ELSE Del(Selected(q)) /\ refused' = FALSE /\ UNCHANGED present

(* bbdd_d_handle_session_show and bbdd_d_handle_session_stats change       *)
(* nothing; they answer for all selected sessions or, when the BPF part of *)
(* one cannot be found, with an error.                                     *)
HandleSessionShow(q) ==
  IF SelectFails(q) \/ ~(Selected(q) \subseteq DOMAIN bpf) THEN Error
  ELSE Ok({ToC(sdir[d]) : d \in Selected(q)})

HandleSessionStats(q) ==
  IF SelectFails(q) \/ ~(Selected(q) \subseteq DOMAIN bpf \cap maps) THEN Error
  ELSE Ok(Selected(q))

-----------------------------------------------------------------------------
(* BFDD *)

(* bbdd_d_bfdd_handle_add_session: adds a session or updates it. *)
BfddAddSession(m) ==
  LET f == FromMsg(m)
      r == IF Failed(f) THEN Error ELSE ValidateMsg(f[1], present)
      discr == m.lid
      applied == ApplyC(sdir[discr], r[1], present)
  IN  IF Failed(r) THEN Refuse(FALSE)
      ELSE IF discr \notin Sessions
      THEN \E o \in SessionAdd(State, r[1]) :
             Added(o)
      ELSE IF Failed(applied) THEN Refuse(FALSE)
      ELSE /\ sdir' = [sdir EXCEPT ![discr] = applied[1]]
           /\ refused' = FALSE
           /\ UNCHANGED <<spa, bpf, maps, present>>

BfddDeleteSession(discr) ==
  IF discr \notin Sessions THEN Refuse(FALSE)
  ELSE Del({discr}) /\ refused' = FALSE /\ UNCHANGED present

-----------------------------------------------------------------------------
(* The data path and the kernel *)

(* bbdd_bpf_hold_timer_cb and bbdd_d_session_post_hold_cb *)
HoldTimer(d) ==
  /\ d \in Sessions
  /\ OnHold(d)
  /\ bpf' = [bpf EXCEPT ![d] = "ACTIVE"]
  /\ sdir' = [sdir EXCEPT ![d].hold = 0]
  /\ refused' = FALSE
  /\ UNCHANGED <<spa, maps, present>>

(* What the packet does to the session is in BfdSession; here it may only  *)
(* be ignored or teach the session the discriminator of the peer.          *)
Learn(d, discr) ==
  /\ ~OnHold(d)
  /\ sdir' = [sdir EXCEPT ![d].remote = discr]
  /\ refused' = FALSE
  /\ UNCHANGED <<spa, bpf, maps, present>>

MatchSession(p) == {d \in Sessions : MatchesPacket(Digest(p), sdir[d])}

(* bbdd_bpf_rb_handle_discr_0 *)
HandleDiscr0(p) ==
  /\ p.ifindex \in present
  /\ \E d \in Sessions : MatchSession(p) = {d} /\ Learn(d, p.my_disc)

(* bbdd_bpf_rb_handle_timeout, of a session that was Init or Up *)
HandleTimeout(d) == d \in Sessions /\ Learn(d, sdir[d].user_remote)

LinkChange(i) ==
  /\ present' = IF i \in present THEN present \ {i} ELSE present \cup {i}
  /\ refused' = FALSE
  /\ UNCHANGED dirs

Next ==
  \/ \E c \in Changes : HandleSessionAdd(c)
  \/ \E q \in Queries, c \in Changes, bulk \in BOOLEAN :
       HandleSessionSet(q, c, bulk)
  \/ \E q \in Queries, bulk \in BOOLEAN : HandleSessionDel(q, bulk)
  \/ \E m \in Messages : BfddAddSession(m)
  \/ \E d \in Discrs : BfddDeleteSession(d)
  \/ \E d \in Discrs : HoldTimer(d)
  \/ \E p \in Packets : HandleDiscr0(p)
  \/ \E d \in Discrs : HandleTimeout(d)
  \/ \E i \in Flapping : LinkChange(i)

Spec == Init /\ [][Next]_vars

-----------------------------------------------------------------------------
(* Properties *)

(* The variables have their types.  In particular no session has           *)
(* discriminator zero, although bbdd_sess_get_unique_discr may draw it.    *)
TypeOK ==
  /\ Sessions \subseteq Discrs \ {0}
  /\ \A d \in Sessions : DOMAIN sdir[d] = DOMAIN ZeroSession
  /\ spa \subseteq Ports
  /\ \A d \in DOMAIN bpf : bpf[d] \in {"ON_HOLD", "ACTIVE"}
  /\ present \subseteq Links
  /\ refused \in BOOLEAN

(* bbdd_d_session_add, bbdd_d_handle_session_del_one and their error paths *)
(* keep the port allocator exact: a port is taken if and only if it is the *)
(* source port of a session, and no two sessions share one.                *)
PortsExact ==
  /\ spa = {sdir[d].sport : d \in Sessions}
  /\ \A d, e \in Sessions : sdir[d].sport = sdir[e].sport => d = e

(* The daemon, the BPF part and the BPF maps know the same sessions, under *)
(* the discriminator that the session carries: a lookup by a discriminator *)
(* found in one of them (the assertions on bsess in bbdd_bpf_handle_packet *)
(* and bbdd_bpf_rb_handle_timeout) never fails.                            *)
DirsAgree ==
  /\ Sessions = DOMAIN bpf
  /\ Sessions = maps
  /\ \A d \in Sessions : sdir[d].discr = d

(* Whatever requests were accepted in whatever order, a session has a      *)
(* discriminator, a destination, a source of the same family or none, and  *)
(* the non-zero parameters that bbdd_d_session_apply_c demands.            *)
SessionsValid ==
  /\ TypeOK
  /\ \A d \in Sessions :
       /\ sdir[d].dst.af # 0
       /\ sdir[d].src.af \in {0, sdir[d].dst.af}
       /\ 0 \notin {sdir[d].tx, sdir[d].rx, sdir[d].mult}
       /\ sdir[d].dport = BfdPort(sdir[d].flags["multihop"])

(* bbdd_d_match_session finds the sessions of a VRF by its routing table.  *)
(* man/bbdd-session: "When the VRF name or index is given, the daemon can  *)
(* derive the routing table ID automatically": a session that is bound to  *)
(* a VRF has the table of that VRF, whatever was set and unset since.      *)
VrfTableDerived ==
  \A d \in Sessions :
    sdir[d].vrf_ifindex # 0 => sdir[d].vrf_table = VrfTable[sdir[d].vrf_ifindex]

(* "no vrf" or "no netif" together with an index of one *)
Contradictory(c) ==
  \E n \in {c.netif, c.vrf.netif} : n.unset /\ Given(n.index)

(* bbdd_d_session_apply_c and bbdd_d_session_matches read a request the    *)
(* same way: a session to which a change was applied is selected by a      *)
(* query for that change.                                                  *)
SetThenSelect ==
  \A d \in Sessions, c \in Changes :
    LET r == DissectValidate(c, present)
        a == ApplyC(sdir[d], r[1], present)
    IN  ~Contradictory(c) /\ ~Failed(r) /\ ~Failed(a) => Matches(r[1], a[1])

(* A query that can be evaluated is answered, and what "session show" then *)
(* reports for a session recreates it when it is given to "session add",   *)
(* up to what was learned from the peer.                                   *)
ShowRecreates ==
  \A q \in Queries :
    ~SelectFails(q) =>
      /\ ~Failed(HandleSessionStats(q))
      /\ ~Failed(HandleSessionShow(q))
      /\ \A c \in HandleSessionShow(q)[1] :
           LET s == sdir[c.discr[1]]
               r == DissectValidate(c, present)
               a == ApplyC(NewSession(s.discr, s.sport), r[1], present)
           IN  {s.ifindex, s.vrf_ifindex} \ {0} \subseteq present =>
                 /\ ~Failed(r)
                 /\ ~Failed(a)
                 /\ a[1] = [s EXCEPT !.remote = s.user_remote]

(* A "session add" that goes through the bridge, as a DP_ADD_SESSION,      *)
(* creates the session it would create directly, up to the name, the       *)
(* remote discriminator and the microseconds of the hold time, which the   *)
(* message does not carry, and an all-zero source address, which stands    *)
(* for none.                                                               *)
BridgeKeeps ==
  \A c \in Changes :
    LET r == DissectValidate(c, present)
        m == ToMsg(r[1], present)
        f == FromMsg(m[1])
        v == ValidateMsg(f[1], present)
        new == NewSession(c.discr[1], 0)
        direct == ApplyC(new, r[1], present)
        via == ApplyC(new, v[1], present)
    IN  /\ ~Failed(r) /\ ~Failed(m)
        /\ Or(c.src, NoAddr).host # 0 \/ Or(c.src, NoAddr).af = 0
        => /\ ~Failed(f) /\ ~Failed(v) /\ ~Failed(via) /\ ~Failed(direct)
           /\ via[1] = [direct[1] EXCEPT
                !.name = "", !.remote = 0, !.user_remote = 0,
                !.hold = (@ \div MsInUs) * MsInUs]

(* A refused "session add" or DP_ADD_SESSION of a new session leaves no    *)
(* trace: the error paths of bbdd_d_session_add undo all that was done.    *)
RefusedAddLeavesNoTrace ==
  [][refused' => UNCHANGED dirs]_vars

=============================================================================
