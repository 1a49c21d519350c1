----------------------------- MODULE LinkProofs -----------------------------
(***************************************************************************)
(* The two ends of the BFDD protocol never lose track of a connection or   *)
(* of a client that waits: proofs about Link for any number of daemons,    *)
(* clients and connections, with all the faults of FaultKinds.             *)
(***************************************************************************)
EXTENDS Link, SequenceTheorems, TLAPS

(* A step that names no prover is left to Z3 or Zenon. *)
USE SMTT(15), ZenonT(15), Z3T(30)

(* The ends of the connections: the half of the inductive invariant that   *)
(* is about conn, backlog and bfdd.  A connection is in the backlog once.  *)
EndsInv ==
  /\ conn \in [Conns -> Ends]
  /\ backlog \in Seq(Conns)
  /\ bfdd \in [Procs -> Conns \cup {Nobody}]
  /\ \A i, j \in 1 .. Len(backlog) : backlog[i] = backlog[j] => i = j
  /\ \A k \in Conns : conn[k].br = "open" <=> k = bfdd[Bridge]
  /\ \A k \in Conns :
       conn[k].br = "backlog" <=> \E i \in 1 .. Len(backlog) : backlog[i] = k
  /\ \A dp \in Dps, k \in Conns :
       conn[k].d /\ conn[k].dp = dp <=> k = bfdd[dp]
  /\ \A k \in Conns : conn[k].d => conn[k].dp # Nobody

(* The clients that wait: the other half, about stats, echo and client.    *)
(* What a client waits for says where it is remembered, and a client that  *)
(* waits has no answer yet.                                                *)
StatsType == [client : Clients \cup {Nobody}, discr : Discrs]

WaitInv ==
  /\ stats = <<>> \/ \E s \in StatsType : stats = <<s>>
  /\ echo \in [Procs -> SUBSET Clients]
  /\ client \in [Clients -> Requests]
  /\ \A p \in Procs, c \in Clients :
       c \in echo[p] <=> At[c] = p /\ client[c].waits = "echo"
  /\ \A c \in Clients :
       c \in StatsClients <=> At[c] = Bridge /\ client[c].waits = "stats"
  /\ \A c \in Clients : client[c].waits = "stats" => At[c] = Bridge
  /\ \A p \in Procs : bfdd[p] = Nobody => echo[p] = {}
  /\ bfdd[Bridge] = Nobody => stats = <<>>
  /\ \A c \in Clients : client[c].waits \in {"stats", "echo"} => client[c].ans = <<>>

IInv == EndsInv /\ WaitInv

(* What a step may not do to a client: see OneTimelyAnswer. *)
Timely ==
  \A c \in Clients :
    client[c].waits = "gone" \/ client[c].ans # <<>> => client'[c].ans = client[c].ans

-----------------------------------------------------------------------------
(* The ends *)

LEMMA FreeType == Free \in Ends
BY DEF Free, Ends

(* One field of an end is set. *)
LEMMA SetBr ==
  ASSUME NEW e \in Ends, NEW b \in {"backlog", "open", "closed"}
  PROVE  /\ [e EXCEPT !.br = b] \in Ends
         /\ [e EXCEPT !.br = b].dp = e.dp
         /\ [e EXCEPT !.br = b].d = e.d
         /\ [e EXCEPT !.br = b].br = b
BY DEF Ends

LEMMA SetDp ==
  ASSUME NEW e \in Ends, NEW dp \in Dps
  PROVE  /\ [e EXCEPT !.dp = dp] \in Ends
         /\ [e EXCEPT !.dp = dp].dp = dp
BY DEF Ends

LEMMA SetD ==
  ASSUME NEW e \in Ends, NEW d \in BOOLEAN
  PROVE  /\ [e EXCEPT !.d = d] \in Ends
         /\ [e EXCEPT !.d = d].dp = e.dp
         /\ [e EXCEPT !.d = d].d = d
         /\ [e EXCEPT !.d = d].br = e.br
BY DEF Ends

LEMMA SetLost ==
  ASSUME NEW e \in Ends
  PROVE  /\ [e EXCEPT !.lost = TRUE] \in Ends
         /\ [e EXCEPT !.lost = TRUE].dp = e.dp
         /\ [e EXCEPT !.lost = TRUE].d = e.d
         /\ [e EXCEPT !.lost = TRUE].br = e.br
BY Zenon DEF Ends

LEMMA SetToD ==
  ASSUME NEW e \in Ends, NEW q \in Seq(Messages)
  PROVE  /\ [e EXCEPT !.toD = q] \in Ends
         /\ [e EXCEPT !.toD = q].dp = e.dp
         /\ [e EXCEPT !.toD = q].d = e.d
         /\ [e EXCEPT !.toD = q].br = e.br
BY Zenon DEF Ends

LEMMA SetToBr ==
  ASSUME NEW e \in Ends, NEW q \in Seq(Messages)
  PROVE  /\ [e EXCEPT !.toBr = q] \in Ends
         /\ [e EXCEPT !.toBr = q].dp = e.dp
         /\ [e EXCEPT !.toBr = q].d = e.d
         /\ [e EXCEPT !.toBr = q].br = e.br
BY DEF Ends

(* What remains of an end that is closed by the bridge or by the daemon. *)
LEMMA SetClosed ==
  ASSUME NEW e \in Ends, NEW q \in Seq(Messages)
  PROVE  /\ LET r == [e EXCEPT !.br = "closed", !.toBr = <<>>, !.toD = q]
            IN  r \in Ends /\ r.br = "closed" /\ r.d = e.d /\ r.dp = e.dp
         /\ LET r == [e EXCEPT !.d = FALSE, !.toD = <<>>, !.toBr = q]
            IN  r \in Ends /\ r.d = FALSE /\ r.br = e.br /\ r.dp = e.dp
<1>0. <<>> \in Seq(Messages)
  OBVIOUS
<1>1. LET r == [e EXCEPT !.br = "closed", !.toBr = <<>>, !.toD = q]
      IN  r \in Ends /\ r.br = "closed" /\ r.d = e.d /\ r.dp = e.dp
  <2> DEFINE a == [e EXCEPT !.br = "closed"]
             b == [a EXCEPT !.toBr = <<>>]
             r == [b EXCEPT !.toD = q]
  <2>1. a \in Ends /\ a.br = "closed" /\ a.d = e.d /\ a.dp = e.dp
    BY SetBr, Zenon
  <2>2. b \in Ends /\ b.br = "closed" /\ b.d = e.d /\ b.dp = e.dp
    <3> HIDE DEF a
    <3> QED
      BY <1>0, <2>1, SetToBr, Zenon
  <2>3. r \in Ends /\ r.br = "closed" /\ r.d = e.d /\ r.dp = e.dp
    <3> HIDE DEF b
    <3> QED
      BY <2>2, SetToD
  <2>4. r = [e EXCEPT !.br = "closed", !.toBr = <<>>, !.toD = q]
    OBVIOUS
  <2> QED
    BY <2>3, <2>4
<1>2. LET r == [e EXCEPT !.d = FALSE, !.toD = <<>>, !.toBr = q]
      IN  r \in Ends /\ r.d = FALSE /\ r.br = e.br /\ r.dp = e.dp
  <2> DEFINE a == [e EXCEPT !.d = FALSE]
             b == [a EXCEPT !.toD = <<>>]
             r == [b EXCEPT !.toBr = q]
  <2>1. a \in Ends /\ a.d = FALSE /\ a.br = e.br /\ a.dp = e.dp
    BY SetD, Zenon
  <2>2. b \in Ends /\ b.d = FALSE /\ b.br = e.br /\ b.dp = e.dp
    <3> HIDE DEF a
    <3> QED
      BY <1>0, <2>1, SetToD, Zenon
  <2>3. r \in Ends /\ r.d = FALSE /\ r.br = e.br /\ r.dp = e.dp
    <3> HIDE DEF b
    <3> QED
      BY <2>2, SetToBr
  <2>4. r = [e EXCEPT !.d = FALSE, !.toD = <<>>, !.toBr = q]
    OBVIOUS
  <2> QED
    BY <2>3, <2>4
<1> QED
  BY <1>1, <1>2

LEMMA FlushedType ==
  ASSUME NEW q \in Seq(Messages), NEW f \in Flushed(q)
  PROVE  f \in Seq(Messages)
BY DEF Flushed

LEMMA EndsStill ==
  ASSUME EndsInv, UNCHANGED <<conn, backlog, bfdd>>
  PROVE  EndsInv'
BY DEF EndsInv

(* Messages come and go on a connection. *)
LEMMA Traffic ==
  ASSUME EndsInv, NEW k \in Conns, NEW r \in Ends,
         r.dp = conn[k].dp, r.d = conn[k].d, r.br = conn[k].br,
         conn' = [conn EXCEPT ![k] = r], UNCHANGED <<backlog, bfdd>>
  PROVE  EndsInv'
<1>1. /\ conn' \in [Conns -> Ends]
      /\ \A j \in Conns : /\ conn'[j].br = conn[j].br
                          /\ conn'[j].d = conn[j].d
                          /\ conn'[j].dp = conn[j].dp
  BY DEF EndsInv
<1> QED
  BY <1>1 DEF EndsInv

(* The bridge closes its end. *)
LEMMA BrEndCloses ==
  ASSUME EndsInv, NEW k \in Conns, NEW r \in ClosedByBr(k)
  PROVE  /\ r \in Ends /\ r.br = "closed"
         /\ r.d = conn[k].d
         /\ r.d => r.dp = conn[k].dp
<1>2. conn[k] \in Ends /\ conn[k].d \in BOOLEAN /\ conn[k].toD \in Seq(Messages)
  BY DEF EndsInv, Ends
<1>3. CASE conn[k].d = FALSE
  <2>1. r = Free
    BY <1>3, Zenon DEF ClosedByBr
  <2> QED
    BY <1>3, <2>1, FreeType, ZenonT(60) DEF Free
<1>4. CASE conn[k].d = TRUE
  <2>1. PICK q \in Flushed(conn[k].toD) :
          r = [conn[k] EXCEPT !.br = "closed", !.toBr = <<>>, !.toD = q]
    BY <1>4, Zenon DEF ClosedByBr
  <2>2. q \in Seq(Messages)
    BY <1>2, FlushedType
  <2> QED
    BY <1>2, <2>1, <2>2, SetClosed, ZenonT(60)
<1> QED
  BY <1>2, <1>3, <1>4, Zenon

(* A daemon closes its end. *)
LEMMA DpEndCloses ==
  ASSUME EndsInv, NEW k \in Conns, NEW r \in ClosedByDp(k)
  PROVE  r \in Ends /\ r.d = FALSE /\ r.br = conn[k].br
<1>2. conn[k] \in Ends /\ conn[k].toBr \in Seq(Messages)
  BY DEF EndsInv, Ends
<1>3. CASE conn[k].br = "closed"
  <2>1. r = Free
    BY <1>3 DEF ClosedByDp
  <2> QED
    BY <1>3, <2>1, FreeType DEF Free
<1>4. CASE conn[k].br # "closed"
  <2>1. PICK q \in Flushed(conn[k].toBr) :
          r = [conn[k] EXCEPT !.d = FALSE, !.toD = <<>>, !.toBr = q]
    BY <1>4, Zenon DEF ClosedByDp
  <2>2. q \in Seq(Messages)
    BY <1>2, FlushedType
  <2> QED
    BY <1>2, <2>1, <2>2, SetClosed, ZenonT(60)
<1> QED
  BY <1>3, <1>4, Zenon

(* bbdd_br_bfdd_client_close *)
LEMMA BrGone ==
  ASSUME EndsInv, bfdd[Bridge] # Nobody, BrClientClose
  PROVE  EndsInv'
<1> DEFINE k == bfdd[Bridge]
<1>1. k \in Conns
  BY DEF EndsInv, Procs
<1>2. PICK r \in ClosedByBr(k) : conn' = [conn EXCEPT ![k] = r]
  BY Zenon DEF BrClientClose
<1>3. /\ r \in Ends /\ r.br = "closed" /\ r.d = conn[k].d
      /\ r.d => r.dp = conn[k].dp
  BY <1>1, BrEndCloses
<1>4. /\ bfdd' \in [Procs -> Conns \cup {Nobody}]
      /\ bfdd'[Bridge] = Nobody
      /\ \A dp \in Dps : bfdd'[dp] = bfdd[dp]
      /\ backlog' = backlog
  BY LinkAssumption DEF EndsInv, BrClientClose, Procs
<1>5. /\ conn' \in [Conns -> Ends]
      /\ conn'[k] = r
      /\ \A j \in Conns : j # k => conn'[j] = conn[j]
  BY <1>1, <1>2, <1>3 DEF EndsInv
<1> HIDE DEF k
<1>6. \A j \in Conns : conn'[j].br = "open" <=> j = bfdd'[Bridge]
  BY <1>1, <1>3, <1>4, <1>5, LinkAssumption DEF EndsInv, k
<1>7. conn[k].br = "open"
  BY <1>1 DEF EndsInv, k
<1>8. \A j \in Conns :
        conn'[j].br = "backlog" <=> \E i \in 1 .. Len(backlog') : backlog'[i] = j
  BY <1>3, <1>4, <1>5, <1>7 DEF EndsInv
<1>9. \A dp \in Dps, j \in Conns :
        conn'[j].d /\ conn'[j].dp = dp <=> j = bfdd'[dp]
  BY <1>3, <1>4, <1>5, <1>1 DEF EndsInv
<1>10. \A j \in Conns : conn'[j].d => conn'[j].dp # Nobody
  BY <1>1, <1>3, <1>5 DEF EndsInv
<1> QED
  BY <1>4, <1>5, <1>6, <1>8, <1>9, <1>10 DEF EndsInv

(* bbdd_d_bfdd_close *)
LEMMA DpGone ==
  ASSUME EndsInv, NEW dp \in Dps, bfdd[dp] # Nobody, DpClose(dp)
  PROVE  EndsInv'
<1> DEFINE k == bfdd[dp]
<1>1. k \in Conns
  BY DEF EndsInv, Procs
<1>2. PICK r \in ClosedByDp(k) : conn' = [conn EXCEPT ![k] = r]
  BY Zenon DEF DpClose
<1>3. r \in Ends /\ r.d = FALSE /\ r.br = conn[k].br
  BY <1>1, DpEndCloses, Zenon
<1>4. /\ bfdd' \in [Procs -> Conns \cup {Nobody}]
      /\ bfdd'[dp] = Nobody
      /\ bfdd'[Bridge] = bfdd[Bridge]
      /\ \A e \in Dps : e # dp => bfdd'[e] = bfdd[e]
      /\ backlog' = backlog
  BY LinkAssumption DEF EndsInv, DpClose, Procs
<1>5. /\ conn' \in [Conns -> Ends]
      /\ conn'[k] = r
      /\ \A j \in Conns : j # k => conn'[j] = conn[j]
      /\ \A j \in Conns : conn'[j].br = conn[j].br
  BY <1>1, <1>2, <1>3 DEF EndsInv
<1>6. conn[k].dp = dp /\ k = bfdd[dp]
  BY <1>1 DEF EndsInv
<1> HIDE DEF k
<1>7. \A j \in Conns : conn'[j].br = "open" <=> j = bfdd'[Bridge]
  BY <1>4, <1>5 DEF EndsInv
<1>8. \A j \in Conns :
        conn'[j].br = "backlog" <=> \E i \in 1 .. Len(backlog') : backlog'[i] = j
  BY <1>4, <1>5 DEF EndsInv
<1>9. ASSUME NEW e \in Dps, NEW j \in Conns
      PROVE  conn'[j].d /\ conn'[j].dp = e <=> j = bfdd'[e]
  <2>1. CASE j = k
    <3>1. ~conn'[j].d
      BY <1>3, <1>5, <2>1
    <3>2. e # dp => j # bfdd[e]
      BY <1>6, <1>9, <2>1 DEF EndsInv
    <3> QED
      BY <1>4, <3>1, <3>2, LinkAssumption
  <2>2. CASE j # k
    <3>1. conn'[j].d /\ conn'[j].dp = e <=> j = bfdd[e]
      BY <1>5, <2>2 DEF EndsInv
    <3>2. j = bfdd[e] <=> j = bfdd'[e]
      BY <1>4, <1>6, <2>2, LinkAssumption
    <3> QED
      BY <3>1, <3>2
  <2> QED
    BY <2>1, <2>2
<1>10. \A j \in Conns : conn'[j].d => conn'[j].dp # Nobody
  BY <1>3, <1>5 DEF EndsInv
<1> QED
  BY <1>4, <1>5, <1>7, <1>8, <1>9, <1>10 DEF EndsInv

(* bbdd_d_handle_bfdd_connect *)
LEMMA Connected ==
  ASSUME EndsInv, NEW dp \in Dps, NEW k \in Conns, DpConnect(dp, k)
  PROVE  EndsInv'
<1> DEFINE r == [Free EXCEPT !.dp = dp, !.d = TRUE, !.br = "backlog"]
<1>1. r \in Ends /\ r.d = TRUE /\ r.dp = dp /\ r.br = "backlog"
  <2> DEFINE e == [Free EXCEPT !.dp = dp]
             f == [e EXCEPT !.d = TRUE]
             g == [f EXCEPT !.br = "backlog"]
  <2>1. e \in Ends /\ e.dp = dp
    BY FreeType, SetDp
  <2>2. f \in Ends /\ f.dp = dp /\ f.d = TRUE
    <3> HIDE DEF e
    <3> QED
      BY <2>1, SetD, Zenon
  <2>3. g \in Ends /\ g.dp = dp /\ g.d = TRUE /\ g.br = "backlog"
    <3> HIDE DEF f
    <3> QED
      BY <2>2, SetBr, Zenon
  <2>4. g = r
    OBVIOUS
  <2> QED
    BY <2>3, <2>4
<1>2. /\ bfdd[dp] = Nobody
      /\ conn[k].d = FALSE /\ conn[k].br = "closed"
      /\ bfdd' = [bfdd EXCEPT ![dp] = k]
      /\ conn' = [conn EXCEPT ![k] = r]
      /\ backlog' = Append(backlog, k)
  BY DEF DpConnect, Free
<1> HIDE DEF r
<1>3. /\ bfdd' \in [Procs -> Conns \cup {Nobody}]
      /\ bfdd'[dp] = k
      /\ bfdd'[Bridge] = bfdd[Bridge]
      /\ \A e \in Dps : e # dp => bfdd'[e] = bfdd[e]
  BY <1>2, LinkAssumption DEF EndsInv, Procs
<1>4. /\ conn' \in [Conns -> Ends]
      /\ conn'[k] = r
      /\ \A j \in Conns : j # k => conn'[j] = conn[j]
  BY <1>1, <1>2 DEF EndsInv
<1>5. /\ backlog' \in Seq(Conns)
      /\ Len(backlog') = Len(backlog) + 1
      /\ backlog'[Len(backlog) + 1] = k
      /\ \A i \in 1 .. Len(backlog) : backlog'[i] = backlog[i]
      /\ Len(backlog) \in Nat
  BY <1>2 DEF EndsInv
<1>6. \A i \in 1 .. Len(backlog) : backlog[i] # k
  BY <1>2 DEF EndsInv
<1>7. \A i, j \in 1 .. Len(backlog') : backlog'[i] = backlog'[j] => i = j
  BY <1>5, <1>6 DEF EndsInv
<1>8. \A j \in Conns : conn'[j].br = "open" <=> j = bfdd'[Bridge]
  BY <1>1, <1>2, <1>3, <1>4 DEF EndsInv
<1>9. ASSUME NEW j \in Conns
      PROVE  conn'[j].br = "backlog" <=> \E i \in 1 .. Len(backlog') : backlog'[i] = j
  <2>1. CASE j = k
    BY <1>1, <1>4, <1>5, <2>1
  <2>2. CASE j # k
    <3>1. conn'[j].br = conn[j].br
      BY <1>4, <2>2
    <3>2. (\E i \in 1 .. Len(backlog') : backlog'[i] = j)
          <=> \E i \in 1 .. Len(backlog) : backlog[i] = j
      BY <1>5, <2>2
    <3> QED
      BY <3>1, <3>2 DEF EndsInv
  <2> QED
    BY <2>1, <2>2
<1>10. ASSUME NEW e \in Dps, NEW j \in Conns
       PROVE  conn'[j].d /\ conn'[j].dp = e <=> j = bfdd'[e]
  <2>1. CASE j = k
    <3>1. conn'[j].d /\ conn'[j].dp = dp
      BY <1>1, <1>4, <2>1
    <3>2. j # bfdd[e]
      BY <1>2, <2>1 DEF EndsInv
    <3> QED
      BY <1>3, <2>1, <3>1, <3>2
  <2>2. CASE j # k
    <3>1. conn'[j].d /\ conn'[j].dp = e <=> j = bfdd[e]
      BY <1>4, <2>2 DEF EndsInv
    <3>2. j = bfdd[e] <=> j = bfdd'[e]
      BY <1>2, <1>3, <2>2, LinkAssumption
    <3> QED
      BY <3>1, <3>2
  <2> QED
    BY <2>1, <2>2
<1>11. \A j \in Conns : conn'[j].d => conn'[j].dp # Nobody
  BY <1>1, <1>4, LinkAssumption DEF EndsInv
<1> QED
  BY <1>3, <1>4, <1>5, <1>7, <1>8, <1>9, <1>10, <1>11 DEF EndsInv

(* The first connection of the backlog is taken, once the bridge has no    *)
(* other: cn is what is left of the connections.                           *)
LEMMA AttachStep ==
  ASSUME EndsInv, backlog # <<>>, backlog' = Tail(backlog),
         NEW cn \in [Conns -> Ends],
         \A j \in Conns : cn[j].br # "open",
         \A j \in Conns : cn[j].br = "backlog" <=> conn[j].br = "backlog",
         \A j \in Conns : cn[j].d = conn[j].d,
         \A j \in Conns : cn[j].d => cn[j].dp = conn[j].dp,
         Attached(Head(backlog), cn)
  PROVE  EndsInv'
<1>1. PICK k \in Conns : k = backlog[1] /\ k = Head(backlog)
  BY DEF EndsInv
<1>2. /\ backlog' \in Seq(Conns)
      /\ Len(backlog) \in Nat /\ Len(backlog) > 0
      /\ Len(backlog') = Len(backlog) - 1
      /\ \A i \in 1 .. Len(backlog') : backlog'[i] = backlog[i + 1]
  BY DEF EndsInv
<1>3. \A i, j \in 1 .. Len(backlog') : backlog'[i] = backlog'[j] => i = j
  BY <1>2 DEF EndsInv
<1>4. \A j \in Conns :
        (\E i \in 1 .. Len(backlog') : backlog'[i] = j)
        <=> j # k /\ \E i \in 1 .. Len(backlog) : backlog[i] = j
  <2>1. ASSUME NEW j \in Conns, NEW i \in 1 .. Len(backlog'), backlog'[i] = j
        PROVE  j # k /\ \E h \in 1 .. Len(backlog) : backlog[h] = j
    <3>1. i + 1 \in 1 .. Len(backlog) /\ backlog[i + 1] = j /\ i + 1 # 1
      BY <1>2, <2>1
    <3>2. 1 \in 1 .. Len(backlog)
      BY <1>2
    <3>3. backlog[i + 1] # backlog[1]
      BY <3>1, <3>2 DEF EndsInv
    <3> QED
      BY <1>1, <3>1, <3>3
  <2>2. ASSUME NEW j \in Conns, j # k, NEW i \in 1 .. Len(backlog), backlog[i] = j
        PROVE  \E h \in 1 .. Len(backlog') : backlog'[h] = j
    <3>1. i # 1
      BY <1>1, <2>2
    <3>2. i - 1 \in 1 .. Len(backlog') /\ (i - 1) + 1 = i
      BY <1>2, <3>1
    <3>3. backlog'[i - 1] = j
      BY <1>2, <2>2, <3>2
    <3> QED
      BY <3>2, <3>3
  <2> QED
    BY <2>1, <2>2
<1>5. conn[k].br = "backlog"
  BY <1>1, <1>2 DEF EndsInv
<1>6. /\ cn[k] \in Ends /\ cn[k].d \in BOOLEAN
      /\ cn[k].br = "backlog"
  BY <1>5 DEF Ends
<1>7. PICK r \in Ends, b \in {k, Nobody} :
        /\ conn' = [cn EXCEPT ![k] = r]
        /\ bfdd' = [bfdd EXCEPT ![Bridge] = b]
        /\ r.br = IF b = k THEN "open" ELSE "closed"
        /\ r.d = cn[k].d
        /\ r.d => r.dp = cn[k].dp
  <2>1. CASE /\ bfdd' = [bfdd EXCEPT ![Bridge] = k]
             /\ conn' = [cn EXCEPT ![k].br = "open"]
    <3> DEFINE r == [cn[k] EXCEPT !.br = "open"]
    <3>1. r \in Ends /\ r.br = "open" /\ r.d = cn[k].d /\ r.dp = cn[k].dp
      BY <1>6, SetBr, Zenon
    <3>2. conn' = [cn EXCEPT ![k] = r]
      BY <2>1
    <3> HIDE DEF r
    <3> QED
      BY <2>1, <3>1, <3>2, Zenon
  <2>2. CASE /\ bfdd' = [bfdd EXCEPT ![Bridge] = Nobody]
             /\ conn' = [cn EXCEPT ![k] = IF cn[k].d
                                          THEN [cn[k] EXCEPT !.br = "closed", !.toBr = <<>>]
                                          ELSE Free]
    <3> DEFINE a == [cn[k] EXCEPT !.br = "closed"]
               e == [a EXCEPT !.toBr = <<>>]
    <3>1. a \in Ends /\ a.br = "closed" /\ a.d = cn[k].d /\ a.dp = cn[k].dp
      BY <1>6, SetBr, Zenon
    <3>2. <<>> \in Seq(Messages)
      OBVIOUS
    <3>3. e \in Ends /\ e.br = "closed" /\ e.d = cn[k].d /\ e.dp = cn[k].dp
      <4> HIDE DEF a
      <4> QED
        BY <3>1, <3>2, SetToBr, Zenon
    <3>4. conn' = [cn EXCEPT ![k] = IF cn[k].d THEN e ELSE Free]
      BY <2>2
    <3>5. k # Nobody
      BY LinkAssumption
    <3>6. CASE cn[k].d = TRUE
      <4>1. conn' = [cn EXCEPT ![k] = e]
        BY <3>4, <3>6, Zenon
      <4> HIDE DEF e
      <4> QED
        BY <2>2, <3>3, <3>5, <4>1, Zenon
    <3>7. CASE cn[k].d = FALSE
      <4>1. conn' = [cn EXCEPT ![k] = Free]
        BY <3>4, <3>7, Zenon
      <4>2. Free.br = "closed" /\ Free.d = FALSE
        BY DEF Free
      <4> QED
        BY <2>2, <3>5, <3>7, <4>1, <4>2, FreeType, Zenon
    <3> QED
      BY <1>6, <3>6, <3>7, Zenon
  <2> QED
    BY <1>1, <2>1, <2>2 DEF Attached
<1>8. /\ conn' \in [Conns -> Ends]
      /\ conn'[k] = r
      /\ \A j \in Conns : j # k => conn'[j] = cn[j]
      /\ bfdd' \in [Procs -> Conns \cup {Nobody}]
      /\ bfdd'[Bridge] = b
      /\ \A e \in Dps : bfdd'[e] = bfdd[e]
  BY <1>7, LinkAssumption DEF EndsInv, Procs
<1>9. \A j \in Conns : conn'[j].br = "open" <=> j = bfdd'[Bridge]
  BY <1>7, <1>8, LinkAssumption
<1>10. \A j \in Conns :
         conn'[j].br = "backlog" <=> \E i \in 1 .. Len(backlog') : backlog'[i] = j
  BY <1>4, <1>7, <1>8 DEF EndsInv
<1>11. \A e \in Dps, j \in Conns :
         conn'[j].d /\ conn'[j].dp = e <=> j = bfdd'[e]
  BY <1>7, <1>8 DEF EndsInv
<1>12. \A j \in Conns : conn'[j].d => conn'[j].dp # Nobody
  BY <1>7, <1>8 DEF EndsInv
<1> QED
  BY <1>2, <1>3, <1>8, <1>9, <1>10, <1>11, <1>12 DEF EndsInv

(* bbdd_br_bfdd_client_accept *)
LEMMA Accepted ==
  ASSUME EndsInv, Accept
  PROVE  EndsInv'
<1> DEFINE old == bfdd[Bridge]
<1>1. backlog # <<>> /\ backlog' = Tail(backlog)
  BY DEF Accept
<1>2. old \in Conns \cup {Nobody}
  BY DEF EndsInv, Procs
<1>3. CASE old = Nobody
  <2>1. Attached(Head(backlog), conn)
    BY <1>3 DEF Accept
  <2>2. conn \in [Conns -> Ends] /\ \A j \in Conns : conn[j].br # "open"
    BY <1>3, LinkAssumption DEF EndsInv
  <2> QED
    BY <1>1, <2>1, <2>2, AttachStep
<1>4. CASE old # Nobody
  <2>1. PICK r \in ClosedByBr(old) : Attached(Head(backlog), [conn EXCEPT ![old] = r])
    BY <1>4 DEF Accept
  <2>2. old \in Conns
    BY <1>2, <1>4
  <2>3. /\ r \in Ends /\ r.br = "closed" /\ r.d = conn[old].d
        /\ r.d => r.dp = conn[old].dp
    BY <2>2, BrEndCloses
  <2> DEFINE cn == [conn EXCEPT ![old] = r]
  <2>4. cn \in [Conns -> Ends]
    BY <2>3, Zenon DEF EndsInv
  <2>5. cn[old] = r /\ \A j \in Conns : j # old => cn[j] = conn[j]
    BY <2>2 DEF EndsInv
  <2>6. conn[old].br = "open" /\ \A j \in Conns : j # old => conn[j].br # "open"
    BY <2>2 DEF EndsInv
  <2>7. Attached(Head(backlog), cn)
    BY <2>1
  <2> HIDE DEF cn, old
  <2> QED
    BY <1>1, <2>3, <2>4, <2>5, <2>6, <2>7, AttachStep
<1> QED
  BY <1>3, <1>4

(* bbdd_bfdd_write_enqueue *)
LEMMA Enqueued ==
  ASSUME NEW e \in Ends, NEW m \in Messages
  PROVE  /\ ToD(e, m) \in Ends /\ ToD(e, m).dp = e.dp
         /\ ToD(e, m).d = e.d /\ ToD(e, m).br = e.br
         /\ ToBr(e, m) \in Ends /\ ToBr(e, m).dp = e.dp
         /\ ToBr(e, m).d = e.d /\ ToBr(e, m).br = e.br
<1>1. e.toD \in Seq(Messages) /\ e.toBr \in Seq(Messages)
  BY DEF Ends
<1>2. Append(e.toD, m) \in Seq(Messages) /\ Append(e.toBr, m) \in Seq(Messages)
  BY <1>1
<1>3. /\ ToD(e, m) \in Ends /\ ToD(e, m).dp = e.dp
      /\ ToD(e, m).d = e.d /\ ToD(e, m).br = e.br
  BY <1>2, SetToD, Zenon DEF ToD
<1>4. /\ ToBr(e, m) \in Ends /\ ToBr(e, m).dp = e.dp
      /\ ToBr(e, m).d = e.d /\ ToBr(e, m).br = e.br
  BY <1>2, SetToBr DEF ToBr
<1> QED
  BY <1>3, <1>4

LEMMA SendsStep ==
  ASSUME EndsInv, NEW p \in Procs, bfdd[p] # Nobody, NEW m \in Messages, Sends(p, m)
  PROVE  EndsInv'
<1>1. PICK k \in Conns : k = bfdd[p]
  BY DEF EndsInv
<1>2. conn[k] \in Ends
  BY DEF EndsInv
<1> DEFINE r == IF p = Bridge THEN ToD(conn[k], m) ELSE ToBr(conn[k], m)
<1>3. r \in Ends /\ r.dp = conn[k].dp /\ r.d = conn[k].d /\ r.br = conn[k].br
  BY <1>2, Enqueued
<1>4. conn' = [conn EXCEPT ![k] = r] /\ UNCHANGED <<backlog, bfdd>>
  BY <1>1 DEF Sends
<1> HIDE DEF r
<1> QED
  BY <1>3, <1>4, Traffic, Zenon

(* The first message is taken from a queue, and perhaps answered. *)
LEMMA Dequeued ==
  ASSUME NEW e \in Ends
  PROVE  /\ e.toD # <<>> =>
              LET taken == [e EXCEPT !.toD = Tail(@)]
              IN  /\ Head(e.toD) \in Messages
                  /\ taken \in Ends /\ taken.dp = e.dp
                  /\ taken.d = e.d /\ taken.br = e.br
         /\ e.toBr # <<>> =>
              LET taken == [e EXCEPT !.toBr = Tail(@)]
              IN  /\ Head(e.toBr) \in Messages
                  /\ taken \in Ends /\ taken.dp = e.dp
                  /\ taken.d = e.d /\ taken.br = e.br
<1>1. e.toD \in Seq(Messages) /\ e.toBr \in Seq(Messages)
  BY DEF Ends
<1>2. /\ e.toD # <<>> => Head(e.toD) \in Messages /\ Tail(e.toD) \in Seq(Messages)
      /\ e.toBr # <<>> => Head(e.toBr) \in Messages /\ Tail(e.toBr) \in Seq(Messages)
  BY <1>1
<1> QED
  BY <1>2, SetToD, SetToBr, ZenonT(60)

LEMMA BrMessageEnds ==
  ASSUME EndsInv, BrMessage
  PROVE  EndsInv'
<1>1. PICK k \in Conns : k = bfdd[Bridge]
  BY DEF EndsInv, BrMessage, Procs
<1> DEFINE m == Head(conn[k].toBr)
           taken == [conn[k] EXCEPT !.toBr = Tail(@)]
           reply == Msg("echoed", m.arg)
<1>2. conn[k] \in Ends /\ conn[k].toBr # <<>>
  BY <1>1 DEF EndsInv, BrMessage
<1>3. /\ m \in Messages
      /\ taken \in Ends /\ taken.dp = conn[k].dp
      /\ taken.d = conn[k].d /\ taken.br = conn[k].br
  BY <1>2, Dequeued, Zenon
<1>4. \/ conn' = [conn EXCEPT ![k] = taken]
      \/ conn' = [conn EXCEPT ![k] = ToD(taken, reply)]
      \/ conn' = [conn EXCEPT ![k] = [taken EXCEPT !.lost = TRUE]]
  BY <1>1 DEF BrMessage
<1>5. UNCHANGED <<backlog, bfdd>>
  BY DEF BrMessage
<1>6. reply \in Messages
  BY <1>3 DEF Msg, Messages
<1> HIDE DEF taken, reply
<1>7. CASE conn' = [conn EXCEPT ![k] = taken]
  BY <1>3, <1>5, <1>7, Traffic, Zenon
<1>8. CASE conn' = [conn EXCEPT ![k] = ToD(taken, reply)]
  BY <1>3, <1>5, <1>6, <1>8, Enqueued, Traffic, Zenon
<1>9. CASE conn' = [conn EXCEPT ![k] = [taken EXCEPT !.lost = TRUE]]
  BY <1>3, <1>5, <1>9, SetLost, Traffic, Zenon
<1> QED
  BY <1>4, <1>7, <1>8, <1>9

LEMMA DpMessageEnds ==
  ASSUME EndsInv, NEW dp \in Dps, DpMessage(dp)
  PROVE  EndsInv'
<1>1. PICK k \in Conns : k = bfdd[dp]
  BY DEF EndsInv, DpMessage, Procs
<1> DEFINE m == Head(conn[k].toD)
           taken == [conn[k] EXCEPT !.toD = Tail(@)]
<1>2. conn[k] \in Ends /\ conn[k].toD # <<>>
  BY <1>1 DEF EndsInv, DpMessage
<1>3. /\ m \in Messages
      /\ taken \in Ends /\ taken.dp = conn[k].dp
      /\ taken.d = conn[k].d /\ taken.br = conn[k].br
  BY <1>2, Dequeued, ZenonT(60)
<1>4. \/ conn' = [conn EXCEPT ![k] = taken]
      \/ \E type \in {"echoed", "counted"} :
           conn' = [conn EXCEPT ![k] = ToBr(taken, Msg(type, m.arg))]
      \/ conn' = [conn EXCEPT ![k] = [taken EXCEPT !.lost = TRUE]]
  BY <1>1 DEF DpMessage
<1>5. UNCHANGED <<backlog, bfdd>>
  BY DEF DpMessage
<1>6. \A type \in {"echoed", "counted"} : Msg(type, m.arg) \in Messages
  BY <1>3 DEF Msg, Messages
<1> HIDE DEF taken, m
<1>7. CASE conn' = [conn EXCEPT ![k] = taken]
  BY <1>3, <1>5, <1>7, Traffic, Zenon
<1>8. ASSUME NEW type \in {"echoed", "counted"},
             conn' = [conn EXCEPT ![k] = ToBr(taken, Msg(type, m.arg))]
      PROVE  EndsInv'
  <2> DEFINE reply == Msg(type, m.arg)
  <2>1. reply \in Messages
    BY <1>6
  <2> HIDE DEF reply
  <2>2. conn' = [conn EXCEPT ![k] = ToBr(taken, reply)]
    BY <1>8 DEF reply
  <2> QED
    BY <1>3, <1>5, <2>1, <2>2, Enqueued, Traffic, Zenon
<1>9. CASE conn' = [conn EXCEPT ![k] = [taken EXCEPT !.lost = TRUE]]
  BY <1>3, <1>5, <1>9, SetLost, Traffic, Zenon
<1> QED
  BY <1>4, <1>7, <1>8, <1>9

-----------------------------------------------------------------------------
(* The clients *)

ClientsOf(t) == {s.client : s \in Range(t)} \ {Nobody}

LEMMA StatsOne ==
  /\ ClientsOf(<<>>) = {}
  /\ \A s : ClientsOf(<<s>>) = {s.client} \ {Nobody}
<1>1. Range(<<>>) = {}
  BY DEF Range
<1>2. \A s : Range(<<s>>) = {s}
  BY DEF Range
<1> QED
  BY <1>1, <1>2 DEF ClientsOf

(* An answer is recorded. *)
LEMMA ToldType ==
  ASSUME NEW c, client[c] \in Requests, NEW arg,
         NEW a \in {"error", "sent", "echo", "counters"}
  PROVE  Told(c, a, arg) \in Requests /\ Told(c, a, arg).waits = "no"
<1> DEFINE b == arg = Nobody \/ Asked(c) = arg
           ans == Append(client[c].ans, <<a, b>>)
<1>1. b \in BOOLEAN
  OBVIOUS
<1>2. client[c].ans \in Seq({"error", "sent", "echo", "counters"} \X BOOLEAN)
  BY DEF Requests
<1>3. ans \in Seq({"error", "sent", "echo", "counters"} \X BOOLEAN)
  <2> HIDE DEF b
  <2> QED
    BY <1>1, <1>2
<1>4. Told(c, a, arg) = [waits |-> "no", discr |-> 0, ans |-> ans]
  BY DEF Told
<1> HIDE DEF ans
<1> QED
  BY <1>3, <1>4 DEF Requests

(* Clients that have no answer yet, and have not left, are answered. *)
LEMMA AnswerStep ==
  ASSUME client \in [Clients -> Requests],
         NEW S \in SUBSET Clients, NEW arg,
         NEW a \in {"error", "sent", "echo", "counters"},
         \A c \in S : client[c].ans = <<>> /\ client[c].waits # "gone",
         Answer(S, a, arg)
  PROVE  /\ client' \in [Clients -> Requests]
         /\ \A c \in S : client'[c].waits = "no"
         /\ \A c \in Clients \ S : client'[c] = client[c]
         /\ Timely
<1>1. client' = [c \in Clients |-> IF c \in S THEN Told(c, a, arg) ELSE client[c]]
  BY DEF Answer
<1>2. \A c \in Clients : Told(c, a, arg) \in Requests /\ Told(c, a, arg).waits = "no"
  BY ToldType
<1>3. \A c \in Clients \ S : client'[c] = client[c]
  BY <1>1
<1>4. \A c \in S : client'[c] = Told(c, a, arg)
  BY <1>1
<1>5. client' \in [Clients -> Requests]
  BY <1>1, <1>2
<1>6. Timely
  BY <1>3 DEF Timely
<1> QED
  BY <1>2, <1>3, <1>4, <1>5, <1>6

(* Nothing happens to the clients, and no connection is given up. *)
LEMMA WaitStill ==
  ASSUME WaitInv, UNCHANGED <<stats, echo, client>>,
         \A p \in Procs : bfdd'[p] = Nobody => bfdd[p] = Nobody
  PROVE  WaitInv' /\ Timely
<1>1. StatsClients' = StatsClients
  BY DEF StatsClients
<1>2. Timely
  BY DEF Timely
<1> QED
  BY <1>1, <1>2 DEF WaitInv, Procs

(* A client that waits leaves: bbdd_br_stats_peer_done_cb and              *)
(* bbdd_bfdd_echo_peer_done                                                *)
LEMMA LeaveStep ==
  ASSUME WaitInv, NEW c \in Clients, Leave(c)
  PROVE  WaitInv' /\ Timely
<1>1. /\ stats' = StatsWithout(c)
      /\ echo' = [p \in Procs |-> echo[p] \ {c}]
      /\ client' = [client EXCEPT ![c].waits = "gone", ![c].discr = 0]
      /\ client[c].waits \in {"stats", "echo"}
      /\ bfdd' = bfdd
  BY DEF Leave
<1>2. /\ client' \in [Clients -> Requests]
      /\ client'[c].waits = "gone" /\ client'[c].ans = client[c].ans
      /\ \A e \in Clients \ {c} : client'[e] = client[e]
  <2>1. client[c] \in Requests
    BY DEF WaitInv
  <2> DEFINE x == [client[c] EXCEPT !.waits = "gone"]
             y == [x EXCEPT !.discr = 0]
  <2>2. x \in Requests /\ x.waits = "gone" /\ x.ans = client[c].ans
    BY <2>1 DEF Requests
  <2>3. y \in Requests /\ y.waits = "gone" /\ y.ans = client[c].ans
    <3> HIDE DEF x
    <3> QED
      BY <2>2 DEF Requests
  <2>4. client' = [client EXCEPT ![c] = y]
    <3>1. client \in [Clients -> Requests]
      BY DEF WaitInv
    <3>2. [client EXCEPT ![c].waits = "gone", ![c].discr = 0] = [client EXCEPT ![c] = y]
      <4> DEFINE z == [client EXCEPT ![c] = x]
      <4>1. z[c] = x
        BY <3>1
      <4>2. [z EXCEPT ![c].discr = 0] = [z EXCEPT ![c] = y]
        BY <4>1, Zenon
      <4>3. [z EXCEPT ![c] = y] = [client EXCEPT ![c] = y]
        <5> HIDE DEF x, y
        <5> QED
          BY <3>1, Zenon
      <4> QED
        BY <4>2, <4>3
    <3> QED
      BY <1>1, <3>2
  <2> HIDE DEF y
  <2> QED
    BY <2>3, <2>4 DEF WaitInv
<1>3. /\ stats' = <<>> \/ \E s \in StatsType : stats' = <<s>>
      /\ ClientsOf(stats') = ClientsOf(stats) \ {c}
      /\ stats = <<>> => stats' = <<>>
  <2>1. CASE stats = <<>>
    BY <1>1, <2>1, StatsOne DEF StatsWithout
  <2>2. ASSUME NEW s \in StatsType, stats = <<s>>
        PROVE  /\ \E t \in StatsType : stats' = <<t>>
               /\ ClientsOf(stats') = ClientsOf(stats) \ {c}
    <3>1. stats # <<>> /\ stats[1] = s
      BY <2>2
    <3>2. CASE s.client = c
      <4> DEFINE t == [s EXCEPT !.client = Nobody]
      <4>1. t \in StatsType /\ t.client = Nobody
        BY DEF StatsType
      <4>2. stats' = <<t>>
        BY <1>1, <3>1, <3>2 DEF StatsWithout
      <4> HIDE DEF t
      <4> QED
        BY <2>2, <3>2, <4>1, <4>2, StatsOne
    <3>3. CASE s.client # c
      <4>1. stats' = <<s>>
        BY <1>1, <2>2, <3>1, <3>3 DEF StatsWithout
      <4> QED
        BY <2>2, <3>3, <4>1, StatsOne
    <3> QED
      BY <3>2, <3>3
  <2>3. stats = <<>> \/ \E s \in StatsType : stats = <<s>>
    BY DEF WaitInv
  <2>4. \A s : <<s>> # <<>>
    OBVIOUS
  <2> QED
    BY <2>1, <2>2, <2>3, <2>4
<1>4. StatsClients' = StatsClients \ {c}
  BY <1>3 DEF StatsClients, ClientsOf
<1>5. echo' \in [Procs -> SUBSET Clients] /\ \A p \in Procs : echo'[p] = echo[p] \ {c}
  BY <1>1 DEF WaitInv
<1>6. Timely
  BY <1>1, <1>2 DEF Timely
<1>7. \A p \in Procs, e \in Clients :
        e \in echo'[p] <=> At[e] = p /\ client'[e].waits = "echo"
  BY <1>2, <1>5 DEF WaitInv
<1>8. \A e \in Clients :
        e \in StatsClients' <=> At[e] = Bridge /\ client'[e].waits = "stats"
  BY <1>2, <1>4 DEF WaitInv
<1>9. /\ \A e \in Clients : client'[e].waits = "stats" => At[e] = Bridge
      /\ \A p \in Procs : bfdd'[p] = Nobody => echo'[p] = {}
      /\ bfdd'[Bridge] = Nobody => stats' = <<>>
  BY <1>1, <1>2, <1>3, <1>5 DEF WaitInv
<1>10. \A e \in Clients :
         client'[e].waits \in {"stats", "echo"} => client'[e].ans = <<>>
  BY <1>2 DEF WaitInv
<1> QED
  BY <1>2, <1>3, <1>5, <1>6, <1>7, <1>8, <1>9, <1>10 DEF WaitInv

(* Clients are answered and forgotten. *)
LEMMA Released ==
  ASSUME WaitInv, NEW S \in SUBSET Clients, NEW arg,
         NEW a \in {"error", "sent", "echo", "counters"},
         \A c \in S : client[c].ans = <<>> /\ client[c].waits # "gone",
         Answer(S, a, arg),
         echo' \in [Procs -> SUBSET Clients],
         \A p \in Procs : echo'[p] = echo[p] \ S,
         stats' = stats \/ stats' = <<>>,
         StatsClients' = StatsClients \ S,
         \A p \in Procs :
           bfdd'[p] = Nobody =>
             \/ bfdd[p] = Nobody
             \/ echo'[p] = {} /\ (p = Bridge => stats' = <<>>)
  PROVE  WaitInv' /\ Timely
<1>0. /\ client \in [Clients -> Requests]
      /\ S \in SUBSET Clients
      /\ a \in {"error", "sent", "echo", "counters"}
      /\ \A c \in S : client[c].ans = <<>> /\ client[c].waits # "gone"
      /\ Answer(S, a, arg)
  BY DEF WaitInv
<1>1. /\ client' \in [Clients -> Requests]
      /\ \A c \in S : client'[c].waits = "no"
      /\ \A c \in Clients \ S : client'[c] = client[c]
      /\ Timely
  BY ONLY <1>0, AnswerStep
<1>2. stats' = <<>> \/ \E s \in StatsType : stats' = <<s>>
  BY DEF WaitInv
<1>3. \A p \in Procs, e \in Clients :
        e \in echo'[p] <=> At[e] = p /\ client'[e].waits = "echo"
  BY <1>1 DEF WaitInv
<1>4. \A e \in Clients :
        e \in StatsClients' <=> At[e] = Bridge /\ client'[e].waits = "stats"
  BY <1>1 DEF WaitInv
<1>5. /\ \A e \in Clients : client'[e].waits = "stats" => At[e] = Bridge
      /\ \A e \in Clients :
           client'[e].waits \in {"stats", "echo"} => client'[e].ans = <<>>
  BY <1>1 DEF WaitInv
<1>6. \A p \in Procs : bfdd'[p] = Nobody => echo'[p] = {}
  BY DEF WaitInv
<1>7. bfdd'[Bridge] = Nobody => stats' = <<>>
  BY DEF WaitInv, Procs
<1> QED
  BY <1>1, <1>2, <1>3, <1>4, <1>5, <1>6, <1>7 DEF WaitInv

(* Those who wait, by process *)
LEMMA WaitingAre ==
  ASSUME WaitInv, NEW p \in Procs
  PROVE  /\ echo[p] \subseteq Clients
         /\ StatsClients \subseteq Clients
         /\ \A c \in echo[p] : At[c] = p /\ client[c].waits = "echo"
         /\ \A c \in StatsClients : At[c] = Bridge /\ client[c].waits = "stats"
         /\ \A c \in echo[p] \cup StatsClients :
              client[c].ans = <<>> /\ client[c].waits # "gone"
<1>1. StatsClients \subseteq Clients
  <2>1. StatsClients = ClientsOf(stats)
    BY DEF StatsClients, ClientsOf
  <2>2. CASE stats = <<>>
    BY <2>1, <2>2, StatsOne
  <2>3. ASSUME NEW s \in StatsType, stats = <<s>>
        PROVE  StatsClients \subseteq Clients
    BY <2>1, <2>3, StatsOne DEF StatsType
  <2> QED
    BY <2>2, <2>3 DEF WaitInv
<1>2. echo[p] \subseteq Clients
  BY DEF WaitInv
<1> QED
  BY <1>1, <1>2 DEF WaitInv

(* A connection is given up: bbdd_br_stats_close and bbdd_bfdd_close *)
LEMMA CloseStep ==
  ASSUME WaitInv, NEW p \in Procs,
         Answer(Waiting(p), "error", Nobody),
         echo' = [echo EXCEPT ![p] = {}],
         stats' = IF p = Bridge THEN <<>> ELSE stats,
         \A q \in Procs : q # p => bfdd'[q] = bfdd[q]
  PROVE  WaitInv' /\ Timely
<1> DEFINE S == Waiting(p)
<1>1. /\ S \in SUBSET Clients
      /\ \A c \in S : client[c].ans = <<>> /\ client[c].waits # "gone"
  BY WaitingAre DEF Waiting
<1>2. /\ echo' \in [Procs -> SUBSET Clients]
      /\ echo'[p] = {}
      /\ \A q \in Procs : q # p => echo'[q] = echo[q]
  BY DEF WaitInv
<1>3. \A q \in Procs : echo'[q] = echo[q] \ S
  <2>1. \A q \in Procs : q # p => echo[q] \cap S = {}
    BY WaitingAre DEF Waiting
  <2>2. echo[p] \subseteq S
    BY DEF Waiting
  <2> QED
    BY <1>2, <2>1, <2>2
<1>4. StatsClients' = StatsClients \ S
  <2>1. CASE p = Bridge
    <3>1. StatsClients' = {}
      BY <2>1, StatsOne DEF StatsClients, ClientsOf
    <3>2. StatsClients \subseteq S
      BY <2>1 DEF Waiting
    <3> QED
      BY <3>1, <3>2
  <2>2. CASE p # Bridge
    <3>1. StatsClients' = StatsClients
      BY <2>2 DEF StatsClients
    <3>2. S = echo[p]
      BY <2>2 DEF Waiting
    <3>3. StatsClients \cap S = {}
      BY <2>2, <3>2, WaitingAre
    <3> QED
      BY <3>1, <3>3
  <2> QED
    BY <2>1, <2>2
<1>5. stats' = stats \/ stats' = <<>>
  OBVIOUS
<1>6. \A q \in Procs :
        bfdd'[q] = Nobody =>
          \/ bfdd[q] = Nobody
          \/ echo'[q] = {} /\ (q = Bridge => stats' = <<>>)
  BY <1>2
<1> HIDE DEF S
<1>7. Answer(S, "error", Nobody)
  BY DEF S
<1> QED
  BY <1>1, <1>2, <1>3, <1>4, <1>5, <1>6, <1>7, Released

(* bbdd_bfdd_echo_handle_reply *)
LEMMA EchoAnswersStep ==
  ASSUME WaitInv, NEW p \in Procs, NEW m, EchoAnswers(p, m), UNCHANGED <<stats, bfdd>>
  PROVE  WaitInv' /\ Timely
<1>1. /\ echo[p] \in SUBSET Clients
      /\ \A c \in echo[p] : client[c].ans = <<>> /\ client[c].waits # "gone"
  BY WaitingAre
<1>2. /\ echo' \in [Procs -> SUBSET Clients]
      /\ echo'[p] = {}
      /\ \A q \in Procs : q # p => echo'[q] = echo[q]
  BY DEF WaitInv, EchoAnswers
<1>3. \A q \in Procs : echo'[q] = echo[q] \ echo[p]
  <2>1. \A q \in Procs : q # p => echo[q] \cap echo[p] = {}
    BY WaitingAre
  <2> QED
    BY <1>2, <2>1
<1>4. StatsClients' = StatsClients \ echo[p]
  <2>1. StatsClients' = StatsClients
    BY DEF StatsClients
  <2>2. StatsClients \cap echo[p] = {}
    BY WaitingAre
  <2> QED
    BY <2>1, <2>2
<1>5. Answer(echo[p], "echo", m.arg)
  BY DEF EchoAnswers
<1> QED
  BY <1>1, <1>2, <1>3, <1>4, <1>5, Released

(* bbdd_br_bfdd_handle_session_counters *)
LEMMA CountersAnswerStep ==
  ASSUME WaitInv, NEW m, CountersAnswer(m), UNCHANGED <<echo, bfdd>>
  PROVE  WaitInv' /\ Timely
<1>0. Bridge \in Procs
  BY DEF Procs
<1>1. /\ StatsClients \in SUBSET Clients
      /\ \A c \in StatsClients : client[c].ans = <<>> /\ client[c].waits # "gone"
  BY <1>0, WaitingAre
<1>2. echo' \in [Procs -> SUBSET Clients]
  BY DEF WaitInv
<1>3. \A q \in Procs : echo'[q] = echo[q] \ StatsClients
  <2>1. \A q \in Procs : echo[q] \cap StatsClients = {}
    BY WaitingAre
  <2> QED
    BY <2>1
<1>4. stats' = <<>> /\ Answer(StatsClients, "counters", m.arg)
  BY DEF CountersAnswer
<1>5. StatsClients' = {}
  BY <1>4, StatsOne DEF StatsClients, ClientsOf
<1> QED
  BY <1>1, <1>2, <1>3, <1>4, <1>5, Released

(* A request is answered at once. *)
LEMMA AnsweredAtOnce ==
  ASSUME WaitInv, NEW c \in Clients, Idle(c), NEW a \in {"error", "sent"},
         Answer({c}, a, Nobody), UNCHANGED <<stats, echo, bfdd>>
  PROVE  WaitInv' /\ Timely
<1>1. client[c].ans = <<>> /\ client[c].waits = "no"
  BY DEF Idle
<1>2. echo' \in [Procs -> SUBSET Clients]
  BY DEF WaitInv
<1>3. \A q \in Procs : echo'[q] = echo[q] \ {c}
  BY <1>1 DEF WaitInv
<1>4. StatsClients' = StatsClients \ {c}
  <2>1. StatsClients' = StatsClients
    BY DEF StatsClients
  <2>2. c \notin StatsClients
    BY <1>1 DEF WaitInv
  <2> QED
    BY <2>1, <2>2
<1> QED
  BY <1>1, <1>2, <1>3, <1>4, Released

(* bbdd_bfdd_echo_handle_start *)
LEMMA EchoWaits ==
  ASSUME WaitInv, NEW p \in Procs, NEW c \in Clients, Asks(c, p), bfdd[p] # Nobody,
         echo' = [echo EXCEPT ![p] = @ \cup {c}],
         client' = [client EXCEPT ![c].waits = "echo"],
         UNCHANGED <<stats, bfdd>>
  PROVE  WaitInv' /\ Timely
<1>1. At[c] = p /\ client[c].waits = "no" /\ client[c].ans = <<>>
  BY DEF Asks, Idle
<1>2. /\ client' \in [Clients -> Requests]
      /\ client'[c].waits = "echo" /\ client'[c].ans = <<>>
      /\ \A e \in Clients \ {c} : client'[e] = client[e]
  <2>0. client \in [Clients -> Requests]
    BY DEF WaitInv
  <2> DEFINE x == [client[c] EXCEPT !.waits = "echo"]
  <2>1. x \in Requests /\ x.waits = "echo" /\ x.ans = <<>>
    BY <1>1, <2>0 DEF Requests
  <2>2. client' = [client EXCEPT ![c] = x]
    OBVIOUS
  <2> HIDE DEF x
  <2> QED
    BY <2>0, <2>1, <2>2, Zenon
<1>3. /\ echo' \in [Procs -> SUBSET Clients]
      /\ echo'[p] = echo[p] \cup {c}
      /\ \A q \in Procs : q # p => echo'[q] = echo[q]
  BY DEF WaitInv
<1>4. StatsClients' = StatsClients
  BY DEF StatsClients
<1>5. \A q \in Procs, e \in Clients :
        e \in echo'[q] <=> At[e] = q /\ client'[e].waits = "echo"
  BY <1>1, <1>2, <1>3 DEF WaitInv
<1>6. \A e \in Clients :
        e \in StatsClients' <=> At[e] = Bridge /\ client'[e].waits = "stats"
  BY <1>1, <1>2, <1>4 DEF WaitInv
<1>7. /\ \A e \in Clients : client'[e].waits = "stats" => At[e] = Bridge
      /\ \A e \in Clients :
           client'[e].waits \in {"stats", "echo"} => client'[e].ans = <<>>
  BY <1>2 DEF WaitInv
<1>8. /\ \A q \in Procs : bfdd'[q] = Nobody => echo'[q] = {}
      /\ bfdd'[Bridge] = Nobody => stats' = <<>>
  BY <1>3 DEF WaitInv
<1>9. stats' = <<>> \/ \E s \in StatsType : stats' = <<s>>
  BY DEF WaitInv
<1>10. Timely
  BY <1>1, <1>2 DEF Timely
<1> QED
  BY <1>2, <1>3, <1>5, <1>6, <1>7, <1>8, <1>9, <1>10 DEF WaitInv

(* bbdd_br_handle_session_stats *)
LEMMA StatsWaits ==
  ASSUME WaitInv, NEW c \in Clients, NEW discr \in Discrs, Asks(c, Bridge),
         bfdd[Bridge] # Nobody, stats = <<>>,
         stats' = <<[client |-> c, discr |-> discr]>>,
         client' = [client EXCEPT ![c].waits = "stats", ![c].discr = discr],
         UNCHANGED <<echo, bfdd>>
  PROVE  WaitInv' /\ Timely
<1>1. At[c] = Bridge /\ client[c].waits = "no" /\ client[c].ans = <<>>
  BY DEF Asks, Idle
<1>2. /\ client' \in [Clients -> Requests]
      /\ client'[c].waits = "stats" /\ client'[c].ans = <<>>
      /\ \A e \in Clients \ {c} : client'[e] = client[e]
  <2>0. client \in [Clients -> Requests]
    BY DEF WaitInv
  <2> DEFINE x == [client[c] EXCEPT !.waits = "stats"]
             y == [x EXCEPT !.discr = discr]
             z == [client EXCEPT ![c] = x]
  <2>1. x \in Requests /\ x.waits = "stats" /\ x.ans = <<>>
    BY <1>1, <2>0 DEF Requests
  <2>2. y \in Requests /\ y.waits = "stats" /\ y.ans = <<>>
    <3> HIDE DEF x
    <3> QED
      BY <2>1 DEF Requests
  <2>3. z[c] = x
    BY <2>0
  <2>4. [z EXCEPT ![c].discr = discr] = [z EXCEPT ![c] = y]
    BY <2>3, Zenon
  <2>5. [z EXCEPT ![c] = y] = [client EXCEPT ![c] = y]
    <3> HIDE DEF x, y
    <3> QED
      BY <2>0, Zenon
  <2>6. client' = [client EXCEPT ![c] = y]
    BY <2>4, <2>5
  <2> HIDE DEF y
  <2> QED
    BY <2>0, <2>2, <2>6, Zenon
<1> DEFINE s == [client |-> c, discr |-> discr]
<1>3. s \in StatsType /\ s.client = c /\ stats' = <<s>>
  BY DEF StatsType
<1> HIDE DEF s
<1>4. StatsClients' = {c}
  <2>1. StatsClients' = ClientsOf(stats')
    BY DEF StatsClients, ClientsOf
  <2>2. c # Nobody
    BY LinkAssumption
  <2> QED
    BY <1>3, <2>1, <2>2, StatsOne
<1>5. StatsClients = {}
  BY StatsOne DEF StatsClients, ClientsOf
<1>6. \A q \in Procs, e \in Clients :
        e \in echo'[q] <=> At[e] = q /\ client'[e].waits = "echo"
  BY <1>1, <1>2 DEF WaitInv
<1>7. \A e \in Clients :
        e \in StatsClients' <=> At[e] = Bridge /\ client'[e].waits = "stats"
  BY <1>1, <1>2, <1>4, <1>5 DEF WaitInv
<1>8. /\ \A e \in Clients : client'[e].waits = "stats" => At[e] = Bridge
      /\ \A e \in Clients :
           client'[e].waits \in {"stats", "echo"} => client'[e].ans = <<>>
  BY <1>1, <1>2 DEF WaitInv
<1>9. /\ echo' \in [Procs -> SUBSET Clients]
      /\ \A q \in Procs : bfdd'[q] = Nobody => echo'[q] = {}
      /\ bfdd'[Bridge] # Nobody
  BY DEF WaitInv
<1>10. Timely
  BY <1>1, <1>2 DEF Timely
<1> QED
  BY <1>2, <1>3, <1>6, <1>7, <1>8, <1>9, <1>10 DEF WaitInv

-----------------------------------------------------------------------------
(* The actions *)

LEMMA InitIInv == Init => IInv
<1> SUFFICES ASSUME Init PROVE IInv
  OBVIOUS
<1>1. \A k \in Conns : conn[k] = Free
  BY DEF Init
<1>2. Free.br = "closed" /\ Free.d = FALSE
  BY DEF Free
<1>3. /\ conn \in [Conns -> Ends]
      /\ backlog \in Seq(Conns) /\ Len(backlog) = 0
      /\ bfdd \in [Procs -> Conns \cup {Nobody}]
      /\ \A p \in Procs : bfdd[p] = Nobody
  BY FreeType DEF Init
<1>4. EndsInv
  <2>1. \A i : i \notin 1 .. Len(backlog)
    BY <1>3
  <2>2. Nobody \notin Conns /\ \A p \in Dps \cup {Bridge} : bfdd[p] = Nobody
    BY <1>3, LinkAssumption DEF Procs
  <2>3. \A k \in Conns : conn[k].br = "closed" /\ ~conn[k].d
    BY <1>1, <1>2
  <2> QED
    BY <1>3, <2>1, <2>2, <2>3 DEF EndsInv
<1>5. NewClient \in Requests /\ NewClient.waits = "no"
  <2>1. <<>> \in Seq({"error", "sent", "echo", "counters"} \X BOOLEAN)
    OBVIOUS
  <2> QED
    BY <2>1 DEF NewClient, Requests
<1>6. /\ client \in [Clients -> Requests]
      /\ \A c \in Clients : client[c].waits = "no"
      /\ echo \in [Procs -> SUBSET Clients]
      /\ \A p \in Procs : echo[p] = {}
      /\ stats = <<>>
  BY <1>5 DEF Init
<1>7. StatsClients = {}
  BY <1>6, StatsOne DEF StatsClients, ClientsOf
<1>8. WaitInv
  BY <1>6, <1>7 DEF WaitInv
<1> QED
  BY <1>4, <1>8 DEF IInv

(* bbdd_br_bfdd_client_close, for whatever reason *)
LEMMA BrClosedStep ==
  ASSUME IInv, bfdd[Bridge] # Nobody, BrClientClose
  PROVE  IInv' /\ Timely
<1>1. EndsInv'
  BY BrGone DEF IInv
<1>2. WaitInv /\ Bridge \in Procs
  BY DEF IInv, Procs
<1>3. \A q \in Procs : q # Bridge => bfdd'[q] = bfdd[q]
  BY DEF BrClientClose, IInv, EndsInv
<1>4. /\ Answer(Waiting(Bridge), "error", Nobody)
      /\ echo' = [echo EXCEPT ![Bridge] = {}]
      /\ stats' = <<>>
  BY DEF BrClientClose, BrClose
<1>5. WaitInv' /\ Timely
  BY <1>2, <1>3, <1>4, CloseStep, Zenon
<1> QED
  BY <1>1, <1>5 DEF IInv

(* bbdd_d_bfdd_close, for whatever reason *)
LEMMA DpClosedStep ==
  ASSUME IInv, NEW dp \in Dps, bfdd[dp] # Nobody, DpClose(dp)
  PROVE  IInv' /\ Timely
<1>1. EndsInv'
  BY DpGone DEF IInv
<1>2. WaitInv /\ dp \in Procs /\ dp # Bridge
  BY LinkAssumption DEF IInv, Procs
<1>3. \A q \in Procs : q # dp => bfdd'[q] = bfdd[q]
  BY DEF DpClose, IInv, EndsInv
<1>4. /\ Answer(Waiting(dp), "error", Nobody)
      /\ echo' = [echo EXCEPT ![dp] = {}]
      /\ stats' = stats
  BY DEF DpClose
<1>5. WaitInv' /\ Timely
  BY <1>2, <1>3, <1>4, CloseStep, Zenon
<1> QED
  BY <1>1, <1>5 DEF IInv

LEMMA AcceptStep ==
  ASSUME IInv, Accept
  PROVE  IInv' /\ Timely
<1>1. EndsInv'
  BY Accepted DEF IInv
<1>2. WaitInv /\ EndsInv /\ Bridge \in Procs
  BY DEF IInv, Procs
<1>3. \A q \in Procs : q # Bridge => bfdd'[q] = bfdd[q]
  <2>1. PICK k, cn : Attached(k, cn)
    BY Zenon DEF Accept
  <2>2. PICK v : bfdd' = [bfdd EXCEPT ![Bridge] = v]
    BY <2>1 DEF Attached
  <2> QED
    BY <1>2, <2>2 DEF EndsInv
<1>4. CASE bfdd[Bridge] = Nobody
  <2>1. UNCHANGED <<stats, echo, client>>
    BY <1>4 DEF Accept
  <2>2. \A q \in Procs : bfdd'[q] = Nobody => bfdd[q] = Nobody
    BY <1>3, <1>4
  <2>3. WaitInv' /\ Timely
    BY <1>2, <2>1, <2>2, WaitStill
  <2> QED
    BY <1>1, <2>3 DEF IInv
<1>5. CASE bfdd[Bridge] # Nobody
  <2>1. /\ Answer(Waiting(Bridge), "error", Nobody)
        /\ echo' = [echo EXCEPT ![Bridge] = {}]
        /\ stats' = <<>>
    BY <1>5 DEF Accept, BrClose
  <2>2. WaitInv' /\ Timely
    BY <1>2, <1>3, <2>1, CloseStep, Zenon
  <2> QED
    BY <1>1, <2>2 DEF IInv
<1> QED
  BY <1>4, <1>5

LEMMA ConnectStep ==
  ASSUME IInv, NEW dp \in Dps, NEW k \in Conns, DpConnect(dp, k)
  PROVE  IInv' /\ Timely
<1>1. EndsInv'
  BY Connected DEF IInv
<1>2. UNCHANGED <<stats, echo, client>>
  BY DEF DpConnect
<1>3. \A q \in Procs : bfdd'[q] = Nobody => bfdd[q] = Nobody
  BY LinkAssumption DEF DpConnect, IInv, EndsInv, Procs
<1>4. WaitInv' /\ Timely
  BY <1>2, <1>3, WaitStill DEF IInv
<1> QED
  BY <1>1, <1>4 DEF IInv

(* A request that is refused *)
LEMMA RefusedStep ==
  ASSUME IInv, NEW c \in Clients, Idle(c), Refused(c)
  PROVE  IInv' /\ Timely
<1>1. EndsInv'
  BY EndsStill DEF IInv, Refused
<1>2. WaitInv' /\ Timely
  BY AnsweredAtOnce DEF IInv, Refused
<1> QED
  BY <1>1, <1>2 DEF IInv

LEMMA BrSessionStep ==
  ASSUME IInv, NEW c \in Clients, BrSession(c)
  PROVE  IInv' /\ Timely
<1>1. Idle(c)
  BY DEF BrSession, Asks
<1>2. CASE Refused(c)
  BY <1>1, <1>2, RefusedStep
<1>3. CASE /\ bfdd[Bridge] # Nobody
           /\ Sends(Bridge, Msg("session", 0))
           /\ Answer({c}, "sent", Nobody)
           /\ UNCHANGED <<stats, echo>>
  <2>1. Msg("session", 0) \in Messages /\ Bridge \in Procs
    BY DEF Msg, Messages, Procs
  <2>2. EndsInv'
    BY <1>3, <2>1, SendsStep DEF IInv
  <2>3. UNCHANGED bfdd
    BY <1>3 DEF Sends
  <2>4. WaitInv' /\ Timely
    BY <1>1, <1>3, <2>3, AnsweredAtOnce DEF IInv
  <2> QED
    BY <2>2, <2>4 DEF IInv
<1> QED
  BY <1>2, <1>3 DEF BrSession

LEMMA BrStatsStep ==
  ASSUME IInv, NEW c \in Clients, NEW discr \in Discrs, BrStats(c, discr)
  PROVE  IInv' /\ Timely
<1>1. Idle(c) /\ Asks(c, Bridge)
  BY DEF BrStats, Asks
<1>2. CASE Refused(c)
  BY <1>1, <1>2, RefusedStep
<1>3. CASE ~Refused(c)
  <2>0. /\ bfdd[Bridge] # Nobody
        /\ stats = <<>>
        /\ Sends(Bridge, Msg("counters", discr))
        /\ stats' = <<[client |-> c, discr |-> discr]>>
        /\ client' = [client EXCEPT ![c].waits = "stats", ![c].discr = discr]
        /\ UNCHANGED echo
    BY <1>3 DEF BrStats
  <2>1. Msg("counters", discr) \in Messages /\ Bridge \in Procs
    BY DEF Msg, Messages, Procs
  <2>2. EndsInv'
    BY <2>0, <2>1, SendsStep DEF IInv
  <2>3. UNCHANGED bfdd
    BY <2>0 DEF Sends
  <2>4. WaitInv' /\ Timely
    BY <1>1, <2>0, <2>3, StatsWaits, Zenon DEF IInv
  <2> QED
    BY <2>2, <2>4 DEF IInv
<1> QED
  BY <1>2, <1>3

LEMMA EchoStep ==
  ASSUME IInv, NEW c \in Clients, NEW p \in Procs, Echo(c, p)
  PROVE  IInv' /\ Timely
<1>1. Idle(c) /\ Asks(c, p)
  BY DEF Echo, Asks
<1>2. CASE Refused(c)
  BY <1>1, <1>2, RefusedStep
<1>3. CASE ~Refused(c)
  <2>0. /\ bfdd[p] # Nobody
        /\ Sends(p, Msg("echo", c))
        /\ echo' = [echo EXCEPT ![p] = @ \cup {c}]
        /\ client' = [client EXCEPT ![c].waits = "echo"]
        /\ UNCHANGED stats
    BY <1>3 DEF Echo
  <2>1. Msg("echo", c) \in Messages
    BY DEF Msg, Messages
  <2>2. EndsInv'
    BY <2>0, <2>1, SendsStep DEF IInv
  <2>3. UNCHANGED bfdd
    BY <2>0 DEF Sends
  <2>4. WaitInv' /\ Timely
    BY <1>1, <2>0, <2>3, EchoWaits, Zenon DEF IInv
  <2> QED
    BY <2>2, <2>4 DEF IInv
<1> QED
  BY <1>2, <1>3

LEMMA BrMessageStep ==
  ASSUME IInv, BrMessage
  PROVE  IInv' /\ Timely
<1>1. EndsInv'
  BY BrMessageEnds DEF IInv
<1> DEFINE m == Head(conn[bfdd[Bridge]].toBr)
<1>2. WaitInv /\ Bridge \in Procs /\ UNCHANGED bfdd
  BY DEF IInv, Procs, BrMessage
<1>3. \/ EchoAnswers(Bridge, m) /\ UNCHANGED stats
      \/ CountersAnswer(m) /\ UNCHANGED echo
      \/ UNCHANGED <<stats, echo, client>>
  BY DEF BrMessage
<1> HIDE DEF m
<1>4. WaitInv' /\ Timely
  BY <1>2, <1>3, EchoAnswersStep, CountersAnswerStep, WaitStill
<1> QED
  BY <1>1, <1>4 DEF IInv

LEMMA DpMessageStep ==
  ASSUME IInv, NEW dp \in Dps, DpMessage(dp)
  PROVE  IInv' /\ Timely
<1>1. EndsInv'
  BY DpMessageEnds DEF IInv
<1> DEFINE m == Head(conn[bfdd[dp]].toD)
<1>2. WaitInv /\ dp \in Procs /\ UNCHANGED <<stats, bfdd>>
  BY DEF IInv, Procs, DpMessage
<1>3. EchoAnswers(dp, m) \/ UNCHANGED <<echo, client>>
  BY DEF DpMessage
<1> HIDE DEF m
<1>4. WaitInv' /\ Timely
  BY <1>2, <1>3, EchoAnswersStep, WaitStill
<1> QED
  BY <1>1, <1>4 DEF IInv

LEMMA NextIInv == IInv /\ [Next]_vars => IInv' /\ [Timely]_vars
<1> SUFFICES ASSUME IInv, [Next]_vars PROVE IInv' /\ Timely
  OBVIOUS
<1>1. ASSUME NEW c \in Clients, Leave(c) PROVE IInv' /\ Timely
  <2>1. EndsInv'
    BY <1>1, EndsStill DEF IInv, Leave
  <2>2. WaitInv' /\ Timely
    BY <1>1, LeaveStep DEF IInv
  <2> QED
    BY <2>1, <2>2 DEF IInv
<1>2. ASSUME NEW dp \in Dps, NEW k \in Conns, DpConnect(dp, k) PROVE IInv' /\ Timely
  BY <1>2, ConnectStep
<1>3. ASSUME NEW dp \in Dps, DpDisconnect(dp) PROVE IInv' /\ Timely
  BY <1>3, DpClosedStep DEF DpDisconnect
<1>4. CASE Accept
  BY <1>4, AcceptStep
<1>5. ASSUME NEW c \in Clients, BrSession(c) PROVE IInv' /\ Timely
  BY <1>5, BrSessionStep
<1>6. ASSUME NEW c \in Clients, NEW discr \in Discrs, BrStats(c, discr)
      PROVE  IInv' /\ Timely
  BY <1>6, BrStatsStep
<1>7. ASSUME NEW c \in Clients, NEW p \in Procs, Echo(c, p) PROVE IInv' /\ Timely
  BY <1>7, EchoStep
<1>8. CASE BrMessage
  BY <1>8, BrMessageStep
<1>9. ASSUME NEW dp \in Dps, DpMessage(dp) PROVE IInv' /\ Timely
  BY <1>9, DpMessageStep
<1>10. CASE BrHup \/ BrBroken \/ AcceptFails
  BY <1>10, BrClosedStep DEF BrHup, BrBroken, AcceptFails
<1>11. ASSUME NEW dp \in Dps, DpHup(dp) \/ DpBroken(dp) PROVE IInv' /\ Timely
  BY <1>11, DpClosedStep DEF DpHup, DpBroken
<1>12. CASE UNCHANGED vars
  <2>1. UNCHANGED <<conn, backlog, bfdd>> /\ UNCHANGED <<stats, echo, client>>
    BY <1>12 DEF vars
  <2>2. EndsInv'
    BY <2>1, EndsStill DEF IInv
  <2>3. WaitInv' /\ Timely
    BY <2>1, WaitStill DEF IInv
  <2> QED
    BY <2>2, <2>3 DEF IInv
<1> QED
  BY <1>1, <1>2, <1>3, <1>4, <1>5, <1>6, <1>7, <1>8, <1>9, <1>10, <1>11, <1>12
  DEF Next

LEMMA Inductive == Spec => []IInv
<1>1. IInv /\ [Next]_vars => IInv'
  BY NextIInv
<1> QED
  BY InitIInv, <1>1, PTL DEF Spec

-----------------------------------------------------------------------------
(* The counters: what travels on a connection *)

None(q, t) == \A i \in 1 .. Len(q) : q[i].type # t

(* At most one message of the type, about x *)
Sole(q, t, x) ==
  \A i, j \in 1 .. Len(q) :
    q[i].type = t => q[i].arg = x /\ (q[j].type = t => i = j)

Clear(e) == None(e.toD, "counters") /\ None(e.toBr, "counted")

Carries(e, x) ==
  /\ Sole(e.toD, "counters", x)
  /\ Sole(e.toBr, "counted", x)
  /\ None(e.toD, "counters") \/ None(e.toBr, "counted")

(* An end fits the pending request t.  The daemon asks for no counters, so *)
(* none travel before the bridge accepts; and a request may be lost, when  *)
(* the daemon is gone or could not reply, but is never doubled.            *)
Fits(e, t) ==
  /\ e.br = "backlog" => Clear(e)
  /\ e.br = "open" =>
       /\ t = <<>> => Clear(e)
       /\ t # <<>> => Carries(e, t[1].discr) /\ (e.d /\ ~e.lost => ~Clear(e))

(* The last third of the inductive invariant: the connections fit, the     *)
(* request that is pending is what its client asked for, and no client was *)
(* told of counters that it did not ask for.                               *)
ToldInv ==
  /\ stats # <<>> /\ stats[1].client # Nobody =>
       client[stats[1].client].discr = stats[1].discr
  /\ \A c \in Clients :
       \A i \in 1 .. Len(client[c].ans) : client[c].ans[i] # <<"counters", FALSE>>

FlightInv == (\A k \in Conns : Fits(conn[k], stats)) /\ ToldInv

LEMMA NoneTravel ==
  /\ \A t : None(<<>>, t)
  /\ \A q, t, x : None(q, t) => Sole(q, t, x)
  /\ \A e : Clear(e) => \A x : Carries(e, x)
<1>1. \A t : None(<<>>, t)
  BY DEF None
<1>2. \A q, t, x : None(q, t) => Sole(q, t, x)
  BY DEF None, Sole
<1>3. \A e : Clear(e) => \A x : Carries(e, x)
  BY <1>2 DEF Clear, Carries
<1> QED
  BY <1>1, <1>2, <1>3

(* A message is queued. *)
LEMMA TravelAppend ==
  ASSUME NEW q \in Seq(Messages), NEW m \in Messages, NEW t, NEW x
  PROVE  /\ m.type # t => /\ None(Append(q, m), t) <=> None(q, t)
                          /\ Sole(q, t, x) => Sole(Append(q, m), t, x)
         /\ m.type = t => ~None(Append(q, m), t)
         /\ m.type = t /\ None(q, t) /\ m.arg = x => Sole(Append(q, m), t, x)
<1> DEFINE r == Append(q, m)
<1>1. /\ Len(q) \in Nat
      /\ Len(r) = Len(q) + 1
      /\ r[Len(q) + 1] = m
      /\ \A i \in 1 .. Len(q) : r[i] = q[i]
  OBVIOUS
<1> HIDE DEF r
<1>2. \A i \in 1 .. Len(r) : i \in 1 .. Len(q) \/ i = Len(q) + 1
  BY <1>1
<1>3. 1 .. Len(q) \subseteq 1 .. Len(r) /\ Len(q) + 1 \in 1 .. Len(r)
  BY <1>1
<1>4. m.type # t => (None(r, t) <=> None(q, t))
  BY <1>1, <1>2, <1>3 DEF None
<1>5. m.type # t /\ Sole(q, t, x) => Sole(r, t, x)
  BY <1>1, <1>2 DEF Sole
<1>6. m.type = t => ~None(r, t)
  BY <1>1, <1>3 DEF None
<1>7. m.type = t /\ None(q, t) /\ m.arg = x => Sole(r, t, x)
  BY <1>1, <1>2 DEF None, Sole
<1> QED
  BY <1>4, <1>5, <1>6, <1>7 DEF r

(* The first message is taken. *)
LEMMA TravelTail ==
  ASSUME NEW q \in Seq(Messages), q # <<>>, NEW t, NEW x
  PROVE  /\ None(q, t) => None(Tail(q), t) /\ Head(q).type # t
         /\ Sole(q, t, x) => Sole(Tail(q), t, x)
         /\ Head(q).type # t /\ None(Tail(q), t) => None(q, t)
         /\ Head(q).type = t /\ Sole(q, t, x) => None(Tail(q), t) /\ Head(q).arg = x
<1> DEFINE r == Tail(q)
           m == Head(q)
<1>1. /\ Len(q) \in Nat /\ Len(q) > 0
      /\ Len(r) = Len(q) - 1
      /\ m = q[1]
      /\ \A i \in 1 .. Len(r) : r[i] = q[i + 1]
  OBVIOUS
<1> HIDE DEF r, m
<1>2. /\ 1 \in 1 .. Len(q)
      /\ \A i \in 1 .. Len(r) : i + 1 \in 1 .. Len(q) /\ i + 1 # 1
      /\ \A i \in 1 .. Len(q) : i # 1 => i - 1 \in 1 .. Len(r) /\ r[i - 1] = q[i]
  BY <1>1
<1>3. None(q, t) => None(r, t) /\ m.type # t
  BY <1>1, <1>2 DEF None
<1>4. Sole(q, t, x) => Sole(r, t, x)
  <2> SUFFICES ASSUME Sole(q, t, x),
                      NEW i \in 1 .. Len(r), NEW j \in 1 .. Len(r), r[i].type = t
               PROVE  r[i].arg = x /\ (r[j].type = t => i = j)
    BY DEF Sole
  <2>1. /\ i + 1 \in 1 .. Len(q) /\ r[i] = q[i + 1]
        /\ j + 1 \in 1 .. Len(q) /\ r[j] = q[j + 1]
    BY <1>1, <1>2
  <2>2. r[i].arg = x /\ (r[j].type = t => i + 1 = j + 1)
    BY <2>1 DEF Sole
  <2> QED
    BY <2>2, <1>1
<1>5. m.type # t /\ None(r, t) => None(q, t)
  BY <1>1, <1>2 DEF None
<1>6. m.type = t /\ Sole(q, t, x) => None(r, t) /\ m.arg = x
  BY <1>1, <1>2 DEF None, Sole
<1> QED
  BY <1>3, <1>4, <1>5, <1>6 DEF r, m

(* Of what is queued, a part is flushed. *)
LEMMA TravelFlushed ==
  ASSUME NEW q \in Seq(Messages), NEW f \in Flushed(q), NEW t, NEW x
  PROVE  (None(q, t) => None(f, t)) /\ (Sole(q, t, x) => Sole(f, t, x))
<1>1. /\ Len(q) \in Nat /\ Len(f) \in Nat /\ Len(f) <= Len(q)
      /\ \A i \in 1 .. Len(f) : f[i] = q[i]
  <2>1. CASE f = q
    BY <2>1
  <2>2. ASSUME NEW n \in 0 .. Len(q), f = SubSeq(q, 1, n)
        PROVE  /\ Len(q) \in Nat /\ Len(f) \in Nat /\ Len(f) <= Len(q)
               /\ \A i \in 1 .. Len(f) : f[i] = q[i]
    BY <2>2
  <2> QED
    BY <2>1, <2>2 DEF Flushed
<1>2. 1 .. Len(f) \subseteq 1 .. Len(q)
  BY <1>1
<1>3. None(q, t) => None(f, t)
  BY <1>1, <1>2 DEF None
<1>4. Sole(q, t, x) => Sole(f, t, x)
  BY <1>1, <1>2 DEF Sole
<1> QED
  BY <1>3, <1>4

(* The ends of a connection, as messages come and go *)
LEMMA FieldsSet ==
  ASSUME NEW e \in Ends, NEW q \in Seq(Messages)
  PROVE  /\ [e EXCEPT !.toD = q].toD = q /\ [e EXCEPT !.toD = q].toBr = e.toBr
         /\ [e EXCEPT !.toD = q].lost = e.lost
         /\ [e EXCEPT !.toBr = q].toBr = q /\ [e EXCEPT !.toBr = q].toD = e.toD
         /\ [e EXCEPT !.toBr = q].lost = e.lost
         /\ [e EXCEPT !.lost = TRUE].toD = e.toD
         /\ [e EXCEPT !.lost = TRUE].toBr = e.toBr
         /\ [e EXCEPT !.lost = TRUE].lost = TRUE
BY DEF Ends

LEMMA FitsLost ==
  ASSUME NEW e \in Ends, NEW t, Fits(e, t)
  PROVE  Fits([e EXCEPT !.lost = TRUE], t)
<1> DEFINE r == [e EXCEPT !.lost = TRUE]
<1>1. r.br = e.br /\ r.toD = e.toD /\ r.toBr = e.toBr /\ r.lost = TRUE
  BY SetLost, FieldsSet
<1> HIDE DEF r
<1>2. (Clear(e) <=> Clear(r)) /\ \A x : Carries(e, x) => Carries(r, x)
  BY <1>1 DEF Clear, Carries
<1>3. Fits(r, t)
  BY <1>1, <1>2 DEF Fits
<1> QED
  BY <1>3 DEF r

(* A message to the daemon that asks for no counters *)
LEMMA FitsToD ==
  ASSUME NEW e \in Ends, NEW m \in Messages, m.type # "counters", NEW t, Fits(e, t)
  PROVE  Fits(ToD(e, m), t)
<1>1. CASE ~e.d
  BY <1>1 DEF ToD
<1>2. CASE e.d
  <2> DEFINE q == Append(e.toD, m)
             r == [e EXCEPT !.toD = q]
  <2>1. e.toD \in Seq(Messages) /\ q \in Seq(Messages)
    BY DEF Ends
  <2>2. /\ None(q, "counters") <=> None(e.toD, "counters")
        /\ \A x : Sole(e.toD, "counters", x) => Sole(q, "counters", x)
    BY <2>1, TravelAppend, Zenon
  <2>3. ToD(e, m) = r
    BY <1>2 DEF ToD
  <2> HIDE DEF q
  <2>4. r.br = e.br /\ r.toD = q /\ r.toBr = e.toBr /\ r.lost = e.lost /\ r.d = e.d
    BY <2>1, SetToD, FieldsSet
  <2> HIDE DEF r
  <2>5. (Clear(e) <=> Clear(r)) /\ \A x : Carries(e, x) => Carries(r, x)
    BY <2>2, <2>4 DEF Clear, Carries
  <2>6. Fits(r, t)
    BY <2>4, <2>5 DEF Fits
  <2> QED
    BY <2>3, <2>6
<1> QED
  BY <1>1, <1>2

(* A message to the bridge that has no counters *)
LEMMA FitsToBr ==
  ASSUME NEW e \in Ends, NEW m \in Messages, m.type # "counted", NEW t, Fits(e, t)
  PROVE  Fits(ToBr(e, m), t)
<1>1. CASE e.br = "closed"
  BY <1>1 DEF ToBr
<1>2. CASE e.br # "closed"
  <2> DEFINE q == Append(e.toBr, m)
             r == [e EXCEPT !.toBr = q]
  <2>1. e.toBr \in Seq(Messages) /\ q \in Seq(Messages)
    BY DEF Ends
  <2>2. /\ None(q, "counted") <=> None(e.toBr, "counted")
        /\ \A x : Sole(e.toBr, "counted", x) => Sole(q, "counted", x)
    BY <2>1, TravelAppend, Zenon
  <2>3. ToBr(e, m) = r
    BY <1>2 DEF ToBr
  <2> HIDE DEF q
  <2>4. r.br = e.br /\ r.toBr = q /\ r.toD = e.toD /\ r.lost = e.lost /\ r.d = e.d
    BY <2>1, SetToBr, FieldsSet
  <2> HIDE DEF r
  <2>5. (Clear(e) <=> Clear(r)) /\ \A x : Carries(e, x) => Carries(r, x)
    BY <2>2, <2>4 DEF Clear, Carries
  <2>6. Fits(r, t)
    BY <2>4, <2>5 DEF Fits
  <2> QED
    BY <2>3, <2>6
<1> QED
  BY <1>1, <1>2

(* The bridge asks for counters. *)
LEMMA FitsAsked ==
  ASSUME NEW e \in Ends, e.br = "open", Fits(e, <<>>),
         NEW m \in Messages, m.type = "counters", NEW s, m.arg = s.discr
  PROVE  Fits(ToD(e, m), <<s>>)
<1>0. Clear(e) /\ <<s>> # <<>> /\ <<s>>[1] = s
  BY DEF Fits
<1>1. CASE ~e.d
  <2>1. ToD(e, m) = e
    BY <1>1 DEF ToD
  <2>2. Carries(e, s.discr)
    BY <1>0, NoneTravel
  <2> QED
    BY <1>0, <1>1, <2>1, <2>2 DEF Fits
<1>2. CASE e.d
  <2> DEFINE q == Append(e.toD, m)
             r == [e EXCEPT !.toD = q]
  <2>1. e.toD \in Seq(Messages) /\ q \in Seq(Messages)
    BY DEF Ends
  <2>2. ~None(q, "counters") /\ Sole(q, "counters", s.discr)
    BY <1>0, <2>1, TravelAppend DEF Clear
  <2>3. ToD(e, m) = r
    BY <1>2 DEF ToD
  <2> HIDE DEF q
  <2>4. r.br = e.br /\ r.toD = q /\ r.toBr = e.toBr
    BY <2>1, SetToD, FieldsSet
  <2> HIDE DEF r
  <2>5. ~Clear(r) /\ Carries(r, s.discr)
    BY <1>0, <2>2, <2>4, NoneTravel DEF Clear, Carries
  <2>6. Fits(r, <<s>>)
    BY <1>0, <2>4, <2>5 DEF Fits
  <2> QED
    BY <2>3, <2>6
<1> QED
  BY <1>1, <1>2

(* The bridge takes a message: the counters are no longer pending. *)
LEMMA FitsTakenBr ==
  ASSUME NEW e \in Ends, e.br = "open", e.toBr # <<>>, NEW t, Fits(e, t)
  PROVE  LET m == Head(e.toBr)
             r == [e EXCEPT !.toBr = Tail(@)]
         IN  /\ m.type # "counted" => Fits(r, t)
             /\ m.type = "counted" => t # <<>> /\ m.arg = t[1].discr /\ Fits(r, <<>>)
<1> DEFINE q == Tail(e.toBr)
           m == Head(e.toBr)
           r == [e EXCEPT !.toBr = q]
<1>1. e.toBr \in Seq(Messages) /\ q \in Seq(Messages)
  BY DEF Ends
<1>2. /\ None(e.toBr, "counted") => None(q, "counted") /\ m.type # "counted"
      /\ \A x : Sole(e.toBr, "counted", x) => Sole(q, "counted", x)
      /\ m.type # "counted" /\ None(q, "counted") => None(e.toBr, "counted")
      /\ \A x : m.type = "counted" /\ Sole(e.toBr, "counted", x)
                => None(q, "counted") /\ m.arg = x
  BY <1>1, TravelTail, ZenonT(60)
<1> HIDE DEF q, m
<1>3. r.br = e.br /\ r.toBr = q /\ r.toD = e.toD /\ r.lost = e.lost /\ r.d = e.d
  BY <1>1, SetToBr, FieldsSet
<1> HIDE DEF r
<1>4. ASSUME m.type # "counted"
      PROVE  Fits(r, t)
  <2>1. (Clear(e) <=> Clear(r)) /\ \A x : Carries(e, x) => Carries(r, x)
    BY <1>2, <1>3, <1>4 DEF Clear, Carries
  <2> QED
    BY <1>3, <2>1 DEF Fits
<1>5. ASSUME m.type = "counted"
      PROVE  t # <<>> /\ m.arg = t[1].discr /\ Fits(r, <<>>)
  <2>1. ~None(e.toBr, "counted")
    BY <1>2, <1>5
  <2>2. t # <<>> /\ Carries(e, t[1].discr)
    BY <2>1 DEF Fits, Clear
  <2>3. None(q, "counted") /\ m.arg = t[1].discr /\ None(e.toD, "counters")
    BY <1>2, <1>5, <2>1, <2>2 DEF Carries
  <2>4. Clear(r)
    BY <1>3, <2>3 DEF Clear
  <2> QED
    BY <1>3, <2>2, <2>3, <2>4 DEF Fits
<1> QED
  BY <1>4, <1>5 DEF q, m, r

(* The daemon takes a message and replies with the counters, if asked for  *)
(* them and if the reply can be queued.                                    *)
LEMMA FitsTakenD ==
  ASSUME NEW e \in Ends, e.toD # <<>>, NEW t, Fits(e, t)
  PROVE  LET m == Head(e.toD)
             r == [e EXCEPT !.toD = Tail(@)]
         IN  /\ m.type # "counters" => Fits(r, t)
             /\ m.type = "counters" =>
                  /\ Fits(ToBr(r, Msg("counted", m.arg)), t)
                  /\ Fits([r EXCEPT !.lost = TRUE], t)
<1> DEFINE q == Tail(e.toD)
           m == Head(e.toD)
           r == [e EXCEPT !.toD = q]
<1>1. e.toD \in Seq(Messages) /\ q \in Seq(Messages) /\ m \in Messages
  BY DEF Ends
<1>2. /\ None(e.toD, "counters") => None(q, "counters") /\ m.type # "counters"
      /\ \A x : Sole(e.toD, "counters", x) => Sole(q, "counters", x)
      /\ m.type # "counters" /\ None(q, "counters") => None(e.toD, "counters")
      /\ \A x : m.type = "counters" /\ Sole(e.toD, "counters", x)
                => None(q, "counters") /\ m.arg = x
  BY <1>1, TravelTail
<1>a. Msg("counted", m.arg) \in Messages
  BY <1>1 DEF Msg, Messages
<1> HIDE DEF q, m
<1>3. /\ r.br = e.br /\ r.toD = q /\ r.toBr = e.toBr /\ r.lost = e.lost /\ r.d = e.d
      /\ r \in Ends
  BY <1>1, SetToD, FieldsSet
<1> HIDE DEF r
<1>4. ASSUME m.type # "counters"
      PROVE  Fits(r, t)
  <2>1. (Clear(e) <=> Clear(r)) /\ \A x : Carries(e, x) => Carries(r, x)
    BY <1>2, <1>3, <1>4 DEF Clear, Carries
  <2> QED
    BY <1>3, <2>1 DEF Fits
<1>5. ASSUME m.type = "counters"
      PROVE  /\ Fits(ToBr(r, Msg("counted", m.arg)), t)
             /\ Fits([r EXCEPT !.lost = TRUE], t)
  <2>1. ~None(e.toD, "counters") /\ ~Clear(e)
    BY <1>2, <1>5 DEF Clear
  <2>2. e.br # "backlog"
    BY <2>1 DEF Fits
  <2>3. CASE e.br # "open"
    <3>1. e.br = "closed"
      BY <2>2, <2>3 DEF Ends
    <3>2. ToBr(r, Msg("counted", m.arg)) = r /\ [r EXCEPT !.lost = TRUE].br = "closed"
      BY <1>3, <3>1, SetLost DEF ToBr
    <3> QED
      BY <1>3, <3>1, <3>2 DEF Fits
  <2>4. CASE e.br = "open"
    <3>1. t # <<>> /\ Carries(e, t[1].discr)
      BY <2>1, <2>4 DEF Fits
    <3>2. None(q, "counters") /\ m.arg = t[1].discr /\ None(e.toBr, "counted")
      BY <1>2, <1>5, <2>1, <3>1 DEF Carries
    <3>3. Fits([r EXCEPT !.lost = TRUE], t)
      <4> DEFINE l == [r EXCEPT !.lost = TRUE]
      <4>1. l.br = "open" /\ l.toD = q /\ l.toBr = e.toBr /\ l.lost = TRUE
        BY <1>3, <2>4, SetLost, FieldsSet
      <4> HIDE DEF l
      <4>2. Carries(l, t[1].discr)
        BY <3>2, <4>1, NoneTravel DEF Carries
      <4>3. Fits(l, t)
        BY <3>1, <4>1, <4>2 DEF Fits
      <4> QED
        BY <4>3 DEF l
    <3>4. Fits(ToBr(r, Msg("counted", m.arg)), t)
      <4> DEFINE n == Msg("counted", m.arg)
                 p == Append(r.toBr, n)
                 w == [r EXCEPT !.toBr = p]
      <4>0. n.type = "counted" /\ n.arg = m.arg /\ n \in Messages
        BY <1>a DEF Msg
      <4> HIDE DEF n
      <4>1. r.toBr \in Seq(Messages) /\ p \in Seq(Messages)
        BY <1>3, <4>0 DEF Ends
      <4>2. ~None(p, "counted") /\ Sole(p, "counted", t[1].discr)
        BY <1>3, <3>2, <4>0, <4>1, TravelAppend
      <4>3. ToBr(r, n) = w
        BY <1>3, <2>4 DEF ToBr
      <4> HIDE DEF p
      <4>4. w.br = "open" /\ w.toBr = p /\ w.toD = q
        BY <1>3, <2>4, <4>1, SetToBr, FieldsSet
      <4> HIDE DEF w
      <4>5. ~Clear(w) /\ Carries(w, t[1].discr)
        BY <3>2, <4>2, <4>4, NoneTravel DEF Clear, Carries
      <4>6. Fits(w, t)
        BY <3>1, <4>4, <4>5 DEF Fits
      <4> QED
        BY <4>3, <4>6 DEF n
    <3> QED
      BY <3>3, <3>4
  <2> QED
    BY <2>3, <2>4
<1> QED
  BY <1>4, <1>5 DEF q, m, r

(* One connection changes, and the request that is pending with it only if *)
(* it is the connection of the bridge.                                     *)
LEMMA EndStep ==
  ASSUME EndsInv, FlightInv, NEW k \in Conns, NEW r, conn' = [conn EXCEPT ![k] = r],
         Fits(r, stats'), stats' = stats \/ k = bfdd[Bridge]
  PROVE  \A j \in Conns : Fits(conn'[j], stats')
<1>1. conn'[k] = r /\ \A j \in Conns : j # k => conn'[j] = conn[j]
  BY DEF EndsInv
<1>2. ASSUME NEW j \in Conns, j # k PROVE Fits(conn[j], stats')
  <2>1. Fits(conn[j], stats)
    BY DEF FlightInv
  <2>2. CASE stats' = stats
    BY <2>1, <2>2
  <2>3. CASE k = bfdd[Bridge]
    <3>1. conn[j].br # "open"
      BY <1>2, <2>3 DEF EndsInv
    <3> QED
      BY <2>1, <3>1 DEF Fits
  <2> QED
    BY <2>2, <2>3
<1> QED
  BY <1>1, <1>2

(* What is left of an end that is closed *)
LEMMA ClosedFits ==
  ASSUME EndsInv, NEW k \in Conns, NEW t
  PROVE  /\ \A r \in ClosedByBr(k) : Fits(r, t)
         /\ Fits(conn[k], t) => \A r \in ClosedByDp(k) : Fits(r, t)
<1>1. \A r \in ClosedByBr(k) : Fits(r, t)
  <2>1. \A r \in ClosedByBr(k) : r.br = "closed"
    BY BrEndCloses
  <2> QED
    BY <2>1 DEF Fits
<1>2. ASSUME Fits(conn[k], t), NEW r \in ClosedByDp(k)
      PROVE  Fits(r, t)
  <2>1. conn[k] \in Ends /\ conn[k].toBr \in Seq(Messages)
    BY DEF EndsInv, Ends
  <2>2. CASE conn[k].br = "closed"
    <3>1. r.br = "closed"
      BY <2>2 DEF ClosedByDp, Free
    <3> QED
      BY <3>1 DEF Fits
  <2>3. CASE conn[k].br # "closed"
    <3>1. PICK q \in Flushed(conn[k].toBr) :
            r = [conn[k] EXCEPT !.d = FALSE, !.toD = <<>>, !.toBr = q]
      BY <2>3, Zenon DEF ClosedByDp
    <3>2. q \in Seq(Messages)
      BY <2>1, FlushedType
    <3>3. r.br = conn[k].br /\ r.d = FALSE /\ r.toD = <<>> /\ r.toBr = q
      BY <2>1, <3>1 DEF Ends
    <3>4. /\ None(conn[k].toBr, "counted") => None(q, "counted")
          /\ \A x : Sole(conn[k].toBr, "counted", x) => Sole(q, "counted", x)
      BY <2>1, TravelFlushed
    <3>5. None(<<>>, "counters") /\ \A x : Sole(<<>>, "counters", x)
      BY NoneTravel
    <3>6. /\ Clear(conn[k]) => Clear(r)
          /\ \A x : Carries(conn[k], x) => Carries(r, x)
      BY <3>3, <3>4, <3>5 DEF Clear, Carries
    <3> QED
      BY <1>2, <3>3, <3>6 DEF Fits
  <2> QED
    BY <2>2, <2>3
<1> QED
  BY <1>1, <1>2

(* The client of the request that is pending *)
LEMMA PendingClient ==
  ASSUME WaitInv, stats # <<>>
  PROVE  /\ stats[1] \in StatsType /\ stats = <<stats[1]>>
         /\ StatsClients = {stats[1].client} \ {Nobody}
<1>1. PICK s \in StatsType : stats = <<s>>
  BY DEF WaitInv
<1>2. stats[1] = s
  BY <1>1
<1>3. StatsClients = {s.client} \ {Nobody}
  BY <1>1, StatsOne DEF StatsClients, ClientsOf
<1> QED
  BY <1>1, <1>2, <1>3

LEMMA ToldStill ==
  ASSUME ToldInv, stats' = stats \/ stats' = <<>>, client' = client
  PROVE  ToldInv'
BY Zenon DEF ToldInv

(* Clients are answered: with counters only if they asked for them. *)
LEMMA ToldAnswer ==
  ASSUME WaitInv, ToldInv, NEW S \in SUBSET Clients, NEW a, NEW arg, Answer(S, a, arg),
         a = "counters" => \A c \in S : Asked(c) = arg,
         stats' = <<>> \/ (stats' = stats /\ S \cap StatsClients = {})
  PROVE  ToldInv'
<1>1. /\ \A c \in S : client'[c] = Told(c, a, arg)
      /\ \A c \in Clients \ S : client'[c] = client[c]
  BY DEF Answer
<1>2. stats' # <<>> /\ stats'[1].client # Nobody =>
        client'[stats'[1].client].discr = stats'[1].discr
  <2> SUFFICES ASSUME stats' # <<>>, stats'[1].client # Nobody
               PROVE  client'[stats'[1].client].discr = stats'[1].discr
    OBVIOUS
  <2>1. stats' = stats /\ S \cap StatsClients = {}
    OBVIOUS
  <2>2. stats[1].client \in StatsClients
    BY <2>1, PendingClient
  <2>3. stats[1].client \in Clients \ S
    BY <2>1, <2>2, PendingClient DEF StatsType
  <2> QED
    BY <1>1, <2>1, <2>3 DEF ToldInv
<1>3. ASSUME NEW c \in Clients, NEW i \in 1 .. Len(client'[c].ans)
      PROVE  client'[c].ans[i] # <<"counters", FALSE>>
  <2>1. CASE c \notin S
    BY <1>1, <1>3, <2>1, Zenon DEF ToldInv
  <2>2. CASE c \in S
    <3> DEFINE b == arg = Nobody \/ Asked(c) = arg
               q == client[c].ans
    <3>1. client'[c].ans = Append(q, <<a, b>>)
      <4> DEFINE p == Append(q, <<a, b>>)
      <4>1. Told(c, a, arg) = [waits |-> "no", discr |-> 0, ans |-> p]
        BY DEF Told
      <4> HIDE DEF p
      <4>2. client'[c].ans = p
        BY <1>1, <2>2, <4>1
      <4> QED
        BY <4>2 DEF p
    <3>2. a = "counters" => b
      BY <2>2
    <3>3. b \in BOOLEAN
      OBVIOUS
    <3>4. q \in Seq({"error", "sent", "echo", "counters"} \X BOOLEAN)
      BY DEF WaitInv, Requests
    <3>5. \A j \in 1 .. Len(q) : q[j] # <<"counters", FALSE>>
      BY Zenon DEF ToldInv
    <3> HIDE DEF b, q
    <3>6. CASE i \in 1 .. Len(q)
      <4>1. client'[c].ans[i] = q[i]
        BY <3>1, <3>4, <3>6
      <4> QED
        BY <3>5, <3>6, <4>1, Zenon
    <3>7. CASE i \notin 1 .. Len(q)
      <4>1. client'[c].ans[i] = <<a, b>>
        BY <1>3, <3>1, <3>4, <3>7
      <4>2. <<a, b>> # <<"counters", FALSE>>
        BY <3>2, <3>3, Zenon
      <4> QED
        BY <4>1, <4>2, Zenon
    <3> QED
      BY <3>6, <3>7, Zenon
  <2> QED
    BY <2>1, <2>2, Zenon
<1> QED
  BY <1>2, <1>3, Zenon DEF ToldInv

LEMMA FlightLeave ==
  ASSUME IInv, FlightInv, NEW c \in Clients, Leave(c)
  PROVE  FlightInv'
<1>1. WaitInv /\ ToldInv /\ \A k \in Conns : Fits(conn[k], stats)
  BY DEF IInv, FlightInv
<1>2. /\ stats' = StatsWithout(c)
      /\ client' = [client EXCEPT ![c].waits = "gone", ![c].discr = 0]
      /\ conn' = conn
  BY DEF Leave
<1>3. /\ client'[c].ans = client[c].ans
      /\ \A e \in Clients \ {c} : client'[e] = client[e]
  BY <1>1, <1>2 DEF WaitInv, Requests
<1>4. CASE stats = <<>>
  <2>1. stats' = <<>>
    BY <1>2, <1>4 DEF StatsWithout
  <2>2. \A e \in Clients : client'[e].ans = client[e].ans
    BY <1>3
  <2>3. ToldInv'
    BY <1>1, <2>1, <2>2, Zenon DEF ToldInv
  <2> QED
    BY <1>1, <1>2, <1>4, <2>1, <2>3 DEF FlightInv
<1>5. CASE stats # <<>>
  <2> DEFINE s == stats[1]
  <2>1. s \in StatsType /\ stats = <<s>>
    BY <1>1, <1>5, PendingClient
  <2>2. PICK u \in StatsType :
          /\ stats' = <<u>> /\ u.discr = s.discr
          /\ u.client # Nobody => u.client = s.client /\ u.client \in Clients \ {c}
    <3>1. CASE s.client = c
      <4> DEFINE u == [s EXCEPT !.client = Nobody]
      <4>1. u \in StatsType /\ u.discr = s.discr /\ u.client = Nobody
        BY <2>1 DEF StatsType
      <4>2. stats' = <<u>>
        BY <1>2, <1>5, <3>1 DEF StatsWithout
      <4> HIDE DEF u
      <4> QED
        BY <4>1, <4>2
    <3>2. CASE s.client # c
      <4>1. stats' = <<s>>
        BY <1>2, <2>1, <3>2 DEF StatsWithout
      <4> QED
        BY <2>1, <3>2, <4>1 DEF StatsType
    <3> QED
      BY <3>1, <3>2
  <2>3. stats' # <<>> /\ stats'[1] = u
    BY <2>2
  <2>4. \A k \in Conns : Fits(conn'[k], stats')
    BY <1>1, <1>2, <1>5, <2>2, <2>3 DEF Fits
  <2>5. u.client # Nobody => client'[u.client].discr = u.discr
    BY <1>1, <1>3, <1>5, <2>2 DEF ToldInv
  <2>6. \A e \in Clients : client'[e].ans = client[e].ans
    BY <1>3
  <2>7. ToldInv'
    BY <1>1, <2>3, <2>5, <2>6, Zenon DEF ToldInv
  <2> QED
    BY <2>4, <2>7 DEF FlightInv
<1> QED
  BY <1>4, <1>5

LEMMA FlightConnect ==
  ASSUME IInv, FlightInv, NEW dp \in Dps, NEW k \in Conns, DpConnect(dp, k)
  PROVE  FlightInv'
<1> DEFINE r == [Free EXCEPT !.dp = dp, !.d = TRUE, !.br = "backlog"]
<1>1. r.br = "backlog" /\ r.toD = <<>> /\ r.toBr = <<>>
  BY DEF Free
<1>2. conn' = [conn EXCEPT ![k] = r] /\ UNCHANGED <<stats, client>>
  BY DEF DpConnect
<1> HIDE DEF r
<1>3. Clear(r)
  BY <1>1, NoneTravel DEF Clear
<1>4. Fits(r, stats')
  BY <1>1, <1>3 DEF Fits
<1>5. \A j \in Conns : Fits(conn'[j], stats')
  BY <1>2, <1>4, EndStep, Zenon DEF IInv
<1>6. ToldInv'
  BY <1>2, ToldStill DEF FlightInv
<1> QED
  BY <1>5, <1>6 DEF FlightInv

LEMMA FlightDpClose ==
  ASSUME IInv, FlightInv, NEW dp \in Dps, bfdd[dp] # Nobody, DpClose(dp)
  PROVE  FlightInv'
<1>1. PICK k \in Conns : k = bfdd[dp]
  BY DEF IInv, EndsInv, Procs
<1>2. PICK r \in ClosedByDp(k) : conn' = [conn EXCEPT ![k] = r]
  BY <1>1, Zenon DEF DpClose
<1>3. /\ stats' = stats /\ Answer(Waiting(dp), "error", Nobody)
      /\ dp # Bridge /\ dp \in Procs /\ EndsInv /\ WaitInv /\ ToldInv
  BY LinkAssumption DEF DpClose, IInv, FlightInv, Procs
<1>4. Fits(r, stats')
  BY <1>3, ClosedFits DEF FlightInv
<1>5. \A j \in Conns : Fits(conn'[j], stats')
  BY <1>2, <1>3, <1>4, EndStep, Zenon
<1> DEFINE S == Waiting(dp)
<1>6. S \in SUBSET Clients /\ S \cap StatsClients = {}
  BY <1>3, WaitingAre DEF Waiting
<1>7. Answer(S, "error", Nobody)
  BY <1>3
<1> HIDE DEF S
<1>8. ToldInv'
  BY <1>3, <1>6, <1>7, ToldAnswer
<1> QED
  BY <1>5, <1>8 DEF FlightInv

LEMMA FlightBrClose ==
  ASSUME IInv, FlightInv, bfdd[Bridge] # Nobody, BrClose
  PROVE  stats' = <<>> /\ ToldInv'
<1>1. /\ WaitInv /\ ToldInv /\ Bridge \in Procs
      /\ stats' = <<>> /\ Answer(Waiting(Bridge), "error", Nobody)
  BY DEF BrClose, IInv, FlightInv, Procs
<1> DEFINE S == Waiting(Bridge)
<1>2. S \in SUBSET Clients
  BY <1>1, WaitingAre DEF Waiting
<1>3. Answer(S, "error", Nobody)
  BY <1>1
<1> HIDE DEF S
<1> QED
  BY <1>1, <1>2, <1>3, ToldAnswer

LEMMA FlightBrClientClose ==
  ASSUME IInv, FlightInv, bfdd[Bridge] # Nobody, BrClientClose
  PROVE  FlightInv'
<1>1. PICK k \in Conns : k = bfdd[Bridge]
  BY DEF IInv, EndsInv, Procs
<1>2. PICK r \in ClosedByBr(k) : conn' = [conn EXCEPT ![k] = r]
  BY <1>1, Zenon DEF BrClientClose
<1>3. stats' = <<>> /\ ToldInv'
  BY FlightBrClose DEF BrClientClose
<1>4. Fits(r, stats')
  BY ClosedFits DEF IInv
<1>5. \A j \in Conns : Fits(conn'[j], stats')
  BY <1>1, <1>2, <1>4, EndStep, Zenon DEF IInv
<1> QED
  BY <1>3, <1>5 DEF FlightInv

(* The connection that is attached has been clear since it was made. *)
LEMMA FlightAttached ==
  ASSUME NEW cn \in [Conns -> Ends], NEW k \in Conns, cn[k].br = "backlog",
         \A j \in Conns : cn[j].br # "open" /\ Fits(cn[j], <<>>),
         Attached(k, cn)
  PROVE  \A j \in Conns : Fits(conn'[j], <<>>)
<1>1. cn[k] \in Ends /\ Clear(cn[k])
  BY DEF Fits
<1>2. CASE conn' = [cn EXCEPT ![k].br = "open"]
  <2> DEFINE r == [cn[k] EXCEPT !.br = "open"]
  <2>1. r.br = "open" /\ r.toD = cn[k].toD /\ r.toBr = cn[k].toBr
    BY <1>1 DEF Ends
  <2>2. conn' = [cn EXCEPT ![k] = r]
    BY <1>2
  <2> HIDE DEF r
  <2>3. Clear(r)
    BY <1>1, <2>1 DEF Clear
  <2>4. Fits(r, <<>>)
    BY <2>1, <2>3 DEF Fits
  <2> QED
    BY <2>2, <2>4
<1>3. ASSUME NEW r, conn' = [cn EXCEPT ![k] = r], r.br = "closed"
      PROVE  \A j \in Conns : Fits(conn'[j], <<>>)
  <2>1. Fits(r, <<>>)
    BY <1>3 DEF Fits
  <2> QED
    BY <1>3, <2>1
<1>4. CASE conn' = [cn EXCEPT ![k] = IF @.d THEN [@ EXCEPT !.br = "closed",
                                                            !.toBr = <<>>]
                                     ELSE Free]
  <2> DEFINE r == IF cn[k].d THEN [cn[k] EXCEPT !.br = "closed", !.toBr = <<>>]
                  ELSE Free
  <2>1. r.br = "closed"
    BY <1>1 DEF Ends, Free
  <2>2. conn' = [cn EXCEPT ![k] = r]
    BY <1>4
  <2> HIDE DEF r
  <2> QED
    BY <1>3, <2>1, <2>2, ZenonT(60)
<1> QED
  BY <1>2, <1>4 DEF Attached

LEMMA FlightAccept ==
  ASSUME IInv, FlightInv, Accept
  PROVE  FlightInv'
<1>1. EndsInv /\ WaitInv /\ ToldInv /\ \A j \in Conns : Fits(conn[j], stats)
  BY DEF IInv, FlightInv
<1>2. PICK k \in Conns : k = Head(backlog) /\ conn[k].br = "backlog"
  <2>1. backlog # <<>>
    BY DEF Accept
  <2>2. Head(backlog) \in Conns /\ Head(backlog) = backlog[1] /\ 1 \in 1 .. Len(backlog)
    BY <1>1, <2>1 DEF EndsInv
  <2> QED
    BY <1>1, <2>2 DEF EndsInv
<1> DEFINE old == bfdd[Bridge]
<1>3. CASE old = Nobody
  <2>1. Attached(k, conn) /\ UNCHANGED <<stats, client>>
    BY <1>2, <1>3 DEF Accept
  <2>2. /\ conn \in [Conns -> Ends] /\ stats = <<>>
        /\ \A j \in Conns : conn[j].br # "open"
    BY <1>1, <1>3, LinkAssumption DEF EndsInv, WaitInv
  <2>3. \A j \in Conns : Fits(conn'[j], <<>>)
    BY <1>1, <1>2, <2>1, <2>2, FlightAttached
  <2>4. ToldInv'
    BY <1>1, <2>1, ToldStill
  <2> QED
    BY <2>1, <2>2, <2>3, <2>4 DEF FlightInv
<1>4. CASE old # Nobody
  <2>1. PICK r \in ClosedByBr(old) : Attached(k, [conn EXCEPT ![old] = r])
    BY <1>2, <1>4, ZenonT(60) DEF Accept
  <2>2. stats' = <<>> /\ ToldInv'
    BY <1>4, FlightBrClose DEF Accept
  <2>3. old \in Conns
    BY <1>1, <1>4 DEF EndsInv, Procs
  <2>4. r \in Ends /\ r.br = "closed" /\ Fits(r, <<>>)
    BY <1>1, <2>3, BrEndCloses, ClosedFits
  <2> DEFINE cn == [conn EXCEPT ![old] = r]
  <2>5. /\ cn \in [Conns -> Ends] /\ cn[old] = r
        /\ \A j \in Conns : j # old => cn[j] = conn[j]
    BY <1>1, <2>3, <2>4 DEF EndsInv
  <2>6. conn[old].br = "open" /\ \A j \in Conns : j # old => conn[j].br # "open"
    BY <1>1, <2>3 DEF EndsInv
  <2>7. Attached(k, cn)
    BY <2>1
  <2> HIDE DEF cn, old
  <2>8. cn[k].br = "backlog"
    BY <1>2, <2>5, <2>6
  <2>9. \A j \in Conns : j # old => Fits(conn[j], <<>>)
    BY <1>1, <2>6 DEF Fits
  <2>10. \A j \in Conns : cn[j].br # "open" /\ Fits(cn[j], <<>>)
    BY <2>4, <2>5, <2>6, <2>9
  <2>11. \A j \in Conns : Fits(conn'[j], <<>>)
    BY <2>5, <2>7, <2>8, <2>10, FlightAttached
  <2> QED
    BY <2>2, <2>11 DEF FlightInv
<1> QED
  BY <1>3, <1>4

(* An idle client is answered at once. *)
LEMMA ToldAtOnce ==
  ASSUME IInv, FlightInv, NEW c \in Clients, Idle(c), NEW a \in {"error", "sent"},
         Answer({c}, a, Nobody), stats' = stats
  PROVE  ToldInv'
<1>1. WaitInv /\ ToldInv /\ {c} \in SUBSET Clients
  BY DEF IInv, FlightInv
<1>2. {c} \cap StatsClients = {}
  BY <1>1 DEF Idle, WaitInv
<1> QED
  BY <1>1, <1>2, ToldAnswer

LEMMA FlightRefused ==
  ASSUME IInv, FlightInv, NEW c \in Clients, Idle(c), Refused(c)
  PROVE  FlightInv'
<1>1. UNCHANGED <<conn, stats>> /\ Answer({c}, "error", Nobody)
  BY DEF Refused
<1>2. ToldInv'
  BY <1>1, ToldAtOnce
<1> QED
  BY <1>1, <1>2 DEF FlightInv

(* A message that neither asks for counters nor has them is sent. *)
LEMMA FlightSends ==
  ASSUME IInv, FlightInv, NEW p \in Procs, bfdd[p] # Nobody, NEW m \in Messages,
         m.type \notin {"counters", "counted"}, Sends(p, m), stats' = stats
  PROVE  \A j \in Conns : Fits(conn'[j], stats')
<1>1. PICK k \in Conns : k = bfdd[p]
  BY DEF IInv, EndsInv
<1> DEFINE r == IF p = Bridge THEN ToD(conn[k], m) ELSE ToBr(conn[k], m)
<1>2. conn[k] \in Ends /\ Fits(conn[k], stats)
  BY DEF IInv, EndsInv, FlightInv
<1>3. Fits(r, stats')
  BY <1>2, FitsToD, FitsToBr
<1>4. conn' = [conn EXCEPT ![k] = r]
  BY <1>1 DEF Sends
<1> HIDE DEF r
<1> QED
  BY <1>3, <1>4, EndStep, ZenonT(60) DEF IInv

LEMMA FlightBrSession ==
  ASSUME IInv, FlightInv, NEW c \in Clients, BrSession(c)
  PROVE  FlightInv'
<1>1. Idle(c)
  BY DEF BrSession, Asks
<1>2. CASE Refused(c)
  BY <1>1, <1>2, FlightRefused
<1>3. CASE /\ bfdd[Bridge] # Nobody
           /\ Sends(Bridge, Msg("session", 0))
           /\ Answer({c}, "sent", Nobody)
           /\ UNCHANGED <<stats, echo>>
  <2> DEFINE m == Msg("session", 0)
  <2>1. m \in Messages /\ m.type = "session" /\ Bridge \in Procs
    BY DEF Msg, Messages, Procs
  <2>2. Sends(Bridge, m)
    BY <1>3
  <2> HIDE DEF m
  <2>3. \A j \in Conns : Fits(conn'[j], stats')
    BY <1>3, <2>1, <2>2, FlightSends
  <2>4. ToldInv'
    BY <1>1, <1>3, ToldAtOnce
  <2> QED
    BY <2>3, <2>4 DEF FlightInv
<1> QED
  BY <1>2, <1>3 DEF BrSession

LEMMA FlightEcho ==
  ASSUME IInv, FlightInv, NEW c \in Clients, NEW p \in Procs, Echo(c, p)
  PROVE  FlightInv'
<1>1. Idle(c)
  BY DEF Echo, Asks
<1>2. CASE Refused(c)
  BY <1>1, <1>2, FlightRefused
<1>3. CASE ~Refused(c)
  <2>0. /\ bfdd[p] # Nobody
        /\ Sends(p, Msg("echo", c))
        /\ client' = [client EXCEPT ![c].waits = "echo"]
        /\ stats' = stats
    BY <1>3 DEF Echo
  <2> DEFINE m == Msg("echo", c)
  <2>1. m \in Messages /\ m.type = "echo" /\ Sends(p, m)
    BY <2>0 DEF Msg, Messages
  <2> HIDE DEF m
  <2>2. \A j \in Conns : Fits(conn'[j], stats')
    BY <2>0, <2>1, FlightSends
  <2>3. WaitInv /\ ToldInv
    BY DEF IInv, FlightInv
  <2>4. \A e \in Clients :
          client'[e].ans = client[e].ans /\ client'[e].discr = client[e].discr
    BY <2>0, <2>3 DEF WaitInv, Requests
  <2>5. stats # <<>> /\ stats[1].client # Nobody => stats[1].client \in Clients
    BY <2>3, PendingClient DEF StatsType
  <2>6. ToldInv'
    <3>1. stats' # <<>> /\ stats'[1].client # Nobody =>
            client'[stats'[1].client].discr = stats'[1].discr
      BY <2>0, <2>3, <2>4, <2>5 DEF ToldInv
    <3>2. \A e \in Clients : client'[e].ans = client[e].ans
      BY <2>4
    <3>3. \A e \in Clients : \A i \in 1 .. Len(client'[e].ans) :
            client'[e].ans[i] # <<"counters", FALSE>>
      BY <2>3, <3>2, Zenon DEF ToldInv
    <3> QED
      BY <3>1, <3>3, Zenon DEF ToldInv
  <2> QED
    BY <2>2, <2>6 DEF FlightInv
<1> QED
  BY <1>2, <1>3

LEMMA FlightBrStats ==
  ASSUME IInv, FlightInv, NEW c \in Clients, NEW discr \in Discrs, BrStats(c, discr)
  PROVE  FlightInv'
<1>1. Idle(c)
  BY DEF BrStats, Asks
<1>2. CASE Refused(c)
  BY <1>1, <1>2, FlightRefused
<1>3. CASE ~Refused(c)
  <2>0. /\ bfdd[Bridge] # Nobody
        /\ stats = <<>>
        /\ Sends(Bridge, Msg("counters", discr))
        /\ stats' = <<[client |-> c, discr |-> discr]>>
        /\ client' = [client EXCEPT ![c].waits = "stats", ![c].discr = discr]
    BY <1>3 DEF BrStats
  <2>1. PICK k \in Conns : k = bfdd[Bridge]
    BY <2>0 DEF IInv, EndsInv, Procs
  <2> DEFINE m == Msg("counters", discr)
             s == [client |-> c, discr |-> discr]
  <2>2. /\ m \in Messages /\ m.type = "counters" /\ m.arg = discr
        /\ s.discr = discr /\ s.client = c
    BY DEF Msg, Messages
  <2>3. conn' = [conn EXCEPT ![k] = ToD(conn[k], m)] /\ stats' = <<s>>
    BY <2>0, <2>1 DEF Sends
  <2> HIDE DEF m, s
  <2>4. conn[k] \in Ends /\ conn[k].br = "open" /\ Fits(conn[k], <<>>)
    BY <2>0, <2>1 DEF IInv, EndsInv, FlightInv
  <2>5. Fits(ToD(conn[k], m), <<s>>)
    BY <2>2, <2>4, FitsAsked
  <2>6. \A j \in Conns : Fits(conn'[j], stats')
    BY <2>1, <2>3, <2>5, EndStep, Zenon DEF IInv
  <2>7. WaitInv /\ ToldInv /\ stats' # <<>> /\ stats'[1] = s
    BY <2>3 DEF IInv, FlightInv
  <2>8. /\ client'[c].discr = discr
        /\ \A e \in Clients : client'[e].ans = client[e].ans
    BY <2>0, <2>7 DEF WaitInv, Requests
  <2>9. ToldInv'
    BY <2>2, <2>7, <2>8, ZenonT(60) DEF ToldInv
  <2> QED
    BY <2>6, <2>9 DEF FlightInv
<1> QED
  BY <1>2, <1>3

LEMMA FlightBrMessage ==
  ASSUME IInv, FlightInv, BrMessage
  PROVE  FlightInv'
<1>1. PICK k \in Conns : k = bfdd[Bridge]
  BY DEF IInv, EndsInv, BrMessage, Procs
<1> DEFINE e == conn[k]
           m == Head(e.toBr)
           taken == [e EXCEPT !.toBr = Tail(@)]
           reply == Msg("echoed", m.arg)
<1>2. /\ e \in Ends /\ e.br = "open" /\ e.toBr # <<>> /\ Fits(e, stats)
      /\ EndsInv /\ WaitInv /\ ToldInv /\ Bridge \in Procs
  BY <1>1 DEF IInv, EndsInv, BrMessage, FlightInv, Procs
<1>3. m \in Messages /\ taken \in Ends
  BY <1>2, Dequeued, Zenon
<1>4. /\ m.type # "counted" => Fits(taken, stats)
      /\ m.type = "counted" =>
           stats # <<>> /\ m.arg = stats[1].discr /\ Fits(taken, <<>>)
  BY <1>2, FitsTakenBr, ZenonT(60)
<1>5. reply \in Messages /\ reply.type = "echoed"
  BY <1>3 DEF Msg, Messages
<1>6. \/ /\ m.type = "echoed"
         /\ EchoAnswers(Bridge, m)
         /\ conn' = [conn EXCEPT ![k] = taken]
         /\ UNCHANGED stats
      \/ /\ m.type = "counted"
         /\ CountersAnswer(m)
         /\ conn' = [conn EXCEPT ![k] = taken]
      \/ /\ m.type = "echo"
         /\ \/ conn' = [conn EXCEPT ![k] = ToD(taken, reply)]
            \/ conn' = [conn EXCEPT ![k] = [taken EXCEPT !.lost = TRUE]]
         /\ UNCHANGED <<stats, client>>
  BY <1>1 DEF BrMessage
<1> HIDE DEF e, m, taken, reply
<1>7. CASE /\ m.type = "echoed"
           /\ EchoAnswers(Bridge, m)
           /\ conn' = [conn EXCEPT ![k] = taken]
           /\ UNCHANGED stats
  <2>1. \A j \in Conns : Fits(conn'[j], stats')
    BY <1>2, <1>4, <1>7, EndStep, ZenonT(60)
  <2>2. /\ echo[Bridge] \in SUBSET Clients /\ echo[Bridge] \cap StatsClients = {}
        /\ Answer(echo[Bridge], "echo", m.arg)
    BY <1>2, <1>7, WaitingAre DEF EchoAnswers
  <2>3. ToldInv'
    BY <1>2, <1>7, <2>2, ToldAnswer
  <2> QED
    BY <2>1, <2>3 DEF FlightInv
<1>8. CASE /\ m.type = "counted"
           /\ CountersAnswer(m)
           /\ conn' = [conn EXCEPT ![k] = taken]
  <2>1. stats' = <<>> /\ Answer(StatsClients, "counters", m.arg)
    BY <1>8 DEF CountersAnswer
  <2>2. \A j \in Conns : Fits(conn'[j], stats')
    BY <1>1, <1>2, <1>4, <1>8, <2>1, EndStep, Zenon
  <2>3. StatsClients \in SUBSET Clients
    BY <1>2, WaitingAre
  <2>4. ASSUME NEW c \in StatsClients PROVE Asked(c) = m.arg
    <3>1. c = stats[1].client /\ c # Nobody
      BY <1>2, <1>4, <1>8, PendingClient
    <3>2. client[c].waits = "stats"
      BY <1>2, WaitingAre
    <3> QED
      BY <1>2, <1>4, <1>8, <3>1, <3>2 DEF Asked, ToldInv
  <2>5. ToldInv'
    BY <1>2, <2>1, <2>3, <2>4, ToldAnswer
  <2> QED
    BY <2>2, <2>5 DEF FlightInv
<1>9. CASE /\ m.type = "echo"
           /\ \/ conn' = [conn EXCEPT ![k] = ToD(taken, reply)]
              \/ conn' = [conn EXCEPT ![k] = [taken EXCEPT !.lost = TRUE]]
           /\ UNCHANGED <<stats, client>>
  <2>1. Fits(ToD(taken, reply), stats) /\ Fits([taken EXCEPT !.lost = TRUE], stats)
    BY <1>3, <1>4, <1>5, <1>9, FitsToD, FitsLost
  <2>2. PICK r : conn' = [conn EXCEPT ![k] = r] /\ Fits(r, stats')
    BY <1>9, <2>1, Zenon
  <2>3. \A j \in Conns : Fits(conn'[j], stats')
    BY <1>2, <1>9, <2>2, EndStep, Zenon
  <2>4. ToldInv'
    BY <1>2, <1>9, ToldStill
  <2> QED
    BY <2>3, <2>4 DEF FlightInv
<1> QED
  BY <1>6, <1>7, <1>8, <1>9

LEMMA FlightDpMessage ==
  ASSUME IInv, FlightInv, NEW dp \in Dps, DpMessage(dp)
  PROVE  FlightInv'
<1>1. PICK k \in Conns : k = bfdd[dp]
  BY DEF IInv, EndsInv, DpMessage, Procs
<1> DEFINE e == conn[k]
           m == Head(e.toD)
           taken == [e EXCEPT !.toD = Tail(@)]
           lost == [taken EXCEPT !.lost = TRUE]
<1>2. /\ e \in Ends /\ e.toD # <<>> /\ Fits(e, stats)
      /\ EndsInv /\ WaitInv /\ ToldInv /\ dp \in Procs
  BY <1>1 DEF IInv, EndsInv, DpMessage, FlightInv, Procs
<1>3. m \in Messages /\ taken \in Ends
  BY <1>2, Dequeued, Zenon
<1>4. /\ m.type # "counters" => Fits(taken, stats)
      /\ m.type = "counters" =>
           Fits(ToBr(taken, Msg("counted", m.arg)), stats) /\ Fits(lost, stats)
  BY <1>2, FitsTakenD, Zenon
<1>5. Msg("echoed", m.arg) \in Messages /\ Msg("echoed", m.arg).type = "echoed"
  BY <1>3 DEF Msg, Messages
<1>6. /\ stats' = stats
      /\ \/ /\ m.type = "echo"
            /\ \/ conn' = [conn EXCEPT ![k] = ToBr(taken, Msg("echoed", m.arg))]
               \/ conn' = [conn EXCEPT ![k] = lost]
            /\ UNCHANGED client
         \/ /\ m.type = "counters"
            /\ \/ conn' = [conn EXCEPT ![k] = ToBr(taken, Msg("counted", m.arg))]
               \/ conn' = [conn EXCEPT ![k] = lost]
            /\ UNCHANGED client
         \/ /\ m.type = "echoed"
            /\ EchoAnswers(dp, m)
            /\ conn' = [conn EXCEPT ![k] = taken]
         \/ /\ m.type = "session"
            /\ conn' = [conn EXCEPT ![k] = taken]
            /\ UNCHANGED client
  BY <1>1, Zenon DEF DpMessage
<1>7. m.type # "counters" =>
        /\ Fits(ToBr(taken, Msg("echoed", m.arg)), stats)
        /\ Fits(lost, stats)
  <2> DEFINE reply == Msg("echoed", m.arg)
  <2>1. reply \in Messages /\ reply.type # "counted"
    BY <1>5
  <2> HIDE DEF taken, reply
  <2>2. m.type # "counters" => Fits(ToBr(taken, reply), stats)
    BY <1>3, <1>4, <2>1, FitsToBr
  <2>3. m.type # "counters" => Fits([taken EXCEPT !.lost = TRUE], stats)
    BY <1>3, <1>4, FitsLost
  <2> QED
    BY <2>2, <2>3 DEF reply
<1> HIDE DEF e, m, taken, lost
<1>8. PICK r : conn' = [conn EXCEPT ![k] = r] /\ Fits(r, stats')
  BY <1>4, <1>6, <1>7
<1>9. \A j \in Conns : Fits(conn'[j], stats')
  BY <1>2, <1>6, <1>8, EndStep, Zenon
<1>10. CASE UNCHANGED client
  <2>1. ToldInv'
    BY <1>2, <1>6, <1>10, ToldStill
  <2> QED
    BY <1>9, <2>1 DEF FlightInv
<1>11. CASE EchoAnswers(dp, m)
  <2>1. /\ echo[dp] \in SUBSET Clients /\ echo[dp] \cap StatsClients = {}
        /\ Answer(echo[dp], "echo", m.arg)
    BY <1>2, <1>11, WaitingAre DEF EchoAnswers
  <2>2. ToldInv'
    BY <1>2, <1>6, <2>1, ToldAnswer
  <2> QED
    BY <1>9, <2>2 DEF FlightInv
<1> QED
  BY <1>6, <1>10, <1>11

LEMMA NextFlight == IInv /\ FlightInv /\ [Next]_vars => FlightInv'
<1> SUFFICES ASSUME IInv, FlightInv, [Next]_vars PROVE FlightInv'
  OBVIOUS
<1>1. ASSUME NEW c \in Clients, Leave(c) PROVE FlightInv'
  BY <1>1, FlightLeave
<1>2. ASSUME NEW dp \in Dps, NEW k \in Conns, DpConnect(dp, k) PROVE FlightInv'
  BY <1>2, FlightConnect
<1>3. ASSUME NEW dp \in Dps, DpDisconnect(dp) PROVE FlightInv'
  BY <1>3, FlightDpClose DEF DpDisconnect
<1>4. CASE Accept
  BY <1>4, FlightAccept
<1>5. ASSUME NEW c \in Clients, BrSession(c) PROVE FlightInv'
  BY <1>5, FlightBrSession
<1>6. ASSUME NEW c \in Clients, NEW discr \in Discrs, BrStats(c, discr) PROVE FlightInv'
  BY <1>6, FlightBrStats
<1>7. ASSUME NEW c \in Clients, NEW p \in Procs, Echo(c, p) PROVE FlightInv'
  BY <1>7, FlightEcho
<1>8. CASE BrMessage
  BY <1>8, FlightBrMessage
<1>9. ASSUME NEW dp \in Dps, DpMessage(dp) PROVE FlightInv'
  BY <1>9, FlightDpMessage
<1>10. CASE BrHup \/ BrBroken \/ AcceptFails
  BY <1>10, FlightBrClientClose DEF BrHup, BrBroken, AcceptFails
<1>11. ASSUME NEW dp \in Dps, DpHup(dp) \/ DpBroken(dp) PROVE FlightInv'
  BY <1>11, FlightDpClose DEF DpHup, DpBroken
<1>12. CASE UNCHANGED vars
  <2>1. UNCHANGED <<conn, stats, client>>
    BY <1>12 DEF vars
  <2>2. ToldInv'
    BY <2>1, ToldStill DEF FlightInv
  <2> QED
    BY <2>1, <2>2 DEF FlightInv
<1> QED
  BY <1>1, <1>2, <1>3, <1>4, <1>5, <1>6, <1>7, <1>8, <1>9, <1>10, <1>11, <1>12
  DEF Next

LEMMA InitFlight == Init => FlightInv
<1> SUFFICES ASSUME Init PROVE FlightInv
  OBVIOUS
<1>1. \A k \in Conns : conn[k].br = "closed"
  BY DEF Init, Free
<1>2. stats = <<>> /\ \A c \in Clients : client[c].ans = <<>>
  BY DEF Init, NewClient
<1>3. \A k \in Conns : Fits(conn[k], stats)
  BY <1>1 DEF Fits
<1>4. ToldInv
  <2>1. \A c \in Clients : \A i : i \notin 1 .. Len(client[c].ans)
    BY <1>2
  <2> QED
    BY <1>2, <2>1, Zenon DEF ToldInv
<1> QED
  BY <1>3, <1>4 DEF FlightInv

-----------------------------------------------------------------------------
(* Theorems *)

(* An open end is the one that its process knows: neither the bridge, when *)
(* it evicts a client for the next one, nor a daemon loses a connection or *)
(* keeps one that was closed.                                              *)
THEOREM NoEndIsLost == Spec => []EndsAreKnown
<1>1. IInv => EndsAreKnown
  <2> SUFFICES ASSUME IInv PROVE EndsAreKnown
    OBVIOUS
  <2>1. stats \in Seq(StatsType) /\ Len(stats) <= 1
    <3>1. <<>> \in Seq(StatsType) /\ Len(<<>>) <= 1
      OBVIOUS
    <3>2. \A s \in StatsType : <<s>> \in Seq(StatsType) /\ Len(<<s>>) <= 1
      OBVIOUS
    <3>3. stats = <<>> \/ \E s \in StatsType : stats = <<s>>
      BY DEF IInv, WaitInv
    <3>4. CASE stats = <<>>
      BY <3>1, <3>4
    <3>5. ASSUME NEW s \in StatsType, stats = <<s>>
          PROVE  stats \in Seq(StatsType) /\ Len(stats) <= 1
      BY <3>2, <3>5
    <3> QED
      BY <3>3, <3>4, <3>5
  <2>2. TypeOK
    BY <2>1 DEF IInv, EndsInv, WaitInv, TypeOK, StatsType
  <2>3. {k \in Conns : conn[k].br = "open"} = {bfdd[Bridge]} \ {Nobody}
    BY LinkAssumption DEF IInv, EndsInv, Procs
  <2>4. {k \in Conns : conn[k].br = "backlog"} = Range(backlog)
    BY DEF IInv, EndsInv, Range
  <2>5. \A dp \in Dps :
          {k \in Conns : conn[k].d /\ conn[k].dp = dp} = {bfdd[dp]} \ {Nobody}
    <3> SUFFICES ASSUME NEW dp \in Dps
                 PROVE  {k \in Conns : conn[k].d /\ conn[k].dp = dp}
                        = {bfdd[dp]} \ {Nobody}
      OBVIOUS
    <3>1. \A k \in Conns : conn[k].d /\ conn[k].dp = dp <=> k = bfdd[dp]
      BY DEF IInv, EndsInv
    <3>2. bfdd[dp] \in Conns \cup {Nobody} /\ Nobody \notin Conns
      BY LinkAssumption DEF IInv, EndsInv, Procs
    <3> QED
      BY <3>1, <3>2
  <2> QED
    BY <2>2, <2>3, <2>4, <2>5 DEF EndsAreKnown
<1> QED
  BY Inductive, <1>1, PTL

(* The requests that the bridge and the daemons remember are those of the  *)
(* clients that wait, and they have a connection to be answered on: a      *)
(* connection that goes away and a client that leaves are both accounted   *)
(* for, in whatever order they go.                                         *)
THEOREM NoClientIsForgotten == Spec => []WaitingIsRemembered
<1>1. IInv => WaitingIsRemembered
  <2> SUFFICES ASSUME IInv, NEW p \in Procs
               PROVE  /\ Waiting(p) = {c \in Clients :
                            At[c] = p /\ client[c].waits \in {"stats", "echo"}}
                      /\ bfdd[p] = Nobody => echo[p] = {} /\ (p = Bridge => stats = <<>>)
    BY DEF WaitingIsRemembered
  <2>1. WaitInv
    BY DEF IInv
  <2>2. Waiting(p) \subseteq Clients
    BY <2>1, WaitingAre DEF Waiting
  <2>3. \A c \in Clients :
          c \in Waiting(p) <=> At[c] = p /\ client[c].waits \in {"stats", "echo"}
    BY <2>1 DEF WaitInv, Waiting
  <2>4. bfdd[p] = Nobody => echo[p] = {} /\ (p = Bridge => stats = <<>>)
    BY <2>1 DEF WaitInv
  <2> QED
    BY <2>2, <2>3, <2>4
<1> QED
  BY Inductive, <1>1, PTL

(* No client is answered twice, and none after it has left: what is freed  *)
(* with the connection of a client is not used after.                      *)
THEOREM AnswersAreTimely == Spec => OneTimelyAnswer
<1>1. IInv /\ [Next]_vars => [Timely]_vars
  BY NextIInv
<1>2. [Timely]_vars =>
      [\A c \in Clients :
         client[c].waits = "gone" \/ client[c].ans # <<>>
         => client'[c].ans = client[c].ans]_vars
  BY DEF Timely
<1> QED
  BY Inductive, <1>1, <1>2, PTL DEF Spec, OneTimelyAnswer

(* The counters that arrive are those that br->stats waits for: one        *)
(* request or reply is in flight while it is set, and none while it is     *)
(* not, whatever was flushed, lost or evicted before.  So the bridge may   *)
(* answer without comparing discriminators.                                *)
THEOREM CountersMatch == Spec => []CountersArePending
<1>1. IInv /\ FlightInv => CountersArePending
  <2> SUFFICES ASSUME IInv, FlightInv PROVE CountersArePending
    OBVIOUS
  <2> DEFINE k == bfdd[Bridge]
             asked == Of(conn[k].toD, "counters")
             told == Of(conn[k].toBr, "counted")
  <2>1. ASSUME NEW c \in Clients
        PROVE  <<"counters", FALSE>> \notin Range(client[c].ans)
    <3>1. client[c].ans \in Seq({"error", "sent", "echo", "counters"} \X BOOLEAN)
      BY DEF IInv, WaitInv, Requests
    <3>2. DOMAIN client[c].ans = 1 .. Len(client[c].ans)
      BY <3>1, LenProperties, Zenon
    <3>3. \A i \in DOMAIN client[c].ans : client[c].ans[i] # <<"counters", FALSE>>
      BY <3>2, ZenonT(60) DEF FlightInv, ToldInv
    <3> QED
      BY <3>3, ZenonT(60) DEF Range
  <2>2. ASSUME k # Nobody, conn[k].d, ~conn[k].lost
        PROVE  IF stats = <<>> THEN asked = {} /\ told = {}
               ELSE \/ /\ told = {}
                       /\ \E i \in asked :
                            asked = {i} /\ conn[k].toD[i].arg = stats[1].discr
                    \/ /\ asked = {}
                       /\ \E i \in told :
                            told = {i} /\ conn[k].toBr[i].arg = stats[1].discr
    <3>1. k \in Conns /\ conn[k].br = "open" /\ Fits(conn[k], stats)
      BY <2>2 DEF IInv, EndsInv, FlightInv, Procs
    <3>2. /\ None(conn[k].toD, "counters") <=> asked = {}
          /\ None(conn[k].toBr, "counted") <=> told = {}
      BY ZenonT(60) DEF None, Of
    <3>3. \A x : Sole(conn[k].toD, "counters", x) =>
                   \A i \in asked : asked = {i} /\ conn[k].toD[i].arg = x
      BY DEF Sole, Of
    <3>4. \A x : Sole(conn[k].toBr, "counted", x) =>
                   \A i \in told : told = {i} /\ conn[k].toBr[i].arg = x
      BY DEF Sole, Of
    <3>5. CASE stats = <<>>
      BY <3>1, <3>2, <3>5, ZenonT(60) DEF Fits, Clear
    <3>6. CASE stats # <<>>
      <4>1. Carries(conn[k], stats[1].discr) /\ ~Clear(conn[k])
        BY <2>2, <3>1, <3>6 DEF Fits
      <4> HIDE DEF asked, told
      <4> QED
        BY <3>2, <3>3, <3>4, <3>6, <4>1, ZenonT(60) DEF Carries, Clear
    <3> QED
      BY <3>5, <3>6, ZenonT(60)
  <2> QED
    BY <2>1, <2>2, Zenon DEF CountersArePending
<1>2. IInv /\ FlightInv /\ [Next]_vars => IInv' /\ FlightInv'
  BY NextIInv, NextFlight
<1> QED
  BY InitIInv, InitFlight, <1>1, <1>2, PTL DEF Spec

=============================================================================
