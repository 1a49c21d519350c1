-------------------------------- MODULE Link --------------------------------
(***************************************************************************)
(* The BFDD protocol between a bridge (bbdd-br.c, the server) and the data *)
(* plane daemons that connect to it (bbdd-d.c, clients), with the clients  *)
(* of the control sockets of both, whose requests wait for an answer from  *)
(* the other end.  bbdd-bfdd.c is the part that the two have in common.    *)
(*                                                                         *)
(* Messages of a connection arrive in order.  Each end closes it on its    *)
(* own, and the other end notices only after it has read what was sent     *)
(* before.  A client makes one request per connection to a control socket; *)
(* its ECHO_REQUEST is told apart from others by its timestamp, for which  *)
(* the client itself stands.                                               *)
(***************************************************************************)
EXTENDS Integers, Sequences, Functions

CONSTANTS
  Bridge,    \* the bridge process
  Dps,       \* data plane daemons
  Clients,   \* clients of control sockets
  At,        \* the process that a client talks to
  Discrs,    \* discriminators that clients ask for
  Conns,     \* numbers of connections
  QMax,      \* messages in flight in one direction of a connection
  Nobody,    \* not a client, not a process
  Faults     \* which of FaultKinds the environment may produce

(***************************************************************************)
(* "mem":    a connection cannot be accepted or attached to                *)
(* "full":   a request cannot be queued for the other end                  *)
(* "reply":  a reply cannot be queued for the other end                    *)
(* "broken": a read fails, or a message that is too short is read          *)
(* "flush":  what is queued when a connection is closed may be lost        *)
(***************************************************************************)
FaultKinds == {"mem", "full", "reply", "broken", "flush"}

ASSUME LinkAssumption ==
  /\ Bridge \notin Dps
  /\ Nobody \notin Clients \cup Dps \cup Conns \cup {Bridge}
  /\ At \in [Clients -> Dps \cup {Bridge}]
  /\ Conns \subseteq Nat
  /\ QMax \in Nat \ {0}
  /\ Faults \subseteq FaultKinds

VARIABLES
  conn,     \* the connections: the daemon, whether its end is open, the
            \* state of the end of the bridge, messages in flight in both
            \* directions, and whether a reply could not be queued
  backlog,  \* connections that the bridge has not accepted yet
  bfdd,     \* the connection of each process, br->bfdd and d->bfdd
  stats,    \* br->stats, the session-stats request that is pending
  echo,     \* the clients in the echo_peers of each process
  client    \* what each client waits for, and the answers that it got

vars == <<conn, backlog, bfdd, stats, echo, client>>

Procs == Dps \cup {Bridge}

Free == [dp |-> Nobody, d |-> FALSE, br |-> "closed",
         toD |-> <<>>, toBr |-> <<>>, lost |-> FALSE]

NewClient == [waits |-> "no", discr |-> 0, ans |-> <<>>]

Msg(type, arg) == [type |-> type, arg |-> arg]

Init ==
  /\ conn = [k \in Conns |-> Free]
  /\ backlog = <<>>
  /\ bfdd = [p \in Procs |-> Nobody]
  /\ stats = <<>>
  /\ echo = [p \in Procs |-> {}]
  /\ client = [c \in Clients |-> NewClient]

-----------------------------------------------------------------------------
(* Clients.  The bbdd_util_jrpc_respond functions queue the answer and     *)
(* mark the client as done: its connection closes once it has the answer.  *)
(* An answer about arg is recorded with whether the client asked for it.   *)

Asked(c) == IF client[c].waits = "echo" THEN c ELSE client[c].discr

Told(c, a, arg) ==
  [waits |-> "no", discr |-> 0,
   ans |-> Append(client[c].ans, <<a, arg = Nobody \/ Asked(c) = arg>>)]

Answer(S, a, arg) ==
  client' = [c \in Clients |-> IF c \in S THEN Told(c, a, arg) ELSE client[c]]

Idle(c) == client[c].waits = "no" /\ client[c].ans = <<>>

(* bbdd_br_stats_peer_done_cb and bbdd_bfdd_echo_peer_done, called when    *)
(* the connection of a client goes away.  One that does not wait leaves no *)
(* trace.                                                                  *)
StatsWithout(c) ==
  IF stats # <<>> /\ stats[1].client = c THEN <<[stats[1] EXCEPT !.client = Nobody]>>
  ELSE stats

LeaveKeepEcho(c) == \* variant: the echo request outlives its client
  /\ client[c].waits \in {"stats", "echo"}
  /\ stats' = StatsWithout(c)
  /\ client' = [client EXCEPT ![c].waits = "gone", ![c].discr = 0]
  /\ UNCHANGED <<conn, backlog, bfdd, echo>>

Leave(c) ==
  /\ client[c].waits \in {"stats", "echo"}
  /\ stats' = StatsWithout(c)
  /\ echo' = [p \in Procs |-> echo[p] \ {c}]
  /\ client' = [client EXCEPT ![c].waits = "gone", ![c].discr = 0]
  /\ UNCHANGED <<conn, backlog, bfdd>>

-----------------------------------------------------------------------------
(* The two ends of a connection *)

(* bbdd_ssk_peer_destroy flushes what it can. *)
Flushed(q) ==
  IF "flush" \in Faults THEN {SubSeq(q, 1, n) : n \in 0 .. Len(q)} ELSE {q}

ClosedByBr(k) ==
  IF ~conn[k].d THEN {Free}
  ELSE {[conn[k] EXCEPT !.br = "closed", !.toBr = <<>>, !.toD = q] :
          q \in Flushed(conn[k].toD)}

ClosedByDp(k) ==
  IF conn[k].br = "closed" THEN {Free}
  ELSE {[conn[k] EXCEPT !.d = FALSE, !.toD = <<>>, !.toBr = q] :
          q \in Flushed(conn[k].toBr)}

(* Requests that wait for the end of process p to answer *)
StatsClients == {s.client : s \in Range(stats)} \ {Nobody}
Waiting(p) == echo[p] \cup IF p = Bridge THEN StatsClients ELSE {}

BrCloseForgets == \* variant: a pending session-stats is not closed
  /\ stats' = <<>>
  /\ echo' = [echo EXCEPT ![Bridge] = {}]
  /\ Answer(echo[Bridge], "error", Nobody)

(* bbdd_br_stats_close and bbdd_bfdd_close_b, as bbdd_br_bfdd_client_close *)
(* calls them.                                                             *)
BrClose ==
  /\ stats' = <<>>
  /\ echo' = [echo EXCEPT ![Bridge] = {}]
  /\ Answer(Waiting(Bridge), "error", Nobody)

BrClientClose ==
  /\ BrClose
  /\ bfdd' = [bfdd EXCEPT ![Bridge] = Nobody]
  /\ \E r \in ClosedByBr(bfdd[Bridge]) :
       conn' = [conn EXCEPT ![bfdd[Bridge]] = r]
  /\ UNCHANGED backlog

(* bbdd_d_bfdd_close and bbdd_bfdd_close_c.  A connection that the bridge  *)
(* has not accepted stays in its backlog.                                  *)
DpClose(dp) ==
  LET k == bfdd[dp]
  IN  /\ Answer(Waiting(dp), "error", Nobody)
      /\ echo' = [echo EXCEPT ![dp] = {}]
      /\ bfdd' = [bfdd EXCEPT ![dp] = Nobody]
      /\ \E r \in ClosedByDp(k) : conn' = [conn EXCEPT ![k] = r]
      /\ UNCHANGED <<backlog, stats>>

-----------------------------------------------------------------------------
(* Connecting *)

(* bbdd_d_handle_bfdd_connect and bbdd_bfdd_open_c *)
DpConnect(dp, k) ==
  /\ bfdd[dp] = Nobody
  /\ conn[k] = Free
  /\ \A j \in Conns : conn[j] = Free => k <= j
  /\ bfdd' = [bfdd EXCEPT ![dp] = k]
  /\ conn' = [conn EXCEPT ![k] = [Free EXCEPT !.dp = dp, !.d = TRUE,
                                              !.br = "backlog"]]
  /\ backlog' = Append(backlog, k)
  /\ UNCHANGED <<stats, echo, client>>

(* bbdd_d_handle_bfdd_disconnect *)
DpDisconnect(dp) == bfdd[dp] # Nobody /\ DpClose(dp)

Attached(k, cn) ==
  \/ /\ bfdd' = [bfdd EXCEPT ![Bridge] = k]
     /\ conn' = [cn EXCEPT ![k].br = "open"]
  \/ /\ "mem" \in Faults
     /\ bfdd' = [bfdd EXCEPT ![Bridge] = Nobody]
     /\ conn' = [cn EXCEPT ![k] = IF @.d THEN [@ EXCEPT !.br = "closed",
                                                        !.toBr = <<>>]
                                  ELSE Free]

AcceptKeepOld == \* variant: the old client is not evicted
  /\ backlog # <<>>
  /\ backlog' = Tail(backlog)
  /\ Attached(Head(backlog), conn)
  /\ UNCHANGED <<stats, echo, client>>

(* bbdd_br_bfdd_client_accept: the client of before is evicted first. *)
Accept ==
  LET old == bfdd[Bridge]
      k == Head(backlog)
  IN  /\ backlog # <<>>
      /\ backlog' = Tail(backlog)
      /\ IF old = Nobody THEN Attached(k, conn) /\ UNCHANGED <<stats, echo, client>>
         ELSE /\ BrClose
              /\ \E r \in ClosedByBr(old) :
                   Attached(k, [conn EXCEPT ![old] = r])

(* accept4 fails, which does not bring the client of before back. *)
AcceptFails ==
  "mem" \in Faults /\ backlog # <<>> /\ bfdd[Bridge] # Nobody /\ BrClientClose

-----------------------------------------------------------------------------
(* Requests of clients *)

(* bbdd_bfdd_write_enqueue.  What is sent after the other end has closed   *)
(* is lost.                                                                *)
ToD(r, m) == IF r.d THEN [r EXCEPT !.toD = Append(@, m)] ELSE r
ToBr(r, m) ==
  IF r.br # "closed" THEN [r EXCEPT !.toBr = Append(@, m)] ELSE r

Asks(c, p) == At[c] = p /\ Idle(c)

Refused(c) ==
  /\ Answer({c}, "error", Nobody)
  /\ UNCHANGED <<conn, backlog, bfdd, stats, echo>>

(* Message m is queued on the connection of p. *)
Sends(p, m) ==
  LET k == bfdd[p]
  IN  /\ Len(IF p = Bridge THEN conn[k].toD ELSE conn[k].toBr) < QMax
      /\ conn' = [conn EXCEPT ![k] = IF p = Bridge THEN ToD(@, m) ELSE ToBr(@, m)]
      /\ UNCHANGED <<backlog, bfdd>>

(* bbdd_br_handle_session_add and bbdd_br_handle_session_del.  What the    *)
(* daemon does with the message is in SessionDir.                          *)
BrSession(c) ==
  /\ Asks(c, Bridge)
  /\ \/ (bfdd[Bridge] = Nobody \/ "full" \in Faults) /\ Refused(c)
     \/ /\ bfdd[Bridge] # Nobody
        /\ Sends(Bridge, Msg("session", 0))
        /\ Answer({c}, "sent", Nobody)
        /\ UNCHANGED <<stats, echo>>

BrStatsAlways(c, discr) == \* variant: a pending request is overwritten
  /\ Asks(c, Bridge)
  /\ bfdd[Bridge] # Nobody
  /\ Sends(Bridge, Msg("counters", discr))
  /\ stats' = <<[client |-> c, discr |-> discr]>>
  /\ client' = [client EXCEPT ![c].waits = "stats", ![c].discr = discr]
  /\ UNCHANGED echo

(* bbdd_br_handle_session_stats: one at a time *)
BrStats(c, discr) ==
  /\ Asks(c, Bridge)
  /\ \/ /\ bfdd[Bridge] = Nobody \/ stats # <<>> \/ "full" \in Faults
        /\ Refused(c)
     \/ /\ bfdd[Bridge] # Nobody
        /\ stats = <<>>
        /\ Sends(Bridge, Msg("counters", discr))
        /\ stats' = <<[client |-> c, discr |-> discr]>>
        /\ client' = [client EXCEPT ![c].waits = "stats", ![c].discr = discr]
        /\ UNCHANGED echo

(* bbdd_bfdd_echo_handle_start, of the bridge and of a daemon *)
Echo(c, p) ==
  /\ Asks(c, p)
  /\ \/ (bfdd[p] = Nobody \/ "full" \in Faults) /\ Refused(c)
     \/ /\ bfdd[p] # Nobody
        /\ Sends(p, Msg("echo", c))
        /\ echo' = [echo EXCEPT ![p] = @ \cup {c}]
        /\ client' = [client EXCEPT ![c].waits = "echo"]
        /\ UNCHANGED stats

-----------------------------------------------------------------------------
(* Messages *)

(* bbdd_bfdd_echo_handle_reply: it answers all that wait for an echo. *)
EchoAnswers(p, m) ==
  /\ Answer(echo[p], "echo", m.arg)
  /\ echo' = [echo EXCEPT ![p] = {}]

(* bbdd_br_bfdd_handle_session_counters *)
CountersAnswer(m) == Answer(StatsClients, "counters", m.arg) /\ stats' = <<>>

(* __bbdd_br_bfdd_message_cb *)
BrMessage ==
  LET k == bfdd[Bridge]
      m == Head(conn[k].toBr)
      taken == [conn[k] EXCEPT !.toBr = Tail(@)]
  IN  /\ k # Nobody
      /\ conn[k].toBr # <<>>
      /\ UNCHANGED <<backlog, bfdd>>
      /\ \/ /\ m.type = "echoed"
            /\ EchoAnswers(Bridge, m)
            /\ conn' = [conn EXCEPT ![k] = taken]
            /\ UNCHANGED stats
         \/ /\ m.type = "counted"
            /\ CountersAnswer(m)
            /\ conn' = [conn EXCEPT ![k] = taken]
            /\ UNCHANGED echo
         \/ /\ m.type = "echo"
            /\ \/ conn' = [conn EXCEPT ![k] = ToD(taken, Msg("echoed", m.arg))]
               \/ /\ "reply" \in Faults
                  /\ conn' = [conn EXCEPT ![k] = [taken EXCEPT !.lost = TRUE]]
            /\ UNCHANGED <<stats, echo, client>>

(* __bbdd_d_bfdd_message_cb *)
DpMessage(dp) ==
  LET k == bfdd[dp]
      m == Head(conn[k].toD)
      taken == [conn[k] EXCEPT !.toD = Tail(@)]
      Replies(type) ==
        \/ conn' = [conn EXCEPT ![k] = ToBr(taken, Msg(type, m.arg))]
        \/ /\ "reply" \in Faults
           /\ conn' = [conn EXCEPT ![k] = [taken EXCEPT !.lost = TRUE]]
  IN  /\ k # Nobody
      /\ conn[k].toD # <<>>
      /\ UNCHANGED <<backlog, bfdd, stats>>
      /\ \/ m.type = "echo" /\ Replies("echoed") /\ UNCHANGED <<echo, client>>
         \/ m.type = "counters" /\ Replies("counted") /\ UNCHANGED <<echo, client>>
         \/ /\ m.type = "echoed"
            /\ EchoAnswers(dp, m)
            /\ conn' = [conn EXCEPT ![k] = taken]
         \/ /\ m.type = "session"
            /\ conn' = [conn EXCEPT ![k] = taken]
            /\ UNCHANGED <<echo, client>>

(* bbdd_ssk_peer_event destroys the connection when the other end has      *)
(* closed it and all was read, or when reading fails.                      *)
BrHup ==
  LET k == bfdd[Bridge]
  IN  k # Nobody /\ ~conn[k].d /\ conn[k].toBr = <<>> /\ BrClientClose

DpHup(dp) ==
  LET k == bfdd[dp]
  IN  /\ k # Nobody /\ conn[k].br = "closed" /\ conn[k].toD = <<>>
      /\ DpClose(dp)

BrBroken == "broken" \in Faults /\ bfdd[Bridge] # Nobody /\ BrClientClose
DpBroken(dp) == "broken" \in Faults /\ bfdd[dp] # Nobody /\ DpClose(dp)

Next ==
  \/ \E c \in Clients : Leave(c)
  \/ \E dp \in Dps, k \in Conns : DpConnect(dp, k)
  \/ \E dp \in Dps : DpDisconnect(dp)
  \/ Accept \/ AcceptFails
  \/ \E c \in Clients : BrSession(c)
  \/ \E c \in Clients, discr \in Discrs : BrStats(c, discr)
  \/ \E c \in Clients, p \in Procs : Echo(c, p)
  \/ BrMessage
  \/ \E dp \in Dps : DpMessage(dp)
  \/ BrHup
  \/ \E dp \in Dps : DpHup(dp)
  \/ BrBroken
  \/ \E dp \in Dps : DpBroken(dp)

Spec == Init /\ [][Next]_vars

(* Each process runs an event loop that comes back to every socket on      *)
(* which something has happened.                                           *)
Fairness ==
  /\ WF_vars(Accept) /\ WF_vars(BrMessage) /\ WF_vars(BrHup)
  /\ \A dp \in Dps : WF_vars(DpMessage(dp)) /\ WF_vars(DpHup(dp))

FairSpec == Spec /\ Fairness

-----------------------------------------------------------------------------
(* Properties *)

Messages ==
  [type : {"session", "counters", "counted", "echo", "echoed"},
   arg : Discrs \cup Clients \cup {0}]

Ends ==
  [dp : Dps \cup {Nobody}, d : BOOLEAN, br : {"backlog", "open", "closed"},
   toD : Seq(Messages), toBr : Seq(Messages), lost : BOOLEAN]

Requests ==
  [waits : {"no", "stats", "echo", "gone"}, discr : Discrs \cup {0},
   ans : Seq({"error", "sent", "echo", "counters"} \X BOOLEAN)]

(* The variables have their types. *)
TypeOK ==
  /\ conn \in [Conns -> Ends]
  /\ backlog \in Seq(Conns)
  /\ bfdd \in [Procs -> Conns \cup {Nobody}]
  /\ stats \in Seq([client : Clients \cup {Nobody}, discr : Discrs])
  /\ Len(stats) <= 1
  /\ echo \in [Procs -> SUBSET Clients]
  /\ client \in [Clients -> Requests]

(* The variables have their types, "the bridge serves at most one bfdd     *)
(* peer at a time" (bbdd_br_bfdd_client_accept), and each end that is open *)
(* is the one that its process knows: none is forgotten, none is used      *)
(* after it was closed.                                                    *)
EndsAreKnown ==
  /\ TypeOK
  /\ {k \in Conns : conn[k].br = "open"} = {bfdd[Bridge]} \ {Nobody}
  /\ {k \in Conns : conn[k].br = "backlog"} = Range(backlog)
  /\ \A dp \in Dps :
       {k \in Conns : conn[k].d /\ conn[k].dp = dp} = {bfdd[dp]} \ {Nobody}

(* A client waits if and only if the process remembers its request, and    *)
(* the process has a connection on which the answer can come: none is left *)
(* waiting by the error paths and by a connection that goes away, and none *)
(* that has left will be answered.                                         *)
WaitingIsRemembered ==
  \A p \in Procs :
    /\ Waiting(p) = {c \in Clients : At[c] = p /\ client[c].waits \in {"stats", "echo"}}
    /\ bfdd[p] = Nobody => echo[p] = {} /\ (p = Bridge => stats = <<>>)

Of(q, type) == {i \in 1 .. Len(q) : q[i].type = type}

(* The bridge does not compare the discriminator of BFD_SESSION_COUNTERS   *)
(* with that of br->stats, and need not: on its connection there is one    *)
(* request or reply while br->stats is set, for the same discriminator,    *)
(* and none while it is not.  So a client of session-stats gets the        *)
(* counters of the session that it asked for.                              *)
CountersArePending ==
  LET k == bfdd[Bridge]
      asked == Of(conn[k].toD, "counters")
      told == Of(conn[k].toBr, "counted")
  IN  /\ k # Nobody /\ conn[k].d /\ ~conn[k].lost =>
           IF stats = <<>> THEN asked = {} /\ told = {}
           ELSE \/ /\ told = {}
                   /\ \E i \in asked : asked = {i} /\ conn[k].toD[i].arg = stats[1].discr
                \/ /\ asked = {}
                   /\ \E i \in told : told = {i} /\ conn[k].toBr[i].arg = stats[1].discr
      /\ \A c \in Clients : <<"counters", FALSE>> \notin Range(client[c].ans)

(* A client is answered once at most, and not after it has left.           *)
OneTimelyAnswer ==
  [][\A c \in Clients :
       client[c].waits = "gone" \/ client[c].ans # <<>>
       => client'[c].ans = client[c].ans]_vars

(* "do respond, so that the sender doesn't stay hanging"                   *)
(* (bbdd_d_bfdd_handle_session_counters): a client that waits for the      *)
(* other end is answered in the end, or leaves, or a reply could not be    *)
(* queued on its connection.                                               *)
AnsweredUnlessLost ==
  \A c \in Clients :
    LET k == bfdd[At[c]]
    IN  client[c].waits \in {"stats", "echo"}
        ~> \/ client[c].waits \in {"no", "gone"}
           \/ IF k = Nobody THEN FALSE ELSE conn[k].lost

=============================================================================
