------------------------------- MODULE Server -------------------------------
(***************************************************************************)
(* The life of a server process, from the first resource that it acquires  *)
(* to the last one that it gives back: the daemon (bbdd_d_do_start) or the *)
(* bridge (bbdd_br_do_start).  In between runs the event loop of           *)
(* bbdd-poll.c, which serves the connections of the control socket         *)
(* (bbdd-ssk.c, bbdd-util.c), some of which subscribe to the monitor       *)
(* (bbdd-mon.c).                                                           *)
(*                                                                         *)
(* One call of epoll_wait reports a batch of events.  They are handled one *)
(* after another, and clients go on in between.  A handler may close       *)
(* another file descriptor whose event is still waiting in the batch: the  *)
(* event then refers to memory that was freed.  The loop notices nothing;  *)
(* here, the process either dies of it or gets away with it.               *)
(*                                                                         *)
(* What a request asks for is in SessionDir and Link; here are the effects *)
(* of requests on connections.  All messages have the same size, and TxCap *)
(* of them fit into the buffer of a connection (stream_maxbuf).            *)
(***************************************************************************)
EXTENDS Integers, FiniteSets, Sequences, Functions

CONSTANTS
  Programs,  \* which of "d" and "br" are started
  Peers,     \* connections of the control socket
  TxCap,     \* how many messages a connection can hold back
  Scripts,   \* what each client may send in one go: sequences of requests
  MaxSays,   \* how many times each client sends something on a connection
  Topics,    \* the monitor topics that subscribers ask for; errors are not among them
  Faults     \* which of FaultKinds the environment may produce

(***************************************************************************)
(* "start": a step of the start-up fails                                   *)
(* "mem":   a response cannot be queued for lack of memory, or a           *)
(*          connection cannot be accepted for lack of resources            *)
(* "flush": what is queued when a connection is closed may be lost         *)
(***************************************************************************)
FaultKinds == {"start", "mem", "flush"}

Requests == {"ask", "subscribe", "connect", "disconnect", "stop", "bad", "half"}

ASSUME ServerAssumption ==
  /\ Programs \subseteq {"d", "br"}
  /\ IsFiniteSet(Peers)
  /\ TxCap \in Nat \ {0}
  /\ MaxSays \in [Peers -> Nat]
  /\ Scripts \in [Peers -> SUBSET Seq(Requests)]
  /\ \A s \in UNION {Scripts[p] : p \in Peers} :
       s # <<>> /\ \A i \in 1..(Len(s) - 1) : s[i] \notin {"bad", "half"}
  /\ Topics \subseteq {"jrpc", "debug"}
  /\ Faults \subseteq FaultKinds
  /\ {"ctl", "link", "server"} \cap Peers = {}

Last(s) == s[Len(s)]
Without(s, i) == SubSeq(s, 1, i - 1) \o SubSeq(s, i + 1, Len(s))

VARIABLES
  prog,    \* which program this is
  phase,   \* "start", "loop", "stop", "exit" or "abort"
  step,    \* the next step of the start-up, or the next label of the unwinding
  held,    \* the resources that the process holds, in the order of acquisition
  rc,      \* whether the process is going to exit with success
  failed,  \* the step of the start-up that failed, or why the process died
  signals, \* pctx->sig_fd >= 0
  proc,    \* what requests change: see Idle
  batch,   \* events[] of bbdd_poll_loop, those not handled yet, in any order;
           \* "stale" marks one of a descriptor that was closed in the meantime
  client   \* the far end of each connection

vars == <<prog, phase, step, held, rc, failed, signals, proc, batch, client>>

(***************************************************************************)
(* Start-up: the resource that a step acquires, if any, and the label that *)
(* it jumps to when it fails.  "rc" is FALSE if the failure is not noted   *)
(* in the exit code.                                                       *)
(***************************************************************************)
Step(name, get, label, code) ==
  [name |-> name, get |-> get, label |-> label, rc |-> code]

\* As if a failed bbdd_bpf_create left rc as bbdd_d_start_init_veth set it.
StepBpfSilent == Step("bpf", "bpf", "veth", FALSE)

\* As if a failed bbdd_bpf_create jumped past the clean-up of the veth pair.
StepBpfFar == Step("bpf", "bpf", "sdir", TRUE)

StepBpf == Step("bpf", "bpf", "veth", TRUE)

StepsOfD ==
  << Step("nl",      "nl",   "log",  TRUE),
     Step("mon",     "mon",  "nl",   TRUE),
     Step("poll",    "poll", "mon",  TRUE),
     Step("sdir",    "sdir", "poll", TRUE),
     Step("console", "none", "sdir", TRUE),
     Step("veth",    "veth", "sdir", TRUE),
     StepBpf,
     Step("addr",    "none", "bpf",  TRUE),
     Step("ctl",     "ctl",  "bpf",  TRUE),
     Step("listen",  "none", "ctl",  TRUE),
     Step("signals", "none", "ctl",  TRUE) >>

LabelsOfD == <<"ctl", "bpf", "veth", "sdir", "poll", "mon", "nl", "log">>

StepsOfBr ==
  << Step("addr",    "none",   "out",    TRUE),
     Step("nl",      "nl",     "out",    TRUE),
     Step("mon",     "mon",    "nl",     FALSE),
     Step("poll",    "poll",   "poll",   TRUE),
     Step("console", "none",   "mon",    TRUE),
     Step("server",  "server", "mon",    FALSE),
     Step("accept",  "none",   "server", TRUE),
     Step("ctladdr", "none",   "server", TRUE),
     Step("ctl",     "ctl",    "server", TRUE),
     Step("listen",  "none",   "ctl",    TRUE),
     Step("signals", "none",   "ctl",    TRUE) >>

LabelsOfBr == <<"ctl", "server", "poll", "mon", "nl", "out">>

Steps == IF prog = "d" THEN StepsOfD ELSE StepsOfBr
Labels == IF prog = "d" THEN LabelsOfD ELSE LabelsOfBr

Position(label) == CHOOSE i \in DOMAIN Labels : Labels[i] = label

-----------------------------------------------------------------------------
(***************************************************************************)
(* A connection of the control socket.                                     *)
(***************************************************************************)
Free == [live |-> FALSE, tx |-> 0, done |-> FALSE, eof |-> FALSE, ev |-> {},
         cli |-> 0, debug |-> FALSE, part |-> FALSE]

\* bbdd_ssk_peer_create_no_cb
NewPeer == [Free EXCEPT !.live = TRUE, !.debug = TRUE, !.ev = {"in"}]

(***************************************************************************)
(* peer: the connections.  tx: messages in tx_sb; ev: the events asked for *)
(*   besides HUP; cli: the subscriptions; part: tkn->buffered > 0          *)
(* active: mon->active[] of a topic in Topics                              *)
(* quit: pctx->should_quit                                                 *)
(* link: whether the connection to the BFDD, or from it, is open           *)
(* closed: whether it was closed since this step began                     *)
(* cut: the connections whose last subscription was cancelled since this   *)
(*   step began                                                            *)
(***************************************************************************)
Idle == [peer |-> [p \in Peers |-> Free], active |-> 0, quit |-> FALSE,
         link |-> FALSE, closed |-> FALSE, cut |-> {}]

Settled(x) == [x EXCEPT !.closed = FALSE, !.cut = {}]

Away == [at |-> "away", out |-> <<>>, said |-> 0]

Init ==
  /\ prog \in Programs
  /\ phase = "start"
  /\ step = 1
  /\ held = IF prog = "d" THEN <<"log">> ELSE <<>>
  /\ rc = TRUE
  /\ failed = "none"
  /\ signals = FALSE
  /\ proc = Idle
  /\ batch = {}
  /\ client = [p \in Peers |-> Away]

-----------------------------------------------------------------------------
(***************************************************************************)
(* bbdd_ssk_peer_nq: the events are asked for first, whether or not the    *)
(* message then fits.  "lost": there is no memory for it.                  *)
(***************************************************************************)
Nq(c, lost) ==
  [c EXCEPT !.ev = {"in", "out"}, !.tx = IF lost \/ @ = TxCap THEN @ ELSE @ + 1]

\* bbdd_util_jrpc_send_done
Respond(x, p, lost) ==
  [x EXCEPT !.peer[p] = Nq([x.peer[p] EXCEPT !.done = TRUE], lost)]

(***************************************************************************)
(* bbdd_mon_send: one message for each subscription.  A subscription whose *)
(* message does not fit any more is cancelled, the connection stays.       *)
(***************************************************************************)
Fits(c) == IF c.cli < TxCap - c.tx THEN c.cli ELSE TxCap - c.tx

\* As if a message was queued without asking for the event that sends it.
NotifiedUnwatched(c) ==
  IF c.cli = 0 THEN c ELSE [c EXCEPT !.tx = @ + Fits(c), !.cli = Fits(c)]

\* As if a subscriber that is too slow was disconnected.
NotifiedOrClosed(c) ==
  IF c.cli = 0 THEN c
  ELSE IF Fits(c) < c.cli THEN Free
  ELSE [c EXCEPT !.ev = {"in", "out"}, !.tx = @ + Fits(c), !.cli = Fits(c)]

Notified(c) ==
  IF c.cli = 0 THEN c
  ELSE [c EXCEPT !.ev = {"in", "out"}, !.tx = @ + Fits(c), !.cli = Fits(c)]

\* mon->clients: the subscriptions of a connection are numbered.
Subscriptions(peer) == UNION {{p} \X (1..peer[p].cli) : p \in Peers}

MonSend(x, topic) ==
  IF topic \notin Topics \/ x.active = 0 THEN x
  ELSE LET overrun == {s \in Subscriptions(x.peer) : s[2] > Fits(x.peer[s[1]])}
       IN  [x EXCEPT
              !.peer = [p \in Peers |-> Notified(x.peer[p])],
              !.active = @ - Cardinality(overrun),
              !.cut = @ \cup {p \in Peers : x.peer[p].cli > 0 /\ Fits(x.peer[p]) = 0}]

-----------------------------------------------------------------------------
(***************************************************************************)
(* Requests.  The daemon connects to a BFDD and disconnects from it on     *)
(* request (see Link); the bridge knows no such methods.                   *)
(***************************************************************************)
Connect(x) ==
  IF ~x.link THEN MonSend([x EXCEPT !.link = TRUE], "debug") ELSE x

\* bbdd_d_bfdd_close with bbdd_d_bfdd_peer_done_cb, bbdd_br_bfdd_client_close
CloseLink(x) ==
  IF x.link THEN MonSend([x EXCEPT !.link = FALSE, !.closed = TRUE], "debug") ELSE x

Disconnect(x) ==
  IF x.link THEN MonSend(CloseLink(x), "debug") ELSE x

\* bbdd_poll_request_quit
RequestQuit(x) == [MonSend(x, "debug") EXCEPT !.quit = TRUE]

\* As if the monitor traced the connections of its own subscribers, too.
SubscribeTraced(x, p, lost) ==
  [x EXCEPT !.peer[p] = Nq([x.peer[p] EXCEPT !.cli = @ + 1], lost), !.active = @ + 1]

\* bbdd_d_handle_monitor_subscribe: the connection is kept.
Subscribe(x, p, lost) ==
  [x EXCEPT !.peer[p] = Nq([x.peer[p] EXCEPT !.cli = @ + 1, !.debug = FALSE], lost),
            !.active = @ + 1]

(***************************************************************************)
(* bbdd_util_ssk_recv_obj and the handler of the method.  "half" is the    *)
(* beginning of a request, and is not an object yet.  "bad" is not JSON.   *)
(***************************************************************************)
RecvObj(x, p, request, lost) ==
  LET y == MonSend(x, "jrpc")
  IN  CASE request = "ask"        -> Respond(y, p, lost)
        [] request = "connect"    -> Respond(Connect(y), p, lost)
        [] request = "disconnect" -> Respond(Disconnect(y), p, lost)
        [] request = "stop"       -> Respond(RequestQuit(y), p, lost)
        [] request = "subscribe"  -> Subscribe(y, p, lost)
        [] request = "half"       -> [x EXCEPT !.peer[p].part = TRUE]
        [] request = "bad"        -> x

\* bbdd_ssk_peer_rx, up to the end of what the client has sent.
Rx(x, p, lost) ==
  LET out == client[p].out
      y == IF out # <<>> /\ x.peer[p].debug THEN MonSend(x, "debug") ELSE x
      after[n \in 0..Len(out)] ==
        IF n = 0 THEN y ELSE RecvObj(after[n - 1], p, out[n], lost)
  IN  after[Len(out)]

\* The rest of bbdd_ssk_peer_rx, when the client sends no more.
Eof(x, p, lost) ==
  LET y == [x EXCEPT !.peer[p].eof = TRUE]
  IN  IF y.peer[p].part THEN Respond(y, p, lost) ELSE y

\* bbdd_ssk_peer_tx, when n messages are accepted.
Tx(x, p, n) ==
  LET y == [x EXCEPT !.peer[p].tx = @ - n]
  IN  IF x.peer[p].debug THEN MonSend(y, "debug") ELSE y

\* As if the subscriptions of a connection were not cancelled with it.
DestroyKeepCli(x, p, flushed) == [x EXCEPT !.peer[p] = Free]

(***************************************************************************)
(* bbdd_ssk_peer_destroy.  The messages that remain are sent at last,      *)
(* unless the client does not read and the attempts run out.               *)
(***************************************************************************)
Destroy(x, p, flushed) ==
  LET tries == x.peer[p].tx > 0 /\ client[p].at # "gone"
      y == IF tries /\ (x.peer[p].debug \/ ~flushed) THEN MonSend(x, "debug") ELSE x
  IN  [y EXCEPT !.peer[p] = Free, !.active = @ - y.peer[p].cli]

\* As if the handler forgot to ask to be called when the client reads.
WatchInput(c) == [c EXCEPT !.ev = IF c.eof THEN {} ELSE {"in"}]

\* The end of bbdd_ssk_peer_event.
Watch(c) ==
  [c EXCEPT !.ev = (IF c.eof THEN {} ELSE {"in"}) \cup (IF c.tx > 0 THEN {"out"} ELSE {})]

-----------------------------------------------------------------------------
(***************************************************************************)
(* Start-up and unwinding.                                                 *)
(***************************************************************************)
Loop == <<proc, batch, client>>

Acquire ==
  LET s == Steps[step]
  IN  /\ phase = "start"
      /\ held' = IF s.get = "none" THEN held ELSE Append(held, s.get)
      /\ signals' = (s.name = "signals")
      /\ step' = step + 1
      /\ phase' = IF step = Len(Steps) THEN "loop" ELSE "start"
      /\ UNCHANGED <<prog, rc, failed, Loop>>

AcquireFails ==
  LET s == Steps[step]
  IN  /\ phase = "start"
      /\ "start" \in Faults
      /\ phase' = "stop"
      /\ step' = Position(s.label)
      /\ rc' = ~s.rc
      /\ failed' = s.name
      /\ UNCHANGED <<prog, held, signals, Loop>>

(***************************************************************************)
(* bbdd_poll_set_signals returns a variable that was never set when        *)
(* signalfd fails.  It may happen to be zero.                              *)
(***************************************************************************)
SignalsFailUnnoticed ==
  /\ phase = "start"
  /\ "start" \in Faults
  /\ Steps[step].name = "signals"
  /\ phase' = "loop"
  /\ step' = step + 1
  /\ failed' = "signals"
  /\ UNCHANGED <<prog, held, rc, signals, Loop>>

\* What remains when the process is past its loop.
Closed(x) == [Idle EXCEPT !.quit = x.quit]

Abort(why) ==
  /\ phase' = "abort"
  /\ failed' = why
  /\ proc' = Closed(proc)
  /\ batch' = {}
  /\ client' = [p \in Peers |-> Away]

\* As if the loop went on until its clients are gone.
LoopEndsDrained == batch = {} /\ proc.quit /\ \A p \in Peers : ~proc.peer[p].live

\* should_quit is looked at between batches.
LoopEnds == batch = {} /\ proc.quit

\* The end of bbdd_poll_loop, and what follows up to the label "ctl".
QuitLoop ==
  /\ phase = "loop"
  /\ LoopEnds
  /\ IF signals
     THEN /\ phase' = "stop"
          /\ step' = Position("ctl")
          /\ signals' = FALSE
          /\ rc' = TRUE
          /\ proc' = Settled(CloseLink(proc))
          /\ UNCHANGED <<prog, held, failed, batch, client>>
     ELSE \* assert(pctx->sig_fd >= 0)
          /\ Abort("signals")
          /\ UNCHANGED <<prog, step, held, rc, signals>>

\* One label of the unwinding.  To release what is not there is fatal.
Unwind ==
  LET label == Labels[step]
  IN  /\ phase = "stop"
      /\ IF label = "out" \/ label \in Range(held)
         THEN /\ phase' = IF step = Len(Labels) THEN "exit" ELSE "stop"
              /\ step' = step + 1
              /\ held' = IF label = "out" THEN held
                         ELSE Without(held, CHOOSE i \in DOMAIN held : held[i] = label)
              /\ proc' = IF label = "ctl" THEN Closed(proc) ELSE proc
              /\ client' = IF label = "ctl" THEN [p \in Peers |-> Away] ELSE client
              /\ UNCHANGED <<prog, rc, failed, signals, batch>>
         ELSE /\ Abort(failed)
              /\ UNCHANGED <<prog, step, held, rc, signals>>

-----------------------------------------------------------------------------
(***************************************************************************)
(* The event loop.                                                         *)
(***************************************************************************)
Start == <<prog, step, held, rc, signals>>

Event(id, rev) == [id |-> id, rev |-> rev]

Waiting == {p \in Peers : client[p].at # "away" /\ ~proc.peer[p].live}

(***************************************************************************)
(* What epoll reports of a connection, if the clients in "readers" have    *)
(* made room for more.                                                     *)
(***************************************************************************)
Revents(p, readers) ==
  LET c == proc.peer[p]
      gone == client[p].at = "gone"
  IN  IF ~c.live THEN {}
      ELSE (IF "in" \in c.ev /\ (client[p].out # <<>> \/ client[p].at # "open")
            THEN {"in"} ELSE {})
           \cup (IF "out" \in c.ev /\ (p \in readers \/ gone) THEN {"out"} ELSE {})
           \cup (IF gone THEN {"hup"} ELSE {})

\* The connection of the BFDD, and the socket that it connects to.
LinkEvents ==
  (IF proc.link THEN {Event("link", {"hup"})} ELSE {})
  \cup (IF prog = "br" THEN {Event("server", {"in"})} ELSE {})

Gather(readers) ==
  LET ctl == (IF Waiting # {} THEN {Event("ctl", {"in"})} ELSE {})
             \cup {Event(p, Revents(p, readers)) :
                     p \in {q \in Peers : Revents(q, readers) # {}}}
  IN  /\ phase = "loop"
      /\ batch = {}
      /\ ~proc.quit
      /\ readers \subseteq {p \in Peers : "out" \in proc.peer[p].ev}
      /\ \E bfdd \in SUBSET LinkEvents :
           /\ ctl \cup bfdd # {}
           /\ batch' = ctl \cup bfdd
      /\ UNCHANGED <<Start, phase, failed, proc, client>>

\* The part of every handler that does not concern connections.
Handled(id, x) ==
  /\ proc' = Settled(x)
  /\ batch' = {IF e.id = "link" /\ x.closed THEN Event("link", {"stale"}) ELSE e :
                 e \in {b \in batch : b.id # id}}
  /\ UNCHANGED <<Start, phase, failed>>

Reported(id) == phase = "loop" /\ \E e \in batch : e.id = id

Rev(id) == (CHOOSE e \in batch : e.id = id).rev

\* bbdd_d_ctl_accept_cb, bbdd_br_ctl_accept_cb
Accept(p) ==
  /\ Reported("ctl")
  /\ p \in Waiting
  /\ Handled("ctl", [proc EXCEPT !.peer[p] = NewPeer])
  /\ UNCHANGED client

\* The connection stays in the backlog if accept4 fails or if there is no
\* memory before it, and is closed if there is none after it.
AcceptFails(p) ==
  /\ Reported("ctl")
  /\ p \in Waiting
  /\ "mem" \in Faults
  /\ Handled("ctl", proc)
  /\ \/ UNCHANGED client
     \/ client' = [client EXCEPT ![p] = Away]

(***************************************************************************)
(* bbdd_ssk_peer_event, up to and after the reception.  "lost": memory for *)
(* responses runs out; "reset": the far end is gone and recv fails.        *)
(***************************************************************************)
Received(p, rev, lost) ==
  LET x == IF "in" \in rev THEN Rx(proc, p, lost) ELSE proc
  IN  IF "in" \in rev /\ client[p].at # "open" THEN Eof(x, p, lost) ELSE x

RxFails(p, rev, reset) ==
  /\ "in" \in rev
  /\ \/ client[p].out # <<>> /\ Last(client[p].out) = "bad"
     \/ reset

PeerEvent(p, lost, reset, flushed) ==
  LET rev == Rev(p)
      x == Received(p, rev, lost)
      dead == \/ RxFails(p, rev, reset)
              \/ "hup" \in rev
              \/ "out" \in rev /\ client[p].at = "gone"
      sendable == IF "out" \in rev /\ ~dead /\ x.peer[p].tx > 0 THEN 1..x.peer[p].tx ELSE {0}
  IN  \E n \in sendable :
        LET y == IF "out" \in rev /\ ~dead THEN Tx(x, p, n) ELSE x
        IN  IF dead \/ (y.peer[p].tx = 0 /\ y.peer[p].done)
            THEN /\ Handled(p, Destroy(y, p, flushed))
                 /\ client' = [client EXCEPT ![p] = Away]
            ELSE /\ Handled(p, [y EXCEPT !.peer[p] = Watch(y.peer[p])])
                 /\ client' = IF "in" \in rev THEN [client EXCEPT ![p].out = <<>>] ELSE client

\* bbdd_ssk_peer_rx goes on to the next callback of a connection, which a
\* handler may have freed by overrunning a subscription of the connection.
OverrunsItself(p, rev, lost) ==
  /\ "in" \in rev
  /\ proc.peer[p].cli > 0
  /\ p \in Rx(proc, p, lost).cut

HandlePeer(p) ==
  /\ Reported(p)
  /\ \E lost \in (IF "mem" \in Faults THEN BOOLEAN ELSE {FALSE}),
        reset \in (IF client[p].at = "gone" THEN BOOLEAN ELSE {FALSE}),
        flushed \in (IF "flush" \in Faults /\ proc.active > 0 THEN BOOLEAN ELSE {TRUE}) :
       \/ PeerEvent(p, lost, reset, flushed)
       \/ /\ OverrunsItself(p, Rev(p), lost)
          /\ Abort("callback")
          /\ UNCHANGED Start

\* An event of a connection with the BFDD that is no more.
StaleLink ==
  /\ Reported("link")
  /\ "stale" \in Rev("link")
  /\ \/ Handled("link", proc) /\ UNCHANGED client
     \/ Abort("event") /\ UNCHANGED Start

\* The messages of the BFDD are in Link.
HandleLink ==
  /\ Reported("link")
  /\ "stale" \notin Rev("link")
  /\ Handled("link", CloseLink(proc))
  /\ UNCHANGED client

\* bbdd_br_bfdd_client_accept: the new connection replaces the old one, which
\* is closed also if the new one then cannot be accepted.
HandleServer ==
  /\ Reported("server")
  /\ \E link \in (IF "mem" \in Faults THEN BOOLEAN ELSE {TRUE}) :
       Handled("server", [CloseLink(MonSend(proc, "debug")) EXCEPT !.link = link])
  /\ UNCHANGED client

\* bbdd_poll_sig_cb
Signal ==
  /\ phase = "loop"
  /\ batch = {}
  /\ signals
  /\ ~proc.quit
  /\ proc' = Settled(RequestQuit(proc))
  /\ UNCHANGED <<Start, phase, failed, batch, client>>

-----------------------------------------------------------------------------
(***************************************************************************)
(* The clients.                                                            *)
(***************************************************************************)
Far(p, c) ==
  /\ phase = "loop"
  /\ client' = [client EXCEPT ![p] = c]
  /\ UNCHANGED <<Start, phase, failed, proc, batch>>

(***************************************************************************)
(* A client connects if it has not yet, and sends something.  One that has *)
(* sent half a request shuts down its direction of the connection.         *)
(***************************************************************************)
Say(p, script) ==
  /\ client[p].at \in {"away", "open"}
  /\ client[p].out = <<>>
  /\ client[p].said < MaxSays[p]
  /\ prog = "br" => Range(script) \cap {"connect", "disconnect"} = {}
  /\ Far(p, [at |-> IF Last(script) = "half" THEN "shut" ELSE "open",
             out |-> script, said |-> client[p].said + 1])

Hangup(p) == client[p].at \in {"open", "shut"} /\ Far(p, [client[p] EXCEPT !.at = "gone"])

Clients == \E p \in Peers :
  \/ \E script \in Scripts[p] : Say(p, script)
  \/ Hangup(p)

Serve ==
  \/ \E p \in Peers : Accept(p) \/ AcceptFails(p) \/ HandlePeer(p)
  \/ StaleLink
  \/ HandleLink
  \/ HandleServer

Poll == \E readers \in SUBSET Peers : Gather(readers)

Next ==
  \/ Acquire \/ AcquireFails \/ SignalsFailUnnoticed
  \/ Poll \/ Serve \/ Signal
  \/ QuitLoop \/ Unwind
  \/ Clients

Spec == Init /\ [][Next]_vars

(***************************************************************************)
(* The process is one thread, and it runs whenever it can; whether the     *)
(* BFDD does anything is up to the BFDD.  Serve is enabled as long as      *)
(* events of the batch remain, and handles one of them: that it is weakly  *)
(* fair is to say that every batch comes to an end.  A client that has a   *)
(* connection reads from it now and then.  Nothing is assumed of what      *)
(* clients send.                                                           *)
(***************************************************************************)
Process ==
  \/ Acquire \/ AcquireFails \/ SignalsFailUnnoticed
  \/ Poll /\ \E e \in batch' : e.id \notin {"link", "server"}
  \/ QuitLoop \/ Unwind

Fairness ==
  /\ WF_vars(Process)
  /\ []<>(batch = {})
  /\ \A p \in Peers : SF_vars(\E readers \in SUBSET Peers : p \in readers /\ Gather(readers))

FairSpec == Spec /\ Fairness

-----------------------------------------------------------------------------
PeerType ==
  [live : BOOLEAN, tx : 0..TxCap, done : BOOLEAN, eof : BOOLEAN,
   ev : SUBSET {"in", "out"}, cli : Nat, debug : BOOLEAN, part : BOOLEAN]

(* The variables have their types. *)
TypeOK ==
  /\ prog \in Programs
  /\ phase \in {"start", "loop", "stop", "exit", "abort"}
  /\ step \in 1..12
  /\ rc \in BOOLEAN
  /\ signals \in BOOLEAN
  /\ proc.peer \in [Peers -> PeerType]
  /\ proc.active \in Nat
  /\ proc.quit \in BOOLEAN
  /\ proc.link \in BOOLEAN
  /\ ~proc.closed /\ proc.cut = {}
  /\ \A e \in batch :
       /\ e.id \in Peers \cup {"ctl", "link", "server"}
       /\ e.rev \subseteq {"in", "out", "hup", "stale"}

(***************************************************************************)
(* The variables have their types, a connection never holds back more than *)
(* stream_maxbuf, and mon->active counts the subscriptions of the          *)
(* connections that exist: whether a subscription ends with its connection *)
(* or by an overrun, and in which order that happens, the counter follows. *)
(* If it did not, the monitor would fall silent, or work for nobody.       *)
(***************************************************************************)
ActiveExact ==
  /\ TypeOK
  /\ proc.active = Cardinality(Subscriptions(proc.peer))
  /\ \A p \in Peers : proc.peer[p].cli > 0 => proc.peer[p].live

(***************************************************************************)
(* A connection that has something to send, or that is finished and waits  *)
(* to be closed, has asked for the event that gets it there ("A useless    *)
(* POLLOUT is just a nop"): no other event can be relied upon.             *)
(***************************************************************************)
OutputIsWatched ==
  \A p \in Peers : proc.peer[p].tx > 0 \/ proc.peer[p].done => "out" \in proc.peer[p].ev

(***************************************************************************)
(* Events of a batch may be stale, because the loop of bbdd_poll_loop      *)
(* takes the callback from the event without looking.  That a handler      *)
(* closes the connection of somebody else happens to the connection of the *)
(* BFDD only, never to a connection of the control socket.                 *)
(***************************************************************************)
OthersAreLeftAlone ==
  \A e \in batch : e.id \in Peers => proc.peer[e.id].live

(***************************************************************************)
(* However far the start-up got, whatever was acquired is released, once,  *)
(* in the reverse order.  The bridge has exceptions: it keeps its poll     *)
(* context when it fails to subscribe the console or to open the socket of *)
(* the BFDD (it jumps to mon_fini), and it releases one that it does not   *)
(* have when it fails to create it (poll_fini).                            *)
(***************************************************************************)
Unwound ==
  /\ phase = "exit" => held = <<>> \/ (prog = "br" /\ failed \in {"console", "server"})
  /\ phase = "stop" /\ Labels[step] \in Range(held) =>
       Last(held) = Labels[step] \/ (prog = "br" /\ failed \in {"console", "server"})
  /\ phase = "abort" =>
       \/ failed \in {"event", "callback", "signals"}
       \/ prog = "br" /\ failed = "poll"

(***************************************************************************)
(* A process that exits with success was asked to stop.  Again the bridge  *)
(* has exceptions: without a monitor, or a socket for the BFDD to connect  *)
(* to, it gives up, but err is still 0 from the step before.               *)
(***************************************************************************)
SuccessIsEarned ==
  phase = "exit" /\ rc => proc.quit \/ (prog = "br" /\ failed \in {"mon", "server"})

(***************************************************************************)
(* A connection whose request was answered is closed before long.  (Not so *)
(* if it is a subscriber, too: its queue is refilled while it is drained.) *)
(***************************************************************************)
DoneGoes ==
  \A p \in Peers : proc.peer[p].done ~> (~proc.peer[p].live \/ proc.peer[p].cli > 0)

(***************************************************************************)
(* Once asked to stop the process ends, whatever the clients do.           *)
(***************************************************************************)
QuitEnds == proc.quit ~> phase \in {"exit", "abort"}

(***************************************************************************)
(* The debug messages about the traffic of connections cause no traffic    *)
(* that calls for further debug messages (bbdd_ssk_peer_disable_debug):    *)
(* when nothing comes in any more, from the clients or from the BFDD, all  *)
(* that is queued is sent in the end, and then there is silence.           *)
(***************************************************************************)
Quiet ==
  /\ phase = "loop"
  /\ ~proc.link
  /\ \A e \in batch : e.id # "server"
  /\ \A p \in Peers : client[p].out = <<>> /\ client[p].at \in {"away", "open"}

ReachesSilence == <>[]Quiet => <>[](\A p \in Peers : proc.peer[p].tx = 0)

=============================================================================
