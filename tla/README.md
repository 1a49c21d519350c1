# A TLA+ model of bbdd

bbdd is a data plane for BFD (RFC 5880). Userspace configures sessions and runs
their state machines; BPF programs in the kernel transmit, match and time the
packets. This directory holds TLA+ models of it, the TLC configurations that
check them on small instances, and proofs checked by TLAPS.

Run everything from this directory:

    tlc -config TxPathSocket.cfg MCTxPath      # one line per run of PROJECT.json
    tlapm TxPathProofs.tla                     # one line per module with theorems

`PROJECT.json` lists the components, the runs, for each property a mutation of
the model that it detects, the source lines behind each definition, the hazards,
the findings and the theorems.

## The system

| Part | Source | State it owns | What changes it | Module |
|---|---|---|---|---|
| Transmit path | `bbdd-bpf.c` 285-567, 880-1014, 2432-2497; `bbdd-tx.c`; `bbdd_xmit_veth_tx` in `bbdd-prog.bpf.c` | spinner skbs, `gen_id`, config map, TX queue, capacity and in-flight counters, POLLOUT registration | session add/update/del, hold timer, answers to Polls, POLLOUT, the looper | `TxPath` |
| Session control | `bbdd-bpf.c` 637-1746, 2628-3056 | `bstate`, `eff_data`, `dfr_data`, `qd_change`, hold and shutdown timers, `timer_period_us`, local and remote BFD state | requests, timers, ring events | `BfdSession` |
| Receive path | `bbdd_recv`, `bfd_session_expired`, `bbdd_xmit_veth_rx_xmit` in `bbdd-prog.bpf.c` | detection timer, ring buffer | packets, time | `BfdSession` |
| Interval arithmetic | `bbdd-bpf.c`, `bbdd-prog.bpf.c` | none | | `Intervals` |
| Timers | `bbdd-timer.c` | sorted list over one timerfd | set, cancel, dispatch | `Timers`, `AlarmClock` |
| Session directory and requests | `bbdd-d.c`, `bbdd-sess.c` | sessions, source ports | JSON-RPC requests, BFDD messages, interfaces | `SessionConf`, `SessionDir` |
| BFDD connection, bridge | `bbdd-bfdd.c`, `bbdd-br.c`, `bbdd-d.c` 2046-2443 | connections, echo state, one pending statistics request | connect, disconnect, requests, messages | `Link` |
| Event loop, socket layer, monitor | `bbdd-poll.c`, `bbdd-ssk.c`, `bbdd-sb.c`, `bbdd-mon.c` | registered descriptors, peers, send buffers, subscriptions | poll events, sends | `Server` |
| Start-up and exit | `bbdd_d_do_start`, `bbdd_br_do_start` | what was acquired so far, exit code | each step, signals | `Server` |
| JSON-RPC, netlink, CLI, helpers | `bbdd-jrpc.c`, `bbdd-nl.c`, `bbdd-c.c`, `bbdd-util.c`, ... | none that outlives a call | | |

Userspace is one thread around epoll. A request, a timer callback or a ring
event is handled to its end before the next one starts. The BPF programs run
concurrently with it and with each other, see userspace's state through the
config map only, and report through a ring buffer that userspace reads later.
The interesting interleavings are therefore between handlers in any order, and
between any handler and kernel steps in between or, for the transmit queue, in
the middle.

## Modules

| Module | Models |
|---|---|
| `TxPath` | any number of sessions sharing the TX socket: generations, skbs, queue, capacity |
| `BfdSession` | one session: configuration, poll sequence, shutdown, hold, state machine, data path, ring |
| `Intervals` | transmit interval, jitter and detection time with their integer widths, and theorems about them |
| `AlarmClock` | what a timer promises: it rings once, not before its deadline, unless it is cancelled |
| `Timers` | the sorted list, the timerfd and the two passes of the dispatch |
| `SessionConf` | requests on sessions as pure operators: validation, application, selection, report, translation to and from BFDD messages |
| `SessionDir` | the directories of sessions and the ports they occupy, under requests and messages |
| `Link` | a bridge, data plane daemons, the connections between them, and clients that wait for answers |
| `Server` | a process from start-up to exit: event loop, control connections, subscriptions |
| `MC...` | instances for TLC |
| `...Proofs` | theorems |

### TxPath

A session is represented on the wire by a *spinner*, an skb that the looper
clones to the wire and sends around again while its mark equals the `gen_id` in
the session's config. `spinners` is the set of all skbs in the loop, `config`
the map, `pinned` the difference `sk_sent_count - sk_released_count`. `finals` and
`periodics` are the two lists of `bbdd-tx.c`.

| Action | Code |
|---|---|
| `SessionAdd`, `SessionUpdate`, `SessionDel` | `bbdd_bpf_session_add`, `bbdd_bpf_session_update`, `__bbdd_bpf_session_del` |
| `HoldTimer` | `bbdd_bpf_hold_timer_cb` |
| `RespondFinal` | the answer to a Poll in `bbdd_bpf_handle_packet` |
| `DrainStart`, `DrainFinal`, `DrainPeriodic`, `DrainEnd` | `bbdd_bpf_tx_drain`, one step per iteration |
| `Looper` | `bbdd_xmit_veth_tx`, the passes that remove an skb |

`Update` is `__bbdd_bpf_session_update`: it defers when the socket is full,
otherwise bumps the generation, writes the config and sends. Whether it has
anything to send depends on the state of the session, which this module leaves
open (`inject`). A handler that calls it twice is two steps here, which adds
interleavings with the looper that the code has as well.

Two variables are history: `inc` tells the incarnations of a reused
discriminator apart, and `talking` is the set of sessions whose last update put
a packet on the wire.

The environment fails in the ways listed in `Faults`: a map update or resize
(`conf`), sendmsg (`send`), a Final that the looper cannot forward (`final`), the
registration for POLLOUT (`arm`), and a discriminator that is reused while old skbs
spin (`reuse`, which is not a failure but is kept apart because it breaks
`OneSpinner`, see the findings).

`UpdateNow` assumes that `gen_id`, 32 bits wide, does not wrap around within the life of
one skb. In the instances the modulus is 3, so that generations do wrap around
across the lives of several skbs.

### BfdSession

The state is `dsess` (`bbdd_d_session`), `bsess` (`bbdd_bpf_session`), `kern` (config
entry, live spinner and BPF timer) and `ring`. A handler may push to the data path several
times and each push may be deferred or fail, so handlers are operators from the
state, a record with fields `d`, `b`, `k` and `g`, to the set of states they may leave.
The actions apply them.

| Action | Code |
|---|---|
| `SessionAdd`, `SessionSet`, `SessionDel` | `bbdd_d_session_add`, `bbdd_d_handle_session_set`, `bbdd_d_handle_session_del_one` with the `bbdd_bpf_*` functions they call |
| `HoldTimer`, `ShwaitTimer` | `bbdd_bpf_hold_timer_cb`, `bbdd_bpf_shwait_timer_cb` |
| `LeakedTimer` | the latter, for a shutdown timer that `bsess` no longer points to |
| `DrainPeriodic`, `DrainFinal` | `bbdd_bpf_tx_drain` for this session's slots |
| `HandleEvent` | `bbdd_bpf_rb_handle`: `HandlePacket` and `HandleTimeout` |
| `Recv`, `TimerExpires` | `bbdd_recv`, `bfd_session_expired` |

Only the live spinner of the session is kept: that there is one, and that stale ones die, is
what `TxPath` shows. Here a full socket is the choice to defer (`full` in
`Faults`).

Time is abstracted: a running timer may expire at any moment. Intervals are small
numbers that the code compares, takes the maximum of and multiplies; diagnostic
codes, the local multiplier, TTL and counters are left out. A packet of the peer is a record of the fields
that the code looks at; those that `bbdd_bpf_parse_packet` refuses (`Malformed`), such as one with a multiplier
of zero, are among them.

The history in `ghost`: `broken` (the last push failed), `lost` (a timeout was
lost to a full ring), `crashed` (the daemon aborted or used freed memory), `left` (a poll sequence began
while a shutdown timer was running), `told`
(the state last announced to monitors and bfdd) and `polled` (the timing that the
peer was last polled about).

### Timers

`list` is the list of `bbdd_timer`s in the order of their deadlines, `armed` what the
timerfd is set to, `fate` history: whether a timer rang or was cancelled. The
dispatch of `bbdd_timers_fd_cb` is a sequence of steps, since callbacks set and
cancel timers while the list is walked: `FdCb` reads the clock and begins the
walk, `Invoke` calls one callback and remembers the next element first,
`CallbackReturns` or `CallbackFails` goes on, `WalkEnds` and `Reap` are the second
pass, which frees what rang and arms the timerfd.

| Action | Code |
|---|---|
| `Set`, `SetFails` | `bbdd_timer_set`, from a handler or from a callback |
| `Cancel`, `CancelOwn` | `bbdd_timer_cancel` by a handler; by a callback, on its own timer |
| `CancelOther` | `bbdd_bpf_shwait_timer_cb` of a timer that was left behind |
| `Tick`, `Expire`, `PollReports` | the clock, the kernel's expiration, epoll |
| `FdCb` ... `Reap` | `bbdd_timers_fd_cb` |

A callback cancels its own timer. That of a shutdown timer that was left behind (`LeakedTimer`
of `BfdSession`) cancels another one: the session by then refers to the shutdown timer of its next shutdown, which
was set later (`older` is the history that says so). Most of the time this does no harm. If the other
timer comes right after the callback's own on the list, the walk has saved it already, and goes on to a timer
that was freed. This case is kept apart as `next` in `Faults`: run `timers_next` has it, run `timers` and the theorems
have everything else. Callbacks set timers with a delay that is not zero; the walk depends on it.

`AlarmClock` has the clock, the set of alarms that wait and their fates. `RingsOnce` says
that `Timers` implements it, with `alarms` mapped to the timers on the list that have not
rung: every step of the list and of the timerfd is a step of the clock or changes
nothing of it.

### SessionConf and SessionDir

A request is a record whose fields are sequences of length at most one: empty
means not given, which the code tells apart from zero. An address is its family and a host, an
interface is an element of `Links`, its VRF's table is `VrfTable`. `Error` is the empty
sequence.

| Operator | Code |
|---|---|
| `DissectValidate`, `ValidateNetif`, `ValidateVrf` | parsing of a request's session object, `bbdd_d_session_validate_netif`, `..._validate_vrf` |
| `ApplyC` | `bbdd_d_session_apply_c` |
| `Matches`, `MatchesPacket`, `Digest` | selection by a query, by a packet without our discriminator |
| `ToC` | the report of a session |
| `ToMsg`, `FromMsg`, `ValidateMsg` | the bridge's translation into a BFDD message, the daemon's back |

`SessionDir` applies them. Its state is the four places that know of a session:
the daemon's directory `sdir`, the source-port allocator `spa`, the directory of the BPF part
`bpf` and the BPF maps `maps`. `AddOn` is the ladder of `bbdd_d_session_add` with its
unwinding, each rung of which may fail. A bulk request changes one session after another and stops at the
first that fails; a bulk delete goes on, and as it deletes sessions that it has just selected, it does not fail.
Deleting an entry that exists from a BPF map is taken to succeed. `LinkChange` is an interface that comes or goes
between requests (`present`).

### Link

A connection has two ends, one of the bridge and one of a daemon, which close on
their own, and in each direction a queue of at most `QMax` messages. `bfdd[p]` is the
connection that process `p` regards as its peer. A client waits for one answer.
`echo[p]` are the clients of `p` that wait for an echo, `stats` the one pending
request for counters.

| Action | Code |
|---|---|
| `DpConnect`, `DpDisconnect` | the `connect` and `disconnect` requests |
| `Accept`, `AcceptFails` | the bridge's server socket, which evicts the old data plane first, also if there is then no new one |
| `BrSession`, `BrStats`, `Echo` | requests of a client |
| `BrMessage`, `DpMessage` | a BFDD message arrives |
| `BrHup`, `DpHup`, `BrBroken`, `DpBroken` | the other end closed; the connection failed |
| `Leave` | a client disconnects while it waits |

An `ECHO_REPLY` answers every client that waits for an echo, as in the code, and a reply with counters is
not compared with the discriminator that is pending. `CountersArePending` shows that
the latter needs no comparison: there is never more than one request in flight on
a connection, and an answer to an earlier one goes away with its connection.

### Server

`StepsOfD`, `StepsOfBr`, `LabelsOfD` and `LabelsOfBr` are the start-up of the two
programs: what each step acquires, which label it jumps to when it fails, and
whether the exit code then says so. `Unwind` walks the labels. In between runs
the loop: `Gather` is `epoll_wait`, which makes a `batch` of events. They are
handled one after another, in any order, while clients go on. All messages have
the same size and `TxCap` of them fit into the buffer of a connection
(`stream_maxbuf`). A subscriber whose buffer is full loses its subscription. Subscribers
ask for requests and traces, not for errors.

| Action | Code |
|---|---|
| `Acquire`, `AcquireFails`, `SignalsFailUnnoticed`, `QuitLoop`, `Unwind` | `bbdd_d_do_start`, `bbdd_br_do_start`, `bbdd_poll_set_signals`, `bbdd_poll_unset_signals` |
| `Gather` | `bbdd_poll_loop`, `epoll_wait` |
| `Accept`, `AcceptFails`, `HandlePeer` | the server callback and the peer callback of `bbdd-ssk.c`, with `bbdd-sb.c` and the request handlers |
| `HandleLink`, `HandleServer`, `StaleLink` | the BFDD connection; an event for a callback that was freed |
| `Signal` | `bbdd_poll_sig_cb` |
| `Say`, `Hangup` | the clients |

Some of what the properties except, as found in the code:

- `bbdd_poll_loop` takes the callback from the event without a check. A handler can
  free the callback of a later event of its batch, but only that of the
  connection with the BFDD (`OthersAreLeftAlone`), by a request to the daemon or by a new
  connection to the bridge that evicts the old one; then the process may die of it
  (`StaleLink`).
- The walk over the subscriptions of a connection in `bbdd_ssk_peer_rx` goes on to a callback
  that was freed when a subscriber's own request overruns its own subscription
  (`OverrunsItself`).
- A connection that is done and is a subscriber, too, closes only when its
  buffer is empty, and notifications refill it. `DoneGoes` leaves it out.
- The bridge exits with success when the monitor or the socket for the BFDD
  cannot be created, keeps its poll context when the console or that socket fails, and
  calls `bbdd_poll_fini` without a context when there is none. `SuccessIsEarned`
  and `Unwound` name these cases.
- When `signalfd` fails, `bbdd_poll_set_signals` returns a variable that was never
  assigned, so the failure may pass unnoticed (`SignalsFailUnnoticed`) until
  `bbdd_poll_unset_signals` asserts.

### Intervals

`IntervalUs`, `MinIntervalUs`, `MaxIntervalUs`, `Spread`, `DelayUs` and `DetectTimeUs` are
the computations of `__bbdd_bpf_session_update`,
`bbdd_bpf_session_detect_time_us` and `bbdd_xmit_veth_tx`, reduced modulo 2^32 where the
code's type is. 2^32 is outside of TLC's integers, so there is no run, and the
theorems are all there is.

## Runs

Bounds.

- The TX instance has two sessions, which is where sharing starts, a capacity of
  `2 * sessions`, and generations modulo 3; a session then can have a live spinner
  and stale ones while its next update is queued. `U32` is 1024: the in-flight
  count stays far below. `MaxLost` bounds how far `pinned` goes below zero.
- The session instances have a ring of one or two events, so that events are
  stale and lost; timings that lengthen and shorten both intervals (`sess_poll`) or the transmit interval; and a peer
  with three to seven packets. `MaxLeaked` bounds leaked shutdown timers. `VIEW` hides history
  variables from the fingerprints of runs that check nothing about them.
- Three timers are the least with which the walk has a current, a next and another element.
  Delays are 0 and 1 and the clock stops at 2 (`MaxTime`), where no timer can be set any more.
- The directory has two discriminators besides 0, which stands for one that is drawn, two ports,
  an interface and two VRFs, one of which comes and goes. The eight changes, three queries and
  five messages are chosen for the branches of `SessionConf`: by name and by index, set and
  unset, both address families, zero, unparsable, overflowing, unsupported.
- The link has two daemons, so that one evicts the other, two connections at a time and
  two clients at the bridge and one at a daemon.
- The server has two control connections, buffers of two messages and clients
  that send at most twice; between them they use all kinds of requests.

| Run | States | Checks |
|---|---|---|
| `tx_socket` | 150 060 | `TypeOK`, `OneSpinner`, `PinnedExact`, `QueuedAreLive`, `PendingIsArmed`, `QueueDrains` with failing sends |
| `sess_poll` | 84 608 | `EffHeldDuringPoll`, `Settles` without shutdown, with a fair, answering peer |
| `sess_shutdown` | 176 257 | `DataPathCurrent`, `Guarded`, `HoldIsQuiet`, `ToldUnlessQueued`, `ShutdownIsAnnounced` with shutdown |
| `sess_faults` | 316 524 | `TypeOK`, `DataPathCurrent` with failing pushes, passive session, polling peer |
| `timers` | 176 518 | `ArmedForHead`, `WalkIsSafe`, `RungAreFreed`, `EventuallyRings`, and the refinement `RingsOnce` |
| `dir` | 11 380 | `PortsExact`, `DirsAgree`, `SessionsValid`, `RefusedAddLeavesNoTrace` of the directories; `SetThenSelect`, `ShowRecreates`, `BridgeKeeps` of the conversions, in every reachable state |
| `link` | 207 804 | `EndsAreKnown`, `WaitingIsRemembered`, `CountersArePending`, `OneTimelyAnswer`, `AnsweredUnlessLost` with all faults |
| `server` | 149 721 | `ActiveExact`, `OutputIsWatched`, `OthersAreLeftAlone`, `Unwound`, `SuccessIsEarned`, `DoneGoes`, `QuitEnds`, `ReachesSilence`, both programs, all faults |

What the scopes leave out, and why:

- `EffHeldDuringPoll` is checked without shutdown. With it, a shutdown timer left
  over from an earlier shutdown (`SessShwait.cfg`) ends a poll sequence of a
  session that came Up again, without a Final; `EffHeldWhileUp` is proved of all other
  sessions, shut down or not. The property allows the new timing at either of two moments, with the Final and
  with the first packet after it: the comment on `bbdd_bpf_session` says the former, the code does the latter. The
  two differ by a packet, and neither is early. `EffHeldWhileUp` says the latter. For the same reason
  `ToldUnlessQueued` and `ShutdownIsAnnounced` except sessions with such a timer
  (`ghost.left`), and `ToldUnlessQueued` excepts queued changes: got_non_final
  calls `bbdd_bpf_session_call_update`, which tells nobody.
- `ShutdownIsAnnounced` is about sessions on the wire. A session that is configured with
  shutdown while on hold comes out of hold with the shutdown effective, in state
  Down, and transmits.
- `Guarded` is checked without a failing `sendmsg`, and would not hold with one: when it fails
  after the config of a session that goes Down was written, `timer_period_us` stays
  set while packets no longer rearm the timer, and a later push suppresses the rearm
  packet. A failing update of the BPF maps does no such harm (see `LossIsNoticed`).
- `ArmedForHead` excepts what a failure leaves behind (`lapsed`): a callback that fails, which none
  in the tree does though the interface provides for it, ends the dispatch before the timerfd is armed again, until the next timer is set or cancelled
  at the head of the list. `EventuallyRings` excepts the same.
- `ReachesSilence` starts when clients have stopped and no connection of a BFDD is waiting: one that cannot be
  accepted may try for ever.
- `AnsweredUnlessLost` excepts connections on which a reply could not be queued.
- `sess_shutdown`, `timers` and `server` do not check for deadlock: an abort of the
  daemon, the end of the clock and the exit of the process are final states.

Fairness.

- `TxPath`: every skb comes around, as fq releases it when its interval is over; a
  registered socket is polled in every turn of the loop, as epoll is level
  triggered; a drain that began runs to its end.
- `BfdSession`: handlers run, timers expire and the queue is drained. `PeerSpec` adds a peer that keeps
  transmitting and answering polls, strongly fair as the ring may be full each time it does.
- `Timers`: time passes, the timerfd expires, epoll reports it, and the dispatch
  goes on; a callback returns.
- `Link`: the bridge accepts, and both ends read what arrives, messages and
  the end of the stream.
- `Server`: the process goes on, finishes its batch again and again, and polls while each
  client in turn reads what it was sent (strongly fair). Without the latter a client that
  never reads keeps its output waiting, as it should.

Nothing is assumed of users and clients otherwise: `QueueDrains` and `Settles` say what
happens once requests stop.

### Findings

Each is a run in which TLC produces the trace, with one property that a comment
or a manual page states. Details and quotations are in `PROJECT.json`.

| Run | What happens |
|---|---|
| `tx_final_lost` | A Final that is shot is released but never sent; the in-flight count is -1, truncated to 2^32 - 1, and everything is deferred from then on. |
| `sess_reuse` | A timeout of a deleted session aborts the daemon when the discriminator was added again and is on hold. |
| `timers_next` | The callback of a shutdown timer that was left behind cancels the session's next shutdown timer; if that is the next one on the list and both are due, the walk goes on to a freed timer. |
| `dir_vrf` | A session whose VRF is given by its index alone is accepted without the routing table that the manual says is derived. |

### Further configurations

Kept beside the runs of `PROJECT.json`, with `MCTxPath` for the first two and `MCBfdSession` for the others:

| Configuration | What TLC shows |
|---|---|
| `TxPathFaults.cfg` | `OneSpinner` and `QueuedAreLive` hold with all faults and capacity 1 (84 402 states); both are proved, too |
| `TxPathReuse.cfg` | `DeletedSpinnersDie` is violated: a spinner of a deleted session passes for one of a new session with its discriminator |
| `SessShwait.cfg` | `StablePastShwait` is violated: a timing change during a shutdown leaves the shutdown timer behind; when it fires it shuts down again a session that was enabled since |
| `SessPolled.cfg` | `EffWasPolled` is violated: a change made between Final and non-Final becomes effective without a poll sequence |
| `SessLoneShutdown.cfg` | `ShutdownTakesEffect` is violated: a shutdown during the poll sequence of a session without a peer never takes effect |

## Proofs

A proof holds for every value of the constants that satisfies the assumption named in
the component's module; TLC evaluates these assumptions in every run.

### TxPathProofs

It proves, for any finite set of sessions, any capacity, any modulus
and any bound:

| Theorem | Statement | Assumes of `Faults` |
|---|---|---|
| `TypeCorrect` | `[]TypeOK` | nothing |
| `QueueClean` | `[]QueuedAreLive` | nothing |
| `Armed` | `[]PendingIsArmed` | no `arm` |
| `PinnedIsExact` | `[]PinnedExact` | no `conf`, no `final` |
| `OneSpinnerEach` | `[]OneSpinner` | no `reuse` |

All rest on `TxAssumption`, which gives the constants their types.

- `QueueInv` is `TypeOK` with both lists free of repetitions and within
  `sdir \ hold`. Types alone are not inductive: the drain loop applies `UpdateNow`
  to the head of a list, which is harmless only because the head is a session.
  Lemmas say what enqueueing, unlinking and taking the head do to such a list.
- `Armed` needs it for `SessionDel`, which unlinks but must not turn an empty list into a
  non-empty one.
- `Accounted` adds to `PinnedExact` that `gen_id` and the config agree for every
  session. Without that, the looper would shoot a Final that userspace injects
  with the current `gen_id`; it is what a failing map update breaks.
- `SpinInv` says that skbs of existing sessions belong to the current
  incarnation, and that a session is in `talking` exactly if the skb with the
  config's generation is in the loop. `OneSpinner` follows as two live skbs of one session would
  have the same fields.

### TimersProofs

For any set of timers, delays and faults other than `next`: `HeadIsArmed` (`[]ArmedForHead`), `WalkNeverStrays`
(`[]WalkIsSafe`), `NoneLeftBehind` (`[]RungAreFreed`) and `TimersAreAlarms`
(`Spec => RingsOnce`, the refinement of `AlarmClock`). The exclusion is a hypothesis of each theorem; run `timers_next`
shows that it is needed.

The inductive invariant `IInv` has the types, that the list is in the order of the
deadlines (`Sorted`), that a timer on it that rang is due (`Fates`), and one conjunct for
each phase of the dispatch. `InWalk` and `InCallback` say how far the walk has come: of the
timers that are due, those before the next one rang and the others did not, and the
next one is on the list. `InReap` says that all that is due rang, or all up to the one
that failed, which is what the second pass frees; `InIdle` that nothing that rang is left.
`InCallback` is where it matters what callbacks may do: a timer that they set is not due
in this walk, so it cannot come before the saved successor and be missed, and a
timer that they cancel, be it another than their own, is not the saved successor.

### SessionDirProofs

For any interfaces, discriminators, ports, requests, messages and faults: `PortsAreExact`, `DirectoriesAgree`,
`AllSessionsValid` and `RefusalsAreClean` (the action property `RefusedAddLeavesNoTrace`).
The assumptions are `ConfAssumption`, `DirAssumption` and `InputAssumption`.

Ports and directories need each other, since an add takes the port before it knows whether the BPF part
agrees, and a delete returns a port that must be the session's. `AddOnOutcome` sums up the
ladder of `bbdd_d_session_add`: either all four places changed, or none. `sdir` is a function, without which
unwinding would not restore it.

The conversions are proved for every session that can exist and every request, not only those of the
instance:

| Theorem | Statement | Assumes of the requests |
|---|---|---|
| `SetSelects` | `[]SetThenSelect` | nothing |
| `ShowIsComplete` | `[](VrfTableDerived => ShowRecreates)` | nothing |
| `TablesDerived` | `[]VrfTableDerived` | `VrfsNamed` |
| `NamedShowIsComplete` | `[]ShowRecreates` | `VrfsNamed` |
| `BridgeIsFaithful` | `[]BridgeKeeps` | `VrfsNamed` |

`VrfsNamed` says that no request gives a VRF by its index alone. The code needs it: for such a request
nobody looks up the table (the finding `dir_vrf`). The message to the data plane identifies a VRF by its
table, so without one the session would arrive without its VRF.

For these, validity of the sessions in the inductive invariant `IInv` is strengthened to `Sound`: a session is a record of the
declared fields, its addresses were parsed, and (`Bound`) its VRF, if any, is a link that has a table, which
is the session's if the session has one; it does if `VrfsNamed`. Each stage of a conversion has a lemma from that on: what
`ValidateNetif` and `ValidateVrf` make of an interface that was reported (`NetifReported`, `VrfReported`), what
`ApplyC` does with a valid request, and what `FromMsg` finds in a message that `ToMsg` filled in.

### BfdSessionProofs

For any timings, peer, ring buffer and faults, failing pushes and reused discriminators included, from
`SessionAssumption`:

| Theorem | Statement | Assumes |
|---|---|---|
| `TypeCorrect` | `[]TypeOK` | nothing |
| `HoldStaysQuiet` | `[]HoldIsQuiet` | nothing |
| `DataPathFollows` | `[]DataPathCurrent` | nothing |
| `LossIsNoticed` | `[]Guarded` | `sendmsg` does not fail; receive intervals are not zero, as `MANDATORY_NON0` in `bbdd_d_session_apply_c` ensures |
| `ShutdownAnnounced` | `ShutdownIsAnnounced` | nothing |
| `EffHeldWhileUp` | `EffHeldUnlessLeft` | nothing |
| `EffHeld` | `EffHeldDuringPoll` | no shutdown is configured |
| `ToldOfAll` | `ToldUnlessQueued` | no push fails and the shutdown timer can be allocated |

Handlers are operators from a state to the set of states they may end in, and the proofs follow that.
`Pushed(x)` is what `__bbdd_bpf_session_update` establishes on each of its exits: the config and the
spinner are those of `x`, or a push is queued, or the last one is known to have failed. `Carried` is what
it leaves alone, `Prepared` what the handlers do before they call it. Each handler then has a lemma
that it takes a session to a pushed one of the same existence and hold.

The inductive invariant `IInv` is the types; `Absent`: a session that does not exist has no timers and no
config, so no callback finds it; `Hold`: a session on hold is quiet, in state Down, and its config is the
shell that does not rearm the timer, without which a packet could start the timer of a session on hold;
and `Wire`: a session on the wire is `Pushed`.

`Guarded` is not inductive: `timer_period_us` (`period`) suppresses the rearm packet, and nothing in
`Guarded` says when it may. `Secured` adds `Rearms`, that while `period` is set the config rearms the timer
for each packet, and `Runs`, that a timer that counts as started does run or its expiry is pending.
The first is what makes a session safe whose push for state Down is still queued when a packet
brings it up again: `bbdd_bpf_handle_packet` rearms before it changes the state. A failing map update leaves `Rearms` true,
as neither the config nor `period` changes; a failing `sendmsg` writes the one and not the other.

The action properties compare a session before and after a handler that may have ended a poll sequence,
handled a queued change and timed out at once. They need to know what each `bstate` implies:

- `Orderly`: unless a shutdown timer was left behind, it runs exactly while the session is shutting
  down, which is AdminDown; and during a poll sequence the deferred data has a shutdown only if the
  effective data has it. The last is what makes the end of a poll sequence, which makes the
  deferred data effective, no shortcut to a shutdown. `WInv` says it of every session on the wire.
- `Faithful`: what the user wants shut down is, in the data that the next request is compared with,
  unless a change is queued. It is why a request that changes nothing, of which nobody is told,
  does not change the state either. A shutdown timer that cannot be allocated breaks it, which is why
  `ToldOfAll` excludes that; and `bbdd_d_handle_session_set` tells nobody when a push fails.
- `Calm`: a session that is never asked to shut down has no shutdown timer and left none behind.

`Reconfigured` sums up `bbdd_bpf_handle_session_update` for all of them. `PollEnds` is the heart of the rest:
`bbdd_bpf_got_non_final` is called for a packet, a timeout, and the shutdown timer, and it keeps
`Orderly` because in each of these cases no shutdown timer runs any more, or one was left behind already.

### LinkProofs

For any number of daemons, clients and connections: `NoEndIsLost` (`[]EndsAreKnown`),
`NoClientIsForgotten` (`[]WaitingIsRemembered`), `AnswersAreTimely` (`OneTimelyAnswer`), `CountersMatch`
(`[]CountersArePending`), from `LinkAssumption`. `EndsInv`
relates both ends of every connection with what the two processes remember, `WaitInv` the
clients with `echo` and `stats`; the third theorem follows from the second, since only clients
that are remembered are answered and an answer forgets them.

`FlightInv` is about the messages in the queues. A connection `Fits` the pending request if no request for
counters and no reply travel on it while none is pending, and at most one of the two does, about the
session that was asked for, while one is; exactly one does while the daemon is there and has not failed
to reply. Nothing of the kind travels on a connection that the bridge has yet to accept, as daemons ask
for no counters; that is why one that is accepted fits. `ToldInv` adds that the pending request is
what its client asked for. That queues hold a message at most once is stated by their
indices (`None`, `Sole`), so that no messages need to be counted.

### ServerLifeProofs and ServerProofs

For any finite set of connections, any buffer, scripts of the clients, topics and faults, from
`ServerAssumption`: `ActiveIsExact` (`[]ActiveExact`), `OutputWatched` (`[]OutputIsWatched`), `OthersLeftAlone`
(`[]OthersAreLeftAlone`), `AllUnwound` (`[]Unwound`) and `SuccessEarned` (`[]SuccessIsEarned`).

`LifeInv` says how far the process is and what it holds. What is held at step `i` of the start-up is the first
`Owned[i]` entries of the program's `Stack`; `TablesOfD` and `TablesOfBr` check the tables of steps and labels
against it once, and the unwinding is proved from that. `UnwindInv` says that below a label is what is
still held, except after the failures in `Astray`, where the bridge skips the label of its poll context
or goes to that of one it does not have; for these it lists the states on the way out. `Unwound` names
the same failures. `Earned` says the same of the exit code as `SuccessIsEarned`, from the first jump on.

`LoopInv` says of the loop that `proc` is `Sane`: `active` is the number of subscriptions, only connections that
exist have any, and each waits for output if it has some or is done. A handler is a composition
of small operators on `proc`, each of which keeps `Sane`. Subscriptions are a set of pairs of a connection
and a number, so subscriptions that go are a subset less (`SomeGone`), and the fan-out to them needs no sum over the
connections. That serving all requests of one message keeps `Sane` needs induction over their
number, which is done with the least request after which it would not (`LeastElement`); it exists, as the naturals
are well-founded.

### Intervals

For all 32-bit intervals and 8-bit multipliers: `JitterIsApplied` (packets are spaced
by 75% to 100% of the interval, or to 90% with a multiplier of one, for intervals of up to 57.2
seconds, or 47.7), `JitterWraps` (one microsecond above, the 32-bit product overflows and a packet may
follow the previous one at once), `SlowRateIsExact`, and `DetectTimeSaturates`.

### Only model-checked

Every invariant, action property and refinement that a run checks is proved. What remains with TLC:

- Liveness (`QueueDrains`, `Settles`, `EventuallyRings`, `AnsweredUnlessLost`, `DoneGoes`, `QuitEnds`,
  `ReachesSilence`): fairness and `ENABLED` are outside the prover's reach.
- The findings, which are counterexamples.
- The further configurations, most of which violate their property.

Each instance satisfies the hypotheses of the theorems about its properties.

## Not modelled

- Parsing and formatting: the CLI, JSON-RPC objects, tokenizers, packet headers, error texts.
  Where a conversion decides something (addresses, interfaces, zero against not given,
  milliseconds against microseconds) it is in `SessionConf`.
- FIB lookup and header rewriting in the looper, `sk_lookup`, and TTL checks; statistics, which are counted and reported
  and decide nothing.
- What a start-up step does with the kernel: creating the veth pair and the qdisc,
  loading and attaching the BPF programs, pinning queues. In `Server` it is a step that works or fails.
- Errors that epoll reports on a descriptor that has not asked for them, which end the loop.
- `bbdd_timers_fini`, which runs when the process exits.
- Two daemons that talk to each other: the claim that the first non-Final proves that the
  peer has seen every Poll is about the peer's implementation as much as about this one, and
  the model has the peer send any packet at any time instead.
