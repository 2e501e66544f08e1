# A verification project for puttyalt

puttyalt is PuTTY with additions: SSH, Telnet, serial and raw clients, a terminal
emulator, file transfer tools, an authentication agent and a test SSH server (Uppity).
What is hard to get right in it, and hard to test, is the SSH-2 stack: in the connection
layer several channels share one connection, every channel has flow control in both
directions and a four-packet closing protocol, replies carry no identifier, and sockets,
terminals and processes at either end may do anything at any moment; below it keys change
while data flows; beside it downstreams share the connection and disappear; under it all
run callbacks and timers whose objects may be freed at any time. This directory models
these in TLA+, checks them with TLC, and proves part of it with TLAPS.

Line numbers in this file refer to the source tree; `connection2.c` is
`ssh/connection2.c`, and so on. `PROJECT.json` maps each definition to the lines it models.

## 1. Inventory of the system

| Part | State | Operations | Hard behaviour | What makes it correct |
|---|---|---|---|---|
| Connection layer, `connection2.c` | tree of `ssh2_channel` by local id; per channel: windows, buffers, `closes`, outstanding requests, `throttling_conn` | `filter_queue` (one case per packet), the `SshChannel` methods (`write`, `write_eof`, `unthrottle`, `initiate_close`) | packets of the two peers cross; a channel is destroyed inside calls on it; ids are reused | no packet rejected, no assertion fails, no use after free, data and EOF in order, all channels close |
| Main channel, `mainchan.c` | which requests await replies; `ready`, `eof_pending`, `eof_sent` | open confirmation, replies, user's input, EOF, resize, break, signals | pipelined requests told apart by flags; user acts at any time | replies attributed rightly; EOF kept |
| Server session, `sesschan.c`, `unix/pty.c` | backend, `seen_eof`, `seen_exit`, deferred callbacks | pty/shell requests, process output and exit | process exit races with everything; deferred close | exit status before CLOSE; output and input complete |
| Forwarded sockets, `portfwd.c`, `x11fwd.c` | the socket and its channel | data, EOF, error, drained, both ways | an error before the channel is open | channel closes whatever the socket does |
| `ssh.c` | `conn_throttle_count`, `in_raw`, `out_raw`, freeze state | throttle, freeze, abort, free | layers freed from under each other | frozen exactly while it must be |
| `transport2.c`, kex | `rekey_class`, `kex_in_progress`, queues held back | KEXINIT, NEWKEYS, timer, byte counters | re-exchange while data flows, both ends start it | no higher-layer packet inside a key exchange; always finishes |
| BPPs, `bpp2.c` | cipher states, pending compression | format and parse packets | delayed compression and NEWKEYS interleaving | both ends switch at the same packet |
| Sharing, `sharing.c` | per downstream id maps, half-open requests | translate packets between downstreams and server | a downstream disconnects with requests outstanding | ids never confused |
| User authentication | method state | coroutine over packets | agent replies, banners | bounded retries |
| `callback.c`, `timing.c` | queues of callbacks and timers | queue, run, delete | objects freed with callbacks pending, clock wrap | nothing runs on a freed object; nothing is lost |
| SFTP/SCP clients and servers | outstanding requests, file position | pipelined read and write | out-of-order replies, short reads | file arrives whole |
| `pageant.c` | key lists, blocked requests, prompt state | add, delete, sign, re-encrypt | requests waiting on one passphrase prompt | each answered once |
| `windows/handle-io.c` | one thread per handle, busy and moribund flags | events both ways | threads | no read after close |
| Terminal, line discipline, proxies, other backends, settings, GUIs, crypto, utilities, the PuttyAlt extensions under `src/` | | | mostly sequential | see `components` in PROJECT.json |

How they meet: packets go up and down through the queues of `PacketProtocolLayer`s (BPP,
transport, authentication, connection); the connection layer calls `Channel` methods and
a `Channel` calls `SshChannel` methods, each possibly from inside the other; anything that
might free its caller is postponed to a toplevel callback; `ssh_throttle_conn` stops
reading the one socket for all channels.

## 2. Modules

| Module | Models | Builds on |
|---|---|---|
| `SshWindow` | one direction of one channel, both ends, with window arithmetic | |
| `ByteStream` | what that direction promises: a reliable stream of bytes, then EOF | |
| `SshWindowProofs` | the theorems about `SshWindow` | `SshWindow`, TLAPS |
| `Ssh2Channel` | one end of a channel: each function of `connection2.c` on `struct ssh2_channel`, as an operator | |
| `SshForwarding` | both peers of a connection that forwards ports and X11 | `Ssh2Channel` |
| `SshForwardingAgree` | lemmas: what the two peers agree on, and that one packet more or less keeps it | `SshForwarding`, TLAPS |
| `SshForwardingProofs` | the theorems about `SshForwarding` | `SshForwardingAgree` |
| `SshSession` | user, client, server and process of one session | `Ssh2Channel` |
| `SshSessionProofs` | the theorems about `SshSession` | `SshSession`, TLAPS |
| `Ssh2Transport` | both ends' transport layers and BPPs: key exchange and re-exchange, delayed compression | |
| `Ssh2TransportProofs` | theorems: types, what each end knows by itself; lemmas: what is on the way between the two | `Ssh2Transport`, TLAPS |
| `Ssh2TransportOrder` | theorems: data, KEXINIT and NEWKEYS in their order, and the reasons for exchanges | `Ssh2TransportProofs` |
| `SshSharing` | connection sharing in the upstream, with the server and the downstreams | |
| `Toplevel` | the callback queue, the timers and the GTK event loop | |
| `ToplevelProofs` | the theorems about `Toplevel` | `Toplevel`, TLAPS |
| `MC*` | the sets TLC is given | |

**SshWindow.** The writer's `written`, `sent`, `remwindow`, `pending_eof`, `sent_eof` stand
for its `outbuffer` (the difference of the first two), `remwindow` and `closes`; the
reader's `locwindow`, `locmaxwin`, `remlocwin`, `throttle_state`, `chanreqs`,
`throttling_conn` have the names of their fields; `bufsize` is what `chan_send` last
returned. `fwd` and `back` are what is in transit. Bytes are positions in the stream, so
the queue entry of a run of data says which position it reaches, and window credit is
counted cumulatively in the same way (`granted`, `applied`). Where a run is cut into
packets is decided when it is read. Actions: `Write`, `WriteEof`, `RecvAdjust`,
`RecvWinadj` at the writer; `RecvData`, `RecvReply`, `RecvEof`, `Drain` at the reader.

**Ssh2Channel.** An end is a record; an operator maps the end before a C call to the end
after it, appends to `packets` what the call queued, sets `gone` when
`ssh2_channel_destroy` frees the channel and `fault` when an assertion fails or the
function goes on with a freed channel. So a handler is a composition of operators in the
order of the C calls: `FinishClose(ImpliedEof(c))` is the CHANNEL_CLOSE case. The window
is one packet wide here, which keeps the control (data waiting for window, EOF waiting for
data, a window that is shut) and leaves arithmetic to `SshWindow`.

**SshForwarding.** `chans[p]` is the tree of channels of peer p. Channel ends and packets
carry `inc`, the number of the OPEN they belong to, which the program does not have: it
lets `PacketsAccepted` say that a packet never meets a later user of its id. Sockets may
send, end, fail (also before the confirmation) and drain at any time. The connection's own
socket may back up (`BacklogGrows`, `BacklogClears`): `ssh_throttle_all` then freezes and
thaws the sockets of all channels. `held` in a channel's end is `all_channels_throttled`
as `ssh2_channel_check_throttle` sees it, `input_wanted` whether the local socket is read;
`thawed` is a history of the half-open channels a clearing backlog has thawed.

**SshSession.** The client's main channel asks for a pty (or not) and a shell, with or
without a fallback command; the server's session channel grants or refuses; the process
prints and exits, which closes the channel through two deferred callbacks. The user types,
announces EOF (Plink's end of input, or ^D under local line editing in a window), resizes
(`Resize`) and sends breaks and signals (`Special`); the server notes a signal in `Noticed`.
Resizes, breaks and signals are the "asides" that `MaxAsides` bounds. A failed assertion
stops the model, as it stops the program.

**Ssh2Transport.** `tr[p].pc` is the place where `ssh2_transport_process_queue` of peer p
waits; `class` is `rekey_class`, `kex` is `kex_in_progress`, `deferred` says whether
`deferred_rekey_reason` is set, `ok` is `higher_layer_ok`, `ic` whether `ic_process_queue`
is queued (the coroutine runs only then), `timer` whether a rekey timer is running. `conf`
and `used` number the client's settings, as configured and as offered in the last KEXINIT.
`bpp[p]` has the numbers of the keys of either direction, `pending_newkeys`,
`pending_compression` of either direction and of the BPP itself (`blocked`). `inq`, `outq`
and `held` are `in_pq`, `out_pq` and `pq_out_higher`; `wire` has encoded packets. Each
`crMaybeWaitUntilV` is an action (`RecvKexinit`, `RecvKexreq` or `RecvKexreply`,
`AcceptHostKey`, `RecvNewkeys`, `RecvService`, `WaitForRekey`); `PassUp` is the filter that
runs whenever the coroutine does; `BppInput` and `BppOutput` are the BPP's two handlers, and
`RekeyTimer`, `UserRekey`, `Reconfigure` and `NotifyAuthDone` come from outside. The byte
counters are a nondeterministic "limit reached" in `WaitForRekey`. `seen` is `seen_userauth_success`,
which only a client ever sets; a server turns its pending compression on when it sends
USERAUTH_SUCCESS (`AfterSending`) and leaves the flag alone. `lost` is a history: what has taken
away a request for a re-exchange that nothing had acted on (`rekey_class` is `RK_NORMAL` and no
exchange is in progress) since the last one began. The reset at the end of an exchange takes
nothing away, and is not recorded. `early` is a history too: the client began an exchange
while its compression was pending.

**SshSharing.** The upstream is one record `up`: `cs[d]` is downstream d's
`ssh_sharing_connstate` (`half`, `ch`, `xc`, `fwd`, `greq` are its half-channels, channels,
xchannels, forwardings and outstanding global requests), `chan`, `rpf`, `ogr` and `auths`
are the connection layer's channels, remote forwardings, outstanding global requests and X11
displays, and `check` the queued termination check. Each function of `sharing.c` is an operator that
maps the record to what it becomes; `FromServer` and `Receive(d)` are the two actions that read
a packet, `TryCleanup` is `share_try_cleanup` in its order. `up.odd` is a history of
circumstances the code does not provide for, so that each failure can be tied to the only
circumstances it happens in. The server and the downstreams are external: they answer in
their own time, but honestly; downstreams behave as PuTTY does (want_reply TRUE for a forwarding,
FALSE for a cancellation) and may go at any moment.

**Toplevel.** `head` is the list from `cbhead` to `cbtail`, `running` is `cbcurr` or the
timer being run, `idle` is `idle_fn_scheduled`, `timeout` GTK's source behind `timer_id`, `now`
the static of `timing.c`. `Work` is whatever a handler, a callback or a timer function does while it
runs: queue, schedule, free an object, allocate another at its address (`Free` calls
`delete_callbacks_for_context` and `expire_timer_context`; the timers stay in the tree, as in the
code). Since an address does not say whose a timer is, each timer carries a history `by`: its
object lives (`living`), has been freed since (`freed`), or lives and asked for it when the tree already
held a freed object's for the same tick (`unheard`); `asked` is the history of which objects
have called `schedule_timer` since they exist. Clock arithmetic is modulo `Wrap`, signed and
unsigned as in the C. The clock may jump back (`Jump`, at most `MaxBack` in all): `utils/getticks.c` reads
`CLOCK_MONOTONIC` where there is one and else `gettimeofday`, and the comment at the head of
`timing.c` expects jumps; GTK counts its timeouts by a clock of its own.

Convention: an operator `X_y` above an operator `X` is `X` with the mistake `y`. The
mutants in PROJECT.json replace `X` by it and expect the named property to fail, which
shows that the property says something about the code. Nothing else uses them.

## 3. Runs

| Run | Question | Bounds and why they are enough | Result |
|---|---|---|---|
| `window` | is the channel a reliable stream that flows, and is credit conserved? | windows of 4 (simple connections 8), packets of 2, growth limit 8, 6 bytes: the window is exhausted, reopened wide and partly, and grown; all 10 combinations of simple, fixed window and the two peer workarounds | holds |
| `forwarding` | can two honest peers confuse each other while channels open and close? | two channels of sockets, one data packet: ids are reused, OPENs cross, an end fails while half-open, CLOSE crosses CLOSE, data, winadj and its reply | holds |
| `forwarding_closes` | do finished channels go away, are sockets frozen and thawed in time, and does stopping the whole connection confuse anyone? | one channel, socket or X11, three packets: more than the window, so data waits when CLOSE comes, and an X11 backlog stops the connection; one backlog of the connection's own socket, which may fall anywhere in the channel's life | holds |
| `forwarding_zombies` | does a channel whose socket failed go away, even with X11? | one channel, one packet | **violated**, finding 1 |
| `session` | are replies, EOF, exit status and the end of the session right? | one typed packet, two printed (the second waits for window), one resize, break or signal; a pty, or not, or a pty and a fallback command, in a window and in Plink | holds |
| `session_request` | `assert` at `connection2.c:1337` | as above | **violated**, finding 2 |
| `session_eof` | `assert` at `connection2.c:1409` | as above | **violated**, finding 3 |
| `session_output` | is all output shown when the session closes? | two printed packets | **violated**, finding 4 |
| `session_input` | does what the user types arrive? | two typed packets | **violated**, finding 5 |
| `transport` | do keys, compression, held-back packets and re-exchanges survive every interleaving, and do exchanges finish? | one re-exchange asked for by timer, user or counters and one by changed settings, so that two reasons cross, repeat and meet the first exchange; one refused authentication, so output is blocked and released before it is blocked again; one data packet each way; with and without delayed compression | holds, with the exceptions below |
| `sharing` | are ids translated and replies delivered rightly, and is everything cleaned up? | two downstreams, one port (so they compete for it); a budget of 6 with 3 for each session or forwarding and 1 for each of the server's opens, data and closes: two wishes, or one and three events on it | holds, with the exceptions below |
| `toplevel` | does nothing run for a freed object or too early, and is nothing forgotten? | one context (one address, allocated again after it is freed, any number of times), callbacks and timers up to two in all, delays of up to 2 ticks found up to 2 late, on a clock of 8 that wraps again and again and jumps back by one tick once, which is more than the slack (0), so that a timer runs early; a run with a clock of 10, a slack of 1 and jumps of 2 in all (1,185,120 states) holds as well | holds, with the exceptions below |

Properties, in words:

- `CreditConserved`: what the reader believes open is what the writer has left plus what is
  in flight, at every moment. `WindowWideEnough`: after anything the reader does the window
  is at least half of the room it has. `NeverThrottlesConn`: a peer that respects the window
  never makes an ordinary channel freeze the whole connection. `RepliesMatchRequests`: the
  outstanding winadj requests are exactly those in transit or whose replies are.
  `StreamSpec`: refinement of `ByteStream`. `StreamCompletes`, `ThrottleReleased`: liveness.
- `PacketsAccepted`: none of the "Received ... for nonexistent/half-open channel" and "no
  outstanding channel request" errors can happen between two copies of this program.
  `NoFault`: no assertion fails, no use after free. `WireOrder`: CLOSE is the last
  packet of a channel end, and neither data nor a second EOF follows EOF. `PeerStillThere`: no peer forgets a channel the other
  still uses. `ChannelsClose`: liveness, unless an X11 channel has stopped a connection
  (then `ZombiesClose` fails, finding 1).
- `RepliesUnderstood`: the main channel's guess which request a reply answers is right.
  `ExitStatusFirst`: no orderly end without the exit status. `EofKept`: the user's EOF
  survives every hand-over. `OtherAssertionsHold`: besides the two assertions of findings 2
  and 3 only two faults are left, both from `Special`: a request that cites the remote id
  of a channel still half-open, and a signal for a session without a backend (see section 4).
  `SessionEnds`: liveness.
- `SocketsReadInTime` (`forwarding_closes`): after a backlog every socket that may be read is
  read, and a socket is read before its channel is open only in the case of section 4.
- `KeysInStep`: every packet is decoded with the keys and the compression it was encoded
  with, until the server's compression is pending again after it has sent USERAUTH_SUCCESS
  (section 4); without that exception the run finds a violation. `NoProtocolError`: no end rejects the other's packet, but for one case.
  `QuietDuringKex`: nothing of the layer above between KEXINIT and NEWKEYS.
  `StreamIntact`: what the layer above sent and the other has not received is on its way,
  once and in order, unless a packet could not be decoded. `SettingsInForce`, `TimerArmed`: when an end
  is at rest its settings are those of the last exchange and its timer runs, after every
  exchange, unless a request made since was lost in one of three named ways. `NoEndlessRekey`: an exchange for each reason at most. `KexCompletes`:
  liveness.
- `ChannelsAgree`: each channel sharing keeps for a downstream is the connection layer's, the
  server's and the downstream's by matching ids and in a state that goes with what is on
  its way. `RepliesMatch`: the two queues of outstanding global requests agree, and with the
  server's answers. `NothingLeftBehind`: a freed downstream leaves no channel, reply, display or
  forwarding. `KnownFaults`: no assertion fails, nothing freed is used and no packet
  is refused, but in the circumstances of section 4. `WindsUp`: liveness.
- `RunsForTheLiving`: every callback in the queue belongs to the object that queued it, which exists;
  a timer that is run is of an existing object, and of the one that asked for it, unless that one was
  freed and the object now at its address has asked for a timer itself (section 4); and no
  timer runs before its time unless the clock has jumped to before it was set, by more than the
  slack. `NothingForgotten`: a callback in the queue is run or deleted with its object; GTK's timeout
  is never later than the first timer (`InTime`); a timer stays in the tree until it is run or its
  object is freed, but for the `unheard` one of section 4 (`TimersKept`), and it is run.

Deadlock is checked in `toplevel`, where time always passes. It is off in the other runs: a
stream that is complete, a connection whose channels have closed, a session that has
ended, transports with no reason to rekey and an upstream that has ended have nothing left to do.

**Fairness.** A peer reads what has arrived while nothing throttles its connection; the
sinks (sockets, terminal, standard output) go on taking data; toplevel callbacks run. That
is what the event loops in `unix/cliloop.c` and the front ends do. Nothing obliges a user
to type, a socket to end or a process to exit. In `SshForwarding` and `SshSession` most weak
fairness is written out with ENABLED replaced by an explicit condition, since TLC
evaluates ENABLED of these deeply nested operators too slowly; the condition is no weaker
than what the guards say. `Ssh2Transport` does the same for the coroutine and the BPP's handlers,
whose callbacks the event loop runs once queued, and assumes that the user looks at the
host key and that the server answers an authentication request. In `SshSharing` the upstream
reads what has come and the server answers; no downstream is obliged to anything, and one
conjunct for all suffices because the events are bounded by `Budget`. In `Toplevel` every handler
returns (so no timer function rearms itself for the present for ever), time passes, GTK
runs a timeout that is due, and runs the idle function when nothing else is ready, or else the
handler of input, which takes callbacks as well.

## 4. Findings

1. **A failed X11 socket can freeze the connection for ever** (`ZombiesClose`).
   `x11fwd.c` starts with a window of 128 bytes; when it is lifted,
   `ssh2channel_window_override_removed` widens `locwindow` but not `locmaxwin`, so a
   backlog of more than 128 bytes sets `throttling_conn`. If the socket then fails,
   `ssh2_channel_close_local` replaces the Channel by a zombie and nobody is left to call
   `unthrottle`: `conn_throttle_count` stays 1.
2. **A break or a signal between our CLOSE and theirs fails an assertion** (`NoRequestAfterClose`):
   `mainchan_special_cmd` (`mainchan.c:526-533`) sends the request whatever the channel's state;
   a resize does the same if the client asked for a pty (536-543).
3. **Typing after a local ^D fails an assertion** (`NoDataAfterEof`): SS_EOF does not
   withdraw `want_user_input`.
4. **The server drops the end of the output** (`OutputComplete`): `initiate_close` on the
   process's exit discards what still waits for window.
5. **Input to the server's process stalls** (`InputArrives`): nothing reports that the pty
   has drained, so an exhausted window is never reopened.

The runs `session`, `forwarding_closes`, `transport`, `sharing` and `toplevel` hold with exceptions
written into their properties; each exception is something the code does that looks unintended, tied to
the only circumstances it happens in.

- *Session* (`OtherAssertionsHold`). SS_BRK or a signal while the channel is half-open
  (`mainchan.c:526`) sends a request with a remote id not yet set; a signal before the
  command has started dereferences a null backend (`sesschan.c:592`).
- *Backlog* (`SocketsReadInTime`). A backlog that clears thaws the sockets of half-open channels
  (`connection2.c:1676`), which `portfwd.c:399-402` says are frozen until the confirmation; what is
  then read is dropped (`portfwd.c:408`). Nothing in SSH-2 ever sets `throttled_by_backlog`.
- *Transport.* After login with delayed compression a re-exchange breaks the connection
  (`KeysInStep`). The comment at `bpp2.c:649-655` wants a delayed compression method of "any future
  rekey" to be "treated as un-delayed", but `seen_userauth_success` is set only `!s->is_server`
  (640, 656). The server, which at 992-994 only turns on what is pending, makes its
  compression pending again with the next keys (157, 216), for a USERAUTH_SUCCESS it has already sent, while the
  client compresses at once: the first packet behind either NEWKEYS is decoded wrongly.
  A request to rekey is lost (`SettingsInForce`, `TimerArmed`) when it is made
  between an end's first NEWKEYS and the agreement on the service (reset at `transport2.c:2029`), when
  authentication ends before the coroutine has run (overwritten at 2384), or when compression is pending,
  so that the change is deferred to the end of an exchange while none is in progress (2533-2538). A client
  whose settings change during the first exchange starts another before its SERVICE_REQUEST,
  which the server does not expect (`NoProtocolError`). With delayed compression a re-exchange begun by the
  user, the timer or the data limit of either end before authentication is over may deadlock, since
  none of them asks `ssh2_bpp_rekey_inadvisable` (`KexCompletes`). A KEXINIT that comes together with
  SERVICE_ACCEPT is looked at only when something else wakes the coroutine (`KexCompletes`).
- *Sharing.* `globreq_tail` is never set (`sharing.c:1389-1392, 1454-1457`): a second outstanding
  global request of a downstream replaces the first, and `assert(globreq)` fails at the
  second reply. `share_try_cleanup` does not look at xchannels (893): the connection layer's
  channel keeps a freed context. A downstream that goes while its cancellation is
  outstanding has its forwarding removed twice (887, `connection2-client.c:297`). The CHANNEL_OPEN
  of a downstream is not popped (`connection2.c:396-409`), so it is read again and a refusal
  for channel 0 follows. A refused forwarding stays in the connection layer's tree, so that nobody can ask for it again
  (against the comment at `sharing.c:1356-1363`). An OPEN_FAILURE for a downstream that has
  gone does not retry the cleanup (1255-1257). An X11 channel the server closed before the
  downstream took it is handed over without its state being told (1042-1055), and is never freed.
- *Toplevel.* `expire_timer_context` takes the context out of `timer_contexts` and leaves the timers
  in the tree until they are first (`timing.c:181-187`). If by then an object at the same address
  has asked for a timer, the context is there again and the freed object's timer is run on the
  new one (`RunsForTheLiving`). If the new object's first timer is for the tick of such a stale one,
  with the same function, `add234` finds the stale one and the context is not added
  (133-137): the timer the new object asked for may be dropped (`TimersKept`).

## 5. Proofs

Each theorem holds for all values of the constants that satisfy the named assumption of the
component's module. None of the properties is inductive by itself; what follows says
what had to be added, and why.

**SshWindow** (`SizesAssumption`: sizes positive, a simple connection has no fixed window).
`TypeOK`, `CreditConserved`, `NeverThrottlesConn`, `WindowWideEnough`,
`RepliesMatchRequests`, and the refinement of `ByteStream`. `IInv` adds:

- `Chain(fwd, rcvd, sent, "data")`: the positions named by the entries in transit lead from the
  last byte received to the last byte sent, and only data entries advance them, so an EOF
  or a reply at the head stands exactly where the reader is;
  `Chain(back, applied, granted, "adjust")` says the same of credit. With them
  `CreditConserved` is preserved by both ends: a step moves a quantity from one term of the
  sum to another.
- `Ends`: an EOF in transit stands at position `written`, and only if EOF was sent.
- `Outgoing`: data is unsent only while the window is empty; once EOF is sent nothing is
  unsent or pending, and EOF is received only after every byte.
- `FixedByChannel`: only a Channel with an initial fixed window is in that phase.

Lemmas about `Chain` and `Count` (what Append and Tail do to them) come first, then one
lemma per action, then `Invariance` and the corollaries. `TrySend`, the step the writer
shares between actions, and `SetWindow`, the one the reader shares, have lemmas of their
own. For `RepliesMatchRequests` they also say that a reopened window adds to `chanreqs`
exactly as many requests as it queues (`Acknowledging`), and that sending adds no reply.
`ImplementsStream` maps each action to a step of the stream or a stutter.

**SshForwarding** (`ForwardingAssumption`: the bounds are numbers, the Channel objects are
sockets and X11 displays). A theorem for each of the six invariants the runs check:
`TypeOK`, `PacketsAccepted`, `NoFault`, `WireOrder`, `PeerStillThere`, `SocketsReadInTime`, for
any number of channels, packets and backlogs. `IInv` says two things.

- `Agree(C, D, V, W, n)` relates the channels of the two peers and the packets on their way
  to either, the same from either side. Its parts: an OPEN comes from a half-open end and is
  the only trace of its channel elsewhere (`Opens`); its answer finds that end, before anything
  else of the channel (`Answers`); every other packet cites an end of its own channel, which
  is open, or is by the time the packet is read because the confirmation is in front of it
  (`Plains`); CLOSE is last, nothing but CLOSE and adjustments follows EOF (`Order`), and who
  sent them knows it (`Marks`); an end that may still send has a counterpart with its
  `remoteid` (`Peers`); the requests in transit and the replies to them are at most those
  recorded in `chanreqs` (`Recorded`); and a window's credit is in one place only: in
  `remwindow`, in a data packet, or in an adjustment or a confirmation (`Credit`). Counting
  packets in a queue (`Num`) is what makes the last two inductive.
- `Steady`: between calls no end is freed or has seen CLOSE, `throttling_conn` holds of one
  channel at most and exactly accounts for the throttle, `held` is the connection's, and a
  half-open end whose socket is read is in `thawed`.

`SshForwardingAgree` shows that `Agree` is kept by each thing that can be done with one packet or
one end: an end changes in what the peer does not count on (`ChangeAgrees`), says something
(`SayAgrees`), takes the packet at the head (`DropAgrees`), a channel is introduced, confirmed or
removed. `SshForwardingProofs` puts the handlers together from these. A C function may call others
that queue further packets, so its operator is not followed packet by packet: a set of ends
is `Fitting` if it is closed under keeping and under adding to one's promises, each operator of
`Ssh2Channel` stays in every fitting set (`CheckCloseFits`, `TryEofFits`, ...), and the ends that
keep `Agree`, once their packets are posted, are such a set (`FitsFitting`). CHANNEL_CLOSE is
the exception, since it frees the end: there the packets are posted first, by a ghost of the
end, and then the end is removed (`FinishCloseIs`, `GhostFits`, `CloseStep`).

**SshSession** (`SessionAssumption`: the settings are settings, the bounds are numbers). A theorem
for each of the five invariants the run checks: `TypeOK`, `RepliesUnderstood`,
`ExitStatusFirst`, `EofKept`, `OtherAssertionsHold`, for any settings and any number of packets
typed, printed or sent aside. While the program runs, `IInv` has the session either not yet
open (`Opening`) or `Talking`, which says:

- `Accord`, the same from either side (`Link`): CLOSE is last on the way, and who sent EOF or
  CLOSE knows it (`Marks`); the requests an end waits for are those to which replies are on
  their way, followed by those that are still on their way themselves (`Asked`); a
  window's credit is in one place only (`Credit`); there are never more packets of data
  buffered and on their way than were typed or printed and have not arrived.
- `ClientSteady`, between calls: the main channel has no opinion of its requests but what
  the list says (`Wants`: `req_pty` exactly if a pty-req is waited for, which comes first;
  one command at most), which with `Asked` is `RepliesUnderstood`; if it has sent EOF, so will the
  connection layer (`Minds`); and an announced EOF is in one of its places (`Hopes`).
- `ServerSteady`: the session sends EOF only when its process has finished and it has seen
  both the end of output and the exit (`Ended`, `Over`), and asks for nothing that is replied to
  but `winadj`.
- `Told`: before the server's end is over the exit status has arrived or is on its way. With
  CLOSE last that makes `ExitStatusFirst` inductive.

The method is that of `SshForwardingProofs`, with promises that also cover the lists of
requests: a lemma for each operator of the channel, the main channel and the session, that
it stays in every `Fitting` set of ends, then one lemma per action. Where an assertion can fail
(`OtherAssertionsHold` names the four, each the subject of a finding), the program stops, and the proof
has to show only that no other can (`FailedStep`).

**Ssh2Transport** (`TransportAssumption`: the bounds are numbers). Seven theorems, one for each
invariant the run checks but `KeysInStep`, in two modules that build on each other.

- `Ssh2TransportProofs`: `Locals` is what an end knows by itself, whatever arrives: which
  flags go with which place in the coroutine (`Phases`), that changed settings are still
  asked for or were lost in a named way (`Settings`), that the keys of an end are those of
  the exchanges it has begun (`KeysCounted`), and what its compression waits for
  (`Compression`). It gives `TypeOK`, `SettingsInForce` and `TimerArmed`.
  Its second half is about the packets decoded, on the wire or queued from one end to the
  other, which are its `Line`. `Flowing` says that of each type of the transport layer's own packets the line
  holds one if one more was sent than taken and none otherwise, where both numbers follow
  from the two coroutines' places (`Sent`, `Taken`), and which types are in front of which.
  So an end that waits for a type finds that type, or nothing. `UpperAfter`: nothing of the
  layer above is anywhere before the service is agreed.
- `Ssh2TransportOrder`: `Streaming` (the data packets on a line and held back are those sent and
  not received, in order), `Calmness` (where KEXINIT, NEWKEYS and packets of the layer above may
  stand on a line) and `Reasoned` (each exchange begun was paid for by a reason, and none
  is paid for twice). `OrderInv` joins them; it is inductive as long as packets can be
  decoded. It gives `NoProtocolError`, `NoEndlessRekey`, `QuietDuringKex` and `StreamIntact`.

Where an argument wants induction over a queue, it takes the least position with a
property instead (`LeastNumber`, from the well-foundedness of the numbers).

**Toplevel** (`ToplevelAssumption`: delays, lateness, slack and jumps together fit in the clock's
range, and lateness, and delays with jumps, in half of it; `NoneAssumption`: `None` is no
timeout and no object). `IInv` is `TypeOK`, which includes the bookkeeping of idempotent callbacks
(`queued` exactly if the one entry for it is in the list), and

- `Living`: what is queued, and what has a context, belongs to objects that exist;
- `Owned`: the history of a timer goes with `timer_contexts`: a `living` timer's context is
  known, and a context is known only of an object that has asked for a timer;
- `Timely`: the time since a timer was set, counted from as long before as the clock may yet jump back,
  never reaches the modulus, so that the unsigned differences of `timing.c` mean what they
  should, and a timer that is due too early was set in what is now the future;
- `Woken`: whoever is to run what waits has been told of it. That is the invariant behind
  two shortcuts of the code (`queue_toplevel_callback` notifies the front end only when the list
  was empty, `schedule_timer` only when the timer is first), and a theorem of its own,
  `AlwaysWoken`.

The bound on lateness is strict: at half the clock's range the sign of a difference of two readings,
which the front end takes (`unix/gtk-common.c:197`), says nothing.

It gives `TypeOK`, `RunsForTheLiving`, and of `NothingForgotten` the part that is no liveness
property, `TimersKept`. `DeleteCallbacks` is defined by ranks (the n-th
entry kept) and not by recursion, so that it can be reasoned about.

The arms of every CASE exclude each other: where two guards hold TLA+ leaves the choice open,
TLC takes the first, and a proof may count on neither.

**Only model-checked**: all liveness (the prover does neither ENABLED nor fairness), and
`KeysInStep`, and
everything in `SshSharing`, whose handlers are defined on whole sets of channels and
sequences of packets so that it can be reasoned about.

## 6. What the models leave out

- Extended data (it shares the window and the order of checks), message contents, logging.
- x11, agent and environment requests of the main channel: further pipelined requests
  handled as `pty-req` is. `simple@putty` is a request without a reply.
- In `Ssh2Channel` windows are one packet; `ssh_throttle_conn` is reached through an X11
  channel only, since `NeverThrottlesConn` shows that forwarded sockets do not reach it
  (and a main channel does only on a simple connection, which has no other channel).
- `BUG_SENDS_LATE_REQUEST_REPLY`: both peers are this program, which does not.
- A lost connection: the connection layer is then freed as a whole.
- Nothing happens at the server after the client has closed the connection.
- New channels are opened, and accepted, whether the connection's socket has backed up or
  not; that a socket's own buffer grows is not counted.
- Transport: negotiation of algorithms and its prompts, GSS, strict kex, guessed packets, the
  messages of methods other than ECDH (each is a request and a reply), EXT_INFO,
  DISCONNECT, sequence numbers, the IGNORE before CBC data, `BUG_SSH2_REKEY`. A shorter
  timer or data limit is not a change of settings here. Sizes of keys and packets.
- Sharing: the greeting, the sockets' own errors, DISCONNECT from a downstream (modelled as
  its going; in the code `share_receive` goes on with the freed connstate), windows (an X11
  channel confirmed with less than 256 bytes is an error that leaves its channel added), requests and
  data that are passed through with nothing but their ids changed. A downstream sends nothing
  dishonest. Once an X11 channel was closed before its downstream took it, a later channel may get
  its server id: `add234` then leaves the newer out of `channels_by_server`, which is not
  followed further (`TypeOK` and `ChannelsAgree` excuse it by `xclosed`).
- Toplevel: `unix/cliloop.c` and the Windows loop (the first runs timers only while no
  callback is pending), nested event loops of dialogs, several timer functions of one object (`fn` is not modelled),
  a clock that jumps forward by more than `MaxLate` at once. `now` is kept as 0 outside `run_timers`, since `schedule_timer` and
  `run_timers` set it before they use it. The program is never more than `MaxLate` late.
- SSH-1, and the parts listed as not modelled: terminal, GUIs, cryptography, SFTP, the agent,
  proxies, other backends, settings, and the PuttyAlt extensions. They are most of the
  tree's lines, and mostly sequential code over large data, which a unit test reaches and a
  model would only restate.

## 7. Plan

In order of importance:

1. Proofs for `SshSharing`, `RepliesMatch` first.
2. `SshFreeze` (`ssh.c`, `bpp2.c`): `in_raw`, `SSH_MAX_BACKLOG`, `logically_frozen`;
   liveness: a frozen connection thaws.
3. `SftpPipeline` (`sftp.c`): pipelined transfer against a reference "copy the file"; the
   agent's queue of deferred decryptions.
