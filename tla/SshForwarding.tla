----------------------------- MODULE SshForwarding -----------------------------
(***************************************************************************)
(* The channels of one SSH-2 connection that only forwards ports: both     *)
(* peers run ssh/connection2.c, with forwarded sockets (ssh/portfwd.c) or  *)
(* X11 displays as their Channel objects and no main channel (the          *)
(* connection is `persistent`).  Either peer opens channels; the local ids *)
(* are handed out first-fit and used again once a channel is destroyed.    *)
(*                                                                         *)
(* `wire[p]` is what has been sent to p.  Packets and channel ends carry   *)
(* `inc`, the number of the OPEN they belong to, which the program does    *)
(* not have: it tells the channels that use one id in turn apart.          *)
(***************************************************************************)
EXTENDS Ssh2Channel, FiniteSetsExt

CONSTANTS
    Kinds,        \* the Channel objects channels may be opened for
    MaxOpens,     \* bound of the model: channels opened
    MaxData,      \* bound of the model: packets of data written
    MaxBacklogs   \* bound of the model: backlogs of the connection's own socket

ASSUME ForwardingAssumption ==
    /\ Kinds \subseteq {Fwd, X11}
    /\ MaxOpens \in Nat /\ MaxData \in Nat /\ MaxBacklogs \in Nat

VARIABLES
    chans,        \* chans[p]: p's tree of channels, by local id
    wire,         \* wire[p]: the packets on their way to p
    throttle,     \* throttle[p]: conn_throttle_count of ssh.c
    opened,       \* how many OPENs were sent
    written,      \* how many data packets the sockets wrote
    throttled,    \* throttled[p]: throttled_all of ssh.c, while what p sends is backed up
    backlogs,     \* how many backlogs there were
    thawed,       \* history: the channels that were half-open when a backlog cleared
    fault         \* the first assertion that failed

backlog == <<throttled, backlogs, thawed>>
vars == <<chans, wire, throttle, opened, written, backlog, fault>>

Sides == {"client", "server"}
Other(p) == IF p = "client" THEN "server" ELSE "client"

Channel == [end : End, remoteid : Nat, inc : Nat]
Message == [kind : {"open", "confirmation", "open-failure", "data", "adjust", "request",
                    "success", "failure", "eof", "close"},
            req : Requests \cup {"none", "fwd", "x11"}, to : Nat, from : Nat, inc : Nat]

Init ==
    /\ chans = [p \in Sides |-> <<>>]
    /\ wire = [p \in Sides |-> <<>>]
    /\ throttle = [p \in Sides |-> 0]
    /\ throttled = [p \in Sides |-> FALSE] /\ backlogs = 0 /\ thawed = {}
    /\ opened = 0 /\ written = 0 /\ fault = "none"

--------------------------------------------------------------------------------
\* alloc_channel_id: the lowest id not in use
FirstFree(p) == Min({i \in 1..MaxOpens : i \notin DOMAIN chans[p]})

With(p, i, c) == [j \in DOMAIN chans[p] \cup {i} |-> IF j = i THEN c ELSE chans[p][j]]
Without(p, i) == [j \in DOMAIN chans[p] \ {i} |-> chans[p][j]]

\* The packets that end i of p queued, addressed to the other end
Addressed(p, i, e) ==
    [n \in DOMAIN e.packets |->
        [kind |-> e.packets[n].kind, req |-> e.packets[n].req, to |-> chans[p][i].remoteid,
         from |-> i, inc |-> chans[p][i].inc]]

\* p's channels after a call on channel i left its end as e: ssh2_channel_destroy takes the
\* channel out of the tree
Updated_keeps_freed(p, i, e) ==
    With(p, i, [chans[p][i] EXCEPT !.end = Settled(e)])
Updated(p, i, e) ==
    IF e.gone THEN Without(p, i)
    ELSE With(p, i, [chans[p][i] EXCEPT !.end = Settled(e)])

\* The effect of that call; `rest` is what is left in wire[p]
Effect(p, i, e, rest) ==
    /\ wire' = [wire EXCEPT ![p] = rest, ![Other(p)] = @ \o Addressed(p, i, e)]
    /\ chans' = [chans EXCEPT ![p] = Updated(p, i, e)]
    /\ fault' = IF fault = "none" THEN e.fault ELSE fault

Live(p, i) == i \in DOMAIN chans[p] /\ chans[p][i].end.chan # Zombie

--------------------------------------------------------------------------------
(* The sockets. *)

\* Our end of a channel we open: portfwd.c keeps the socket frozen until the answer comes.
SocketFrozen(p) == [NewEnd(Fwd, TRUE) EXCEPT !.input_wanted = FALSE, !.held = throttled[p]]

\* wrap_lportfwd_open and the other openings: CHANNEL_OPEN.  The opener's end is always
\* a forwarded socket; only a server opens X11 channels.
Open(p, kind) ==
    /\ kind = X11 => p = "server"
    /\ opened < MaxOpens /\ opened' = opened + 1
    /\ LET i == FirstFree(p)
       IN  /\ chans' = [chans EXCEPT ![p] = With(p, i, [end |-> SocketFrozen(p),
                                                        remoteid |-> 0, inc |-> opened'])]
           /\ wire' = [wire EXCEPT ![Other(p)] = Append(@, [kind |-> "open", req |-> kind.vt,
                                                           to |-> 0, from |-> i, inc |-> opened'])]
    /\ UNCHANGED <<throttle, written, fault, backlog>>

\* pfd_receive: the socket is read while it is not frozen, and what it says before the channel
\* is open is dropped
SocketData(p, i) ==
    LET c == chans[p][i].end IN
    /\ Live(p, i) /\ c.input_wanted /\ ~c.pending_eof /\ ~c.sent_eof
    /\ written < MaxData /\ written' = written + 1
    /\ Effect(p, i, IF c.halfopen THEN c ELSE Write(c), wire[p])
    /\ UNCHANGED <<throttle, opened, backlog>>

\* pfd_closing, at the end of the socket's input
SocketEof(p, i) ==
    LET c == chans[p][i].end IN
    /\ Live(p, i) /\ c.input_wanted /\ ~c.pending_eof /\ ~c.sent_eof
    /\ Effect(p, i, WriteEof(c), wire[p])
    /\ UNCHANGED <<throttle, opened, written, backlog>>

\* pfd_closing, on an error, which may come before the channel is open
SocketError(p, i) ==
    /\ Live(p, i)
    /\ Effect(p, i, InitiateClose(chans[p][i].end), wire[p])
    /\ UNCHANGED <<throttle, opened, written, backlog>>

\* pfd_sent: the socket has taken what was backed up
SocketDrained(p, i, wide) ==
    LET c == chans[p][i].end IN
    /\ Live(p, i) /\ ~c.halfopen /\ (c.locwindow = 0 \/ c.throttling_conn)
    /\ Effect(p, i, Unthrottle(c, wide), wire[p])
    /\ throttle' = IF c.throttling_conn THEN [throttle EXCEPT ![p] = @ - 1] ELSE throttle
    /\ UNCHANGED <<opened, written, backlog>>

\* ssh_throttle_all: what p sends to the network is backed up, or no longer
ThrottleAll_stops_only(p, on) ==
    /\ throttled' = [throttled EXCEPT ![p] = on]
    /\ chans' = [chans EXCEPT ![p] = [i \in DOMAIN chans[p] |->
            LET c == [chans[p][i].end EXCEPT !.held = on]
            IN  [chans[p][i] EXCEPT !.end = IF on THEN CheckThrottle(c) ELSE c]]]
ThrottleAll(p, on) ==
    /\ throttled' = [throttled EXCEPT ![p] = on]
    /\ chans' = [chans EXCEPT ![p] = [i \in DOMAIN chans[p] |->
            [chans[p][i] EXCEPT !.end = CheckThrottle([chans[p][i].end EXCEPT !.held = on])]]]

\* ssh_bpp_output_raw_data_callback, when sk_write reports too large a backlog
BacklogGrows(p) ==
    /\ ~throttled[p] /\ wire[Other(p)] # <<>>
    /\ backlogs < MaxBacklogs /\ backlogs' = backlogs + 1
    /\ ThrottleAll(p, TRUE)
    /\ UNCHANGED <<wire, throttle, opened, written, thawed, fault>>

\* ssh_sent, when little enough is left
BacklogClears(p) ==
    /\ throttled[p]
    /\ ThrottleAll(p, FALSE)
    /\ thawed' = thawed \cup {chans[p][i].inc : i \in {j \in DOMAIN chans[p] : chans[p][j].end.halfopen}}
    /\ UNCHANGED <<wire, throttle, opened, written, backlogs, fault>>

--------------------------------------------------------------------------------
(* Packets: ssh2_connection_filter_queue at p, while p reads the connection. *)

Arrives(p, kind) == wire[p] # <<>> /\ Head(wire[p]).kind = kind /\ throttle[p] = 0
Cited(p) == Head(wire[p]).to
Citing(p) == Cited(p) \in DOMAIN chans[p]

\* CHANNEL_OPEN, accepted or refused
Accept(p) ==
    LET m == Head(wire[p])
        i == FirstFree(p)
        chan == CHOOSE k \in Kinds : k.vt = m.req
    IN  /\ Arrives(p, "open")
        /\ chans' = [chans EXCEPT ![p] = With(p, i, [end |-> [NewEnd(chan, FALSE) EXCEPT !.held = throttled[p]],
                                                     remoteid |-> m.from, inc |-> m.inc])]
        /\ wire' = [wire EXCEPT ![p] = Tail(@),
                                ![Other(p)] = Append(@, [kind |-> "confirmation", req |-> "none",
                                                        to |-> m.from, from |-> i, inc |-> m.inc])]
        /\ UNCHANGED <<throttle, opened, written, fault, backlog>>

Refuse(p) ==
    LET m == Head(wire[p])
    IN  /\ Arrives(p, "open")
        /\ wire' = [wire EXCEPT ![p] = Tail(@),
                                ![Other(p)] = Append(@, [kind |-> "open-failure", req |-> "none",
                                                        to |-> m.from, from |-> 0, inc |-> m.inc])]
        /\ UNCHANGED <<chans, throttle, opened, written, fault, backlog>>

\* CHANNEL_OPEN_CONFIRMATION: pfd_open_confirmation thaws the socket, and writes what the SOCKS client sent
\* after its request, if anything
RecvConfirmation(p, early) ==
    LET m == Head(wire[p])
        i == Cited(p)
        c == [Confirmed(chans[p][i].end) EXCEPT !.input_wanted = TRUE]
        writes == early /\ c.chan = Fwd
        e == AfterConfirmation(IF writes THEN Write(c) ELSE c)
    IN  /\ Arrives(p, "confirmation") /\ Citing(p)
        /\ early => p = "client" /\ written < MaxData
        /\ wire' = [wire EXCEPT ![p] = Tail(@),
                                ![Other(p)] = @ \o [n \in DOMAIN e.packets |->
                                    [Addressed(p, i, e)[n] EXCEPT !.to = m.from]]]
        /\ chans' = [chans EXCEPT ![p][i].end = Settled(e),
                                  ![p][i].remoteid = m.from]
        /\ fault' = IF fault = "none" THEN e.fault ELSE fault
        /\ written' = IF writes THEN written + 1 ELSE written
        /\ UNCHANGED <<throttle, opened, backlog>>

\* CHANNEL_OPEN_FAILURE
RecvFailure(p) ==
    /\ Arrives(p, "open-failure") /\ Citing(p)
    /\ chans' = [chans EXCEPT ![p] = Without(p, Cited(p))]
    /\ wire' = [wire EXCEPT ![p] = Tail(@)]
    /\ UNCHANGED <<throttle, opened, written, fault, backlog>>

\* CHANNEL_DATA: the Channel takes it all or backs it up.  A zombie takes everything; an X11
\* channel whose fixed window was lifted may back up more than its locmaxwin, which stops
\* the whole connection.
RecvDataPacket(p, fate, wide) ==
    LET c == chans[p][Cited(p)].end
        stops == fate = "too much"
    IN  /\ Arrives(p, "data") /\ Citing(p)
        /\ c.chan = Zombie => fate = "taken"
        /\ stops => c.chan = X11
        /\ Effect(p, Cited(p), RecvData([c EXCEPT !.throttling_conn = @ \/ stops], fate = "taken", wide),
                  Tail(wire[p]))
        /\ throttle' = IF stops /\ ~c.throttling_conn THEN [throttle EXCEPT ![p] = @ + 1] ELSE throttle
        /\ UNCHANGED <<opened, written, backlog>>

\* The other packets: each has one outcome
Handled(p, kind, e) ==
    /\ Arrives(p, kind)
    /\ Effect(p, Cited(p), e, Tail(wire[p]))
    /\ UNCHANGED <<throttle, opened, written, backlog>>

RecvOther(p) ==
    LET c == chans[p][Cited(p)].end
    IN  /\ wire[p] # <<>> /\ Citing(p)
        /\ \/ Handled(p, "adjust", RecvAdjust(c))
           \/ Handled(p, "request", RecvRequest(c, Head(wire[p]).req, TRUE, FALSE))
           \/ c.chanreqs # <<>> /\ Handled(p, "failure", Answered(c))
           \/ Handled(p, "eof", RecvEof(c, FALSE))
           \/ Handled(p, "close", FinishClose(ImpliedEof(c, FALSE)))

ReceiveOpening(p) == Accept(p) \/ Refuse(p) \/ RecvFailure(p)
ReceiveCiting(p) ==
    \/ RecvOther(p)
    \/ \E early \in BOOLEAN : RecvConfirmation(p, early)
    \/ \E fate \in {"taken", "backed up", "too much"}, wide \in BOOLEAN : RecvDataPacket(p, fate, wide)

Drained(p) == \E i \in DOMAIN chans[p], wide \in BOOLEAN : SocketDrained(p, i, wide)

Next ==
    \E p \in Sides :
        \/ \E kind \in Kinds : Open(p, kind)
        \/ \E i \in DOMAIN chans[p] : SocketData(p, i) \/ SocketEof(p, i) \/ SocketError(p, i)
        \/ Drained(p) \/ BacklogGrows(p) \/ BacklogClears(p)
        \/ ReceiveOpening(p) \/ ReceiveCiting(p)

Spec == Init /\ [][Next]_vars

\* Both peers go on reading the connection while nothing throttles it, and sockets go on
\* taking data.  Nothing makes a socket reach its end or fail.  The last two conjuncts are
\* weak fairness too, with ENABLED spelled out for the model checker's sake.
MayReceive(p) ==
    wire[p] # <<>> /\ throttle[p] = 0 /\ Head(wire[p]).kind \notin {"open", "open-failure"}
MayDrain(p) ==
    \E i \in DOMAIN chans[p] :
        LET c == chans[p][i].end IN
        Live(p, i) /\ ~c.halfopen /\ (c.throttling_conn \/ (c.locwindow = 0 /\ MayAdjust(c)))

Fairness ==
    \A p \in Sides :
        /\ WF_vars(ReceiveOpening(p))
        /\ []<>(~MayReceive(p)) \/ []<><<ReceiveCiting(p)>>_vars
        /\ []<>(~MayDrain(p)) \/ []<><<Drained(p)>>_vars
FairSpec == Spec /\ Fairness
--------------------------------------------------------------------------------
(* Properties. *)

\* Every channel end and packet has its type, and one call's packets never outlive it.
TypeOK ==
    /\ DOMAIN chans = Sides
    /\ \A p \in Sides : DOMAIN chans[p] \subseteq 1..MaxOpens /\ chans[p] \in [DOMAIN chans[p] -> Channel]
    /\ wire \in [Sides -> Seq(Message)]
    /\ throttle \in [Sides -> Nat] /\ opened \in 0..MaxOpens /\ written \in 0..MaxData
    /\ throttled \in [Sides -> BOOLEAN] /\ backlogs \in 0..MaxBacklogs /\ thawed \subseteq 1..MaxOpens

\* No packet ever ends the connection: the channel a packet cites exists at the peer, is
\* half-open exactly if the packet answers an OPEN, and a reply finds the request it
\* answers at the head of the list (filter_queue's "Received %s for %s channel %u" and "with
\* no outstanding channel request").  Nor does a packet meet a later user of the same id.
PacketsAccepted ==
    \A p \in Sides : wire[p] # <<>> /\ Head(wire[p]).kind # "open" =>
        LET m == Head(wire[p]) IN
        /\ m.to \in DOMAIN chans[p]
        /\ chans[p][m.to].inc = m.inc
        /\ chans[p][m.to].end.halfopen <=> m.kind \in {"confirmation", "open-failure"}
        /\ m.kind = "failure" => /\ chans[p][m.to].end.chanreqs # <<>>
                               /\ Head(chans[p][m.to].end.chanreqs) = m.req

\* No assertion of connection2.c fails and no function goes on with a channel that a
\* function it called has destroyed.
NoFault == fault = "none"

\* On the wire CLOSE is the last packet of a channel end, and no data follows EOF.
WireOrder ==
    \A p \in Sides : \A m, n \in DOMAIN wire[p] :
        m < n /\ wire[p][m].inc = wire[p][n].inc /\ wire[p][m].kind # "open" =>
            /\ wire[p][m].kind # "close"
            /\ wire[p][m].kind = "eof" => wire[p][n].kind \notin {"data", "eof"}

\* What a backlog of the connection freezes is thawed when it clears: a socket whose channel is
\* open and has not ended is read, though packets and confirmations came and channels were opened
\* meanwhile.  And no socket is read too soon: before the channel is open, when what the socket
\* says is lost, it is read only if a backlog cleared while the channel was half-open.
SocketsReadInTime ==
    \A p \in Sides : \A i \in DOMAIN chans[p] :
        LET c == chans[p][i].end IN
        Live(p, i) /\ ~c.pending_eof =>
            IF c.halfopen THEN c.input_wanted => chans[p][i].inc \in thawed
            ELSE ~throttled[p] /\ ~c.sent_eof => c.input_wanted

\* Neither peer forgets a channel the other may still use: an end that has not sent CLOSE
\* has its counterpart in the peer's tree, or the answer to its OPEN is still to come.
PeerStillThere ==
    \A p \in Sides : \A i \in DOMAIN chans[p] :
        LET c == chans[p][i] IN
        ~c.end.sent_close =>
            \/ c.end.halfopen
            \/ \E j \in DOMAIN chans[Other(p)] : chans[Other(p)][j].inc = c.inc

\* A channel whose local side has gone, or that has seen EOF both ways, is destroyed at
\* both ends in the end, so that its ids can be used again, unless an X11 channel has stopped
\* a connection meanwhile (which ZombiesClose is about).
Finished(p, k) ==
    \E i \in DOMAIN chans[p] :
        /\ chans[p][i].inc = k
        /\ \/ chans[p][i].end.chan = Zombie
           \/ chans[p][i].end.sent_eof /\ chans[p][i].end.rcvd_eof
Known(p, k) == \E i \in DOMAIN chans[p] : chans[p][i].inc = k

ChannelsClose ==
    \A k \in 1..MaxOpens :
        (\E p \in Sides : Finished(p, k))
            ~> ((\A p \in Sides : ~Known(p, k)) \/ \E p \in Sides : throttle[p] > 0)

\* channel.h: a zombie is what is left of a channel "whose proper local source of data has
\* been shut down", and its want_close says "please close this channel asap".  So the end
\* that became a zombie is destroyed in the end.
ZombiesClose ==
    \A p \in Sides, k \in 1..MaxOpens :
        (\E i \in DOMAIN chans[p] : chans[p][i].inc = k /\ chans[p][i].end.chan = Zombie)
            ~> ~Known(p, k)
================================================================================
