------------------------------- MODULE SshSharing -------------------------------
(***************************************************************************)
(* Connection sharing (ssh/sharing.c) in the upstream PuTTY, with the part *)
(* of the connection layer it works through (ssh/connection2.c and         *)
(* connection2-client.c): downstreams that connect, open channels, ask for *)
(* remote port forwardings and for X11, are offered the server's channels, *)
(* and go away at any moment, their channels and forwardings being cleaned *)
(* up when the server's answers allow it.                                  *)
(*                                                                         *)
(* The upstream's state is one record `up`; `up.odd` is a history of what  *)
(* has happened that the code does not provide for.  The server and the    *)
(* downstreams act on a packet when it is sent to them; what they send     *)
(* waits in `server.out` and `down[d].out` for the upstream to read it.    *)
(***************************************************************************)
EXTENDS Naturals, Sequences, FiniteSetsExt, Functions, SequencesExt

CONSTANTS
    Downstreams,  \* the downstream connections there will have been
    Ports,        \* the (host, port) pairs that can be listened on
    Budget,       \* bound of the model: what the server starts of its own accord, and WishCost for
    WishCost      \*   each session and forwarding the downstreams ask for

ASSUME SharingAssumption ==
    /\ IsFiniteSet(Downstreams) /\ IsFiniteSet(Ports)
    /\ Budget \in Nat /\ WishCost \in Nat
    /\ Downstreams \cap {"main", "x11", "none"} = {}   \* the other owners of a channel

VARIABLES
    up,        \* struct ssh2_connection_state and the struct ssh_sharing_connstates
    server,    \* the SSH server
    down,      \* down[d]: the downstream d
    spent      \* how much of Budget is spent

vars == <<up, server, down, spent>>

Msg(t, a, b) == [t |-> t, a |-> a, b |-> b]

\* What upstream remembers of a downstream; `sock` is present while it is "live".
Blank(state) == [state |-> state, half |-> {}, ch |-> {}, xc |-> {}, fwd |-> <<>>, greq |-> <<>>]

\* The connection layer's tables: chan[id] is the owner of a channel and the server's id for it.
Main == 0
Away == [ch |-> {}, offers |-> {}, fw |-> {}, wait |-> <<>>, out |-> <<>>, stray |-> FALSE, x11 |-> FALSE]
Init ==
    /\ up = [cs |-> [d \in Downstreams |-> Blank("absent")],
             chan |-> [i \in {Main} |-> [owner |-> "main", sid |-> 0]],
             rpf |-> <<>>, ogr |-> <<>>, auths |-> {}, check |-> FALSE, ended |-> FALSE,
             fault |-> "none", odd |-> {}, srv |-> <<>>, dwn |-> <<>>]
    /\ server = [asked |-> {}, ch |-> {}, reqs |-> <<>>, listens |-> {}, shows |-> {}, out |-> <<>>,
                 twice |-> FALSE, refused |-> FALSE]
    /\ down = [d \in Downstreams |-> Away]
    /\ spent = 0

Live(d) == up.cs[d].state = "live"
Running == ~up.ended /\ up.fault = "none" /\ ~server.refused
With(f, x, y) == [z \in DOMAIN f \cup {x} |-> IF z = x THEN y ELSE f[z]]
Lowest(used) == CHOOSE i \in 1 .. Cardinality(used) + 1 :
                    i \notin used /\ \A j \in 1 .. i - 1 : j \in used

-----------------------------------------------------------------------------
(* What the server and a downstream make of a packet.                       *)

\* External: the server, told p.
ServerTakes(s, p) ==
    LET its == {c \in s.ch : c.sid = p.a}
        Gone == [s EXCEPT !.ch = @ \ its]
        No == [s EXCEPT !.refused = TRUE]
    IN CASE p.t = "open" -> [s EXCEPT !.asked = @ \cup {p.a}]
         [] p.t \in {"forward", "cancel"} -> [s EXCEPT !.reqs = Append(@, p)]
         [] p.t = "openfail" /\ p.a = Main -> [s EXCEPT !.twice = TRUE]
         [] OTHER ->
    IF its = {} THEN No
    ELSE CASE p.t = "confirm" -> IF \E c \in its : c.st = "opening"
                                 THEN [Gone EXCEPT !.ch = @ \cup {[sid |-> p.a, uid |-> p.b, st |-> "open"]}]
                                 ELSE No
           [] p.t = "openfail" -> IF \E c \in its : c.st = "opening" THEN Gone ELSE No
           [] p.t = "close" -> IF \E c \in its : c.st = "closing" THEN Gone
                               ELSE [Gone EXCEPT !.out = @ \o SetToSeq({Msg("close", c.uid, 0) : c \in its})]
           [] p.t = "x11-req" -> [s EXCEPT !.shows = @ \cup {p.b}]
           [] p.t = "adjust" -> s

\* External: a downstream, told p; it answers a CLOSE at once.
DownTakes(v, p) ==
    LET its == {c \in v.ch : c.cid = p.a}
        Gone == [v EXCEPT !.ch = @ \ its]
        No == [v EXCEPT !.stray = TRUE]
    IN IF \E i \in DOMAIN v.out : v.out[i].t = "gone" THEN v
       ELSE
       CASE p.t \in {"success", "failure"} ->
                IF v.wait = <<>> THEN No
                ELSE [v EXCEPT !.wait = Tail(@),
                               !.fw = IF p.t = "failure" THEN @ \ {Head(v.wait)} ELSE @]
         [] p.t = "open" -> [v EXCEPT !.offers = @ \cup {[sid |-> p.a, kind |-> p.b]}]
         [] OTHER ->
    IF its = {} THEN No
    ELSE CASE p.t = "confirm" -> [Gone EXCEPT !.ch = @ \cup {[cid |-> p.a, sid |-> p.b, st |-> "open"]}]
           [] p.t = "openfail" -> Gone
           [] p.t = "data" -> IF \E c \in its : c.st = "asked" THEN No ELSE v
           [] p.t = "close" -> IF \E c \in its : c.st = "closing" THEN Gone
                               ELSE [Gone EXCEPT !.out = @ \o SetToSeq({Msg("close", c.sid, 0) : c \in its})]

\* They are told the packets of q one after the other.
ServerTold(s, q) ==
    LET after[i \in 0 .. Len(q)] == IF i = 0 THEN s ELSE ServerTakes(after[i - 1], q[i])
    IN after[Len(q)]
DownTold(v, q) ==
    LET after[i \in 0 .. Len(q)] == IF i = 0 THEN v ELSE DownTakes(after[i - 1], q[i])
    IN after[Len(q)]

\* Upstream's state after a handler, with what it sent delivered: s and v as left by what it read.
\* A server may overlook a refusal that names channel 0, or end the connection.
Deliver(u, d, s, v) ==
    /\ up' = [u EXCEPT !.srv = <<>>, !.dwn = <<>>]
    /\ LET told == ServerTold(s, u.srv)
       IN \/ server' = [told EXCEPT !.twice = FALSE]
          \/ told.twice /\ server' = [told EXCEPT !.refused = TRUE]
    /\ down' = [down EXCEPT ![d] = DownTold(v, u.dwn)]

-----------------------------------------------------------------------------
(* Upstream's helpers: each maps the record `up` to what it becomes.        *)

Fault(u, what) == [u EXCEPT !.fault = what]
Odd(u, what, d) == [u EXCEPT !.odd = @ \cup {<<what, d>>}]
ToServer(u, p) == [u EXCEPT !.srv = Append(@, p)]
ToServerAll(u, ps) == [u EXCEPT !.srv = @ \o SetToSeq(ps)]

\* send_packet_to_downstream: nothing is sent to a downstream that has gone.
ToDown(u, d, p) == IF u.cs[d].state # "live" THEN u ELSE [u EXCEPT !.dwn = Append(@, p)]

\* ssh2_alloc_sharing_channel
NewChannel(u, owner, sid) ==
    [u EXCEPT !.chan = With(@, Lowest(DOMAIN @ \ {Main}), [owner |-> owner, sid |-> sid])]

\* ssh2_delete_sharing_channel, ssh2_channel_destroy: queues the check for termination.
DeleteChannels(u, uids) ==
    [u EXCEPT !.chan = Restrict(@, DOMAIN @ \ uids), !.check = @ \/ uids \cap DOMAIN u.chan # {}]
DeleteChannel(u, uid) == DeleteChannels(u, {uid})

\* share_add_channel, whose tree by server id takes no two channels of one id.
AddChannel(u, d, c) ==
    IF c.st # "unacknowledged" /\ \E k \in u.cs[d].ch : k.sid = c.sid
    THEN Fault(u, "duplicate")
    ELSE [u EXCEPT !.cs[d].ch = @ \cup {c}]

SetChannel_adds(u, d, c, new) == [u EXCEPT !.cs[d].ch = @ \cup {new}]
SetChannel(u, d, c, new) == [u EXCEPT !.cs[d].ch = (@ \ {c}) \cup {new}]

\* share_remove_channel, which takes away its X11 display, after ssh_delete_sharing_channel.
RemoveChannels(u, d, cs) ==
    [u EXCEPT !.cs[d].ch = @ \ cs, !.auths = @ \ {[d |-> d, uid |-> c.uid] : c \in cs}]
DropChannels(u, d, cs) == RemoveChannels(DeleteChannels(u, {c.uid : c \in cs}), d, cs)
DropChannel(u, d, c) == DropChannels(u, d, {c})

\* ssh2_rportfwd_remove: fwd[p].rpf says whether the record it points to is still in the tree.
RportfwdRemove(u, d, p) ==
    IF u.cs[d].fwd[p].rpf
    THEN [u EXCEPT !.rpf = Restrict(@, DOMAIN @ \ {p}), !.cs[d].fwd[p].rpf = FALSE]
    ELSE Fault(u, "rportfwd")

RemoveForwarding(u, d, p) == [u EXCEPT !.cs[d].fwd = Restrict(@, DOMAIN @ \ {p})]

\* share_try_cleanup.  Half-open channels are refused; open ones are closed, and gone at once if the
\* server has closed them; forwardings in force are cancelled; a connstate with none left is freed.
RefuseHalf(u, d) ==
    [ToServerAll(u, {Msg("openfail", sid, 0) : sid \in u.cs[d].half}) EXCEPT !.cs[d].half = {}]

Closable_unacknowledged == {"open", "rcvd", "unacknowledged"}
Closable == {"open", "rcvd"}
CloseAll(u, d) ==
    LET open == {c \in u.cs[d].ch : c.st \in Closable}
        ended == {c \in open : c.st = "rcvd"}
        told == ToServerAll(u, {Msg("close", c.sid, 0) : c \in open})
    IN [DropChannels(told, d, ended) EXCEPT
            !.cs[d].ch = (@ \ open) \cup {[c EXCEPT !.st = "sent"] : c \in open \ ended}]

CancelAll(u, d) ==
    LET active == {p \in DOMAIN u.cs[d].fwd : u.cs[d].fwd[p].active}
        kept == {p \in active : u.cs[d].fwd[p].rpf}
    IN [ToServerAll(u, {Msg("cancel", p, FALSE) : p \in active}) EXCEPT
            !.rpf = Restrict(@, DOMAIN @ \ kept),
            !.cs[d].fwd = Restrict(@, DOMAIN @ \ active),
            !.fault = IF kept = active THEN @ ELSE "rportfwd"]    \* as in RportfwdRemove

Done_ignores_forwardings(cs) == cs.half = {} /\ cs.ch = {}
Done(cs) == cs.half = {} /\ cs.ch = {} /\ DOMAIN cs.fwd = {}
Free(u, d) ==
    LET freed == [u EXCEPT !.cs[d] = Blank("freed"),
                           !.odd = IF u.cs[d].xc = {} THEN @ ELSE @ \cup {<<"orphan", d>>}]
    IN IF \E e \in Downstreams : freed.cs[e].state \in {"live", "dead"} THEN freed
       ELSE [freed EXCEPT !.check = TRUE]     \* ssh_sharing_no_more_downstreams

TryCleanup(u, d) ==
    LET v == CancelAll(CloseAll(RefuseHalf(u, d), d), d)
    IN IF Done(v.cs[d]) THEN Free(v, d) ELSE v
RetryCleanup_never(u, d) == u
RetryCleanup(u, d) == IF u.cs[d].state = "dead" THEN TryCleanup(u, d) ELSE u

-----------------------------------------------------------------------------
(* share_got_pkt_from_server: a packet of the server's for downstream d.    *)

GlobalReply(u, d, m) ==
    IF u.cs[d].greq = <<>> THEN Fault(u, "globreq")
    ELSE LET g == Head(u.cs[d].greq)
             known == g.port \in DOMAIN u.cs[d].fwd
             settled ==
                 IF ~known THEN u
                 ELSE
                 CASE g.kind = "forward" /\ m.t = "success" -> [u EXCEPT !.cs[d].fwd[g.port].active = TRUE]
                   [] g.kind = "forward" /\ m.t = "failure" ->
                          Odd(RemoveForwarding(u, d, g.port), "refused", g.port)
                   [] g.kind = "cancel" /\ m.t = "success" -> RemoveForwarding(u, d, g.port)
                   [] OTHER -> u
             told == IF g.want THEN ToDown(settled, d, m) ELSE settled
         IN RetryCleanup([told EXCEPT !.cs[d].greq = <<>>], d)

ChannelMsg(u, d, c, m) ==
    LET told == ToDown(u, d, Msg(m.t, c.cid, m.b))
    IN CASE m.t = "confirm" ->
                IF c.st # "unacknowledged" THEN told
                ELSE RetryCleanup(SetChannel(told, d, c, [c EXCEPT !.st = "open", !.sid = m.b]), d)
         [] m.t = "openfail" ->
                IF Live(d) THEN DropChannel(told, d, c) ELSE Odd(DropChannel(told, d, c), "stuck", d)
         [] m.t = "close" ->
                IF c.st = "sent" THEN RetryCleanup(DropChannel(told, d, c), d)
                ELSE SetChannel(told, d, c, [c EXCEPT !.st = "rcvd"])
         [] m.t = "data" -> told

\* share_dead_xchannel_respond, once the queue of x is q.
DropXchannel(u, d, x) == [DeleteChannel(u, x.uid) EXCEPT !.cs[d].xc = @ \ {x}]
DeadRespond(u, d, x, q) ==
    IF \E i \in DOMAIN q : q[i] = "close" THEN DropXchannel(u, d, x)
    ELSE [u EXCEPT !.cs[d].xc = (@ \ {x}) \cup {[x EXCEPT !.live = FALSE, !.q = <<>>]}]

XchannelMsg(u, d, x, m) ==
    IF x.live THEN [u EXCEPT !.cs[d].xc = (@ \ {x}) \cup {[x EXCEPT !.q = Append(@, m.t)]}]
    ELSE DeadRespond(u, d, x, <<m.t>>)

FromServerFor(u, d, m) ==
    LET mine == {c \in u.cs[d].ch : c.uid = m.a}
        xmine == {x \in u.cs[d].xc : x.uid = m.a}
    IN IF u.cs[d].state = "freed" THEN Fault(u, "freed")
       ELSE
       CASE m.t \in {"success", "failure"} -> GlobalReply(u, d, m)
         [] m.t = "open" ->
                ToDown([u EXCEPT !.cs[d].half = @ \cup {m.a}], d, Msg("open", m.a, "forwarded"))
         [] OTHER -> IF mine # {} THEN ChannelMsg(u, d, CHOOSE c \in mine : TRUE, m)
                     ELSE IF xmine # {} THEN XchannelMsg(u, d, CHOOSE x \in xmine : TRUE, m)
                     ELSE u

-----------------------------------------------------------------------------
(* The connection layer, given the packet m of the server's.                *)

\* A forwarded-tcpip channel: one for a downstream is passed on, and the packet, left in the queue
\* with nothing more to read in it, is then refused as one of no known type for channel 0.
OpenForwarded(u, m) ==
    IF m.b \notin DOMAIN u.rpf THEN ToServer(u, Msg("openfail", m.a, 0))
    ELSE LET d == u.rpf[m.b]
         IN ToServer(Odd(FromServerFor(u, d, m), "twice", d), Msg("openfail", Main, 0))

\* An X11 channel is accepted before it is known whom it is for.
OpenX11(u, m) ==
    LET v == NewChannel(u, "x11", m.a)
        uid == CHOOSE i \in DOMAIN v.chan \ DOMAIN u.chan : TRUE
    IN ToServer(v, Msg("confirm", m.a, uid))

\* ssh2channel_x11_sharing_handover, share_setup_x11_channel: the first data of an X11 channel names
\* the display m.b, which is a downstream's.  Data that names none ends in the server's CLOSE.
Handover(u, m) ==
    IF m.b \notin u.auths THEN u
    ELSE LET d == m.b.d
             c == u.chan[m.a]
         IN ToDown([u EXCEPT !.chan[m.a].owner = d,
                             !.cs[d].xc = @ \cup
                                 {[uid |-> m.a, sid |-> c.sid, live |-> TRUE, q |-> <<"data">>]}],
                   d, Msg("open", c.sid, "x11"))

OwnChannel(u, m) ==
    CASE m.t = "auth" -> Handover(u, m)
      [] m.t = "close" -> ToServer(DeleteChannel(u, m.a), Msg("close", u.chan[m.a].sid, 0))
      [] OTHER -> u

Owner(u, m) ==
    IF m.t \in {"success", "failure"} THEN Head(u.ogr)
    ELSE IF m.t = "open" THEN IF m.b \in DOMAIN u.rpf THEN u.rpf[m.b] ELSE "none"
    ELSE IF m.t = "openx" \/ m.a \notin DOMAIN u.chan THEN "none"
    ELSE IF u.chan[m.a].owner = "x11" /\ m.t = "auth" /\ m.b \in u.auths THEN m.b.d
    ELSE u.chan[m.a].owner

FromServer ==
    /\ Running /\ server.out # <<>>
    /\ LET m == Head(server.out)
           d == Owner(up, m)
           u == CASE m.t \in {"success", "failure"} ->
                         [FromServerFor(up, d, m) EXCEPT !.ogr = Tail(@)]
                  [] m.t = "open" -> OpenForwarded(up, m)
                  [] m.t = "openx" -> OpenX11(up, m)
                  [] OTHER ->
                         IF m.a \notin DOMAIN up.chan THEN Fault(up, "nonexistent")
                         ELSE IF up.chan[m.a].owner \in Downstreams
                         THEN FromServerFor(up, d, [m EXCEPT !.t = IF @ = "auth" THEN "data" ELSE @])
                         ELSE OwnChannel(up, m)
           e == IF d \in Downstreams THEN d ELSE CHOOSE x \in Downstreams : TRUE
       IN Deliver(u, e, [server EXCEPT !.out = Tail(@)], down[e])
    /\ UNCHANGED spent

-----------------------------------------------------------------------------
(* share_got_pkt_from_downstream: the packet m of downstream d's.           *)

\* A global request passed on: globreq_tail is never set, so the new record takes the head's place.
Remember(u, d, g) == [u EXCEPT !.cs[d].greq = <<g>>]
PassRequest_as_it_came(u, d, m) ==
    LET v == ToServer([u EXCEPT !.ogr = Append(@, d)], m)
    IN IF \E i \in DOMAIN u.ogr : u.ogr[i] = d THEN Odd(v, "crowded", d) ELSE v
PassRequest(u, d, m) ==
    LET v == ToServer([u EXCEPT !.ogr = Append(@, d)], Msg(m.t, m.a, TRUE))
    IN IF \E i \in DOMAIN u.ogr : u.ogr[i] = d THEN Odd(v, "crowded", d) ELSE v

Forward(u, d, m) ==
    IF m.a \in DOMAIN u.rpf THEN IF m.b THEN ToDown(u, d, Msg("failure", 0, 0)) ELSE u
    ELSE LET v == PassRequest([u EXCEPT !.rpf = With(@, m.a, d)], d, m)
         IN IF m.a \in DOMAIN u.cs[d].fwd THEN v
            ELSE Remember([v EXCEPT !.cs[d].fwd = With(@, m.a, [active |-> FALSE, rpf |-> TRUE])],
                          d, [kind |-> "forward", port |-> m.a, want |-> m.b])

Cancel(u, d, m) ==
    IF m.a \notin DOMAIN u.cs[d].fwd THEN IF m.b THEN ToDown(u, d, Msg("failure", 0, 0)) ELSE u
    ELSE Remember(PassRequest(RportfwdRemove(u, d, m.a), d, m),
                  d, [kind |-> "cancel", port |-> m.a, want |-> m.b])

Open(u, d, m) ==
    LET v == NewChannel(u, d, 0)
        uid == CHOOSE i \in DOMAIN v.chan \ DOMAIN u.chan : TRUE
    IN ToServer(AddChannel(v, d, [cid |-> m.a, uid |-> uid, sid |-> 0, st |-> "unacknowledged"]),
                Msg("open", uid, 0))

\* The queued messages of an xchannel go down as they are; the channel's state is not told of them.
Confirm(u, d, m) ==
    LET xs == {x \in u.cs[d].xc : x.sid = m.a}
        x == CHOOSE y \in xs : TRUE
        v == NewChannel(u, d, 0)
        uid == CHOOSE i \in DOMAIN v.chan \ DOMAIN u.chan : TRUE
    IN IF m.a \in u.cs[d].half
       THEN ToServer([AddChannel(v, d, [cid |-> m.b, uid |-> uid, sid |-> m.a, st |-> "open"])
                          EXCEPT !.cs[d].half = @ \ {m.a}],
                     Msg("confirm", m.a, uid))
       ELSE IF xs # {}
       THEN LET w == AddChannel(u, d, [cid |-> m.b, uid |-> x.uid, sid |-> m.a, st |-> "open"])
                y == [w EXCEPT !.cs[d].xc = @ \ {x},
                               !.dwn = @ \o [i \in DOMAIN x.q |-> Msg(x.q[i], m.b, 0)],
                               !.odd = IF \E i \in DOMAIN x.q : x.q[i] = "close"
                                       THEN @ \cup {<<"xclosed", d>>} ELSE @]
            IN ToServer(y, Msg("adjust", m.a, 0))
       ELSE Fault(u, "confused")

OpenFail(u, d, m) ==
    LET xs == {x \in u.cs[d].xc : x.sid = m.a}
        x == CHOOSE y \in xs : TRUE
    IN IF m.a \in u.cs[d].half THEN ToServer([u EXCEPT !.cs[d].half = @ \ {m.a}], Msg("openfail", m.a, 0))
       ELSE IF xs # {} THEN DeadRespond(ToServer(u, Msg("close", m.a, 0)), d, x, x.q)
       ELSE Fault(u, "confused")

ByServerId(u, d, sid) == {c \in u.cs[d].ch : c.sid = sid /\ c.st # "unacknowledged"}

\* x11-req goes to the server with a display of upstream's own in it.
X11Req(u, d, m) ==
    IF ByServerId(u, d, m.a) = {} THEN Fault(u, "confused")
    ELSE LET c == CHOOSE c \in ByServerId(u, d, m.a) : TRUE
             auth == [d |-> d, uid |-> c.uid]
         IN ToServer([u EXCEPT !.auths = @ \cup {auth}], Msg("x11-req", m.a, auth))

Close_awaits_another(u, d, m) ==
    LET told == ToServer(u, m)
    IN IF ByServerId(u, d, m.a) = {} THEN told
       ELSE LET c == CHOOSE c \in ByServerId(u, d, m.a) : TRUE
            IN SetChannel(told, d, c, [c EXCEPT !.st = "sent"])
Close(u, d, m) ==
    LET told == ToServer(u, m)
    IN IF ByServerId(u, d, m.a) = {} THEN told
       ELSE LET c == CHOOSE c \in ByServerId(u, d, m.a) : TRUE
            IN IF c.st = "rcvd" THEN DropChannel(told, d, c)
               ELSE SetChannel(told, d, c, [c EXCEPT !.st = "sent"])

\* The socket has closed, or DISCONNECT came: share_begin_cleanup.
Gone(u, d) ==
    LET v == IF \E p \in DOMAIN u.cs[d].fwd : ~u.cs[d].fwd[p].rpf THEN Odd(u, "cancelling", d) ELSE u
    IN TryCleanup([v EXCEPT !.cs[d].state = "dead"], d)

Receive(d) ==
    /\ Running /\ Live(d) /\ down[d].out # <<>>
    /\ LET m == Head(down[d].out)
           u == CASE m.t = "forward" -> Forward(up, d, m)
                  [] m.t = "cancel" -> Cancel(up, d, m)
                  [] m.t = "open" -> Open(up, d, m)
                  [] m.t = "confirm" -> Confirm(up, d, m)
                  [] m.t = "openfail" -> OpenFail(up, d, m)
                  [] m.t = "x11-req" -> X11Req(up, d, m)
                  [] m.t = "close" -> Close(up, d, m)
                  [] m.t = "gone" -> Gone(up, d)
       IN Deliver(u, d, server, IF m.t = "gone" THEN Away ELSE [down[d] EXCEPT !.out = Tail(@)])
    /\ UNCHANGED spent

\* share_listen_accepting
Accept(d) ==
    /\ Running /\ up.cs[d].state = "absent"
    /\ up' = [up EXCEPT !.cs[d] = Blank("live")]
    /\ UNCHANGED <<server, down, spent>>

\* Upstream's own session ends.
CloseMain ==
    /\ Running /\ Main \in DOMAIN up.chan
    /\ up' = DeleteChannel(up, Main)
    /\ UNCHANGED <<server, down, spent>>

\* ssh2_check_termination_callback
CheckTermination ==
    /\ Running /\ up.check
    /\ up' = [up EXCEPT !.check = FALSE,
                        !.ended = /\ DOMAIN up.chan = {}
                                   /\ \A d \in Downstreams : up.cs[d].state \in {"absent", "freed"}]
    /\ UNCHANGED <<server, down, spent>>

-----------------------------------------------------------------------------
(* External: the server.                                                    *)

ServerSends(s) == server' = s /\ UNCHANGED <<up, down>>

\* It answers global requests in order, and takes or refuses a forwarding.
ServerRequest ==
    /\ Running /\ UNCHANGED spent /\ server.reqs # <<>>
    /\ LET p == Head(server.reqs)
           s == [server EXCEPT !.reqs = Tail(@)]
           reply(t) == IF p.b THEN <<Msg(t, 0, 0)>> ELSE <<>>
       IN \/ /\ (p.t = "forward") # (p.a \in s.listens)
             /\ ServerSends([s EXCEPT !.out = @ \o reply("success"),
                                      !.listens = IF p.t = "forward" THEN @ \cup {p.a} ELSE @ \ {p.a}])
          \/ /\ p.t = "forward" \/ p.a \notin s.listens
             /\ ServerSends([s EXCEPT !.out = @ \o reply("failure")])

NewSid == Lowest({c.sid : c \in server.ch})

\* It answers a channel open in its own time.
ServerAnswer ==
    /\ Running /\ UNCHANGED spent
    /\ \E uid \in server.asked :
        \/ ServerSends([server EXCEPT !.asked = @ \ {uid}, !.out = Append(@, Msg("confirm", uid, NewSid)),
                                      !.ch = @ \cup {[sid |-> NewSid, uid |-> uid, st |-> "open"]}])
        \/ ServerSends([server EXCEPT !.asked = @ \ {uid}, !.out = Append(@, Msg("openfail", uid, 0))])

Event ==
    /\ Running /\ spent + 1 <= Budget
    /\ spent' = spent + 1

\* It opens a channel for a connection to a port it listens on, or to the X display it gave out.
ServerOpen ==
    /\ Event
    /\ \E p \in server.listens :
        ServerSends([server EXCEPT !.out = Append(@, Msg("open", NewSid, p)),
                                   !.ch = @ \cup {[sid |-> NewSid, uid |-> 0, st |-> "opening"]}])

ServerOpenX11 ==
    /\ Event /\ server.shows # {}
    /\ ServerSends([server EXCEPT !.out = Append(@, Msg("openx", NewSid, 0)),
                                  !.ch = @ \cup {[sid |-> NewSid, uid |-> 0, st |-> "opening"]}])

\* It sends data on a channel, the first of an X11 one naming a display; or closes the channel.
ServerSend ==
    /\ Event
    /\ \E c \in server.ch :
        /\ c.st = "open"
        /\ \/ ServerSends([server EXCEPT !.out = Append(@, Msg("data", c.uid, 0))])
           \/ \E auth \in server.shows :
                 ServerSends([server EXCEPT !.out = Append(@, Msg("auth", c.uid, auth))])
           \/ ServerSends([server EXCEPT !.out = Append(@, Msg("close", c.uid, 0)),
                                         !.ch = (@ \ {c}) \cup {[c EXCEPT !.st = "closing"]}])

-----------------------------------------------------------------------------
(* External: a downstream, which is a PuTTY too.                            *)

DownSends(d, v, m) ==
    /\ Running /\ Live(d)
    /\ \A i \in DOMAIN v.out : v.out[i].t # "gone"
    /\ down' = [down EXCEPT ![d] = [v EXCEPT !.out = Append(@, m)]]
    /\ UNCHANGED <<up, server>>
Wish ==
    /\ spent + WishCost <= Budget
    /\ spent' = spent + WishCost

\* It opens a session, asks for X11 on it, and closes a channel.
DownOpen(d) ==
    /\ Wish /\ \A c \in down[d].ch : c.cid # "session"
    /\ DownSends(d, [down[d] EXCEPT !.ch = @ \cup {[cid |-> "session", sid |-> 0, st |-> "asked"]}],
                 Msg("open", "session", 0))
DownX11(d) ==
    /\ UNCHANGED spent /\ ~down[d].x11
    /\ \E c \in down[d].ch :
        /\ c.cid = "session" /\ c.st = "open"
        /\ DownSends(d, [down[d] EXCEPT !.x11 = TRUE], Msg("x11-req", c.sid, 0))
DownClose(d) ==
    /\ UNCHANGED spent
    /\ \E c \in down[d].ch :
        /\ c.st = "open"
        /\ DownSends(d, [down[d] EXCEPT !.ch = (@ \ {c}) \cup {[c EXCEPT !.st = "closing"]}],
                     Msg("close", c.sid, 0))

\* It asks for a forwarding, and cancels one without asking for a reply.
DownForward(d) ==
    /\ Wish
    /\ \E p \in Ports \ down[d].fw :
        DownSends(d, [down[d] EXCEPT !.fw = @ \cup {p}, !.wait = Append(@, p)], Msg("forward", p, TRUE))
DownCancel(d) ==
    /\ UNCHANGED spent
    /\ \E p \in down[d].fw : DownSends(d, [down[d] EXCEPT !.fw = @ \ {p}], Msg("cancel", p, FALSE))

\* It takes or refuses a channel it is offered.
DownAnswer(d) ==
    /\ UNCHANGED spent
    /\ \E o \in down[d].offers :
        LET v == [down[d] EXCEPT !.offers = @ \ {o}]
        IN \/ DownSends(d, v, Msg("openfail", o.sid, 0))
           \/ /\ \A c \in down[d].ch : c.cid # o.kind
              /\ DownSends(d, [v EXCEPT !.ch = @ \cup {[cid |-> o.kind, sid |-> o.sid, st |-> "open"]}],
                           Msg("confirm", o.sid, o.kind))

\* It goes away; its socket is a local one, and what it had sent is read first.
DownGone(d) == UNCHANGED spent /\ DownSends(d, down[d], Msg("gone", 0, 0))

Next ==
    \/ FromServer \/ CloseMain \/ CheckTermination
    \/ ServerRequest \/ ServerAnswer \/ ServerOpen \/ ServerOpenX11 \/ ServerSend
    \/ \E d \in Downstreams :
        \/ Accept(d) \/ Receive(d)
        \/ DownOpen(d) \/ DownX11(d) \/ DownClose(d) \/ DownForward(d) \/ DownCancel(d)
        \/ DownAnswer(d) \/ DownGone(d)

Spec == Init /\ [][Next]_vars

\* The upstream reads what has come and runs its callbacks, and the server answers what it is asked:
\* WF_vars(Progress), whose ENABLED is Due.
Progress ==
    \/ FromServer \/ CheckTermination \/ ServerRequest \/ ServerAnswer
    \/ \E d \in Downstreams : Receive(d)
Due ==
    /\ Running
    /\ \/ server.out # <<>> \/ server.reqs # <<>> \/ server.asked # {} \/ up.check
       \/ \E d \in Downstreams : Live(d) /\ down[d].out # <<>>
FairSpec == Spec /\ ([]<>~Due \/ []<><<Progress>>_vars)

-----------------------------------------------------------------------------
Owners == Downstreams \cup {"main", "x11"}
States == {"open", "sent", "rcvd", "unacknowledged"}
Happened(what, d) == <<what, d>> \in up.odd
InOut(t, uid) == \E i \in DOMAIN server.out : server.out[i].t = t /\ server.out[i].a = uid
Replies == {"success", "failure"}
Count(q, S) == Cardinality({i \in DOMAIN q : q[i] \in S})

(* Types, and the trees' rule: one channel to an id on each side.  Only an  *)
(* X11 channel the server closed before the downstream had taken it can     *)
(* come to have the id of another: the server has forgotten it.             *)
TypeOK ==
    /\ \A i \in DOMAIN up.chan : i \in Nat /\ up.chan[i].owner \in Owners
    /\ DOMAIN up.rpf \subseteq Ports /\ \A p \in DOMAIN up.rpf : up.rpf[p] \in Downstreams
    /\ up.ogr \in Seq(Downstreams) /\ up.check \in BOOLEAN /\ up.ended \in BOOLEAN
    /\ up.srv = <<>> /\ up.dwn = <<>>
    /\ \A d \in Downstreams :
        LET cs == up.cs[d]
        IN /\ cs.state \in {"absent", "live", "dead", "freed"}
           /\ \A c \in cs.ch : c.st \in States
           /\ \A c, k \in cs.ch : c # k => c.uid # k.uid /\ (c.sid = k.sid => 0 = c.sid \/ Happened("xclosed", d))
           /\ DOMAIN cs.fwd \subseteq Ports /\ Len(cs.greq) \in 0 .. 1
    /\ \A c, k \in server.ch : c # k => c.sid # k.sid

(* Each channel upstream keeps for a downstream is one the connection layer *)
(* has for it, one the server has under the ids upstream notes, in a state  *)
(* that goes with what is still on its way, and one the downstream knows by *)
(* the ids it gave.  The exception is an X11 channel the server closed      *)
(* before the downstream had taken it: its CLOSE, queued, is passed on      *)
(* without the state being told (sharing.c:1042-1055).                      *)
ChannelsAgree ==
    \A d \in Downstreams :
        /\ \A i \in DOMAIN up.chan :
            Running /\ up.chan[i].owner = d /\ up.cs[d].state # "freed" =>
                Cardinality({c \in up.cs[d].ch : c.uid = i})
                    + Cardinality({x \in up.cs[d].xc : x.uid = i}) = 1
        /\ \A c \in up.cs[d].ch :
            LET atServer == {s \in server.ch : s.sid = c.sid /\ s.uid = c.uid}
                atDown == {k \in down[d].ch : k.cid = c.cid /\ k.sid = c.sid}
            IN \/ Happened("xclosed", d) \/ ~Running
               \/ /\ c.uid \in DOMAIN up.chan /\ up.chan[c.uid].owner = d
                  /\ CASE c.st = "unacknowledged" ->
                            c.uid \in server.asked \/ InOut("confirm", c.uid) \/ InOut("openfail", c.uid)
                       [] c.st = "open" -> \E s \in atServer : s.st = "open" \/ InOut("close", c.uid)
                       [] c.st = "sent" -> InOut("close", c.uid)
                       [] c.st = "rcvd" -> ~InOut("close", c.uid) /\ \E s \in atServer : s.st = "closing"
                  /\ Live(d) /\ c.st \in {"open", "rcvd"} =>
                        \/ \E k \in atDown : k.st = "open"
                        \/ \E i \in DOMAIN down[d].out :
                               down[d].out[i] \in {Msg("close", c.sid, 0), Msg("gone", 0, 0)}

(* Sharing's record of what a downstream's next reply is for matches the    *)
(* queue of the connection layer (the assertion at sharing.c:1177), and the *)
(* server's answers match that queue, as long as no downstream has had two  *)
(* global requests outstanding: globreq_tail is never set.                  *)
RepliesMatch ==
    /\ \A d \in Downstreams :
        Happened("crowded", d) \/ up.fault # "none"
          \/ Count(up.ogr, {d}) = Len(up.cs[d].greq)
    /\ up.fault = "none" =>
        Len(up.ogr) = Cardinality({i \in DOMAIN server.reqs : server.reqs[i].b})
                          + Cardinality({i \in DOMAIN server.out : server.out[i].t \in Replies})

(* When a downstream has been freed nothing of it is left: no channel, no   *)
(* reply, no display, no forwarding the server may still open channels for. *)
(* Left behind are an X11 channel it had not answered (share_try_cleanup    *)
(* does not look at xchannels) and, in the connection layer's tree, the     *)
(* forwarding the server refused it, which nobody can ask for any more.     *)
NothingLeftBehind ==
    \A d \in Downstreams :
        up.cs[d].state = "freed" /\ ~Happened("crowded", d) /\ up.fault = "none" =>
            /\ \A i \in DOMAIN up.chan : up.chan[i].owner = d => Happened("orphan", d)
            /\ \A i \in DOMAIN up.ogr : up.ogr[i] # d
            /\ \A a \in up.auths : a.d # d
            /\ \A p \in DOMAIN up.rpf : up.rpf[p] = d =>
                    Happened("refused", p) /\ p \notin server.listens
            /\ \A p \in server.listens :
                    \/ p \in DOMAIN up.rpf
                    \/ \E i \in DOMAIN server.reqs : server.reqs[i].t = "cancel" /\ server.reqs[i].a = p

(* No packet sent to the server or to a downstream is one it must refuse,   *)
(* no assertion fails and nothing freed is used, but where: a downstream    *)
(* had two global requests outstanding, cancelled a forwarding and went     *)
(* before the answer, or went with an X11 channel unanswered; or a channel  *)
(* the server opened for a downstream is answered a second time by the      *)
(* connection layer (connection2.c:396-409 leaves the packet in its queue). *)
KnownFaults ==
    /\ server.refused => server.twice /\ \E d \in Downstreams : Happened("twice", d)
    /\ \A d \in Downstreams : ~down[d].stray
    /\ CASE up.fault = "none" -> TRUE
         [] up.fault = "globreq" -> \E d \in Downstreams : Happened("crowded", d)
         [] up.fault = "rportfwd" -> \E d \in Downstreams : Happened("crowded", d) \/ Happened("cancelling", d)
         [] up.fault = "freed" -> \E d \in Downstreams : Happened("crowded", d) \/ Happened("orphan", d)
         [] up.fault = "duplicate" -> \E d \in Downstreams : Happened("xclosed", d)
         [] OTHER -> FALSE

(* When upstream's own session is over and every downstream has gone, the   *)
(* connection ends: whatever the downstreams left half done is settled as   *)
(* the server answers.  Excepted are the faults above, a downstream whose   *)
(* last channel the server refuses after it has gone (the cleanup is not    *)
(* tried again, sharing.c:1255-1257), and the two X11 cases.                *)
Over == Main \notin DOMAIN up.chan /\ \A d \in Downstreams : ~Live(d)
Excused ==
    \/ up.odd \cap ({"stuck", "xclosed", "orphan", "crowded"} \X Downstreams) # {}
    \/ \E i \in DOMAIN up.chan : up.chan[i].owner = "x11"
WindsUp == Over ~> (up.ended \/ ~Running \/ ~Over \/ Excused)
=============================================================================
