------------------------------- MODULE SshWindow -------------------------------
(***************************************************************************)
(* One direction of data through one SSH-2 channel, as ssh/connection2.c   *)
(* runs it at both ends: the writing end buffers what its Channel gives it *)
(* (sshfwd_write) and sends while the remote window lasts; the reading end *)
(* hands data to its own Channel (chan_send), which may back it up, and    *)
(* reopens the window with CHANNEL_WINDOW_ADJUST, each wide adjustment     *)
(* accompanied by a "winadj" CHANNEL_REQUEST the other end must answer.    *)
(*                                                                         *)
(* Bytes are positions in the stream: the bytes written so far are         *)
(* 1..written, those put into the connection 1..sent, those handed to the  *)
(* reading Channel 1..rcvd.  A run of CHANNEL_DATA is one queue entry that *)
(* names the position it reaches; where the run is cut into packets is     *)
(* decided when a packet is read, since bufchain_prefix cuts it wherever   *)
(* the writing end's buffer blocks happen to end and nothing at that end   *)
(* depends on it.  Window credit is counted the same way: an adjustment    *)
(* names the total granted up to and including it.                         *)
(*                                                                         *)
(* An operator X_y above the operator X is X with the mistake y, for the   *)
(* mutation runs that PROJECT.json lists; nothing here uses it.            *)
(***************************************************************************)
EXTENDS Integers, Sequences, FiniteSets

CONSTANTS
    WinSize,      \* OUR_V2_WINSIZE
    BigWin,       \* OUR_V2_BIGWIN, the window of the only channel of a simple connection
    MaxPkt,       \* OUR_V2_MAXPKT, the largest CHANNEL_DATA payload we accept
    WinLimit,     \* 0x40000000, where locmaxwin stops growing
    Setups,       \* the settings a connection and its channel may start with, see Setup
    MaxBytes      \* bound of the model: bytes written to the stream

Setup == [simple : BOOLEAN,      \* ssh_is_simple
          fixedwin : Nat,        \* the Channel's initial_fixed_window_size, 0 for none
          bug_maxpkt : BOOLEAN,  \* BUG_SSH2_MAXPKT: the far end ignores our maximum packet
          bug_winadj : BOOLEAN]  \* BUG_CHOKES_ON_WINADJ: it cannot take winadj requests
\* A simple connection has no connection sharing (ssh.c:209) and forwards no X11, and only
\* an X11 channel that connection sharing might take over has an initial fixed window.

ASSUME SizesAssumption ==
    /\ {WinSize, BigWin, MaxPkt} \subseteq Nat \ {0}
    /\ {WinLimit, MaxBytes} \subseteq Nat
    /\ Setups \subseteq Setup
    /\ \A s \in Setups : s.simple => s.fixedwin = 0

VARIABLES
    \* the writing end: its ssh2_channel's outbuffer, remwindow, pending_eof, CLOSES_SENT_EOF
    written, sent, remwindow, pending_eof, sent_eof,
    \* the reading end: its ssh2_channel's window fields and throttle flags
    locwindow, locmaxwin, remlocwin, throttle_state, chanreqs, throttling_conn, rcvd_eof,
    \* the reading Channel: bytes handed to it, bytes it has backed up, fixed-window phase
    rcvd, bufsize, fixed,
    \* what is in transit each way, and the credit granted and applied so far
    fwd, back, granted, applied,
    \* the settings, fixed once the connection is up
    setup

sndVars  == <<written, sent, remwindow, pending_eof, sent_eof>>
winVars  == <<locwindow, locmaxwin, remlocwin, throttle_state, chanreqs, granted>>
chanVars == <<rcvd, bufsize, fixed, throttling_conn, rcvd_eof>>
vars     == <<sndVars, winVars, chanVars, fwd, back, applied, setup>>

Kinds == {"data", "eof", "reply", "adjust", "winadj"}
Entry == [kind : Kinds, upto : Nat]
Item(kind, upto) == [kind |-> kind, upto |-> upto]
AtHead(q, kind) == q # <<>> /\ Head(q).kind = kind
AtMost(a, b) == IF a <= b THEN a ELSE b

\* ssh2_channel_init, and the CHANNEL_OPEN handler's initial_fixed_window_size
FullWindow == IF setup.simple THEN BigWin ELSE WinSize
StartWindow == IF setup.fixedwin > 0 THEN setup.fixedwin ELSE FullWindow

Init ==
    /\ setup \in Setups
    /\ written = 0 /\ sent = 0 /\ remwindow = StartWindow
    /\ pending_eof = FALSE /\ sent_eof = FALSE
    /\ locwindow = StartWindow /\ locmaxwin = StartWindow /\ remlocwin = StartWindow
    /\ throttle_state = "UNTHROTTLED" /\ chanreqs = <<>> /\ throttling_conn = FALSE
    /\ rcvd_eof = FALSE /\ rcvd = 0 /\ bufsize = 0 /\ fixed = (setup.fixedwin # 0)
    /\ fwd = <<>> /\ back = <<>> /\ granted = 0 /\ applied = 0

--------------------------------------------------------------------------------
(* The writing end. *)

\* ssh2_try_send with `total` bytes written, window `win` and EOF pending or not:
\* send while there is window and data, then the pending EOF if nothing is left.
Reach_ignores_window(total, win) == total
Reach(total, win) == AtMost(sent + win, total)

TrySend(total, win, pending) ==
    LET reach == Reach(total, win)
        ending == pending /\ reach = total
    IN  /\ written' = total
        /\ sent' = reach
        /\ remwindow' = win - (reach - sent)
        /\ pending_eof' = (pending /\ ~ending)
        /\ sent_eof' = ending
        /\ fwd' = LET filled == IF reach > sent THEN Append(fwd, Item("data", reach)) ELSE fwd
                  IN  IF ending THEN Append(filled, Item("eof", reach)) ELSE filled

\* sshfwd_write, by a Channel that has not announced its EOF
Write(n) ==
    /\ ~sent_eof /\ ~pending_eof
    /\ TrySend(written + n, remwindow, FALSE)
    /\ UNCHANGED <<winVars, chanVars, back, applied, setup>>

\* sshfwd_write_eof; ssh2_channel_try_eof sends it only once the buffer is empty
TryEof_early ==
    /\ pending_eof' = FALSE
    /\ sent_eof' = TRUE
    /\ fwd' = Append(fwd, Item("eof", sent))

TryEof ==
    /\ pending_eof' = (sent < written)
    /\ sent_eof' = (sent = written)
    /\ fwd' = IF sent = written THEN Append(fwd, Item("eof", sent)) ELSE fwd

WriteEof ==
    /\ ~sent_eof /\ ~pending_eof
    /\ TryEof
    /\ UNCHANGED <<written, sent, remwindow, winVars, chanVars, back, applied, setup>>

\* CHANNEL_WINDOW_ADJUST: ignored once our EOF is sent, else it may release data
NewWindow_replaced(given) == given
NewWindow(given) == remwindow + given

RecvAdjust ==
    /\ AtHead(back, "adjust")
    /\ back' = Tail(back)
    /\ applied' = Head(back).upto
    /\ IF sent_eof THEN UNCHANGED <<sndVars, fwd>>
       ELSE TrySend(written, NewWindow(Head(back).upto - applied), pending_eof)
    /\ UNCHANGED <<winVars, chanVars, setup>>

\* CHANNEL_REQUEST "winadj@putty...": an unknown request, so it is answered with
\* CHANNEL_FAILURE, behind the data already sent
RecvWinadj ==
    /\ AtHead(back, "winadj")
    /\ back' = Tail(back)
    /\ fwd' = Append(fwd, Item("reply", sent))
    /\ UNCHANGED <<sndVars, winVars, chanVars, applied, setup>>

--------------------------------------------------------------------------------
(* The reading end. *)

Window == [loc : Int, max : Nat, rem : Int,
           state : {"UNTHROTTLED", "UNTHROTTLING", "THROTTLED"},
           reqs : Seq(Nat), given : Nat, queue : Seq(Entry)]

\* The window fields, and the packets queued so far, after a packet of k bytes
After(k) == [loc |-> locwindow - k, max |-> locmaxwin, rem |-> remlocwin - k,
             state |-> throttle_state, reqs |-> chanreqs, given |-> granted, queue |-> back]

\* ssh2_set_window(c, newwin), with the fixed-window phase on or off
Capped(newwin) == IF setup.bug_maxpkt THEN AtMost(newwin, MaxPkt) ELSE newwin

Request_unrecorded(reqs, size) == reqs
Request(reqs, size) == Append(reqs, size)

\* The window is opened all the way: ask the other end to acknowledge it
OpenWide(w, newwin) ==
    [w EXCEPT !.reqs = Request(@, newwin - w.loc),
              !.state = IF @ = "UNTHROTTLED" THEN @ ELSE "UNTHROTTLING",
              !.queue = Append(Append(@, Item("winadj", w.given)),
                               Item("adjust", w.given + (newwin - w.loc))),
              !.given = @ + (newwin - w.loc),
              !.loc = newwin]

\* The window is opened part of the way: pretend it was acknowledged at once
OpenPartly(w, newwin) ==
    [w EXCEPT !.rem = newwin,
              !.state = "THROTTLED",
              !.queue = Append(@, Item("adjust", w.given + (newwin - w.loc))),
              !.given = @ + (newwin - w.loc),
              !.loc = newwin]

\* only an adjustment that at least doubles what is open is worth a packet
NotWorthIt_until_empty(new, loc) == loc > 0
NotWorthIt(new, loc) == new \div 2 < loc

SetWindow(w, newwin, isfixed) ==
    LET new == Capped(newwin)
    IN  IF rcvd_eof \/ isfixed \/ NotWorthIt(new, w.loc) THEN w
        ELSE IF new = w.max /\ ~setup.bug_winadj THEN OpenWide(w, new)
        ELSE OpenPartly(w, new)

\* The far end seems to have run out of window when we did not want it to
Grow(w) ==
    IF w.rem <= 0 /\ w.state = "UNTHROTTLED" /\ w.max < WinLimit
    THEN [w EXCEPT !.max = @ + WinSize] ELSE w

Reopen(w, room, isfixed) == IF room > 0 THEN SetWindow(w, room, isfixed) ELSE w

Install(w) ==
    /\ locwindow' = w.loc /\ locmaxwin' = w.max /\ remlocwin' = w.rem
    /\ throttle_state' = w.state /\ chanreqs' = w.reqs /\ granted' = w.given
    /\ back' = w.queue

\* The packet in hand ends inside the run at the head of the queue, or ends it
TakeBytes(k) ==
    /\ rcvd' = rcvd + k
    /\ fwd' = IF rcvd + k = Head(fwd).upto THEN Tail(fwd) ELSE fwd

\* CHANNEL_DATA of k bytes; chan_send leaves b bytes backed up in the Channel.
\* x11fwd.c keeps nothing before it has seen the client's authorisation (verified)
\* and, when that completes inside this call, first lifts the fixed window
\* (window_override_removed).  A Channel that has a backlog is not writable.
RecvData(k, b, verified) ==
    /\ AtHead(fwd, "data")
    /\ k <= Head(fwd).upto - rcvd
    /\ IF fixed /\ ~verified THEN b = 0 ELSE IF bufsize > 0 THEN b = bufsize + k ELSE b <= k
    /\ verified => fixed
    /\ TakeBytes(k)
    /\ bufsize' = b
    /\ fixed' = (fixed /\ ~verified)
    /\ LET lifted == IF verified
                     THEN SetWindow(After(k), FullWindow, FALSE)
                     ELSE After(k)
           grown == Grow(lifted)
       IN  /\ Install(Reopen(grown, grown.max - b, fixed'))
           /\ throttling_conn' = (throttling_conn \/ b > grown.max \/ (setup.simple /\ b > 0))
    /\ UNCHANGED <<sndVars, rcvd_eof, applied, setup>>

\* sshfwd_unthrottle: the Channel has written d of its backed-up bytes
buflimit == IF setup.simple THEN 0 ELSE locmaxwin
Room_forgets_backlog(backlog) == buflimit
Room_never(backlog) == 0
Room(backlog) == buflimit - backlog
Overfull_at_limit(backlog) == backlog >= buflimit
Overfull(backlog) == backlog > buflimit

Drain(d) ==
    /\ d <= bufsize
    /\ bufsize' = bufsize - d
    /\ Install(Reopen(After(0), Room(bufsize'), fixed))
    /\ throttling_conn' = (throttling_conn /\ Overfull(bufsize'))
    /\ UNCHANGED <<sndVars, rcvd, fixed, rcvd_eof, fwd, applied, setup>>

\* CHANNEL_FAILURE answering a winadj request: ssh2_handle_winadj_response
RecvReply ==
    /\ AtHead(fwd, "reply") /\ chanreqs # <<>>
    /\ fwd' = Tail(fwd)
    /\ remlocwin' = remlocwin + Head(chanreqs)
    /\ chanreqs' = Tail(chanreqs)
    /\ throttle_state' = IF throttle_state = "UNTHROTTLING" THEN "UNTHROTTLED" ELSE throttle_state
    /\ UNCHANGED <<sndVars, locwindow, locmaxwin, granted, chanVars, back, applied, setup>>

\* CHANNEL_EOF
RecvEof ==
    /\ AtHead(fwd, "eof")
    /\ fwd' = Tail(fwd)
    /\ rcvd_eof' = TRUE
    /\ UNCHANGED <<sndVars, winVars, rcvd, bufsize, fixed, throttling_conn, back, applied, setup>>

--------------------------------------------------------------------------------
WriteSome == \E n \in 1..MaxBytes : written + n <= MaxBytes /\ Write(n)
RecvSome  == \E k \in 1..(IF setup.bug_maxpkt THEN MaxBytes ELSE MaxPkt), b \in 0..MaxBytes,
                v \in BOOLEAN : RecvData(k, b, v)
DrainSome == \E d \in 1..MaxBytes : Drain(d)

RecvFwd  == RecvSome \/ RecvReply \/ RecvEof
RecvBack == RecvAdjust \/ RecvWinadj

Next == WriteSome \/ WriteEof \/ RecvBack \/ RecvFwd \/ DrainSome

Spec == Init /\ [][Next]_vars

\* The event loops read whatever arrives, but the reading end stops reading the
\* connection while this channel throttles it; its Channel's sink keeps draining.
Fairness ==
    /\ WF_vars(RecvBack)
    /\ WF_vars(RecvFwd /\ ~throttling_conn)
    /\ WF_vars(DrainSome)

FairSpec == Spec /\ Fairness
--------------------------------------------------------------------------------
(* Properties. *)

\* Every field keeps its type; the remote window, an unsigned, never goes below zero.
TypeOK ==
    /\ setup \in Setups
    /\ written \in Nat /\ sent \in Nat /\ remwindow \in Nat /\ rcvd \in Nat /\ bufsize \in Nat
    /\ granted \in Nat /\ applied \in Nat
    /\ locmaxwin \in Nat /\ locwindow \in Int /\ remlocwin \in Int
    /\ throttle_state \in {"UNTHROTTLED", "UNTHROTTLING", "THROTTLED"}
    /\ pending_eof \in BOOLEAN /\ sent_eof \in BOOLEAN /\ rcvd_eof \in BOOLEAN
    /\ throttling_conn \in BOOLEAN /\ fixed \in BOOLEAN
    /\ chanreqs \in Seq(Nat) /\ fwd \in Seq(Entry) /\ back \in Seq(Entry)

\* No window credit is lost or invented, and the reader never receives a byte beyond
\* the window it opened: what the writing end may still send, the bytes in transit and
\* the adjustments in transit are together exactly the `locwindow` the reading end
\* believes it has open.  (An adjustment that meets a sent EOF is dropped by the
\* WINDOW_ADJUST handler, so then they are at most that.)
CreditConserved ==
    LET credit == remwindow + (sent - rcvd) + (granted - applied)
    IN  /\ 0 <= credit /\ credit <= locwindow
        /\ ~sent_eof => credit = locwindow

\* One channel of a shared connection never stops the whole connection: when its Channel
\* has no initial fixed window and the far end honours the window, the CHANNEL_DATA handler
\* never calls ssh_throttle_conn(+1), because the backlog stays within locmaxwin.
NeverThrottlesConn ==
    ~setup.simple /\ setup.fixedwin = 0
        => ~throttling_conn /\ bufsize + locwindow <= locmaxwin

\* The hysteresis of ssh2_set_window never closes the window for good: a reader with room
\* for `locmaxwin - bufsize` bytes has more than half of that on offer at all times.
WindowWideEnough ==
    ~setup.simple /\ ~fixed /\ ~rcvd_eof /\ bufsize < locmaxwin
        => Capped(locmaxwin - bufsize) \div 2 < locwindow

Count(q, kind) == Cardinality({i \in DOMAIN q : q[i].kind = kind})

\* Every winadj request is matched by exactly one entry of chanreqs until its reply is
\* processed, so a CHANNEL_FAILURE never finds the list empty (which ends the connection
\* with "no outstanding channel request").
RepliesMatchRequests ==
    Len(chanreqs) = Count(back, "winadj") + Count(fwd, "reply")

\* Every byte the writing Channel hands to sshfwd_write gets through to the reading
\* Channel's sink, and so does the EOF it announces, however slowly the sink drains.  (An
\* X11 channel still in its fixed-window phase may wait for ever for the client.)
StreamCompletes ==
    /\ \A n \in 1..MaxBytes : written >= n ~> (rcvd - bufsize >= n \/ fixed)
    /\ (pending_eof \/ sent_eof) ~> (rcvd_eof \/ fixed)

\* A channel that throttles the whole connection lets it go again.
ThrottleReleased == throttling_conn ~> ~throttling_conn

\* What connection2.c runs is the byte stream its two Channel objects are promised: bytes
\* arrive once and in order, and the reading Channel sees EOF after all of them.
Stream == INSTANCE ByteStream WITH
    accepted <- written, delivered <- rcvd, ended <- (pending_eof \/ sent_eof), seen <- rcvd_eof
StreamSpec == Stream!Spec
================================================================================
