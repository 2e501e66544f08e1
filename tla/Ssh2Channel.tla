------------------------------ MODULE Ssh2Channel ------------------------------
(***************************************************************************)
(* One end of an SSH-2 channel: struct ssh2_channel and the functions of   *)
(* ssh/connection2.c that change it.  A function is an operator from the   *)
(* end before the call to the end after it; the packets the call queues    *)
(* are appended to `packets`, `gone` says that ssh2_channel_destroy freed  *)
(* the channel, and `fault` names the first assertion that failed, or use  *)
(* of the channel after it was freed.  SshForwarding and SshSession run    *)
(* two ends against each other.                                            *)
(*                                                                         *)
(* The window is one packet: `remwindow` and `locwindow` are 0 or 1, and a *)
(* packet that finds no window waits in `outbuffer`.  (SshWindow has the   *)
(* arithmetic of real windows.)                                            *)
(*                                                                         *)
(* An operator X_y above the operator X is X with the mistake y, for the   *)
(* mutation runs that PROJECT.json lists; nothing here uses it.            *)
(***************************************************************************)
EXTENDS Naturals, Sequences

\* The Channel objects an end may have, by vtable, with the fields its decisions read.
Fwd == [vt |-> "fwd"]              \* portfwd.c: a forwarded socket
X11 == [vt |-> "x11"]              \* x11fwd.c, or any Channel that may throttle the connection
Zombie == [vt |-> "zombie"]        \* common.c: what close_local leaves behind
Main == [vt : {"main"}, req_pty : BOOLEAN, req_cmd : {"none", "primary", "fallback"},
         got_pty : BOOLEAN, ready : BOOLEAN, eof_pending : BOOLEAN, eof_sent : BOOLEAN]
Sess == [vt : {"sess"}, want_pty : BOOLEAN, backend : {"none", "running", "finished"},
         seen_eof : BOOLEAN, seen_exit : BOOLEAN, callbacks : 0..2]
Channels == {Fwd, X11, Zombie} \cup Main \cup Sess

\* The requests that want a reply, and those that do not
Requests == {"winadj", "pty-req", "shell", "fallback"}
Notices == {"exit-status", "aside", "signal"}   \* an aside is a window-change or a break

End == [chan : Channels, halfopen : BOOLEAN,
        sent_eof : BOOLEAN, sent_close : BOOLEAN, rcvd_eof : BOOLEAN, rcvd_close : BOOLEAN,
        pending_eof : BOOLEAN, outbuffer : Nat, remwindow : 0..1, locwindow : 0..1,
        chanreqs : Seq(Requests), throttling_conn : BOOLEAN, input_wanted : BOOLEAN,
        held : BOOLEAN,   \* all_channels_throttled, of its connection
        packets : {<<>>}, gone : {FALSE}, fault : {"none"}]
\* (between calls, that is: a call's packets, `gone` and `fault` go no further than Effect)

\* ssh2_channel_init; an end opened by us is halfopen until the answer comes
NewEnd(chan, halfopen) ==
    [chan |-> chan, halfopen |-> halfopen,
     sent_eof |-> FALSE, sent_close |-> FALSE, rcvd_eof |-> FALSE, rcvd_close |-> FALSE,
     pending_eof |-> FALSE, outbuffer |-> 0, remwindow |-> IF halfopen THEN 0 ELSE 1,
     locwindow |-> 1, chanreqs |-> <<>>, throttling_conn |-> FALSE, input_wanted |-> TRUE,
     held |-> FALSE,
     packets |-> <<>>, gone |-> FALSE, fault |-> "none"]

Packet(kind, req) == [kind |-> kind, req |-> req]
Push(c, kind, req) == [c EXCEPT !.packets = Append(@, Packet(kind, req))]

\* assert(cond), and any use of a channel that has been freed
Assert(c, cond, what) ==
    IF c.fault # "none" THEN c
    ELSE IF c.gone THEN [c EXCEPT !.fault = "used after free"]
    ELSE IF cond THEN c ELSE [c EXCEPT !.fault = what]

\* The end that a call leaves behind, its packets sent
Settled(c) == [c EXCEPT !.packets = <<>>, !.fault = "none"]

--------------------------------------------------------------------------------
(* Closing. *)

\* chan_want_close: portfwd.c and mainchan.c use chan_default_want_close
WantClose_default(c) == c.chan.vt = "zombie" \/ (c.sent_eof /\ c.rcvd_eof)
WantClose(c) ==
    \/ c.chan.vt = "zombie"
    \/ c.chan.vt = "sess" /\ c.chan.seen_eof /\ c.chan.seen_exit
    \/ c.chan.vt \notin {"zombie", "sess"} /\ c.sent_eof /\ c.rcvd_eof

Destroy(c) ==
    [Assert(c, c.chanreqs = <<>>, "destroyed with requests outstanding") EXCEPT !.gone = TRUE]

\* ssh2_channel_check_close
ReadyToClose_again(c) == WantClose(c) /\ c.chanreqs = <<>>
ReadyToClose(c) == WantClose(c) /\ c.chanreqs = <<>> /\ ~c.sent_close

BothClosed_at_our_close(c) == c.sent_close
BothClosed(c) == c.sent_close /\ c.rcvd_close

CheckClose(c0) ==
    LET c == Assert(c0, TRUE, "none")
        d == IF ReadyToClose(c)
             THEN [Push(c, "close", "none") EXCEPT !.sent_eof = TRUE, !.sent_close = TRUE]
             ELSE c
    IN  IF c.halfopen THEN c
        ELSE IF BothClosed(d) THEN Destroy(d) ELSE d

\* ssh2_channel_try_eof
TryEof(c) ==
    IF c.halfopen \/ c.outbuffer > 0 THEN c
    ELSE CheckClose([Push(c, "eof", "none") EXCEPT !.pending_eof = FALSE, !.sent_eof = TRUE])

\* ssh2channel_write_eof
WriteEof(c) ==
    IF c.sent_eof THEN c ELSE TryEof([Assert(c, TRUE, "none") EXCEPT !.pending_eof = TRUE])

\* ssh2channel_initiate_close: ssh2_channel_close_local frees the Channel object
InitiateClose(c) == CheckClose([c EXCEPT !.chan = Zombie, !.pending_eof = FALSE])

--------------------------------------------------------------------------------
(* Sending. *)

\* ssh2_try_send
MaySend_without_window(c) == ~c.halfopen /\ c.outbuffer > 0
MaySend(c) == ~c.halfopen /\ c.outbuffer > 0 /\ c.remwindow > 0

TrySend(c) ==
    LET d == IF MaySend(c)
             THEN [Push(c, "data", "none") EXCEPT !.outbuffer = @ - 1, !.remwindow = @ - 1]
             ELSE c
    IN  IF d.outbuffer = 0 /\ d.pending_eof THEN TryEof(d) ELSE d

\* ssh2_channel_check_throttle; a zombie has no input to want
CheckThrottle(c) ==
    [Assert(c, TRUE, "none") EXCEPT !.input_wanted = ~c.held /\ ~c.pending_eof /\ ~c.sent_eof]

\* ssh2channel_write, of one packet
Write(c) ==
    TrySend([Assert(c, ~c.sent_eof, "data written after EOF") EXCEPT !.outbuffer = @ + 1])

\* ssh2_chanreq_init; only some requests want a reply
SendRequest(c, req, want_reply) ==
    LET d == Assert(c, ~c.sent_close /\ ~c.rcvd_close, "request on a closed channel")
        e == Push(d, IF want_reply THEN "request" ELSE "notice", req)
    IN  IF want_reply THEN [e EXCEPT !.chanreqs = Append(@, req)] ELSE e

\* ssh2_set_window, opening the window again all the way or part of it
MayAdjust_after_close(c) == ~c.rcvd_eof
MayAdjust(c) == ~c.rcvd_eof /\ ~c.sent_close

SetWindow(c, wide) ==
    IF ~MayAdjust(c) \/ c.locwindow > 0 THEN c
    ELSE [Push(IF wide THEN SendRequest(c, "winadj", TRUE) ELSE c, "adjust", "none")
             EXCEPT !.locwindow = 1]

--------------------------------------------------------------------------------
(* Receiving: the cases of ssh2_connection_filter_queue that cite a channel. *)

\* mainchan_send_eof: `ends` if seat_eof says so; pfd_send_eof and sesschan_send_eof
\* leave the channel alone
ChanSendEof(c, ends) ==
    IF c.chan.vt = "main" /\ ~c.chan.eof_sent /\ (ends \/ c.chan.got_pty)
    THEN [WriteEof(c) EXCEPT !.chan.eof_sent = TRUE, !.input_wanted = FALSE]
    ELSE c

\* CHANNEL_OPEN_CONFIRMATION, up to chan_open_confirmation
Confirmed(c) == [Assert(c, c.halfopen, "confirmed twice") EXCEPT !.halfopen = FALSE, !.remwindow = 1]

\* ... and after it
AfterConfirmation(c) ==
    LET d == CheckClose(c) IN IF d.pending_eof THEN TryEof(d) ELSE d

\* CHANNEL_DATA: the Channel takes the packet, and the window is opened again; or it
\* backs it up and the window stays shut
RecvData(c, takes, wide) ==
    LET d == [c EXCEPT !.locwindow = @ - 1] IN IF takes THEN SetWindow(d, wide) ELSE d

\* CHANNEL_WINDOW_ADJUST
RecvAdjust(c) ==
    LET d == TrySend([c EXCEPT !.remwindow = @ + 1])
    IN  IF c.sent_eof THEN c
        ELSE IF d.outbuffer = 0 THEN CheckThrottle(d) ELSE d

\* CHANNEL_REQUEST, once the Channel has accepted or refused it
Replies_after_close(c, want_reply) == want_reply
Replies(c, want_reply) == want_reply /\ ~c.sent_close

RecvRequest(c, req, want_reply, ok) ==
    IF Replies(c, want_reply) THEN Push(c, IF ok THEN "success" ELSE "failure", req) ELSE c

\* CHANNEL_SUCCESS or CHANNEL_FAILURE, once the request's handler has run
Answered(c) == CheckClose([c EXCEPT !.chanreqs = Tail(@)])

\* CHANNEL_EOF
RecvEof(c, ends) ==
    IF c.rcvd_eof THEN c ELSE CheckClose(ChanSendEof([c EXCEPT !.rcvd_eof = TRUE], ends))

\* CHANNEL_CLOSE: an implied EOF, the end of all outstanding requests, and our own EOF if
\* there is none yet.  (SshSession runs the handlers of the requests first.)
ForgetRequests_not(c) == c
ForgetRequests(c) == [c EXCEPT !.chanreqs = <<>>]
Flush_keeps(c) == c
Flush(c) == [c EXCEPT !.outbuffer = 0]

ImpliedEof(c, ends) ==
    IF c.rcvd_eof THEN c ELSE ChanSendEof([c EXCEPT !.rcvd_eof = TRUE], ends)

FinishClose(c) ==
    LET d == ForgetRequests(c)
        e == IF d.sent_eof THEN d ELSE CheckThrottle(WriteEof(Flush(d)))
    IN  IF e.rcvd_close THEN e ELSE CheckClose([e EXCEPT !.rcvd_close = TRUE])

\* ssh2channel_unthrottle, once the Channel has nothing backed up
Unthrottle(c, wide) == [SetWindow(c, wide) EXCEPT !.throttling_conn = FALSE]
================================================================================
