------------------------------ MODULE SshSession -------------------------------
(***************************************************************************)
(* The session of an SSH-2 connection, from the user to the remote         *)
(* process: at the client the main channel (ssh/mainchan.c) of a           *)
(* connection that has no other channel, at the server a session channel   *)
(* (ssh/sesschan.c) whose backend is a process on a pty or on pipes        *)
(* (unix/pty.c), and between them ssh/connection2.c at both ends.          *)
(*                                                                         *)
(* The user types, announces EOF, resizes the terminal and sends breaks    *)
(* and signals; the process writes, and finishes; each end's toplevel      *)
(* callbacks run when they will.                                           *)
(* A failed assertion stops the program it fails in, and the model.        *)
(***************************************************************************)
EXTENDS Ssh2Channel

CONSTANTS
    Setups,       \* the settings a client may start with, see Setup
    MaxTyped,     \* bounds of the model: data packets the user types,
    MaxPrinted,   \*   data packets the process prints,
    MaxAsides     \*   changes of the terminal size, breaks and signals

Setup == [pty : BOOLEAN,        \* not CONF_nopty
          gui : BOOLEAN,        \* a window, not Plink: see Announce and seat_eof
          fallback : BOOLEAN]   \* CONF_remote_cmd2 is set

ASSUME SessionAssumption ==
    Setups \subseteq Setup /\ {MaxTyped, MaxPrinted, MaxAsides} \subseteq Nat

VARIABLES
    ends,         \* ends[p]: the channel end of p, or Gone
    wire,         \* wire[p]: the packets on their way to p
    conn,         \* the client's connection, and what its toplevel callbacks will do to it
    exitcode,     \* has the client learned the exit code: ssh_got_exitcode
    announced,    \* has the user announced EOF: SS_EOF
    typed, arrived, printed, shown,   \* data packets: from the user, to the process, and back
    asides,       \* changes of the terminal size, breaks and signals
    fault,        \* the assertion that failed, and where
    setup

counts == <<typed, arrived, printed, shown, asides>>
vars == <<ends, wire, conn, exitcode, announced, counts, fault, setup>>

Sides == {"client", "server"}
Other(p) == IF p = "client" THEN "server" ELSE "client"
NoFault == [at |-> "nobody", what |-> "none"]

\* A channel that is not in the tree: before CHANNEL_OPEN, and after ssh2_channel_destroy
Gone == [NewEnd(Zombie, FALSE) EXCEPT !.gone = TRUE]

Message == [kind : {"open", "confirmation", "data", "adjust", "request", "notice", "success",
                    "failure", "eof", "close"},
            req : Requests \cup Notices \cup {"none"}]

\* mainchan_new has just sent its CHANNEL_OPEN
NewMain == [vt |-> "main", req_pty |-> FALSE, req_cmd |-> "none", got_pty |-> FALSE,
            ready |-> FALSE, eof_pending |-> FALSE, eof_sent |-> FALSE]
NewSess == [vt |-> "sess", want_pty |-> FALSE, backend |-> "none", seen_eof |-> FALSE,
            seen_exit |-> FALSE, callbacks |-> 0]

Init ==
    /\ setup \in Setups
    /\ ends = [p \in Sides |-> IF p = "client"
                               THEN [NewEnd(NewMain, TRUE) EXCEPT !.input_wanted = FALSE] ELSE Gone]
    /\ wire = [p \in Sides |-> IF p = "server" THEN <<Packet("open", "none")>> ELSE <<>>]
    /\ conn = "up" /\ exitcode = FALSE /\ announced = FALSE /\ fault = NoFault
    /\ typed = 0 /\ arrived = 0 /\ printed = 0 /\ shown = 0 /\ asides = 0

--------------------------------------------------------------------------------
cli == ends["client"]
srv == ends["server"]

Running == fault = NoFault /\ conn \notin {"closed", "aborted"}

\* A call leaves p's end as e.  The client's last channel to go has
\* ssh2_check_termination_callback queued; `abort` queues ssh_sw_abort.
Effect(p, e, rest, abort) ==
    /\ Running
    /\ ends' = [ends EXCEPT ![p] = IF e.gone THEN Gone ELSE Settled(e)]
    /\ wire' = [wire EXCEPT ![p] = rest, ![Other(p)] = @ \o e.packets]
    /\ fault' = IF e.fault = "none" THEN NoFault ELSE [at |-> p, what |-> e.fault]
    /\ conn' = CASE conn = "up" /\ abort -> "aborting"
                 [] conn = "up" /\ ~abort /\ p = "client" /\ e.gone -> "closing"
                 [] OTHER -> conn
    /\ UNCHANGED setup

Arrives(p, kind) == wire[p] # <<>> /\ Head(wire[p]).kind = kind

\* A packet changes only p's end
Handled(p, kind, e) ==
    /\ Arrives(p, kind)
    /\ Effect(p, e, Tail(wire[p]), FALSE)
    /\ UNCHANGED <<exitcode, announced, counts>>

--------------------------------------------------------------------------------
(* The client's main channel. *)

\* SS_EOF, which waits until the channel is ready
SpecialEof(c) ==
    IF ~c.chan.ready THEN [c EXCEPT !.chan.eof_pending = TRUE]
    ELSE IF c.chan.eof_sent THEN c
    ELSE [WriteEof(c) EXCEPT !.chan.eof_sent = TRUE]

\* mainchan_ready
Ready_forgets_eof(c) == [c EXCEPT !.chan.ready = TRUE, !.chan.eof_pending = FALSE, !.input_wanted = TRUE]
Ready(c) ==
    LET d == [c EXCEPT !.chan.ready = TRUE, !.chan.eof_pending = FALSE, !.input_wanted = TRUE]
    IN  IF c.chan.eof_pending THEN SpecialEof(d) ELSE d

\* mainchan_request_response: a reply is known by the requests that are still open
Responded_command_first(c, ok) ==
    CASE c.chan.req_cmd # "none" /\ ok -> Ready([c EXCEPT !.chan.req_cmd = "none"])
      [] c.chan.req_cmd # "none" /\ ~ok -> [c EXCEPT !.chan.req_cmd = "none"]
      [] c.chan.req_cmd = "none" /\ c.chan.req_pty ->
            [c EXCEPT !.chan.req_pty = FALSE, !.chan.got_pty = ok]
      [] OTHER -> c

\* ... which calls ssh_sw_abort_deferred when no command could be started
GivesUp(c, ok) ==
    /\ ~c.chan.req_pty /\ ~ok
    /\ c.chan.req_cmd = "fallback" \/ (c.chan.req_cmd = "primary" /\ ~setup.fallback)

Responded(c, ok) ==
    CASE c.chan.req_pty -> [c EXCEPT !.chan.req_pty = FALSE, !.chan.got_pty = ok]
      [] ~c.chan.req_pty /\ c.chan.req_cmd # "none" /\ ok ->
            Ready([c EXCEPT !.chan.req_cmd = "none"])
      [] ~c.chan.req_pty /\ c.chan.req_cmd = "primary" /\ ~ok /\ setup.fallback ->
            SendRequest([c EXCEPT !.chan.req_cmd = "fallback"], "fallback", TRUE)
      [] GivesUp(c, ok) -> [c EXCEPT !.chan.req_cmd = "none"]
      [] OTHER -> c

\* CHANNEL_OPEN_CONFIRMATION: mainchan_open_confirmation asks for the pty and the command
Confirmation ==
    LET c == Confirmed(cli)
        d == IF setup.pty THEN [SendRequest(c, "pty-req", TRUE) EXCEPT !.chan.req_pty = TRUE] ELSE c
    IN  Handled("client", "confirmation",
                AfterConfirmation([SendRequest(d, "shell", TRUE) EXCEPT !.chan.req_cmd = "primary"]))

\* CHANNEL_SUCCESS or CHANNEL_FAILURE: the handler runs, then its request leaves the list
Reply(ok) ==
    LET winadj == Head(cli.chanreqs) = "winadj"
    IN  /\ Arrives("client", IF ok THEN "success" ELSE "failure") /\ cli.chanreqs # <<>>
        /\ Effect("client", Answered(IF winadj THEN cli ELSE Responded(cli, ok)),
                  Tail(wire["client"]), ~winadj /\ GivesUp(cli, ok))
        /\ UNCHANGED <<exitcode, announced, counts>>

\* CHANNEL_REQUEST: exit-status, or a winadj
ExitStatus ==
    /\ Arrives("client", "notice")
    /\ exitcode' = TRUE
    /\ Effect("client", cli, Tail(wire["client"]), FALSE)
    /\ UNCHANGED <<announced, counts>>

\* CHANNEL_DATA: the terminal or standard output takes it all, or backs it up
Show(takes, wide) ==
    /\ Arrives("client", "data")
    /\ Effect("client", RecvData(cli, takes, wide), Tail(wire["client"]), FALSE)
    /\ shown' = shown + 1
    /\ UNCHANGED <<exitcode, announced, typed, arrived, printed, asides>>

\* ssh2_stdout_unthrottle
Drained(wide) ==
    /\ ~cli.gone /\ cli.locwindow = 0
    /\ Effect("client", Unthrottle(cli, wide), wire["client"], FALSE)
    /\ UNCHANGED <<exitcode, announced, counts>>

\* CHANNEL_CLOSE: the handlers of all outstanding requests run, with failure
Cancelled(c) ==
    IF c.chan.vt # "main" THEN c ELSE Responded(Responded(Responded(c, FALSE), FALSE), FALSE)

ClientClose ==
    LET c == ImpliedEof(cli, setup.gui)
    IN  /\ Arrives("client", "close")
        /\ Effect("client", FinishClose(Cancelled(c)), Tail(wire["client"]),
                  c.chan.vt = "main" /\ c.chan.req_cmd # "none")
        /\ UNCHANGED <<exitcode, announced, counts>>

ClientReceives ==
    \/ Confirmation \/ ExitStatus \/ ClientClose
    \/ \E ok \in BOOLEAN : Reply(ok)
    \/ \E takes, wide \in BOOLEAN : Show(takes, wide)
    \/ Handled("client", "request", RecvRequest(cli, "winadj", TRUE, FALSE))
    \/ Handled("client", "adjust", RecvAdjust(cli))
    \/ Handled("client", "eof", RecvEof(cli, setup.gui))

--------------------------------------------------------------------------------
(* The user. *)

\* ssh_send, while ssh_sendok.  Plink stops reading at the end of its standard input; in
\* a window the user may type on after a ^D that local line editing made an SS_EOF.
Type ==
    /\ ~cli.gone /\ cli.input_wanted /\ (announced => setup.gui)
    /\ typed < MaxTyped /\ typed' = typed + 1
    /\ Effect("client", Write(cli), wire["client"], FALSE)
    /\ UNCHANGED <<exitcode, announced, arrived, printed, shown, asides>>

\* mainchan_special_cmd with SS_EOF
Announce ==
    /\ ~cli.gone /\ ~announced /\ announced' = TRUE
    /\ Effect("client", SpecialEof(cli), wire["client"], FALSE)
    /\ UNCHANGED <<exitcode, counts>>

\* mainchan_terminal_size
Resize ==
    /\ ~cli.gone /\ (cli.chan.req_pty \/ cli.chan.got_pty)
    /\ asides < MaxAsides /\ asides' = asides + 1
    /\ Effect("client", SendRequest(cli, "aside", FALSE), wire["client"], FALSE)
    /\ UNCHANGED <<exitcode, announced, typed, arrived, printed, shown>>

\* mainchan_special_cmd with SS_BRK or a signal: the request cites c->remoteid, which nobody has
\* set while the channel is half-open
Special ==
    /\ ~cli.gone /\ asides < MaxAsides /\ asides' = asides + 1
    /\ \E req \in {"aside", "signal"} :
          Effect("client", SendRequest(Assert(cli, ~cli.halfopen, "remote id not set"), req, FALSE),
                 wire["client"], FALSE)
    /\ UNCHANGED <<exitcode, announced, typed, arrived, printed, shown>>

\* The client's toplevel callbacks: ssh2_check_termination finds no channel left, or
\* ssh_sw_abort ends the connection
Callback ==
    /\ Running /\ conn \in {"closing", "aborting"}
    /\ conn' = IF conn = "closing" THEN "closed" ELSE "aborted"
    /\ UNCHANGED <<ends, wire, exitcode, announced, counts, fault, setup>>

--------------------------------------------------------------------------------
(* The server's session channel. *)

\* CHANNEL_OPEN of a session is always accepted
Accept ==
    Handled("server", "open", Push(NewEnd(NewSess, FALSE), "confirmation", "none"))

\* CHANNEL_REQUEST at the server.  A pty is refused if the channel has one or its modes make
\* no sense, a command if one was started or it is a subsystem the server does not have.
Granted(c, req, able) ==
    CASE req = "pty-req" -> able /\ c.chan.vt = "sess" /\ ~c.chan.want_pty
      [] req \in {"shell", "fallback"} -> able /\ c.chan.vt = "sess" /\ c.chan.backend = "none"
      [] OTHER -> FALSE

Done(c, req) ==
    IF req = "pty-req" THEN [c EXCEPT !.chan.want_pty = TRUE] ELSE [c EXCEPT !.chan.backend = "running"]

Serve(able) ==
    LET req == Head(wire["server"]).req
        ok == Granted(srv, req, able)
    IN  /\ Arrives("server", "request")
        /\ Handled("server", "request", RecvRequest(IF ok THEN Done(srv, req) ELSE srv, req, TRUE, ok))

\* CHANNEL_DATA: the process takes it all or pty.c backs it up, and then nothing opens the
\* window again: pty.c calls no seat_sent, and sesschan.c implements none
Feed(takes, wide) ==
    /\ Arrives("server", "data")
    /\ takes \/ (srv.chan.vt = "sess" /\ srv.chan.backend # "none")
    /\ Effect("server", RecvData(srv, takes, wide), Tail(wire["server"]), FALSE)
    /\ arrived' = arrived + 1
    /\ UNCHANGED <<exitcode, announced, typed, printed, shown, asides>>

\* A request without a reply: sesschan_send_signal hands a signal to the backend, if there is one or not
Noticed(c, req) ==
    Assert(c, ~(req = "signal" /\ c.chan.vt = "sess" /\ c.chan.backend = "none"), "signal without a backend")

ServerReceives ==
    \/ Accept
    \/ \E able \in BOOLEAN : Serve(able)
    \/ \E takes, wide \in BOOLEAN : Feed(takes, wide)
    \/ \E ok \in BOOLEAN : /\ srv.chanreqs # <<>>
                           /\ Handled("server", IF ok THEN "success" ELSE "failure", Answered(srv))
    \/ Handled("server", "notice", Noticed(srv, Head(wire["server"]).req))
    \/ Handled("server", "adjust", RecvAdjust(srv))
    \/ Handled("server", "eof", RecvEof(srv, FALSE))
    \/ Handled("server", "close", FinishClose(ImpliedEof(srv, FALSE)))

Process == Running /\ srv.chan.vt = "sess" /\ srv.chan.backend = "running"

\* pty_real_select_result: the process wrote something; pty.c reads on while the backlog is small
Output ==
    /\ Process /\ srv.outbuffer <= 1
    /\ printed < MaxPrinted /\ printed' = printed + 1
    /\ Effect("server", Write(srv), wire["server"], FALSE)
    /\ UNCHANGED <<exitcode, announced, typed, arrived, shown, asides>>

\* pty_finished: sesschan_seat_eof, then sesschan_notify_remote_exit; each queues
\* sesschan_check_close_callback
Finish ==
    LET c == [WriteEof(srv) EXCEPT !.chan.seen_eof = TRUE, !.chan.backend = "finished"]
    IN  /\ Process
        /\ Effect("server", [SendRequest(c, "exit-status", FALSE)
                                EXCEPT !.chan.seen_exit = TRUE, !.chan.callbacks = 2],
                  wire["server"], FALSE)
        /\ UNCHANGED <<exitcode, announced, counts>>

\* sesschan_check_close_callback; sesschan_free deletes the callbacks that are left
CheckCloseCallback ==
    LET c == [srv EXCEPT !.chan.callbacks = @ - 1]
    IN  /\ srv.chan.vt = "sess" /\ srv.chan.callbacks > 0
        /\ Effect("server", IF c.chan.seen_eof /\ c.chan.seen_exit THEN InitiateClose(c) ELSE c,
                  wire["server"], FALSE)
        /\ UNCHANGED <<exitcode, announced, counts>>

--------------------------------------------------------------------------------
UserActs == Type \/ Announce \/ Resize \/ Special
ProcessActs == Output \/ Finish
DrainedSome == \E wide \in BOOLEAN : Drained(wide)

Next == ClientReceives \/ ServerReceives \/ DrainedSome \/ UserActs \/ ProcessActs
           \/ Callback \/ CheckCloseCallback

Spec == Init /\ [][Next]_vars

\* Both programs read the connection and run their toplevel callbacks, and the client's
\* output drains: weak fairness of each, with ENABLED spelled out where the model checker
\* evaluates it too slowly.  The user and the process need not do anything.
Fairness ==
    /\ []<>(wire["client"] = <<>> \/ ~Running) \/ []<><<ClientReceives>>_vars
    /\ []<>(wire["server"] = <<>> \/ ~Running) \/ []<><<ServerReceives>>_vars
    /\ []<>~(Running /\ ~cli.gone /\ cli.locwindow = 0 /\ MayAdjust(cli)) \/ []<><<DrainedSome>>_vars
    /\ WF_vars(Callback)
    /\ \/ []<>~(Running /\ srv.chan.vt = "sess" /\ srv.chan.callbacks > 0)
       \/ []<><<CheckCloseCallback>>_vars

FairSpec == Spec /\ Fairness
--------------------------------------------------------------------------------
(* Properties. *)

\* Every variable has its type, and the model stops at the first assertion that fails.
TypeOK ==
    /\ ends \in [Sides -> End \cup {Gone}] /\ wire \in [Sides -> Seq(Message)]
    /\ setup \in Setups
    /\ conn \in {"up", "closing", "closed", "aborting", "aborted"}
    /\ {exitcode, announced} \subseteq BOOLEAN
    /\ typed \in 0..MaxTyped /\ printed \in 0..MaxPrinted /\ asides \in 0..MaxAsides
    /\ arrived \in 0..typed /\ shown \in 0..printed

\* A packet that is read finds its channel, and a reply finds its request: at the head of
\* the list, and in the main channel's own opinion of which request is being answered,
\* which it forms from the requests it still waits for.
RepliesUnderstood ==
    \A p \in Sides : Running /\ wire[p] # <<>> /\ Head(wire[p]).kind # "open" =>
        LET c == ends[p]
            m == Head(wire[p])
        IN  /\ ~c.gone
            /\ m.kind \in {"success", "failure"} => c.chanreqs # <<>> /\ Head(c.chanreqs) = m.req
            /\ m.kind \in {"success", "failure"} /\ c.chan.vt = "main" =>
                  /\ m.req = "pty-req" => c.chan.req_pty
                  /\ m.req = "shell" => ~c.chan.req_pty /\ c.chan.req_cmd = "primary"
                  /\ m.req = "fallback" => ~c.chan.req_pty /\ c.chan.req_cmd = "fallback"

\* The client never ends a session of its own accord without the process's exit status: if
\* ssh2_check_termination closes the connection, exit-status has been received.
ExitStatusFirst == conn \in {"closing", "closed"} => exitcode

\* The EOF that the user announced is never forgotten between SS_EOF and the packet:
\* mainchan.c's eof_pending and connection2.c's pending_eof hand it on.
EofKept ==
    announced /\ Running /\ conn = "up" =>
        \/ cli.gone
        \/ cli.chan.eof_pending /\ ~cli.chan.ready
        \/ cli.pending_eof \/ cli.sent_eof

\* What a session can go wrong by is four things: at the client a request sent after the end was
\* closed, one sent before it was open, and data written after EOF was sent; at the server a signal
\* that comes while no command runs.  No other assertion of connection2.c fails, and no channel is
\* used after it was freed.
OtherAssertionsHold ==
    \/ fault = NoFault
    \/ fault.at = "client" /\ fault.what \in {"request on a closed channel", "remote id not set",
                                              "data written after EOF"}
    \/ fault = [at |-> "server", what |-> "signal without a backend"]

\* When the process has finished the session ends, whatever is still buffered or in transit
\* and however the user behaves.
SessionEnds ==
    (srv.chan.vt = "sess" /\ srv.chan.backend = "finished") ~> ~Running

--------------------------------------------------------------------------------
(* What the code says and does not do. *)

\* ssh2_chanreq_init: assert(!(c->closes & (CLOSES_SENT_CLOSE | CLOSES_RCVD_CLOSE))).
NoRequestAfterClose == fault.what # "request on a closed channel"

\* ssh2channel_write: assert(!(c->closes & CLOSES_SENT_EOF)).
NoDataAfterEof == fault.what # "data written after EOF"

\* connection2.h on pending_eof: "We can't actually send the EOF until we've finished sending
\* the data".  So the terminal has everything the process printed once the session is over.
OutputComplete == conn = "closed" => shown = printed

\* putty.h on a Seat's sent method: a front end buried in something else "will need to be
\* proactively notified that the amount of buffered data has become smaller".  So what the
\* user types gets to the process in the end, unless the session ends.
InputArrives == \A n \in 1..MaxTyped : typed >= n ~> (arrived >= n \/ ~Running \/ srv.chan = Zombie)
================================================================================
