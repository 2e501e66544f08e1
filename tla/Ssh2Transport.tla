----------------------------- MODULE Ssh2Transport -----------------------------
(***************************************************************************)
(* The SSH-2 transport layer (ssh/transport2.c, ssh/kex2-client.c,         *)
(* ssh/kex2-server.c) over the SSH-2 binary packet protocol (ssh/bpp2.c),  *)
(* with a client and a server: the first key exchange, the start of the    *)
(* layer above, and key re-exchanges asked for by either end's timer, by   *)
(* byte counts, by the user and by changed settings, while the layer above *)
(* authenticates and then sends data.                                      *)
(*                                                                         *)
(* Keys are numbers: a packet carries the number of the keys it was        *)
(* encrypted with, and whether it was compressed; the receiver decodes it  *)
(* with its own.  `tr[p].pc` is where p's coroutine waits.  One step of it *)
(* handles one packet; a step that leaves more for it to do leaves its     *)
(* callback queued.                                                        *)
(***************************************************************************)
EXTENDS Naturals, Sequences, FiniteSetsExt

CONSTANTS
    MaxAsks,      \* bound of the model: re-exchanges the timers, the user and the counters ask for
    MaxReconfs,   \* bound of the model: changes of the client's settings
    MaxTries,     \* bound of the model: authentication attempts the server refuses
    MaxData       \* bound of the model: data packets sent by each end

ASSUME TransportAssumption ==
    MaxAsks \in Nat /\ MaxReconfs \in Nat /\ MaxTries \in Nat /\ MaxData \in Nat

VARIABLES
    delayed,      \* the compression agreed on starts after authentication
    tr,           \* tr[p]: struct ssh2_transport_state
    bpp,          \* bpp[p]: struct ssh2_bpp_state
    inq,          \* inq[p]: packets the BPP has decoded for the transport layer
    outq,         \* outq[p]: packets waiting for the BPP to send them
    held,         \* held[p]: pq_out_higher, packets from the layer above
    wire,         \* wire[p]: encoded packets on their way to p
    up,           \* up[p]: the layer above
    asks,         \* re-exchanges asked for
    lost,         \* lost[p]: what has taken away p's requests for a re-exchange
    early,        \* the client re-exchanged keys while its compression was pending
    fault         \* the error that ended the connection

vars == <<delayed, tr, bpp, inq, outq, held, wire, up, asks, lost, early, fault>>

Peers == {"client", "server"}
Other(p) == IF p = "client" THEN "server" ELSE "client"

UserAuth == {"authreq", "authfail", "authok"}
Upper == UserAuth \cup {"data"}
Types == Upper \cup {"kexinit", "kexreq", "kexreply", "newkeys", "svcreq", "svcack"}
Classes == {"none", "server", "normal", "post-userauth"}

Packet(type, n) == [type |-> type, n |-> n]

Init ==
    /\ delayed \in BOOLEAN
    /\ tr = [p \in Peers |->
                [pc |-> "start", kex |-> FALSE, class |-> "none", deferred |-> FALSE, ok |-> FALSE,
                 timer |-> FALSE, ic |-> TRUE, conf |-> 0, used |-> 0, begun |-> 0]]
    /\ bpp = [p \in Peers |->
                [outKey |-> 0, inKey |-> 0, outComp |-> FALSE, inComp |-> FALSE, outPend |-> FALSE,
                 inPend |-> FALSE, newkeys |-> FALSE, blocked |-> FALSE, seen |-> FALSE]]
    /\ inq = [p \in Peers |-> <<>>] /\ outq = [p \in Peers |-> <<>>]
    /\ held = [p \in Peers |-> <<>>] /\ wire = [p \in Peers |-> <<>>]
    /\ up = [p \in Peers |-> [auth |-> "idle", tries |-> 0, sent |-> 0, got |-> 0]]
    /\ asks = 0 /\ lost = [p \in Peers |-> {}] /\ early = FALSE /\ fault = "none"

--------------------------------------------------------------------------------
(* The binary packet protocol *)

UserAuths(q) == {i \in DOMAIN q : q[i].type \in UserAuth}

\* How much of q one run of handle_output sends.  While the client's compression
\* is pending it stops after the last packet that may bring USERAUTH_SUCCESS.
Sendable(p, q) ==
    IF bpp[p].blocked /\ UserAuths(q) = {} THEN 0
    ELSE IF p = "client" /\ bpp[p].outPend /\ q # <<>>
         THEN IF UserAuths(q) = {} THEN 1 ELSE Max(UserAuths(q))
         ELSE Len(q)

\* Whether the packet at i of q goes out compressed: the server's compression
\* starts with the packet after USERAUTH_SUCCESS.
Compressed(p, q, i) ==
    \/ bpp[p].outComp
    \/ p = "server" /\ bpp[p].outPend /\ \E j \in 1..(i - 1) : q[j].type = "authok"

Encoded(p, q) ==
    [i \in 1..Sendable(p, q) |->
        [type |-> q[i].type, n |-> q[i].n, key |-> bpp[p].outKey, comp |-> Compressed(p, q, i)]]

EnablePending(b) ==
    [b EXCEPT !.inComp = @ \/ b.inPend, !.outComp = @ \/ b.outPend,
              !.inPend = FALSE, !.outPend = FALSE]

\* The state of p's BPP once it has sent what it can of q.  A server that grants
\* authentication turns its pending compression on, but unlike the client it does
\* not remember that it did: `seen` stays FALSE.
AfterSending(p, q) ==
    LET n == Sendable(p, q)
        granted == p = "server" /\ \E i \in 1..n : q[i].type = "authok"
        b == IF granted THEN EnablePending(bpp[p]) ELSE bpp[p]
    IN  [b EXCEPT !.blocked = @ \/ (n > 0 /\ p = "client" /\ b.outPend)]

Unsent(p, q) == SubSeq(q, Sendable(p, q) + 1, Len(q))

CanSend(p) == fault = "none" /\ Sendable(p, outq[p]) > 0

BppOutput(p) ==
    /\ CanSend(p)
    /\ wire' = [wire EXCEPT ![Other(p)] = @ \o Encoded(p, outq[p])]
    /\ outq' = [outq EXCEPT ![p] = Unsent(p, @)]
    /\ bpp' = [bpp EXCEPT ![p] = AfterSending(p, outq[p])]
    /\ UNCHANGED <<delayed, tr, inq, held, up, asks, lost, early, fault>>

NewOutgoingCrypto(b) ==
    [b EXCEPT !.outKey = @ + 1, !.outPend = delayed /\ ~b.seen, !.outComp = delayed /\ b.seen]

NewIncomingCrypto(b) ==
    [b EXCEPT !.inKey = @ + 1, !.inPend = delayed /\ ~b.seen, !.inComp = delayed /\ b.seen,
              !.newkeys = FALSE]

AfterReading_still_blocked(p, type) ==
    LET b == IF type = "authok" /\ p = "client"
             THEN [EnablePending(bpp[p]) EXCEPT !.seen = TRUE] ELSE bpp[p]
    IN  [b EXCEPT !.newkeys = @ \/ type = "newkeys"]

\* What handle_input does about the type of the packet it has just decoded
AfterReading(p, type) ==
    LET b == IF type = "authok" /\ p = "client"
             THEN [EnablePending(bpp[p]) EXCEPT !.seen = TRUE] ELSE bpp[p]
    IN  [b EXCEPT !.newkeys = @ \/ type = "newkeys",
                  !.blocked = @ /\ type \notin UserAuth]

CanRead_ahead(p) == fault = "none" /\ wire[p] # <<>>

\* handle_input decodes nothing after NEWKEYS until it has been given the new keys
CanRead(p) == fault = "none" /\ wire[p] # <<>> /\ ~bpp[p].newkeys

BppInput(p) ==
    /\ CanRead(p)
    /\ wire' = [wire EXCEPT ![p] = Tail(@)]
    /\ LET m == Head(wire[p]) IN
        IF m.key # bpp[p].inKey \/ m.comp # bpp[p].inComp
        THEN fault' = "garbled" /\ UNCHANGED <<bpp, inq, tr>>
        ELSE /\ inq' = [inq EXCEPT ![p] = Append(@, Packet(m.type, m.n))]
             /\ bpp' = [bpp EXCEPT ![p] = AfterReading(p, m.type)]
             /\ tr' = [tr EXCEPT ![p].ic = TRUE]
             /\ UNCHANGED fault
    /\ UNCHANGED <<delayed, outq, held, up, asks, lost, early>>

--------------------------------------------------------------------------------
(* The transport layer's coroutine *)

Running(p) == fault = "none" /\ tr[p].ic

\* p's coroutine waits at pc and the next packet for it is of one of the types
Next1(p, pc) == Running(p) /\ tr[p].pc = pc /\ inq[p] # <<>> /\ Head(inq[p]).type \notin Upper
Took(p, type) == Head(inq[p]).type = type /\ inq' = [inq EXCEPT ![p] = Tail(@)]

Begun_uncounted(t) == [t EXCEPT !.pc = "kexinit", !.kex = TRUE, !.used = t.conf, !.begun = @ - 1]

\* The state after begin_key_exchange: our KEXINIT is queued with today's settings
Begun(t) == [t EXCEPT !.pc = "kexinit", !.kex = TRUE, !.used = t.conf, !.begun = @ + 1]
BeginNotes(p) ==
    /\ early' = (early \/ (p = "client" /\ bpp[p].outPend))
    /\ lost' = [lost EXCEPT ![p] = {}]

Start(p) ==
    /\ Running(p) /\ tr[p].pc = "start"
    /\ tr' = [tr EXCEPT ![p] = Begun(@)]
    /\ outq' = [outq EXCEPT ![p] = Append(@, Packet("kexinit", tr[p].conf))]
    /\ BeginNotes(p)
    /\ UNCHANGED <<delayed, bpp, inq, held, wire, up, asks, fault>>

RecvKexinit(p) ==
    /\ Next1(p, "kexinit") /\ Took(p, "kexinit")
    /\ tr' = [tr EXCEPT ![p].pc = IF p = "client" THEN "kexreply" ELSE "kexreq"]
    /\ outq' = [outq EXCEPT ![p] = IF p = "client" THEN Append(@, Packet("kexreq", 0)) ELSE @]
    /\ UNCHANGED <<delayed, bpp, held, wire, up, asks, lost, early, fault>>

SendNewkeys_drops_held(p, q) ==
    LET all == q \o <<Packet("newkeys", 0)>> IN
    /\ wire' = [wire EXCEPT ![Other(p)] = @ \o Encoded(p, all)]
    /\ bpp' = [bpp EXCEPT ![p] = NewOutgoingCrypto(AfterSending(p, all))]
    /\ outq' = [outq EXCEPT ![p] = Unsent(p, all)]
    /\ held' = [held EXCEPT ![p] = <<>>]

\* The end of the key exchange proper: NEWKEYS is encoded at once, with the old
\* keys, and what the layer above had to wait with follows under the new ones.
SendNewkeys(p, q) ==
    LET all == q \o <<Packet("newkeys", 0)>> IN
    /\ wire' = [wire EXCEPT ![Other(p)] = @ \o Encoded(p, all)]
    /\ bpp' = [bpp EXCEPT ![p] = NewOutgoingCrypto(AfterSending(p, all))]
    /\ outq' = [outq EXCEPT ![p] = Unsent(p, all) \o held[p]]
    /\ held' = [held EXCEPT ![p] = <<>>]

RecvKexreq(p) ==
    /\ Next1(p, "kexreq") /\ Took(p, "kexreq")
    /\ SendNewkeys(p, Append(outq[p], Packet("kexreply", 0)))
    /\ tr' = [tr EXCEPT ![p].pc = "newkeys"]
    /\ UNCHANGED <<delayed, up, asks, lost, early, fault>>

\* The first time the user is asked about the host key; a rekey compares it
RecvKexreply(p) ==
    /\ Next1(p, "kexreply") /\ Took(p, "kexreply")
    /\ IF tr[p].begun = 1
       THEN tr' = [tr EXCEPT ![p].pc = "hostkey"] /\ UNCHANGED <<bpp, outq, held, wire>>
       ELSE SendNewkeys(p, outq[p]) /\ tr' = [tr EXCEPT ![p].pc = "newkeys"]
    /\ UNCHANGED <<delayed, up, asks, lost, early, fault>>

\* ssh2_transport_dialog_callback: the user accepts the host key
AcceptHostKey(p) ==
    /\ fault = "none" /\ tr[p].pc = "hostkey"
    /\ SendNewkeys(p, outq[p])
    /\ tr' = [tr EXCEPT ![p].pc = "newkeys", ![p].ic = TRUE]
    /\ UNCHANGED <<delayed, inq, up, asks, lost, early, fault>>

Idle_keeps_class(t) == [t EXCEPT !.pc = "idle"]

\* Waiting for a reason to rekey: what rekey_class held is forgotten
Idle(t) == [t EXCEPT !.pc = "idle", !.class = "none"]

\* rekey_class is assigned by something else.  Outside an exchange RK_NORMAL is a
\* request that nothing has acted on; inside one it is the exchange's own.
Overwritten(p, by) ==
    lost' = IF tr[p].class = "normal" /\ ~tr[p].kex THEN [lost EXCEPT ![p] = @ \cup {by}] ELSE lost

Finished_first_only(t) == [t EXCEPT !.kex = FALSE, !.timer = @ \/ ~t.ok]

\* The exchange is over: the timer for the next one starts
Finished(t) == [t EXCEPT !.kex = FALSE, !.timer = TRUE]

\* The other end's NEWKEYS; a deferred reason starts over at once
RecvNewkeys(p) ==
    /\ Next1(p, "newkeys") /\ Took(p, "newkeys")
    /\ bpp' = [bpp EXCEPT ![p] = NewIncomingCrypto(@)]
    /\ IF tr[p].deferred
       THEN /\ tr' = [tr EXCEPT ![p] = [Begun(@) EXCEPT !.deferred = FALSE]]
            /\ outq' = [outq EXCEPT ![p] = Append(@, Packet("kexinit", tr[p].conf))]
            /\ BeginNotes(p)
       ELSE LET t == Finished(tr[p]) IN
            /\ tr' = [tr EXCEPT ![p] = IF t.ok THEN [Idle(t) EXCEPT !.ic = FALSE]
                                       ELSE [t EXCEPT !.pc = "service"]]
            /\ outq' = [outq EXCEPT ![p] = IF p = "client" /\ ~t.ok
                                           THEN Append(@, Packet("svcreq", 0)) ELSE @]
            /\ UNCHANGED <<early, lost>>
    /\ UNCHANGED <<delayed, held, wire, up, asks, fault>>

RecvService_unready(p) ==
    /\ Next1(p, "service") /\ Took(p, IF p = "client" THEN "svcack" ELSE "svcreq")
    /\ tr' = [tr EXCEPT ![p] = [Idle(@) EXCEPT !.ok = p = "client", !.ic = FALSE]]
    /\ outq' = [outq EXCEPT ![p] = IF p = "server" THEN Append(@, Packet("svcack", 0)) ELSE @]
    /\ Overwritten(p, "service")
    /\ UNCHANGED <<delayed, bpp, held, wire, up, asks, early, fault>>

\* The service the layer above needs is agreed.  The coroutine then returns
\* before it looks at its queue again.
RecvService(p) ==
    /\ Next1(p, "service") /\ Took(p, IF p = "client" THEN "svcack" ELSE "svcreq")
    /\ tr' = [tr EXCEPT ![p] = [Idle(@) EXCEPT !.ok = TRUE, !.ic = FALSE]]
    /\ outq' = [outq EXCEPT ![p] = IF p = "server" THEN Append(@, Packet("svcack", 0)) ELSE @]
    /\ Overwritten(p, "service")
    /\ UNCHANGED <<delayed, bpp, held, wire, up, asks, early, fault>>

\* The loop that passes packets on until there is a reason to rekey.  A KEXINIT
\* stays at the front of the queue for begin_key_exchange to find.
Passed(p) == outq[p] \o held[p]
Reason(p, limit) ==
    IF inq[p] # <<>> /\ Head(inq[p]).type = "kexinit" THEN "server"
    ELSE IF tr[p].class = "normal" \/ limit THEN "normal" ELSE "none"

WaitForRekey(p) ==
    /\ Running(p) /\ tr[p].pc = "idle"
    /\ inq[p] # <<>> => Head(inq[p]).type = "kexinit"
    /\ \E limit \in BOOLEAN :
        /\ limit => asks < MaxAsks /\ Reason(p, FALSE) = "none"
        /\ asks' = asks + (IF limit THEN 1 ELSE 0)
        /\ IF Reason(p, limit) = "none"
           THEN /\ tr' = [tr EXCEPT ![p].class = "none", ![p].ic = FALSE]
                /\ outq' = [outq EXCEPT ![p] = Passed(p)]
                /\ UNCHANGED <<early, lost>>
           ELSE /\ tr' = [tr EXCEPT ![p] = [Begun(@) EXCEPT !.class = Reason(p, limit)]]
                /\ outq' = [outq EXCEPT ![p] = Append(Passed(p), Packet("kexinit", tr[p].conf))]
                /\ BeginNotes(p)
    /\ held' = [held EXCEPT ![p] = <<>>]
    /\ UNCHANGED <<delayed, bpp, inq, wire, up, fault>>

\* What the layer above makes of a packet
Verdict == [authreq |-> "asked", authfail |-> "idle", authok |-> "granted"]
Delivered(u, m) ==
    IF m.type = "data" THEN [u EXCEPT !.got = @ + 1] ELSE [u EXCEPT !.auth = Verdict[m.type]]

\* ssh2_transport_filter_queue: packets for the layer above are passed to it,
\* wherever the coroutine waits
PassUp(p) ==
    /\ Running(p) /\ inq[p] # <<>> /\ Head(inq[p]).type \in Upper
    /\ LET m == Head(inq[p]) IN
        IF ~tr[p].ok \/ (m.type = "data" /\ m.n # up[p].got + 1)
        THEN /\ fault' = IF tr[p].ok THEN "out-of-order" ELSE "premature"
             /\ UNCHANGED <<inq, up>>
        ELSE /\ inq' = [inq EXCEPT ![p] = Tail(@)]
             /\ up' = [up EXCEPT ![p] = Delivered(@, m)]
             /\ UNCHANGED fault
    /\ UNCHANGED <<delayed, tr, bpp, outq, held, wire, asks, lost, early>>

Waits == [kexinit |-> {"kexinit"}, kexreq |-> {"kexreq"}, kexreply |-> {"kexreply"},
          newkeys |-> {"newkeys"}, hostkey |-> Types, idle |-> {"kexinit"}]
Expected(p) ==
    IF tr[p].pc = "service" THEN {IF p = "client" THEN "svcack" ELSE "svcreq"}
    ELSE Waits[tr[p].pc]

\* Any other packet is a protocol error
Unexpected(p) ==
    /\ Running(p) /\ tr[p].pc # "start"
    /\ inq[p] # <<>> /\ Head(inq[p]).type \notin Upper \cup Expected(p)
    /\ fault' = tr[p].pc
    /\ UNCHANGED <<delayed, tr, bpp, inq, outq, held, wire, up, asks, lost, early>>

\* Nothing to do until the callback is queued again
Block(p) ==
    /\ Running(p) /\ tr[p].pc \notin {"start", "idle"}
    /\ inq[p] # <<>> => tr[p].pc = "hostkey" /\ Head(inq[p]).type \notin Upper
    /\ tr' = [tr EXCEPT ![p].ic = FALSE]
    /\ UNCHANGED <<delayed, bpp, inq, outq, held, wire, up, asks, lost, early, fault>>

--------------------------------------------------------------------------------
(* Reasons to rekey that come from elsewhere *)

\* ssh2_transport_timer, after the configured time
RekeyTimer(p) ==
    /\ fault = "none" /\ tr[p].timer /\ asks < MaxAsks
    /\ tr' = [tr EXCEPT ![p] = IF @.kex THEN [@ EXCEPT !.timer = FALSE]
                               ELSE [@ EXCEPT !.timer = FALSE, !.class = "normal", !.ic = TRUE]]
    /\ asks' = asks + 1
    /\ UNCHANGED <<delayed, bpp, inq, outq, held, wire, up, lost, early, fault>>

\* ssh2_transport_special_cmd, "Repeat key exchange"
UserRekey ==
    /\ fault = "none" /\ tr["client"].pc # "start" /\ ~tr["client"].kex /\ asks < MaxAsks
    /\ tr' = [tr EXCEPT !["client"].class = "normal", !["client"].ic = TRUE]
    /\ asks' = asks + 1
    /\ UNCHANGED <<delayed, bpp, inq, outq, held, wire, up, lost, early, fault>>

Reconfigure_not_deferred ==
    /\ fault = "none" /\ tr["client"].pc # "start" /\ tr["client"].conf < MaxReconfs
    /\ LET t == [tr["client"] EXCEPT !.conf = @ + 1, !.timer = TRUE]
       IN  tr' = [tr EXCEPT !["client"] =
                    IF t.kex THEN t ELSE [t EXCEPT !.class = "normal", !.ic = TRUE]]
    /\ UNCHANGED <<delayed, bpp, inq, outq, held, wire, up, asks, lost, early, fault>>

\* ssh2_transport_reconfigure with another cipher or compression setting
Reconfigure ==
    /\ fault = "none" /\ tr["client"].pc # "start" /\ tr["client"].conf < MaxReconfs
    /\ LET t == [tr["client"] EXCEPT !.conf = @ + 1, !.timer = TRUE]
           now == ~t.kex /\ ~bpp["client"].blocked
       IN  /\ tr' = [tr EXCEPT !["client"] =
                        IF now THEN [t EXCEPT !.class = "normal", !.ic = TRUE]
                        ELSE [t EXCEPT !.deferred = TRUE]]
           /\ lost' = IF ~t.kex /\ ~now
                       THEN [lost EXCEPT !["client"] = @ \cup {"inadvisable"}] ELSE lost
    /\ UNCHANGED <<delayed, bpp, inq, outq, held, wire, up, asks, early, fault>>

\* ssh2_transport_notify_auth_done replaces whatever class was there
NotifyAuthDone ==
    /\ fault = "none" /\ up["client"].auth = "granted"
    /\ up' = [up EXCEPT !["client"].auth = "done"]
    /\ Overwritten("client", "userauth")
    /\ tr' = [tr EXCEPT !["client"].class = "post-userauth", !["client"].ic = TRUE]
    /\ UNCHANGED <<delayed, bpp, inq, outq, held, wire, asks, early, fault>>

--------------------------------------------------------------------------------
(* The layer above: authentication, then data *)

Queue_unheld(p, m) ==
    /\ fault = "none"
    /\ outq' = [outq EXCEPT ![p] = Append(@, m)]
    /\ tr' = [tr EXCEPT ![p].ic = TRUE]
    /\ UNCHANGED <<delayed, bpp, inq, held, wire, asks, lost, early, fault>>

Queue(p, m) ==
    /\ fault = "none"
    /\ held' = [held EXCEPT ![p] = Append(@, m)]
    /\ tr' = [tr EXCEPT ![p].ic = TRUE]
    /\ UNCHANGED <<delayed, bpp, inq, outq, wire, asks, lost, early, fault>>

AskAuth ==
    /\ tr["client"].ok /\ up["client"].auth = "idle"
    /\ Queue("client", Packet("authreq", 0))
    /\ up' = [up EXCEPT !["client"].auth = "asked"]

AnswerAuth ==
    /\ up["server"].auth = "asked"
    /\ \/ /\ up["server"].tries < MaxTries
          /\ Queue("server", Packet("authfail", 0))
          /\ up' = [up EXCEPT !["server"].auth = "idle", !["server"].tries = @ + 1]
       \/ /\ Queue("server", Packet("authok", 0))
          /\ up' = [up EXCEPT !["server"].auth = "done"]

SendData(p) ==
    /\ up[p].auth = "done" /\ up[p].sent < MaxData
    /\ Queue(p, Packet("data", up[p].sent + 1))
    /\ up' = [up EXCEPT ![p].sent = @ + 1]

--------------------------------------------------------------------------------
Coroutine(p) ==
    \/ Start(p) \/ RecvKexinit(p) \/ RecvKexreq(p) \/ RecvKexreply(p) \/ RecvNewkeys(p)
    \/ RecvService(p) \/ WaitForRekey(p) \/ PassUp(p) \/ Unexpected(p) \/ Block(p)

Step(p) ==
    \/ Coroutine(p) \/ AcceptHostKey(p) \/ BppInput(p) \/ BppOutput(p)
    \/ RekeyTimer(p) \/ SendData(p)

Next ==
    \/ \E p \in Peers : Step(p)
    \/ UserRekey \/ Reconfigure \/ NotifyAuthDone \/ AskAuth \/ AnswerAuth

Spec == Init /\ [][Next]_vars

\* The event loop runs what is queued, and the user looks at the host key; the
\* user may never log in, reconfigure or ask for anything.  (Weak fairness of
\* the first three is spelt out: they are enabled when the guard named is true.)
FairSpec ==
    /\ Spec
    /\ \A p \in Peers :
        /\ []<>~Running(p) \/ []<><<Coroutine(p)>>_vars
        /\ []<>~CanRead(p) \/ []<><<BppInput(p)>>_vars
        /\ []<>~CanSend(p) \/ []<><<BppOutput(p)>>_vars
    /\ WF_vars(AcceptHostKey("client")) /\ WF_vars(AnswerAuth) /\ WF_vars(NotifyAuthDone)

--------------------------------------------------------------------------------
(* Properties *)

PCs == {"start", "kexinit", "kexreq", "kexreply", "hostkey", "newkeys", "service", "idle"}
TransportState ==
    [pc : PCs, kex : BOOLEAN, class : Classes, deferred : BOOLEAN, ok : BOOLEAN, timer : BOOLEAN,
     ic : BOOLEAN, conf : Nat, used : Nat, begun : Nat]
BppState ==
    [outKey : Nat, inKey : Nat, outComp : BOOLEAN, inComp : BOOLEAN, outPend : BOOLEAN,
     inPend : BOOLEAN, newkeys : BOOLEAN, blocked : BOOLEAN, seen : BOOLEAN]
UpperState ==
    [auth : {"idle", "asked", "granted", "done"}, tries : Nat, sent : Nat, got : Nat]
Packets(types) == [type : types, n : Nat]
Encodings == [type : Types, n : Nat, key : Nat, comp : BOOLEAN]

TypeOK ==
    /\ delayed \in BOOLEAN
    /\ tr \in [Peers -> TransportState]
    /\ bpp \in [Peers -> BppState]
    /\ inq \in [Peers -> Seq(Packets(Types))]
    /\ outq \in [Peers -> Seq(Packets(Types))]
    /\ held \in [Peers -> Seq(Packets(Upper))]
    /\ wire \in [Peers -> Seq(Encodings)]
    /\ up \in [Peers -> UpperState]
    /\ asks \in Nat
    /\ lost \in [Peers -> SUBSET {"service", "userauth", "inadvisable"}]
    /\ early \in BOOLEAN
    /\ fault \in (PCs \ {"start"}) \cup {"none", "garbled", "premature", "out-of-order"}

\* USERAUTH_SUCCESS has left the server, and then new keys have made the server's
\* compression wait for it again.
AuthSent == bpp["client"].seen \/ \E i \in DOMAIN wire["client"] : wire["client"][i].type = "authok"
Relapsed == AuthSent /\ bpp["server"].outPend

\* Every packet is decoded with the keys it was encrypted with and decompressed
\* exactly if it was compressed, although each end changes keys twice per
\* exchange at moments of its own and compression starts in the middle -- until
\* keys change after a login with delayed compression: the client then compresses
\* at once, and the server waits for a USERAUTH_SUCCESS that it has already sent.
KeysInStep == fault = "garbled" => Relapsed

\* No order of crossing exchanges, requests and late answers makes an end
\* reject a packet -- but for a client whose settings change during the first
\* exchange: its second KEXINIT overtakes the SERVICE_REQUEST the server waits for.
NoProtocolError ==
    /\ fault \in {"none", "garbled", "service"}
    /\ fault = "service" => tr["client"].used > 0 /\ ~tr["server"].ok

\* Between an end's KEXINIT and its NEWKEYS nothing of the layer above is sent.
QuietDuringKex ==
    \A p \in Peers : \A i, k \in DOMAIN wire[p] :
        i < k /\ wire[p][i].type = "kexinit" /\ wire[p][k].type \in Upper
            => \E j \in i..k : wire[p][j].type = "newkeys"

InTransit(p) == inq[Other(p)] \o wire[Other(p)] \o outq[p] \o held[p]
IsData(q) == {i \in DOMAIN q : q[i].type = "data"}

\* Whatever the layer above has sent and the other has not seen is on its way,
\* once, in order: nothing is lost or overtaken while keys change, unless a
\* packet could not be decoded (KeysInStep says when) and ended the connection.
StreamIntact ==
    fault # "garbled" => \A p \in Peers :
        LET q == InTransit(p) IN
        /\ {q[i].n : i \in IsData(q)} = (up[Other(p)].got + 1)..up[p].sent
        /\ \A i, j \in IsData(q) : i < j => q[i].n < q[j].n

\* Waiting for a reason to rekey, with none at hand
AtRest(p) == tr[p].pc = "idle" /\ tr[p].class = "none" /\ ~tr[p].ic

\* The settings of the last exchange are the configured ones.  A change is lost
\* in three ways: another use of rekey_class overwrites the request (before the
\* service is agreed, or when authentication ends), or the change is deferred
\* to the end of an exchange while none is in progress.
SettingsInForce ==
    AtRest("client") => tr["client"].used = tr["client"].conf \/ lost["client"] # {}

\* A rekey that the timer asked for and that was not lost has happened, and the
\* timer runs again.
TimerArmed ==
    \A p \in Peers : AtRest(p) => tr[p].timer \/ lost[p] # {}

\* Each exchange has a reason: requests that cross or repeat share one, and
\* none starts another by itself.
NoEndlessRekey ==
    \A p \in Peers : tr[p].begun <= 1 + asks + tr["client"].conf

\* The server's KEXINIT came together with its SERVICE_ACCEPT: the coroutine
\* looks at it only when the layer above has something to send.
Overlooked ==
    /\ tr["client"].pc = "idle" /\ inq["client"] # <<>>
    /\ up["client"].auth = "idle" /\ up["server"].tries = 0

\* A key exchange that begins is completed, with two exceptions.  The client
\* begins it while its compression waits for authentication: then the KEXINIT,
\* or what follows it, waits behind the block that only authentication lifts.
\* Or the KEXINIT is overlooked, and the user never logs in.
KexCompletes ==
    \A p \in Peers : tr[p].kex ~> (~tr[p].kex \/ early \/ Overlooked \/ fault # "none")
================================================================================
