---------------------------- MODULE SshSessionProofs ----------------------------
(***************************************************************************)
(* The safety properties of SshSession, proved for any settings and any    *)
(* number of packets.                                                      *)
(*                                                                         *)
(* IInv says that the two ends of the channel agree about the packets in   *)
(* transit (Accord), and what may be true of each end between calls.  A    *)
(* handler is proved in two parts: the operators of Ssh2Channel stay       *)
(* within any set of ends that is Fitting, and the ends that the peer can  *)
(* live with (Fits) are such a set.                                        *)
(***************************************************************************)
EXTENDS SshSession, FiniteSetTheorems, FunctionTheorems, TLAPS

--------------------------------------------------------------------------------
(* The invariant. *)

\* The packets that cite a channel which is open at both ends
Plain == {"data", "adjust", "request", "notice", "success", "failure", "eof", "close"}
Replying == {"success", "failure"}
Item == [kind : Plain, req : Requests \cup Notices \cup {"none"}]

\* An end of the channel, once the server has accepted it, in the middle of a call
Mid == [chan : {Zombie} \cup Main \cup Sess, halfopen : {FALSE},
        sent_eof : BOOLEAN, sent_close : BOOLEAN, rcvd_eof : BOOLEAN, rcvd_close : BOOLEAN,
        pending_eof : BOOLEAN, outbuffer : Nat, remwindow : 0..1, locwindow : 0..1,
        chanreqs : Seq(Requests), throttling_conn : {FALSE}, input_wanted : BOOLEAN,
        held : {FALSE}, packets : Seq(Item), gone : BOOLEAN, fault : {"none"}]

\* How the flags of one end go together.
Sound(c) ==
    /\ c.sent_close => c.sent_eof
    /\ c.sent_close /\ ~c.gone => c.chanreqs = <<>>
    /\ c.chan \in Main /\ c.sent_eof => ~c.pending_eof
    /\ c.chan \in Main /\ c.sent_close => c.rcvd_eof

\* The packets among the first x of w that are of some kinds, and how many they are
Those(w, x, kinds) == {y \in DOMAIN w : y <= x /\ w[y].kind \in kinds}
Upto(w, x, kinds) == Cardinality(Those(w, x, kinds))
Num(w, kinds) == Upto(w, Len(w), kinds)

\* Nothing follows CLOSE.
CloseLast(V) == \A x, y \in DOMAIN V : x < y => V[x].kind # "close"

\* Who has sent EOF or CLOSE knows it, unless it has forgotten the channel.
Marks(D, V) ==
    \A x \in DOMAIN V : /\ V[x].kind = "close" => D.gone \/ D.sent_close
                        /\ V[x].kind = "eof" => D.gone \/ D.sent_eof

\* The requests that C waits for: those to which V brings the reply come first, then those that
\* W brings to D, who replies to them while it has not sent CLOSE.
Asked(C, D, V, W) ==
    ~C.gone =>
        /\ \A x \in DOMAIN V : V[x].kind \in Replying =>
              LET k == Upto(V, x, Replying) IN k <= Len(C.chanreqs) /\ C.chanreqs[k] = V[x].req
        /\ ~D.gone /\ ~D.sent_close =>
              /\ Len(C.chanreqs) = Num(V, Replying) + Num(W, {"request"})
              /\ \A x \in DOMAIN W : W[x].kind = "request" =>
                    C.chanreqs[Num(V, Replying) + Upto(W, x, {"request"})] = W[x].req

\* There is at most one permission to send a packet of data to D, wherever it is.
Room(C) == IF C.gone THEN 0 ELSE C.remwindow
Credit(C, D, V, W) == Room(C) + (Num(W, {"data"}) + Num(V, {"adjust"})) <= D.locwindow

\* What C knows of D, from whom V is on its way, and D of C, to whom it sent at most m packets of
\* data that have not arrived.
Link(C, D, V, W, m) ==
    /\ V \in Seq(Item) /\ CloseLast(V) /\ Marks(D, V)
    /\ C.gone => V = <<>> /\ (D.gone \/ D.sent_close)
    /\ C.rcvd_eof => D.gone \/ D.sent_eof
    /\ Asked(C, D, V, W) /\ Credit(C, D, V, W)
    /\ Num(W, {"data"}) + C.outbuffer <= m

Accord(C, D, V, W, m, n) == Link(C, D, V, W, m) /\ Link(D, C, W, V, n)

\* An end that no function has freed and that may be called upon
Usable(c) == ~c.gone /\ ~c.rcvd_close

\* The main channel's own opinion of the requests L that it waits for: at most a pty-req, the
\* first of all, and one command.
Commands == {"shell", "fallback"}
Waits(L, req) == \E x \in DOMAIN L : L[x] = req
Wants(k, L) ==
    /\ \A x, y \in DOMAIN L : x < y => L[y] # "pty-req" /\ ~(L[x] \in Commands /\ L[y] \in Commands)
    /\ k.req_pty <=> Waits(L, "pty-req")
    /\ k.req_cmd = "primary" <=> Waits(L, "shell")
    /\ k.req_cmd = "fallback" <=> Waits(L, "fallback")

\* What a main channel that has sent EOF is to know, and the EOF that is hoped for
Ended(c) == c.pending_eof \/ c.sent_eof
Minds(c) == c.chan \in Main /\ (c.chan.eof_sent => Ended(c))
Hopes(c) == (c.chan.eof_pending /\ ~c.chan.ready) \/ Ended(c)

\* The process has finished, and the server has said so.
Over(c) == c.chan = Zombie \/ (c.chan \in Sess /\ c.chan.seen_eof /\ c.chan.seen_exit)
Serves(c) ==
    /\ c.chan \in {Zombie} \cup Sess
    /\ c.chan \in Sess /\ (c.chan.seen_eof \/ c.chan.seen_exit) => c.chan.backend = "finished"
Winadjs(L) == \A x \in DOMAIN L : L[x] = "winadj"

\* Either end between calls
Steady(c) == c \in Mid /\ c.packets = <<>> /\ Sound(c) /\ Usable(c)
ClientSteady(c, eof) ==
    \/ c = Gone
    \/ Steady(c) /\ Minds(c) /\ Wants(c.chan, c.chanreqs) /\ (eof => Hopes(c))
ServerSteady(c) ==
    \/ c = Gone
    \/ Steady(c) /\ Serves(c) /\ Winadjs(c.chanreqs) /\ (Ended(c) => Over(c))

\* The exit status is told before the server's end is over.
Told == Over(srv) => exitcode \/ \E x \in DOMAIN wire["client"] : wire["client"][x].kind = "notice"

Talking ==
    /\ Accord(cli, srv, wire["client"], wire["server"], typed - arrived, printed - shown)
    /\ ClientSteady(cli, announced) /\ ServerSteady(srv) /\ Told
    /\ cli.gone => conn # "up"

\* Until then the client has done nothing but, perhaps, note an EOF.
Waiting(eof) ==
    [NewEnd([NewMain EXCEPT !.eof_pending = eof], TRUE) EXCEPT !.input_wanted = FALSE]
Opening ==
    /\ cli = Waiting(announced) /\ conn = "up"
    /\ typed = 0 /\ arrived = 0 /\ printed = 0 /\ shown = 0
    /\ \/ srv = Gone /\ wire["server"] = <<Packet("open", "none")>> /\ wire["client"] = <<>>
       \/ /\ srv = NewEnd(NewSess, FALSE)
          /\ wire["server"] = <<>> /\ wire["client"] = <<Packet("confirmation", "none")>>

IInv ==
    /\ TypeOK /\ ExitStatusFirst /\ OtherAssertionsHold
    /\ Running => Opening \/ Talking

--------------------------------------------------------------------------------
(* Counting packets. *)

\* The packets of some kinds are finitely many.
LEMMA UptoType ==
    ASSUME NEW w \in Seq(Item), NEW x, NEW kinds
    PROVE  /\ IsFiniteSet(Those(w, x, kinds))
           /\ Upto(w, x, kinds) \in Nat
<1>1. DOMAIN w = 1..Len(w) /\ Len(w) \in Nat
  OBVIOUS
<1>2. IsFiniteSet(1..Len(w))
  BY <1>1, FS_Interval
<1>3. IsFiniteSet(Those(w, x, kinds))
  BY <1>1, <1>2, FS_Subset DEF Those
<1> QED BY <1>3, FS_CardinalityType DEF Upto

\* There are none in an empty queue.
LEMMA NumNone ==
    ASSUME NEW x, NEW kinds
    PROVE  Upto(<<>>, x, kinds) = 0 /\ Num(<<>>, kinds) = 0
<1>1. \A y : Those(<<>>, y, kinds) = {}
  BY DEF Those
<1> QED BY <1>1, FS_EmptySet DEF Upto, Num

\* A packet that is counted makes the count positive, and no count exceeds the whole.
LEMMA UptoBounds ==
    ASSUME NEW w \in Seq(Item), NEW x \in DOMAIN w, NEW kinds
    PROVE  /\ Upto(w, x, kinds) <= Num(w, kinds)
           /\ w[x].kind \in kinds => Upto(w, x, kinds) >= 1
<1> DEFINE A == Those(w, x, kinds)
           B == Those(w, Len(w), kinds)
<1>1. /\ IsFiniteSet(A) /\ IsFiniteSet(B) /\ Cardinality(A) \in Nat /\ Cardinality(B) \in Nat
      /\ Upto(w, x, kinds) = Cardinality(A) /\ Num(w, kinds) = Cardinality(B)
  BY UptoType DEF Upto, Num
<1>2. A \subseteq B
  BY DEF Those
<1>3. w[x].kind \in kinds => A # {}
  BY DEF Those
<1> HIDE DEF A, B
<1>4. Cardinality(A) <= Cardinality(B)
  BY <1>1, <1>2, FS_Subset
<1>5. A # {} => Cardinality(A) # 0
  BY <1>1, FS_EmptySet
<1> QED BY <1>1, <1>3, <1>4, <1>5

\* A packet that is sent is counted after all that were there.
LEMMA NumAppend ==
    ASSUME NEW w \in Seq(Item), NEW m \in Item, NEW kinds
    PROVE  /\ \A x \in DOMAIN w : Upto(Append(w, m), x, kinds) = Upto(w, x, kinds)
           /\ Upto(Append(w, m), Len(w) + 1, kinds) = Num(Append(w, m), kinds)
           /\ Num(Append(w, m), kinds) = Num(w, kinds) + IF m.kind \in kinds THEN 1 ELSE 0
<1> DEFINE r == Append(w, m)
           A == Those(w, Len(w), kinds)
           B == Those(r, Len(r), kinds)
<1>1. /\ DOMAIN w = 1..Len(w) /\ Len(w) \in Nat
      /\ DOMAIN r = 1..(Len(w) + 1) /\ Len(r) = Len(w) + 1
      /\ \A x \in 1..Len(w) : r[x] = w[x]
      /\ r[Len(w) + 1] = m
  OBVIOUS
<1>2. \A x \in DOMAIN w : Those(r, x, kinds) = Those(w, x, kinds)
  BY <1>1 DEF Those
<1>3. IsFiniteSet(A) /\ Cardinality(A) \in Nat /\ Num(w, kinds) = Cardinality(A)
  BY UptoType DEF Upto, Num
<1>4. Num(r, kinds) = Cardinality(B) /\ Upto(r, Len(w) + 1, kinds) = Cardinality(B)
  BY <1>1 DEF Num, Upto
<1>5. B = IF m.kind \in kinds THEN A \cup {Len(w) + 1} ELSE A
  BY <1>1 DEF Those
<1>6. Len(w) + 1 \notin A
  BY <1>1 DEF Those
<1> HIDE DEF A, B
<1>7. Cardinality(A \cup {Len(w) + 1}) = Cardinality(A) + 1
  BY <1>3, <1>6, FS_AddElement
<1>8. Cardinality(B) = Cardinality(A) + IF m.kind \in kinds THEN 1 ELSE 0
  BY <1>3, <1>5, <1>7
<1> QED BY <1>2, <1>3, <1>4, <1>8 DEF Upto

\* A packet that is read leaves one place fewer for every other.
LEMMA UptoTail ==
    ASSUME NEW w \in Seq(Item), w # <<>>, NEW x \in Nat, NEW kinds
    PROVE  Upto(w, x + 1, kinds) = Upto(Tail(w), x, kinds) + IF w[1].kind \in kinds THEN 1 ELSE 0
<1> DEFINE r == Tail(w)
           A == Those(r, x, kinds)
           B == Those(w, x + 1, kinds)
           Later == B \ {1}
           f == [y \in A |-> y + 1]
<1>1. /\ DOMAIN w = 1..Len(w) /\ Len(w) \in Nat /\ Len(w) >= 1
      /\ r \in Seq(Item) /\ DOMAIN r = 1..(Len(w) - 1)
      /\ \A y \in 1..(Len(w) - 1) : r[y] = w[y + 1]
  OBVIOUS
<1>2. /\ IsFiniteSet(A) /\ IsFiniteSet(B) /\ Cardinality(A) \in Nat /\ Cardinality(B) \in Nat
      /\ Upto(r, x, kinds) = Cardinality(A) /\ Upto(w, x + 1, kinds) = Cardinality(B)
  BY <1>1, UptoType DEF Upto
<1>3. ExistsBijection(A, Later)
  <2>1. \A y \in A : y \in 1..(Len(w) - 1) /\ y + 1 \in Later
    BY <1>1 DEF Those
  <2>2. f \in [A -> Later]
    BY <2>1
  <2>3. \A y, z \in A : f[y] = f[z] => y = z
    BY <2>1
  <2>4. \A y \in Later : y - 1 \in A /\ f[y - 1] = y
    BY <1>1 DEF Those
  <2>5. f \in Injection(A, Later)
    BY <2>2, <2>3, Fun_IsInj
  <2>6. f \in Surjection(A, Later)
    BY <2>2, <2>4, Fun_IsSurj
  <2>7. f \in Bijection(A, Later)
    BY <2>5, <2>6 DEF Bijection
  <2> QED BY <2>7 DEF ExistsBijection
<1>4. Cardinality(Later) = Cardinality(A)
  BY <1>2, <1>3, FS_Bijection
<1>5. Cardinality(Later) = IF 1 \in B THEN Cardinality(B) - 1 ELSE Cardinality(B)
  BY <1>2, FS_RemoveElement
<1>6. 1 \in B <=> w[1].kind \in kinds
  BY <1>1 DEF Those
<1> HIDE DEF A, B, Later, r
<1> QED BY <1>2, <1>4, <1>5, <1>6 DEF r

\* ... and one fewer in all.
LEMMA NumTail ==
    ASSUME NEW w \in Seq(Item), w # <<>>, NEW kinds
    PROVE  Num(w, kinds) = Num(Tail(w), kinds) + IF w[1].kind \in kinds THEN 1 ELSE 0
<1>1. Len(w) - 1 \in Nat /\ Len(Tail(w)) = Len(w) - 1 /\ (Len(w) - 1) + 1 = Len(w)
  OBVIOUS
<1> QED BY <1>1, UptoTail DEF Num

\* The counts are numbers.
LEMMA NumType ==
    ASSUME NEW w \in Seq(Item), NEW kinds
    PROVE  Num(w, kinds) \in Nat
  BY UptoType DEF Num

--------------------------------------------------------------------------------
(* What an end may do, as far as its peer is concerned. *)

\* An end that promises no more than it did, and hides nothing that it sent
Eases(c, d) ==
    /\ d.gone = c.gone /\ d.sent_eof = c.sent_eof /\ d.sent_close = c.sent_close
    /\ d.rcvd_eof = c.rcvd_eof /\ d.chanreqs = c.chanreqs
    /\ d.remwindow <= c.remwindow /\ d.locwindow >= c.locwindow /\ d.outbuffer <= c.outbuffer

\* What an end may do as it sends a packet, which is not a reply
One(kind, which) == IF kind = which THEN 1 ELSE 0
Speaks(c, d, x) ==
    /\ x.kind \notin Replying /\ ~c.gone /\ ~d.gone /\ ~c.sent_close
    /\ d.rcvd_eof = c.rcvd_eof
    /\ c.sent_eof \/ x.kind = "eof" => d.sent_eof
    /\ x.kind = "close" => d.sent_close
    /\ d.remwindow + One(x.kind, "data") <= c.remwindow
    /\ d.outbuffer + One(x.kind, "data") <= c.outbuffer
    /\ d.locwindow >= c.locwindow + One(x.kind, "adjust")
    /\ d.chanreqs = IF x.kind = "request" THEN Append(c.chanreqs, x.req) ELSE c.chanreqs

\* What an end may do as it takes a packet, which does not ask for a reply
Takes(c, d, x) ==
    /\ ~c.gone /\ ~d.gone /\ d.sent_eof = c.sent_eof /\ d.sent_close = c.sent_close
    /\ x.kind = "request" => c.sent_close
    /\ d.rcvd_eof => c.rcvd_eof \/ x.kind \in {"eof", "close"}
    /\ d.remwindow <= c.remwindow + One(x.kind, "adjust")
    /\ d.locwindow + One(x.kind, "data") >= c.locwindow
    /\ d.outbuffer <= c.outbuffer
    /\ x.kind # "close" =>
          d.chanreqs = IF x.kind \in Replying THEN Tail(c.chanreqs) ELSE c.chanreqs

\* What the fields of an end are
LEMMA EndTypes ==
    ASSUME NEW c \in Mid
    PROVE  /\ c.remwindow \in 0..1 /\ c.locwindow \in 0..1 /\ c.outbuffer \in Nat
           /\ c.chanreqs \in Seq(Requests) /\ c.packets \in Seq(Item) /\ Room(c) \in 0..1
           /\ c.gone \in BOOLEAN /\ c.fault = "none" /\ ~c.halfopen /\ ~c.held
           /\ c.sent_eof \in BOOLEAN /\ c.sent_close \in BOOLEAN /\ c.rcvd_eof \in BOOLEAN
           /\ c.pending_eof \in BOOLEAN /\ c.input_wanted \in BOOLEAN /\ c.rcvd_close \in BOOLEAN
           /\ c.chan \in {Zombie} \cup Main \cup Sess
<1>1. /\ c.remwindow \in 0..1 /\ c.locwindow \in 0..1 /\ c.outbuffer \in Nat
      /\ c.chanreqs \in Seq(Requests) /\ c.packets \in Seq(Item)
      /\ c.gone \in BOOLEAN /\ c.fault \in {"none"} /\ c.halfopen \in {FALSE} /\ c.held \in {FALSE}
      /\ c.sent_eof \in BOOLEAN /\ c.sent_close \in BOOLEAN /\ c.rcvd_eof \in BOOLEAN
      /\ c.pending_eof \in BOOLEAN /\ c.input_wanted \in BOOLEAN /\ c.rcvd_close \in BOOLEAN
      /\ c.chan \in {Zombie} \cup Main \cup Sess
  BY DEF Mid
<1>2. Room(c) \in 0..1
  BY <1>1 DEF Room
<1> QED BY <1>1, <1>2

\* Gone is an end, and a Mid.
LEMMA GoneIs ==
    /\ Gone \in Mid /\ Gone.gone /\ Gone.locwindow = 1 /\ Gone.outbuffer = 0 /\ Room(Gone) = 0
    /\ ~Gone.rcvd_eof /\ ~Gone.sent_close /\ ~Gone.sent_eof /\ Gone.chan = Zombie /\ Gone.packets = <<>>
    /\ Gone.fault = "none"
<1> DEFINE e == NewEnd(Zombie, FALSE)
           g == [e EXCEPT !.gone = TRUE]
<1>1. <<>> \in Seq(Item) /\ <<>> \in Seq(Requests) /\ 1 \in 0..1 /\ 0 \in Nat
  OBVIOUS
<1>2. e \in Mid /\ e.locwindow = 1 /\ e.outbuffer = 0 /\ ~e.rcvd_eof /\ ~e.sent_close /\ ~e.sent_eof
      /\ e.chan = Zombie /\ e.packets = <<>> /\ e.fault = "none"
  BY <1>1 DEF NewEnd, Mid
<1> HIDE DEF e
<1>3. g \in Mid /\ g.gone /\ g.locwindow = 1 /\ g.outbuffer = 0 /\ ~g.rcvd_eof /\ ~g.sent_close
      /\ ~g.sent_eof /\ g.chan = Zombie /\ g.packets = <<>> /\ g.fault = "none"
  BY <1>2 DEF Mid
<1>4. Gone = g
  BY DEF Gone, e
<1> QED BY <1>3, <1>4 DEF Room

\* An end that eases leaves the peers in accord.
LEMMA EaseAccord ==
    ASSUME NEW C \in Mid, NEW D \in Mid, NEW V, NEW W, NEW m \in Nat, NEW n \in Nat,
           Accord(C, D, V, W, m, n), NEW B \in Mid, Eases(C, B)
    PROVE  Accord(B, D, V, W, m, n)
<1>1. /\ V \in Seq(Item) /\ W \in Seq(Item)
      /\ \A k : Num(V, k) \in Nat /\ Num(W, k) \in Nat
  BY NumType DEF Accord, Link
<1>2. /\ Room(B) <= Room(C) /\ Room(B) \in 0..1 /\ Room(C) \in 0..1 /\ Room(D) \in 0..1
      /\ B.locwindow \in 0..1 /\ C.locwindow \in 0..1 /\ D.locwindow \in 0..1
      /\ B.outbuffer \in Nat /\ C.outbuffer \in Nat
      /\ B.locwindow >= C.locwindow /\ B.outbuffer <= C.outbuffer
  BY EndTypes DEF Eases, Room
<1>3. Credit(B, D, V, W) /\ Credit(D, B, W, V)
  <2>1. Credit(C, D, V, W) /\ Credit(D, C, W, V)
    BY DEF Accord, Link
  <2> QED BY <1>1, <1>2, <2>1, SMTT(30) DEF Credit
<1>4. Asked(B, D, V, W) /\ Asked(D, B, W, V)
  <2>1. Asked(C, D, V, W) /\ Asked(D, C, W, V)
    BY DEF Accord, Link
  <2>2. B.gone = C.gone /\ B.chanreqs = C.chanreqs /\ B.sent_close = C.sent_close
    BY DEF Eases
  <2> QED BY <2>1, <2>2 DEF Asked
<1>5. Num(W, {"data"}) + B.outbuffer <= m
  <2>1. Num(W, {"data"}) + C.outbuffer <= m
    BY DEF Accord, Link
  <2> QED BY <1>1, <1>2, <2>1
<1>6. Link(B, D, V, W, m)
  BY <1>3, <1>4, <1>5 DEF Accord, Link, Eases
<1>7. Link(D, B, W, V, n)
  BY <1>3, <1>4 DEF Accord, Link, Eases, Marks
<1> QED BY <1>6, <1>7 DEF Accord

\* So does an end that sends a packet.
LEMMA SayAccord ==
    ASSUME NEW C \in Mid, NEW D \in Mid, NEW V, NEW W, NEW m \in Nat, NEW n \in Nat,
           Accord(C, D, V, W, m, n), NEW B \in Mid, NEW x \in Item, Speaks(C, B, x)
    PROVE  Accord(B, D, V, Append(W, x), m, n)
<1> DEFINE X == Append(W, x)
<1>1. /\ V \in Seq(Item) /\ W \in Seq(Item)
      /\ \A k : Num(V, k) \in Nat /\ Num(W, k) \in Nat
  BY NumType DEF Accord, Link
<1>2. /\ X \in Seq(Item) /\ Len(W) \in Nat
      /\ DOMAIN W = 1..Len(W) /\ DOMAIN X = 1..(Len(W) + 1)
      /\ \A y \in DOMAIN W : X[y] = W[y]
      /\ X[Len(W) + 1] = x
  BY <1>1
<1>3. \A k : /\ \A y \in DOMAIN W : Upto(X, y, k) = Upto(W, y, k)
             /\ Upto(X, Len(W) + 1, k) = Num(X, k)
             /\ Num(X, k) = Num(W, k) + IF x.kind \in k THEN 1 ELSE 0
  BY <1>1, NumAppend
<1>20. Num(X, {"request"}) = Num(W, {"request"}) + One(x.kind, "request")
  BY <1>3 DEF One
<1>4. ~C.gone /\ ~C.sent_close /\ ~B.gone /\ ~D.gone
  <2>1. D.gone => C.gone \/ C.sent_close
    BY DEF Accord, Link
  <2> QED BY <2>1 DEF Speaks
<1> HIDE DEF X
<1>5. CloseLast(X)
  <2>1. \A y \in DOMAIN W : W[y].kind # "close"
    BY <1>4 DEF Accord, Link, Marks
  <2> QED BY <1>2, <2>1 DEF CloseLast
<1>6. Marks(B, X)
  <2>1. Marks(C, W)
    BY DEF Accord, Link
  <2>2. /\ C.sent_eof \/ x.kind = "eof" => B.sent_eof
        /\ x.kind = "close" => B.sent_close
    BY DEF Speaks
  <2> QED BY <1>2, <1>4, <2>1, <2>2 DEF Marks
<1>7. D.rcvd_eof => B.sent_eof
  <2>1. D.rcvd_eof => C.sent_eof
    BY <1>4 DEF Accord, Link
  <2> QED BY <2>1 DEF Speaks
<1>8. Asked(B, D, V, X)
  <2> DEFINE k == Num(V, Replying) + Num(W, {"request"})
  <2>1. Asked(C, D, V, W)
    BY DEF Accord, Link
  <2>2. C.chanreqs \in Seq(Requests)
    BY EndTypes
  <2>3. B.chanreqs = IF x.kind = "request" THEN Append(C.chanreqs, x.req) ELSE C.chanreqs
    BY DEF Speaks
  <2>4. /\ Len(C.chanreqs) \in Nat /\ DOMAIN C.chanreqs = 1..Len(C.chanreqs)
        /\ Len(B.chanreqs) = Len(C.chanreqs) + One(x.kind, "request")
        /\ \A y \in 1..Len(C.chanreqs) : B.chanreqs[y] = C.chanreqs[y]
        /\ x.kind = "request" => B.chanreqs[Len(C.chanreqs) + 1] = x.req
    <3> DEFINE L == C.chanreqs
               M == B.chanreqs
    <3>1. L \in Seq(Requests) /\ M \in Seq(Requests)
      BY EndTypes
    <3>2. M = IF x.kind = "request" THEN Append(L, x.req) ELSE L
      BY <2>3
    <3> HIDE DEF L, M
    <3>3. CASE x.kind = "request"
      <4>1. M = Append(L, x.req)
        BY <3>2, <3>3
      <4>2. /\ Len(L) \in Nat /\ DOMAIN L = 1..Len(L) /\ Len(M) = Len(L) + 1
            /\ \A y \in 1..Len(L) : M[y] = L[y]
            /\ M[Len(L) + 1] = x.req
        BY <3>1, <4>1
      <4> QED BY <3>3, <4>2 DEF One, L, M
    <3>4. CASE x.kind # "request"
      <4>1. M = L
        BY <3>2, <3>4
      <4>2. Len(L) \in Nat /\ DOMAIN L = 1..Len(L)
        BY <3>1
      <4> QED BY <3>4, <4>1, <4>2 DEF One, L, M
    <3> QED BY <3>3, <3>4
  <2>5. ASSUME NEW y \in DOMAIN V, V[y].kind \in Replying
        PROVE  /\ Upto(V, y, Replying) <= Len(B.chanreqs)
               /\ B.chanreqs[Upto(V, y, Replying)] = V[y].req
    <3>1. /\ Upto(V, y, Replying) <= Len(C.chanreqs)
          /\ C.chanreqs[Upto(V, y, Replying)] = V[y].req
      BY <1>4, <2>1, <2>5 DEF Asked
    <3>2. Upto(V, y, Replying) \in Nat /\ Upto(V, y, Replying) >= 1
      BY <1>1, <2>5, UptoType, UptoBounds
    <3>3. Upto(V, y, Replying) \in 1..Len(C.chanreqs)
      BY <2>4, <3>1, <3>2
    <3>4. One(x.kind, "request") \in Nat /\ Len(C.chanreqs) \in Nat
      BY <2>4 DEF One
    <3>5. Upto(V, y, Replying) <= Len(C.chanreqs) + One(x.kind, "request")
      BY <3>3, <3>4
    <3>6. Upto(V, y, Replying) <= Len(B.chanreqs)
      BY <2>4, <3>5
    <3> QED BY <2>4, <3>1, <3>3, <3>6
  <2>6. ASSUME ~D.sent_close
        PROVE  Len(C.chanreqs) = k
    BY <1>4, <2>1, <2>6 DEF Asked
  <2>7. ASSUME ~D.sent_close, NEW y \in DOMAIN X, X[y].kind = "request"
        PROVE  B.chanreqs[Num(V, Replying) + Upto(X, y, {"request"})] = X[y].req
    <3>1. CASE y \in DOMAIN W
      <4>1. C.chanreqs[Num(V, Replying) + Upto(W, y, {"request"})] = W[y].req
        BY <1>2, <1>4, <2>1, <2>7, <3>1 DEF Asked
      <4>2. /\ Upto(W, y, {"request"}) \in Nat /\ Upto(W, y, {"request"}) >= 1
            /\ Upto(W, y, {"request"}) <= Num(W, {"request"})
        BY <1>1, <1>2, <2>7, <3>1, UptoType, UptoBounds
      <4>3. /\ Num(V, Replying) \in Nat /\ Num(W, {"request"}) \in Nat
            /\ Len(C.chanreqs) = Num(V, Replying) + Num(W, {"request"})
        BY <1>1, <2>6, <2>7
      <4>4. Num(V, Replying) + Upto(W, y, {"request"}) \in 1..Len(C.chanreqs)
        BY <4>2, <4>3
      <4>5. Upto(X, y, {"request"}) = Upto(W, y, {"request"}) /\ X[y] = W[y]
        BY <1>2, <1>3, <3>1
      <4> QED BY <2>4, <4>1, <4>4, <4>5
    <3>2. CASE y = Len(W) + 1
      <4>1. Num(V, Replying) + Upto(X, y, {"request"}) = Len(C.chanreqs) + 1
        BY <1>1, <1>2, <1>3, <1>20, <2>6, <2>7, <3>2, SMTT(30) DEF One
      <4> QED BY <1>2, <2>4, <2>7, <3>2, <4>1
    <3> QED BY <1>2, <3>1, <3>2
  <2>8. ~D.sent_close => Len(B.chanreqs) = Num(V, Replying) + Num(X, {"request"})
    <3>1. Num(V, Replying) \in Nat /\ Num(W, {"request"}) \in Nat /\ One(x.kind, "request") \in Nat
      BY <1>1 DEF One
    <3> QED BY <1>20, <2>4, <2>6, <3>1
  <2> QED BY <2>5, <2>7, <2>8 DEF Asked
<1>9. Asked(D, B, X, V)
  <2>1. Asked(D, C, W, V)
    BY DEF Accord, Link
  <2>2. x.kind \notin Replying
    BY DEF Speaks
  <2>3. Num(X, Replying) = Num(W, Replying)
    BY <1>1, <1>3, <2>2
  <2>4. \A y \in DOMAIN X : X[y].kind \in Replying =>
            y \in DOMAIN W /\ X[y] = W[y] /\ Upto(X, y, Replying) = Upto(W, y, Replying)
    BY <1>2, <1>3, <2>2
  <2> QED BY <1>4, <2>1, <2>3, <2>4 DEF Asked
<1>10. /\ Num(X, {"data"}) = Num(W, {"data"}) + One(x.kind, "data")
       /\ Num(X, {"adjust"}) = Num(W, {"adjust"}) + One(x.kind, "adjust")
       /\ Num(W, {"data"}) \in Nat /\ Num(W, {"adjust"}) \in Nat
       /\ Num(V, {"data"}) \in Nat /\ Num(V, {"adjust"}) \in Nat
  BY <1>1, <1>3 DEF One
<1>11. /\ B.remwindow + One(x.kind, "data") <= C.remwindow
       /\ B.outbuffer + One(x.kind, "data") <= C.outbuffer
       /\ B.locwindow >= C.locwindow + One(x.kind, "adjust")
       /\ One(x.kind, "data") \in Nat /\ One(x.kind, "adjust") \in Nat
       /\ B.remwindow \in 0..1 /\ C.remwindow \in 0..1 /\ B.outbuffer \in Nat /\ C.outbuffer \in Nat
       /\ B.locwindow \in 0..1 /\ C.locwindow \in 0..1 /\ D.locwindow \in 0..1 /\ Room(D) \in 0..1
       /\ Room(C) = C.remwindow /\ Room(B) = B.remwindow
  BY <1>4, EndTypes DEF Speaks, One, Room
<1>12. Credit(B, D, V, X) /\ Credit(D, B, X, V)
  <2>1. Credit(C, D, V, W) /\ Credit(D, C, W, V)
    BY DEF Accord, Link
  <2>2. Credit(B, D, V, X)
    BY <1>10, <1>11, <2>1 DEF Credit
  <2>3. Credit(D, B, X, V)
    BY <1>10, <1>11, <2>1 DEF Credit
  <2> QED BY <2>2, <2>3
<1>13. Num(X, {"data"}) + B.outbuffer <= m
  <2>1. Num(W, {"data"}) + C.outbuffer <= m
    BY DEF Accord, Link
  <2> QED BY <1>10, <1>11, <2>1
<1>14. Link(B, D, V, X, m)
  BY <1>4, <1>8, <1>12, <1>13 DEF Accord, Link, Speaks
<1>15. Link(D, B, X, V, n)
  BY <1>2, <1>4, <1>5, <1>6, <1>7, <1>9, <1>12 DEF Accord, Link
<1> QED BY <1>14, <1>15 DEF Accord, X

\* What the packets after the first are
LEMMA TailIs ==
    ASSUME NEW V \in Seq(Item), V # <<>>
    PROVE  /\ Tail(V) \in Seq(Item) /\ Len(V) \in Nat /\ V[1] \in Item /\ 1 \in DOMAIN V
           /\ \A x \in DOMAIN Tail(V) :
                 x \in Nat /\ x + 1 \in DOMAIN V /\ Tail(V)[x] = V[x + 1] /\ Tail(V)[x] \in Item
           /\ \A x \in DOMAIN V : x = 1 \/ (x - 1 \in DOMAIN Tail(V) /\ Tail(V)[x - 1] = V[x])
           /\ DOMAIN Tail(V) = 1..Len(Tail(V)) /\ Len(Tail(V)) = Len(V) - 1
<1>1. /\ Tail(V) \in Seq(Item) /\ Len(V) \in Nat /\ Len(V) >= 1 /\ DOMAIN V = 1..Len(V)
      /\ Len(Tail(V)) = Len(V) - 1 /\ DOMAIN Tail(V) = 1..(Len(V) - 1)
      /\ \A x \in 1..(Len(V) - 1) : Tail(V)[x] = V[x + 1]
  OBVIOUS
<1>2. \A x \in DOMAIN V : V[x] \in Item
  OBVIOUS
<1> QED BY <1>1, <1>2

\* What is left of a queue keeps the order and the marks.
LEMMA TailKeeps ==
    ASSUME NEW V \in Seq(Item), V # <<>>, NEW D, CloseLast(V), Marks(D, V)
    PROVE  CloseLast(Tail(V)) /\ Marks(D, Tail(V))
<1>1. CloseLast(Tail(V))
  BY TailIs DEF CloseLast
<1>2. Marks(D, Tail(V))
  BY TailIs DEF Marks
<1> QED BY <1>1, <1>2

\* A queue with no packets is empty.
LEMMA NoneLeft ==
    ASSUME NEW w \in Seq(Item), Len(w) < 1
    PROVE  w = <<>>
<1>1. w # <<>> => Len(w) >= 1
  OBVIOUS
<1>2. Len(w) \in Nat
  OBVIOUS
<1> QED BY <1>1, <1>2

\* Nothing follows a CLOSE that is read.
LEMMA CloseIsLast ==
    ASSUME NEW V \in Seq(Item), V # <<>>, CloseLast(V), V[1].kind = "close"
    PROVE  Tail(V) = <<>> /\ Len(V) = 1
<1>1. DOMAIN V = 1..Len(V) /\ Len(V) \in Nat /\ Len(V) >= 1
  OBVIOUS
<1>2. ~(2 \in DOMAIN V)
  BY <1>1 DEF CloseLast
<1>3. Len(V) = 1
  BY <1>1, <1>2
<1>4. Tail(V) \in Seq(Item) /\ Len(Tail(V)) < 1
  BY <1>3
<1> QED BY <1>3, <1>4, NoneLeft

\* The list of requests once the first packet has been taken
LEMMA TakeAsked ==
    ASSUME NEW C \in Mid, NEW D \in Mid, NEW V \in Seq(Item), NEW W \in Seq(Item), V # <<>>,
           Asked(C, D, V, W), ~C.gone, NEW B \in Mid,
           B.chanreqs = IF V[1].kind \in Replying THEN Tail(C.chanreqs) ELSE C.chanreqs
    PROVE  Asked(B, D, Tail(V), W)
<1> DEFINE L == C.chanreqs
           M == B.chanreqs
           one == IF V[1].kind \in Replying THEN 1 ELSE 0
<1>1. L \in Seq(Requests) /\ M \in Seq(Requests)
  BY EndTypes
<1>2. \A x \in DOMAIN V : V[x].kind \in Replying =>
          Upto(V, x, Replying) <= Len(L) /\ L[Upto(V, x, Replying)] = V[x].req
  BY DEF Asked
<1>3. ~D.gone /\ ~D.sent_close =>
          /\ Len(L) = Num(V, Replying) + Num(W, {"request"})
          /\ \A x \in DOMAIN W : W[x].kind = "request" =>
                L[Num(V, Replying) + Upto(W, x, {"request"})] = W[x].req
  BY DEF Asked
<1>4. M = IF V[1].kind \in Replying THEN Tail(L) ELSE L
  OBVIOUS
<1> HIDE DEF L, M
<1>5. /\ Num(V, Replying) = Num(Tail(V), Replying) + one
      /\ \A x \in DOMAIN Tail(V) : Upto(V, x + 1, Replying) = Upto(Tail(V), x, Replying) + one
  BY TailIs, NumTail, UptoTail
<1>6. V[1].kind \in Replying => Len(L) >= 1
  <2>1. V[1].kind \in Replying => Upto(V, 1, Replying) >= 1 /\ Upto(V, 1, Replying) <= Len(L)
    BY <1>2, TailIs, UptoBounds
  <2>2. Upto(V, 1, Replying) \in Nat /\ Len(L) \in Nat
    BY <1>1, UptoType
  <2> QED BY <2>1, <2>2
<1>7. /\ Len(L) \in Nat /\ one \in 0..1 /\ Len(M) = Len(L) - one
      /\ \A k \in Nat : k >= 1 /\ k + one <= Len(L) => M[k] = L[k + one]
  <2>1. CASE V[1].kind \in Replying
    <3>1. M = Tail(L) /\ Len(L) >= 1
      BY <1>4, <1>6, <2>1
    <3>2. Len(L) \in Nat /\ Len(M) = Len(L) - 1 /\ \A k \in 1..(Len(L) - 1) : M[k] = L[k + 1]
      BY <1>1, <3>1
    <3> QED BY <2>1, <3>2
  <2>2. CASE V[1].kind \notin Replying
    BY <1>1, <1>4, <2>2
  <2> QED BY <2>1, <2>2
<1> HIDE DEF one
<1>8. ASSUME NEW x \in DOMAIN Tail(V), Tail(V)[x].kind \in Replying
      PROVE  Upto(Tail(V), x, Replying) <= Len(M) /\ M[Upto(Tail(V), x, Replying)] = Tail(V)[x].req
  <2> DEFINE k == Upto(Tail(V), x, Replying)
  <2>1. k \in Nat /\ k >= 1
    BY <1>8, TailIs, UptoType, UptoBounds
  <2>2. x + 1 \in DOMAIN V /\ V[x + 1] = Tail(V)[x]
    BY TailIs
  <2>3. Upto(V, x + 1, Replying) = k + one
    BY <1>5
  <2> HIDE DEF k
  <2>4. k + one <= Len(L) /\ L[k + one] = Tail(V)[x].req
    BY <1>2, <1>8, <2>2, <2>3
  <2>5. k <= Len(M) /\ M[k] = Tail(V)[x].req
    BY <1>7, <2>1, <2>4, SMTT(30)
  <2> QED BY <2>5 DEF k
<1>9. ASSUME ~D.gone, ~D.sent_close
      PROVE  /\ Len(M) = Num(Tail(V), Replying) + Num(W, {"request"})
             /\ \A x \in DOMAIN W : W[x].kind = "request" =>
                   M[Num(Tail(V), Replying) + Upto(W, x, {"request"})] = W[x].req
  <2>1. Num(Tail(V), Replying) \in Nat /\ Num(W, {"request"}) \in Nat /\ Num(V, Replying) \in Nat
    BY TailIs, NumType
  <2>2. Len(M) = Num(Tail(V), Replying) + Num(W, {"request"})
    BY <1>3, <1>5, <1>7, <1>9, <2>1
  <2>3. ASSUME NEW x \in DOMAIN W, W[x].kind = "request"
        PROVE  M[Num(Tail(V), Replying) + Upto(W, x, {"request"})] = W[x].req
    <3> DEFINE u == Upto(W, x, {"request"})
    <3>1. u \in Nat /\ u >= 1 /\ u <= Num(W, {"request"})
      BY <2>3, UptoType, UptoBounds
    <3>2. L[Num(V, Replying) + u] = W[x].req
      BY <1>3, <1>9, <2>3
    <3> DEFINE t == Num(Tail(V), Replying)
               v == Num(V, Replying)
               r == Num(W, {"request"})
    <3>3. t \in Nat /\ v \in Nat /\ r \in Nat /\ Len(L) = v + r /\ v = t + one /\ one \in 0..1
      BY <1>3, <1>5, <1>7, <1>9, <2>1
    <3>4. u \in Nat /\ u >= 1 /\ u <= r /\ L[v + u] = W[x].req
      BY <3>1, <3>2
    <3> HIDE DEF u, t, v, r
    <3>5. t + u \in Nat /\ t + u >= 1 /\ (t + u) + one = v + u /\ (t + u) + one <= Len(L)
      BY <3>3, <3>4
    <3>6. M[t + u] = W[x].req
      BY <1>7, <3>4, <3>5
    <3> QED BY <3>6 DEF u, t
  <2> QED BY <2>2, <2>3
<1> QED BY <1>8, <1>9 DEF Asked, M

\* What the peer waits for, once a packet has been taken that asks for no reply
LEMMA TakenAsked ==
    ASSUME NEW C \in Mid, NEW D \in Mid, NEW V \in Seq(Item), NEW W \in Seq(Item), V # <<>>,
           Asked(D, C, W, V), ~C.gone, NEW B \in Mid, ~B.gone, B.sent_close = C.sent_close,
           V[1].kind = "request" => C.sent_close
    PROVE  Asked(D, B, W, Tail(V))
<1>1. ~C.sent_close => /\ Num(Tail(V), {"request"}) = Num(V, {"request"})
                       /\ \A x \in DOMAIN Tail(V) :
                             Upto(Tail(V), x, {"request"}) = Upto(V, x + 1, {"request"})
  <2>1. V[1].kind # "request" =>
            /\ Num(V, {"request"}) = Num(Tail(V), {"request"}) + 0
            /\ \A x \in DOMAIN Tail(V) : Upto(V, x + 1, {"request"}) = Upto(Tail(V), x, {"request"}) + 0
    BY TailIs, NumTail, UptoTail
  <2>2. \A x : Upto(Tail(V), x, {"request"}) \in Nat
    BY TailIs, UptoType
  <2>3. Num(Tail(V), {"request"}) \in Nat
    BY TailIs, NumType
  <2> QED BY <2>1, <2>2, <2>3
<1>2. \A x \in DOMAIN Tail(V) : x + 1 \in DOMAIN V /\ Tail(V)[x] = V[x + 1]
  BY TailIs
<1> QED BY <1>1, <1>2 DEF Asked

\* An end that takes a packet leaves the peers in accord.
LEMMA TakeAccord ==
    ASSUME NEW C \in Mid, NEW D \in Mid, NEW V, NEW W, NEW m \in Nat, NEW n \in Nat,
           Accord(C, D, V, W, m, n), Sound(D), V # <<>>, NEW B \in Mid, Takes(C, B, V[1]),
           NEW l \in Nat, l + One(V[1].kind, "data") >= n
    PROVE  Accord(B, D, Tail(V), W, m, l)
<1> DEFINE T == Tail(V)
           data == One(V[1].kind, "data")
           adjust == One(V[1].kind, "adjust")
<1>1. /\ V \in Seq(Item) /\ W \in Seq(Item) /\ T \in Seq(Item)
      /\ CloseLast(V) /\ CloseLast(W) /\ Marks(D, V) /\ Marks(C, W)
      /\ ~C.gone /\ ~B.gone
  BY TailIs DEF Accord, Link, Takes
<1>2. /\ B.sent_eof = C.sent_eof /\ B.sent_close = C.sent_close
  BY DEF Takes
<1>3. CloseLast(T) /\ Marks(D, T)
  BY <1>1, TailKeeps
<1>4. Asked(B, D, T, W)
  <2>1. CASE V[1].kind # "close"
    <3>1. Asked(C, D, V, W)
      BY DEF Accord, Link
    <3>2. B.chanreqs = IF V[1].kind \in Replying THEN Tail(C.chanreqs) ELSE C.chanreqs
      BY <2>1 DEF Takes
    <3> QED BY <1>1, <3>1, <3>2, TakeAsked
  <2>2. CASE V[1].kind = "close"
    <3>1. T = <<>>
      BY <1>1, <2>2, CloseIsLast
    <3>2. D.gone \/ D.sent_close
      BY <1>1, <2>2, TailIs DEF Marks
    <3> QED BY <3>1, <3>2 DEF Asked
  <2> QED BY <2>1, <2>2
<1>5. Asked(D, B, W, T)
  <2>1. Asked(D, C, W, V) /\ (V[1].kind = "request" => C.sent_close)
    BY DEF Accord, Link, Takes
  <2> QED BY <1>1, <1>2, <2>1, TakenAsked
<1>6. B.rcvd_eof => D.gone \/ D.sent_eof
  <2>1. V[1].kind = "close" \/ V[1].kind = "eof" \/ C.rcvd_eof =>
           D.gone \/ D.sent_close \/ D.sent_eof
    BY <1>1, TailIs DEF Marks, Accord, Link
  <2>2. D.sent_close => D.sent_eof
    BY DEF Sound
  <2> QED BY <2>1, <2>2 DEF Takes
<1>7. /\ Num(V, {"data"}) = Num(T, {"data"}) + data
      /\ Num(V, {"adjust"}) = Num(T, {"adjust"}) + adjust
      /\ Num(V, {"data"}) \in Nat /\ Num(T, {"data"}) \in Nat
      /\ Num(V, {"adjust"}) \in Nat /\ Num(T, {"adjust"}) \in Nat
      /\ Num(W, {"data"}) \in Nat /\ Num(W, {"adjust"}) \in Nat
      /\ data \in Nat /\ adjust \in Nat
  BY <1>1, NumTail, NumType DEF One
<1>8. /\ B.remwindow <= C.remwindow + adjust /\ B.locwindow + data >= C.locwindow
      /\ B.outbuffer <= C.outbuffer
      /\ B.remwindow \in 0..1 /\ C.remwindow \in 0..1 /\ B.outbuffer \in Nat /\ C.outbuffer \in Nat
      /\ B.locwindow \in 0..1 /\ C.locwindow \in 0..1 /\ D.locwindow \in 0..1 /\ Room(D) \in 0..1
      /\ Room(C) = C.remwindow /\ Room(B) = B.remwindow /\ D.outbuffer \in Nat
  BY <1>1, EndTypes DEF Takes, Room
<1>9. /\ l + data >= n
      /\ Room(C) + (Num(W, {"data"}) + Num(V, {"adjust"})) <= D.locwindow
      /\ Room(D) + (Num(V, {"data"}) + Num(W, {"adjust"})) <= C.locwindow
      /\ Num(W, {"data"}) + C.outbuffer <= m
      /\ Num(V, {"data"}) + D.outbuffer <= n
  BY DEF Accord, Link, Credit
<1> DEFINE vd == Num(V, {"data"})
           va == Num(V, {"adjust"})
           wd == Num(W, {"data"})
           wa == Num(W, {"adjust"})
           td == Num(T, {"data"})
           ta == Num(T, {"adjust"})
<1>10. /\ Room(B) + (wd + ta) <= D.locwindow
       /\ Room(D) + (td + wa) <= B.locwindow
       /\ wd + B.outbuffer <= m
       /\ td + D.outbuffer <= l
  <2> HIDE DEF data, adjust, T, vd, va, wd, wa, td, ta
  <2>1. /\ vd = td + data /\ va = ta + adjust
        /\ vd \in Nat /\ td \in Nat /\ va \in Nat /\ ta \in Nat /\ wd \in Nat /\ wa \in Nat
        /\ data \in Nat /\ adjust \in Nat
    BY <1>7 DEF vd, va, wd, wa, td, ta
  <2>2. /\ l + data >= n /\ Room(C) + (wd + va) <= D.locwindow
        /\ Room(D) + (vd + wa) <= C.locwindow
        /\ wd + C.outbuffer <= m /\ vd + D.outbuffer <= n
    BY <1>9 DEF vd, va, wd, wa
  <2>6. Room(B) \in Nat /\ Room(C) \in Nat /\ D.locwindow \in Nat /\ Room(B) <= Room(C) + adjust
    BY <1>8
  <2>3. Room(B) + (wd + ta) <= D.locwindow
    BY <2>1, <2>2, <2>6
  <2>4. Room(D) + (td + wa) <= B.locwindow
    BY <1>8, <2>1, <2>2, SMTT(30)
  <2>7. B.outbuffer \in Nat /\ C.outbuffer \in Nat /\ D.outbuffer \in Nat /\ B.outbuffer <= C.outbuffer
    BY <1>8
  <2>5. wd + B.outbuffer <= m /\ td + D.outbuffer <= l
    BY <2>1, <2>2, <2>7, SMTT(30)
  <2> QED BY <2>3, <2>4, <2>5
<1> HIDE DEF data, adjust, T
<1>11. Credit(B, D, T, W) /\ Credit(D, B, W, T)
  BY <1>10 DEF Credit
<1>14. Link(B, D, T, W, m)
  BY <1>1, <1>3, <1>4, <1>6, <1>10, <1>11 DEF Link
<1>15. Marks(B, W) /\ (D.gone => W = <<>> /\ B.sent_close) /\ (D.rcvd_eof => B.sent_eof)
  BY <1>1, <1>2 DEF Accord, Link, Marks
<1>16. Link(D, B, W, T, l)
  BY <1>1, <1>5, <1>10, <1>11, <1>15 DEF Link
<1> QED BY <1>14, <1>16 DEF Accord, T

\* No packet is among the first none.
LEMMA UptoNone ==
    ASSUME NEW w \in Seq(Item), NEW kinds
    PROVE  Upto(w, 0, kinds) = 0
<1>1. Those(w, 0, kinds) = {}
  <2>1. DOMAIN w = 1..Len(w) /\ Len(w) \in Nat
    OBVIOUS
  <2> QED BY <2>1 DEF Those
<1> QED BY <1>1, FS_EmptySet DEF Upto

\* The agreement is the same seen from either end.
LEMMA AccordTurned ==
    ASSUME NEW C, NEW D, NEW V, NEW W, NEW m, NEW n, Accord(C, D, V, W, m, n)
    PROVE  Accord(D, C, W, V, n, m)
  BY DEF Accord

\* What an end does as it takes a request that it replies to, but for sending the reply
Replied(c, d) ==
    /\ ~c.gone /\ ~d.gone /\ ~c.sent_close /\ d.sent_eof = c.sent_eof /\ d.sent_close = c.sent_close
    /\ d.rcvd_eof = c.rcvd_eof /\ d.remwindow = c.remwindow /\ d.locwindow = c.locwindow
    /\ d.outbuffer = c.outbuffer /\ d.chanreqs = c.chanreqs

\* The list of requests of the end that asked
LEMMA ReplyAsked ==
    ASSUME NEW C \in Mid, NEW D \in Mid, NEW V \in Seq(Item), NEW W \in Seq(Item), V # <<>>,
           V[1].kind = "request", Asked(D, C, W, V), ~C.gone, ~C.sent_close, ~D.gone, NEW B,
           NEW x \in Item, x.kind \in Replying, x.req = V[1].req
    PROVE  Asked(D, B, Append(W, x), Tail(V))
<1> DEFINE X == Append(W, x)
           T == Tail(V)
           L == D.chanreqs
           w == Num(W, Replying)
           v == Num(V, {"request"})
           t == Num(T, {"request"})
           r == Num(X, Replying)
<1>1. /\ X \in Seq(Item) /\ Len(W) \in Nat /\ T \in Seq(Item)
      /\ DOMAIN W = 1..Len(W) /\ DOMAIN X = 1..(Len(W) + 1)
      /\ \A y \in DOMAIN W : X[y] = W[y]
      /\ X[Len(W) + 1] = x
  BY TailIs
<1>2. /\ \A y \in DOMAIN W : Upto(X, y, Replying) = Upto(W, y, Replying)
      /\ Upto(X, Len(W) + 1, Replying) = r
      /\ r = w + 1
  BY <1>1, NumAppend
<1>3. /\ v = t + 1 /\ \A y \in DOMAIN T : Upto(V, y + 1, {"request"}) = Upto(T, y, {"request"}) + 1
  <2>1. V[1].kind \in {"request"}
    OBVIOUS
  <2> QED BY <2>1, NumTail, UptoTail, TailIs
<1>4. Upto(V, 1, {"request"}) = 1
  <2>1. Upto(V, 0 + 1, {"request"}) = Upto(T, 0, {"request"}) + 1
    BY UptoTail
  <2>2. Upto(T, 0, {"request"}) = 0
    BY <1>1, UptoNone
  <2> QED BY <2>1, <2>2
<1>5. /\ L \in Seq(Requests) /\ w \in Nat /\ v \in Nat /\ t \in Nat
      /\ \A y \in DOMAIN T : Upto(T, y, {"request"}) \in Nat
  BY <1>1, EndTypes, NumType, UptoType
<1>6. /\ Len(L) = w + v
      /\ \A y \in DOMAIN V : V[y].kind = "request" => L[w + Upto(V, y, {"request"})] = V[y].req
      /\ \A y \in DOMAIN W : W[y].kind \in Replying =>
             Upto(W, y, Replying) <= Len(L) /\ L[Upto(W, y, Replying)] = W[y].req
  BY DEF Asked
<1>7. L[r] = x.req /\ r <= Len(L)
  <2>1. L[w + 1] = V[1].req
    BY <1>4, <1>6, TailIs
  <2> HIDE DEF r, w, v, t, L
  <2> QED BY <1>2, <1>3, <1>5, <1>6, <2>1
<1>8. \A y \in DOMAIN X : X[y].kind \in Replying =>
          Upto(X, y, Replying) <= Len(L) /\ L[Upto(X, y, Replying)] = X[y].req
  BY <1>1, <1>2, <1>6, <1>7
<1>9. Len(L) = r + t
  <2> HIDE DEF r, w, v, t, L
  <2> QED BY <1>2, <1>3, <1>5, <1>6
<1>10. ASSUME NEW y \in DOMAIN T, T[y].kind = "request"
       PROVE  L[r + Upto(T, y, {"request"})] = T[y].req
  <2> DEFINE u == Upto(T, y, {"request"})
             k == Upto(V, y + 1, {"request"})
  <2>1. y + 1 \in DOMAIN V /\ V[y + 1] = T[y]
    BY TailIs
  <2>2. L[w + k] = T[y].req
    BY <1>6, <1>10, <2>1
  <2>3. u \in Nat /\ k = u + 1 /\ r = w + 1 /\ w \in Nat
    BY <1>2, <1>3, <1>5
  <2> HIDE DEF u, k, r, w, L
  <2>4. r + u = w + k
    BY <2>3
  <2> QED BY <2>2, <2>4 DEF u
<1> QED BY <1>8, <1>9, <1>10 DEF Asked

\* An end that replies to the request it reads leaves the peers in accord.
LEMMA ReplyAccord ==
    ASSUME NEW C \in Mid, NEW D \in Mid, NEW V, NEW W, NEW m \in Nat, NEW n \in Nat,
           Accord(C, D, V, W, m, n), V # <<>>, V[1].kind = "request", NEW B \in Mid, Replied(C, B),
           NEW x \in Item, x.kind \in Replying, x.req = V[1].req
    PROVE  Accord(B, D, Tail(V), Append(W, x), m, n)
<1> DEFINE X == Append(W, x)
           T == Tail(V)
<1>1. /\ V \in Seq(Item) /\ W \in Seq(Item) /\ T \in Seq(Item)
      /\ CloseLast(V) /\ CloseLast(W) /\ Marks(D, V) /\ Marks(C, W)
      /\ ~C.gone /\ ~C.sent_close /\ ~B.gone
  BY TailIs DEF Accord, Link, Replied
<1>2. /\ X \in Seq(Item) /\ Len(W) \in Nat
      /\ DOMAIN W = 1..Len(W) /\ DOMAIN X = 1..(Len(W) + 1)
      /\ \A y \in DOMAIN W : X[y] = W[y]
      /\ X[Len(W) + 1] = x
  BY <1>1
<1>3. ~D.gone
  BY <1>1 DEF Accord, Link
<1>4. CloseLast(T) /\ Marks(D, T)
  BY <1>1, TailKeeps
<1>5. CloseLast(X) /\ Marks(B, X)
  <2>1. /\ \A y \in DOMAIN W : W[y].kind # "close"
        /\ \A y \in DOMAIN W : W[y].kind = "eof" => C.sent_eof
    BY <1>1 DEF Marks
  <2>2. x.kind # "close" /\ x.kind # "eof"
    BY DEF Replying
  <2>3. CloseLast(X)
    BY <1>2, <2>1 DEF CloseLast
  <2>4. Marks(B, X)
    BY <1>2, <2>1, <2>2 DEF Marks, Replied
  <2> QED BY <2>3, <2>4
<1>6. Asked(D, B, X, T)
  <2>1. Asked(D, C, W, V)
    BY DEF Accord, Link
  <2> QED BY <1>1, <1>3, <2>1, ReplyAsked
<1>7. Asked(B, D, T, X)
  <2>1. Asked(C, D, V, W)
    BY DEF Accord, Link
  <2>2. B.chanreqs = IF V[1].kind \in Replying THEN Tail(C.chanreqs) ELSE C.chanreqs
    BY DEF Replied, Replying
  <2>3. Asked(B, D, T, W)
    BY <1>1, <2>1, <2>2, TakeAsked
  <2>4. x.kind \notin {"request"}
    BY DEF Replying
  <2>5. /\ \A y \in DOMAIN W : Upto(X, y, {"request"}) = Upto(W, y, {"request"})
        /\ Num(X, {"request"}) = Num(W, {"request"}) + 0 /\ Num(W, {"request"}) \in Nat
    BY <1>1, <2>4, NumAppend, NumType
  <2>6. Num(X, {"request"}) = Num(W, {"request"})
    BY <2>5
  <2>7. \A y \in DOMAIN X : X[y].kind = "request" => y \in DOMAIN W /\ X[y] = W[y]
    BY <1>2, <2>4
  <2> HIDE DEF X, T
  <2> QED BY <2>3, <2>5, <2>6, <2>7 DEF Asked
<1>8. /\ Num(T, {"data"}) = Num(V, {"data"}) /\ Num(T, {"adjust"}) = Num(V, {"adjust"})
      /\ Num(X, {"data"}) = Num(W, {"data"}) /\ Num(X, {"adjust"}) = Num(W, {"adjust"})
  <2>1. /\ V[1].kind \notin {"data"} /\ V[1].kind \notin {"adjust"}
        /\ x.kind \notin {"data"} /\ x.kind \notin {"adjust"}
    BY DEF Replying
  <2>2. /\ Num(V, {"data"}) = Num(T, {"data"}) + 0 /\ Num(V, {"adjust"}) = Num(T, {"adjust"}) + 0
        /\ Num(X, {"data"}) = Num(W, {"data"}) + 0 /\ Num(X, {"adjust"}) = Num(W, {"adjust"}) + 0
    BY <1>1, <2>1, NumTail, NumAppend
  <2>3. \A k : Num(T, k) \in Nat /\ Num(W, k) \in Nat
    BY <1>1, NumType
  <2> HIDE DEF X, T
  <2> QED BY <2>2, <2>3
<1>9. Credit(B, D, T, X) /\ Credit(D, B, X, T)
  <2>1. Credit(C, D, V, W) /\ Credit(D, C, W, V)
    BY DEF Accord, Link
  <2>2. Room(B) = Room(C) /\ B.locwindow = C.locwindow
    BY <1>1 DEF Replied, Room
  <2> QED BY <1>8, <2>1, <2>2 DEF Credit
<1>10. Num(X, {"data"}) + B.outbuffer <= m /\ Num(T, {"data"}) + D.outbuffer <= n
  BY <1>8 DEF Accord, Link, Replied
<1> HIDE DEF X, T
<1>11. Link(B, D, T, X, m)
  BY <1>1, <1>4, <1>7, <1>9, <1>10 DEF Accord, Link, Replied
<1>12. Link(D, B, X, T, n)
  BY <1>1, <1>2, <1>3, <1>5, <1>6, <1>9, <1>10 DEF Accord, Link, Replied
<1> QED BY <1>11, <1>12 DEF Accord, X, T

\* One more packet of data to be sent
LEMMA WriteAccord ==
    ASSUME NEW C \in Mid, NEW D \in Mid, NEW V, NEW W, NEW m \in Nat, NEW n \in Nat,
           Accord(C, D, V, W, m, n), NEW B \in Mid, B.outbuffer = C.outbuffer + 1,
           Eases(C, [B EXCEPT !.outbuffer = C.outbuffer])
    PROVE  Accord(B, D, V, W, m + 1, n)
<1> DEFINE E == [B EXCEPT !.outbuffer = C.outbuffer]
<1>1. /\ E \in Mid /\ E.gone = B.gone /\ E.sent_eof = B.sent_eof /\ E.sent_close = B.sent_close
      /\ E.rcvd_eof = B.rcvd_eof /\ E.chanreqs = B.chanreqs /\ E.remwindow = B.remwindow
      /\ E.locwindow = B.locwindow /\ E.outbuffer = C.outbuffer
  BY DEF Mid
<1>2. Eases(C, E)
  OBVIOUS
<1> HIDE DEF E
<1>3. Accord(E, D, V, W, m, n)
  BY <1>1, <1>2, EaseAccord
<1>4. Room(B) = Room(E)
  BY <1>1 DEF Room
<1>5. Num(W, {"data"}) \in Nat /\ C.outbuffer \in Nat
  BY <1>3, NumType, EndTypes DEF Accord, Link
<1>6. Num(W, {"data"}) + B.outbuffer <= m + 1
  BY <1>1, <1>3, <1>5 DEF Accord, Link
<1>7. /\ Asked(B, D, V, W) /\ Asked(D, B, W, V) /\ Credit(B, D, V, W) /\ Credit(D, B, W, V)
      /\ Marks(B, W)
  BY <1>1, <1>3, <1>4 DEF Accord, Link, Asked, Credit, Marks
<1>8. Link(B, D, V, W, m + 1)
  BY <1>1, <1>3, <1>6, <1>7 DEF Accord, Link
<1>9. Link(D, B, W, V, n)
  BY <1>1, <1>3, <1>7 DEF Accord, Link
<1> QED BY <1>8, <1>9 DEF Accord

\* An end that has sent CLOSE and taken CLOSE is forgotten, and the peers are in accord.
LEMMA BuryAccord ==
    ASSUME NEW C \in Mid, NEW D \in Mid, NEW W, NEW m \in Nat, NEW n \in Nat,
           Accord(C, D, <<>>, W, m, n), D.gone \/ D.sent_close
    PROVE  Accord(Gone, D, <<>>, W, m, n)
<1>1. W \in Seq(Item) /\ <<>> \in Seq(Item) /\ \A k : Num(W, k) \in Nat /\ Num(<<>>, k) = 0
  BY NumType, NumNone DEF Accord, Link
<1>2. /\ Room(C) \in 0..1 /\ Room(D) \in 0..1 /\ C.locwindow \in 0..1 /\ D.locwindow \in 0..1
      /\ C.outbuffer \in Nat /\ D.outbuffer \in Nat
  BY EndTypes
<1>3. CloseLast(<<>>) /\ Marks(D, <<>>) /\ Marks(Gone, W)
  BY GoneIs DEF CloseLast, Marks
<1>4. Asked(Gone, D, <<>>, W)
  BY GoneIs DEF Asked
<1>5. Asked(D, Gone, W, <<>>)
  BY GoneIs DEF Asked, Accord, Link
<1>6. /\ Room(C) + (Num(W, {"data"}) + Num(<<>>, {"adjust"})) <= D.locwindow
      /\ Room(D) + (Num(<<>>, {"data"}) + Num(W, {"adjust"})) <= C.locwindow
      /\ Num(W, {"data"}) + C.outbuffer <= m
      /\ Num(<<>>, {"data"}) + D.outbuffer <= n
  BY DEF Accord, Link, Credit
<1>7. Credit(Gone, D, <<>>, W)
  BY <1>1, <1>2, <1>6, GoneIs DEF Credit
<1>8. Credit(D, Gone, W, <<>>)
  BY <1>1, <1>2, <1>6, GoneIs DEF Credit
<1>9. Num(W, {"data"}) + Gone.outbuffer <= m
  BY <1>1, <1>2, <1>6, GoneIs
<1>10. Link(Gone, D, <<>>, W, m)
  BY <1>1, <1>3, <1>4, <1>7, <1>9, GoneIs DEF Link
<1>11. Link(D, Gone, W, <<>>, n)
  BY <1>1, <1>3, <1>5, <1>6, <1>8, GoneIs DEF Accord, Link
<1> QED BY <1>10, <1>11 DEF Accord

--------------------------------------------------------------------------------
(* What the operators of Ssh2Channel do to an end. *)

\* A set of ends that contains what each becomes when it keeps its promises or sends a packet
\* that is not a reply.
Fitting(F) ==
    /\ F \subseteq Mid
    /\ \A c \in F : Sound(c)
    /\ \A c \in F, d \in Mid :
          d.packets = c.packets /\ Sound(d) /\ Eases(c, d) => d \in F
    /\ \A c \in F, d \in Mid, x \in Item :
          d.packets = Append(c.packets, x) /\ Sound(d) /\ Speaks(c, d, x) => d \in F

\* What a call leaves as it was, unless the Channel object is changed or CLOSE is taken, and what
\* is never taken back
Keeps(c, d) ==
    /\ d.gone = c.gone /\ d.rcvd_close = c.rcvd_close /\ d.rcvd_eof = c.rcvd_eof /\ d.chan = c.chan
    /\ Ended(c) => Ended(d)

\* ... and an end that does not end of its own accord
Quiet(c, d) == Ended(d) => Ended(c) \/ Over(c)

\* A fitting set contains what an end becomes when it keeps its promises,
LEMMA Changed ==
    ASSUME NEW F, Fitting(F), NEW c \in F, NEW d \in Mid, d.packets = c.packets, Sound(d), Eases(c, d)
    PROVE  d \in F
  BY DEF Fitting

\* and what it becomes when it sends a packet.
LEMMA Said ==
    ASSUME NEW F, Fitting(F), NEW c \in F, NEW d \in Mid, NEW x \in Item,
           d.packets = Append(c.packets, x), Sound(d), Speaks(c, d, x)
    PROVE  d \in F
  BY DEF Fitting

\* Two calls one after the other keep what each keeps.
LEMMA KeepsTransitive ==
    ASSUME NEW c, NEW d, NEW e, Keeps(c, d), Keeps(d, e)
    PROVE  Keeps(c, e) /\ (Quiet(c, d) /\ Quiet(d, e) => Quiet(c, e))
  BY DEF Keeps, Quiet, Over

\* What the fields of an end of a fitting set are
LEMMA EndShape ==
    ASSUME NEW F, Fitting(F), NEW c \in F
    PROVE  /\ c \in Mid /\ Sound(c) /\ c.packets \in Seq(Item) /\ c.chanreqs \in Seq(Requests)
           /\ c.remwindow \in 0..1 /\ c.locwindow \in 0..1 /\ c.outbuffer \in Nat
           /\ c.fault = "none" /\ ~c.halfopen /\ ~c.held
  BY EndTypes DEF Fitting

\* The vtable tells the Channel objects apart.
LEMMA ChanIs ==
    ASSUME NEW c \in Mid
    PROVE  /\ c.chan.vt = "zombie" <=> c.chan = Zombie
           /\ c.chan.vt = "main" <=> c.chan \in Main
           /\ c.chan.vt = "sess" <=> c.chan \in Sess
           /\ c.chan.vt \in {"zombie", "main", "sess"}
<1>1. c.chan \in {Zombie} \cup Main \cup Sess
  BY EndTypes
<1>2. Zombie.vt = "zombie" /\ (\A k \in Main : k.vt = "main") /\ (\A k \in Sess : k.vt = "sess")
  BY DEF Zombie, Main, Sess
<1> QED BY <1>1, <1>2

\* ssh2_channel_check_close sends CLOSE only once all else is said, and destroys no end that may be
\* called upon.
LEMMA CheckCloseFits ==
    ASSUME NEW F, Fitting(F), NEW c \in F, Usable(c)
    PROVE  /\ CheckClose(c) \in F /\ Keeps(c, CheckClose(c)) /\ Quiet(c, CheckClose(c))
           /\ CheckClose(c).chanreqs = c.chanreqs
<1> DEFINE x == Packet("close", "none")
           q == Append(c.packets, x)
           d == [c EXCEPT !.packets = q, !.sent_eof = TRUE, !.sent_close = TRUE]
<1>1. /\ c \in Mid /\ Sound(c) /\ c.fault = "none" /\ c.packets \in Seq(Item) /\ ~c.halfopen
      /\ c.remwindow \in 0..1 /\ c.locwindow \in 0..1 /\ c.outbuffer \in Nat
  BY EndShape
<1>2. x \in Item /\ x.kind = "close" /\ q \in Seq(Item)
  BY <1>1 DEF Packet, Item, Plain
<1>3. Assert(c, TRUE, "none") = c
  BY <1>1 DEF Assert, Usable
<1> HIDE DEF x, q
<1>5. CASE ~ReadyToClose(c)
  BY <1>1, <1>3, <1>5 DEF CheckClose, BothClosed, Usable, Keeps, Quiet
<1>6. CASE ReadyToClose(c)
  <2>1. d \in Mid
    BY <1>1, <1>2 DEF Mid
  <2>2. /\ d.packets = q /\ d.sent_eof = TRUE /\ d.sent_close = TRUE /\ d.pending_eof = c.pending_eof
        /\ d.chan = c.chan /\ d.remwindow = c.remwindow /\ d.locwindow = c.locwindow
        /\ d.chanreqs = c.chanreqs /\ d.gone = c.gone /\ d.rcvd_close = c.rcvd_close
        /\ d.rcvd_eof = c.rcvd_eof /\ d.outbuffer = c.outbuffer
    BY <1>1 DEF Mid
  <2>3. d = [Push(c, "close", "none") EXCEPT !.sent_eof = TRUE, !.sent_close = TRUE]
    BY <1>1 DEF q, x, Push, Mid
  <2> HIDE DEF d
  <2>4. c.chanreqs = <<>> /\ ~c.sent_close
    BY <1>6 DEF ReadyToClose
  <2>5. c.chan \in Main => c.sent_eof /\ c.rcvd_eof
    BY <1>1, <1>6, ChanIs DEF ReadyToClose, WantClose
  <2>6. c.chan \notin Main => Over(c)
    BY <1>1, <1>6, ChanIs DEF ReadyToClose, WantClose, Over
  <2>7. Sound(d)
    BY <1>1, <2>2, <2>4, <2>5 DEF Sound
  <2>8. Speaks(c, d, x)
    BY <1>1, <1>2, <2>2, <2>4 DEF Speaks, One, Replying, Usable
  <2>9. d \in F
    BY <1>2, <2>1, <2>2, <2>7, <2>8, Said DEF q
  <2>10. CheckClose(c) = d
    BY <1>1, <1>3, <1>6, <2>2, <2>3 DEF CheckClose, BothClosed, Usable
  <2>11. Quiet(c, d)
    BY <2>5, <2>6 DEF Quiet, Ended
  <2> QED BY <2>2, <2>9, <2>10, <2>11 DEF Keeps, Ended
<1> QED BY <1>5, <1>6

\* ssh2_channel_try_eof, called while an EOF is pending
LEMMA TryEofFits ==
    ASSUME NEW F, Fitting(F), NEW c \in F, Usable(c), c.pending_eof, ~c.sent_close
    PROVE  /\ TryEof(c) \in F /\ Keeps(c, TryEof(c)) /\ Quiet(c, TryEof(c))
           /\ TryEof(c).chanreqs = c.chanreqs
<1> DEFINE x == Packet("eof", "none")
           q == Append(c.packets, x)
           d == [c EXCEPT !.packets = q, !.pending_eof = FALSE, !.sent_eof = TRUE]
<1>1. /\ c \in Mid /\ Sound(c) /\ c.packets \in Seq(Item) /\ ~c.halfopen
      /\ c.remwindow \in 0..1 /\ c.locwindow \in 0..1 /\ c.outbuffer \in Nat
  BY EndShape
<1>2. x \in Item /\ x.kind = "eof" /\ q \in Seq(Item)
  BY <1>1 DEF Packet, Item, Plain
<1> HIDE DEF x, q
<1>3. CASE c.outbuffer > 0
  BY <1>3 DEF TryEof, Keeps, Quiet
<1>4. CASE ~(c.outbuffer > 0)
  <2>1. d \in Mid
    BY <1>1, <1>2 DEF Mid
  <2>2. /\ d.packets = q /\ d.sent_eof = TRUE /\ d.pending_eof = FALSE /\ d.sent_close = c.sent_close
        /\ d.chan = c.chan /\ d.remwindow = c.remwindow /\ d.locwindow = c.locwindow
        /\ d.chanreqs = c.chanreqs /\ d.gone = c.gone /\ d.rcvd_close = c.rcvd_close
        /\ d.rcvd_eof = c.rcvd_eof /\ d.outbuffer = c.outbuffer
    BY <1>1 DEF Mid
  <2>3. d = [Push(c, "eof", "none") EXCEPT !.pending_eof = FALSE, !.sent_eof = TRUE]
    BY <1>1 DEF q, x, Push, Mid
  <2> HIDE DEF d
  <2>4. Sound(d)
    BY <1>1, <1>4, <2>2 DEF Sound
  <2>5. Speaks(c, d, x)
    BY <1>1, <1>2, <2>2 DEF Speaks, One, Replying, Usable
  <2>6. d \in F
    BY <1>2, <2>1, <2>2, <2>4, <2>5, Said DEF q
  <2>7. TryEof(c) = CheckClose(d)
    BY <1>1, <1>4, <2>3 DEF TryEof
  <2>8. Usable(d) /\ Keeps(c, d) /\ Quiet(c, d)
    BY <2>2 DEF Usable, Keeps, Quiet, Ended
  <2>9. CheckClose(d) \in F /\ Keeps(d, CheckClose(d)) /\ Quiet(d, CheckClose(d))
        /\ CheckClose(d).chanreqs = d.chanreqs
    BY <2>6, <2>8, CheckCloseFits
  <2> QED BY <2>2, <2>7, <2>8, <2>9, KeepsTransitive
<1> QED BY <1>3, <1>4

\* ssh2channel_write_eof
LEMMA WriteEofFits ==
    ASSUME NEW F, Fitting(F), NEW c \in F, Usable(c)
    PROVE  /\ WriteEof(c) \in F /\ Keeps(c, WriteEof(c)) /\ Ended(WriteEof(c))
           /\ WriteEof(c).chanreqs = c.chanreqs
<1> DEFINE d == [c EXCEPT !.pending_eof = TRUE]
<1>1. /\ c \in Mid /\ Sound(c) /\ c.fault = "none"
      /\ c.remwindow \in 0..1 /\ c.locwindow \in 0..1 /\ c.outbuffer \in Nat
  BY EndShape
<1>2. CASE c.sent_eof
  BY <1>2 DEF WriteEof, Keeps, Ended
<1>3. CASE ~c.sent_eof
  <2>1. d \in Mid
    BY <1>1 DEF Mid
  <2>2. /\ d.packets = c.packets /\ d.sent_eof = c.sent_eof /\ d.pending_eof = TRUE
        /\ d.sent_close = c.sent_close
        /\ d.chan = c.chan /\ d.remwindow = c.remwindow /\ d.locwindow = c.locwindow
        /\ d.chanreqs = c.chanreqs /\ d.gone = c.gone /\ d.rcvd_close = c.rcvd_close
        /\ d.rcvd_eof = c.rcvd_eof /\ d.outbuffer = c.outbuffer
    BY <1>1 DEF Mid
  <2>3. WriteEof(c) = TryEof(d)
    BY <1>1, <1>3 DEF WriteEof, Assert, Usable
  <2> HIDE DEF d
  <2>4. Sound(d) /\ Eases(c, d) /\ ~d.sent_close
    BY <1>1, <1>3, <2>2 DEF Sound, Eases
  <2>5. d \in F
    BY <1>1, <2>1, <2>2, <2>4, Changed
  <2>6. Usable(d) /\ Keeps(c, d) /\ Ended(d)
    BY <2>2 DEF Usable, Keeps, Ended
  <2>7. TryEof(d) \in F /\ Keeps(d, TryEof(d)) /\ TryEof(d).chanreqs = d.chanreqs
    BY <2>2, <2>4, <2>5, <2>6, TryEofFits
  <2>8. Ended(TryEof(d))
    BY <2>6, <2>7 DEF Keeps
  <2> QED BY <2>2, <2>3, <2>6, <2>7, <2>8, KeepsTransitive
<1> QED BY <1>2, <1>3

\* ssh2channel_initiate_close
LEMMA InitiateCloseFits ==
    ASSUME NEW F, Fitting(F), NEW c \in F, Usable(c)
    PROVE  /\ InitiateClose(c) \in F /\ Usable(InitiateClose(c)) /\ InitiateClose(c).chan = Zombie
           /\ InitiateClose(c).chanreqs = c.chanreqs
<1> DEFINE d == [c EXCEPT !.chan = Zombie, !.pending_eof = FALSE]
<1>1. /\ c \in Mid /\ Sound(c)
      /\ c.remwindow \in 0..1 /\ c.locwindow \in 0..1 /\ c.outbuffer \in Nat
  BY EndShape
<1>2. d \in Mid
  BY <1>1 DEF Mid
<1>3. /\ d.packets = c.packets /\ d.sent_eof = c.sent_eof /\ d.pending_eof = FALSE
      /\ d.sent_close = c.sent_close
      /\ d.chan = Zombie /\ d.remwindow = c.remwindow /\ d.locwindow = c.locwindow
      /\ d.chanreqs = c.chanreqs /\ d.gone = c.gone /\ d.rcvd_close = c.rcvd_close
      /\ d.rcvd_eof = c.rcvd_eof /\ d.outbuffer = c.outbuffer
  BY <1>1 DEF Mid
<1>4. InitiateClose(c) = CheckClose(d)
  BY DEF InitiateClose
<1> HIDE DEF d
<1>5. Zombie \notin Main
  BY DEF Zombie, Main
<1>6. Sound(d) /\ Eases(c, d)
  BY <1>1, <1>3, <1>5 DEF Sound, Eases
<1>7. d \in F
  BY <1>1, <1>2, <1>3, <1>6, Changed
<1>8. Usable(d)
  BY <1>3 DEF Usable
<1>9. CheckClose(d) \in F /\ Keeps(d, CheckClose(d)) /\ CheckClose(d).chanreqs = d.chanreqs
  BY <1>7, <1>8, CheckCloseFits
<1> QED BY <1>3, <1>4, <1>8, <1>9 DEF Keeps, Usable

\* ssh2_try_send, while no EOF has been sent
LEMMA TrySendFits ==
    ASSUME NEW F, Fitting(F), NEW c \in F, Usable(c), ~c.sent_eof
    PROVE  /\ TrySend(c) \in F /\ Keeps(c, TrySend(c)) /\ Quiet(c, TrySend(c))
           /\ TrySend(c).chanreqs = c.chanreqs
<1> DEFINE x == Packet("data", "none")
           q == Append(c.packets, x)
           s == [c EXCEPT !.packets = q, !.outbuffer = @ - 1, !.remwindow = @ - 1]
           d == IF MaySend(c) THEN s ELSE c
<1>1. /\ c \in Mid /\ Sound(c) /\ c.packets \in Seq(Item)
      /\ c.remwindow \in 0..1 /\ c.locwindow \in 0..1 /\ c.outbuffer \in Nat
  BY EndShape
<1>2. x \in Item /\ x.kind = "data" /\ q \in Seq(Item)
  BY <1>1 DEF Packet, Item, Plain
<1>3. MaySend(c) => s = [Push(c, "data", "none") EXCEPT !.outbuffer = @ - 1, !.remwindow = @ - 1]
  BY <1>1 DEF q, x, Push, Mid
<1> HIDE DEF x, q
<1>4. TrySend(c) = IF d.outbuffer = 0 /\ d.pending_eof THEN TryEof(d) ELSE d
  BY <1>3 DEF TrySend
<1>5. /\ d \in F /\ Usable(d) /\ Keeps(c, d) /\ Quiet(c, d) /\ d.chanreqs = c.chanreqs
      /\ d.sent_close = c.sent_close
  <2>1. CASE ~MaySend(c)
    BY <2>1 DEF Keeps, Quiet
  <2>2. CASE MaySend(c)
    <3>1. s \in Mid
      <4>1. c.outbuffer - 1 \in Nat /\ c.remwindow - 1 \in 0..1
        BY <1>1, <2>2 DEF MaySend
      <4> QED BY <1>1, <1>2, <4>1 DEF Mid
    <3>2. /\ s.packets = q /\ s.sent_eof = c.sent_eof /\ s.pending_eof = c.pending_eof
          /\ s.sent_close = c.sent_close /\ s.outbuffer = c.outbuffer - 1
          /\ s.chan = c.chan /\ s.remwindow = c.remwindow - 1 /\ s.locwindow = c.locwindow
          /\ s.chanreqs = c.chanreqs /\ s.gone = c.gone /\ s.rcvd_close = c.rcvd_close
          /\ s.rcvd_eof = c.rcvd_eof
      BY <1>1 DEF Mid
    <3>3. d = s
      BY <2>2
    <3> HIDE DEF s, d
    <3>4. Sound(s)
      BY <1>1, <3>2 DEF Sound
    <3>5. ~c.sent_close
      BY <1>1 DEF Sound
    <3>6. Speaks(c, s, x)
      BY <1>1, <1>2, <3>2, <3>5 DEF Speaks, One, Replying, Usable
    <3>7. s \in F
      BY <1>2, <3>1, <3>2, <3>4, <3>6, Said DEF q
    <3>8. Usable(s) /\ Keeps(c, s) /\ Quiet(c, s)
      BY <3>2 DEF Usable, Keeps, Quiet, Ended
    <3> QED BY <3>2, <3>3, <3>7, <3>8
  <2> QED BY <2>1, <2>2
<1> HIDE DEF d
<1>6. ~d.sent_close
  BY <1>1, <1>5 DEF Sound
<1>7. d.pending_eof => /\ TryEof(d) \in F /\ Keeps(d, TryEof(d)) /\ Quiet(d, TryEof(d))
                       /\ TryEof(d).chanreqs = d.chanreqs
  BY <1>5, <1>6, TryEofFits
<1> QED BY <1>4, <1>5, <1>7, KeepsTransitive

\* ssh2_channel_check_throttle
LEMMA CheckThrottleFits ==
    ASSUME NEW F, Fitting(F), NEW c \in F, Usable(c)
    PROVE  /\ CheckThrottle(c) \in F /\ Keeps(c, CheckThrottle(c)) /\ Quiet(c, CheckThrottle(c))
           /\ CheckThrottle(c).chanreqs = c.chanreqs
<1> DEFINE reads == ~c.held /\ ~c.pending_eof /\ ~c.sent_eof
           d == [c EXCEPT !.input_wanted = reads]
<1>1. /\ c \in Mid /\ Sound(c) /\ c.fault = "none" /\ reads \in BOOLEAN
      /\ c.remwindow \in 0..1 /\ c.locwindow \in 0..1 /\ c.outbuffer \in Nat
  BY EndShape
<1>2. CheckThrottle(c) = d
  BY <1>1 DEF CheckThrottle, Assert, Usable
<1> HIDE DEF reads
<1>3. d \in Mid
  BY <1>1 DEF Mid
<1>4. /\ d.packets = c.packets /\ d.sent_eof = c.sent_eof /\ d.pending_eof = c.pending_eof
      /\ d.sent_close = c.sent_close /\ d.outbuffer = c.outbuffer
      /\ d.chan = c.chan /\ d.remwindow = c.remwindow /\ d.locwindow = c.locwindow
      /\ d.chanreqs = c.chanreqs /\ d.gone = c.gone /\ d.rcvd_close = c.rcvd_close
      /\ d.rcvd_eof = c.rcvd_eof
  BY <1>1 DEF Mid
<1> HIDE DEF d
<1>5. Sound(d) /\ Eases(c, d)
  BY <1>1, <1>4 DEF Sound, Eases
<1>6. d \in F /\ Keeps(c, d) /\ Quiet(c, d)
  BY <1>1, <1>3, <1>4, <1>5, Changed DEF Keeps, Quiet, Ended
<1> QED BY <1>2, <1>4, <1>6

\* The list of requests gets req at its end.
Asks(c, d, req) ==
    d.chanreqs = Append(c.chanreqs, req) /\ d.locwindow = c.locwindow /\ d.sent_close = c.sent_close

\* ssh2_chanreq_init, of a request that wants a reply
LEMMA AskFits ==
    ASSUME NEW F, Fitting(F), NEW c \in F, Usable(c), ~c.sent_close, NEW req \in Requests,
           NEW b, b = SendRequest(c, req, TRUE)
    PROVE  b \in F /\ Keeps(c, b) /\ Quiet(c, b) /\ Asks(c, b, req)
<1> DEFINE x == Packet("request", req)
           q == Append(c.packets, x)
           l == Append(c.chanreqs, req)
           d == [c EXCEPT !.packets = q, !.chanreqs = l]
<1>1. /\ c \in Mid /\ Sound(c) /\ c.fault = "none" /\ c.packets \in Seq(Item)
      /\ c.chanreqs \in Seq(Requests)
      /\ c.remwindow \in 0..1 /\ c.locwindow \in 0..1 /\ c.outbuffer \in Nat
  BY EndShape
<1>2. x \in Item /\ x.kind = "request" /\ x.req = req /\ q \in Seq(Item) /\ l \in Seq(Requests)
  BY <1>1 DEF Packet, Item, Plain
<1>3. d \in Mid
  BY <1>1, <1>2 DEF Mid
<1>4. /\ d.packets = q /\ d.sent_eof = c.sent_eof /\ d.pending_eof = c.pending_eof
      /\ d.sent_close = c.sent_close /\ d.outbuffer = c.outbuffer
      /\ d.chan = c.chan /\ d.remwindow = c.remwindow /\ d.locwindow = c.locwindow
      /\ d.chanreqs = l /\ d.gone = c.gone /\ d.rcvd_close = c.rcvd_close
      /\ d.rcvd_eof = c.rcvd_eof
  BY <1>1 DEF Mid
<1>5. SendRequest(c, req, TRUE) = d
  <2>1. Assert(c, ~c.sent_close /\ ~c.rcvd_close, "request on a closed channel") = c
    BY <1>1 DEF Assert, Usable
  <2>2. SendRequest(c, req, TRUE) = [Push(c, "request", req) EXCEPT !.chanreqs = Append(@, req)]
    BY <2>1 DEF SendRequest
  <2> QED BY <1>1, <2>2 DEF Push, Mid
<1> HIDE DEF x, q, l, d
<1>6. Sound(d)
  BY <1>1, <1>4 DEF Sound
<1>7. Speaks(c, d, x)
  BY <1>1, <1>2, <1>4 DEF Speaks, One, Replying, Usable, l
<1>8. d \in F
  BY <1>2, <1>3, <1>4, <1>6, <1>7, Said DEF q
<1>9. Keeps(c, d) /\ Quiet(c, d)
  BY <1>4 DEF Keeps, Quiet, Ended
<1>10. b = d
  BY <1>5
<1> QED BY <1>4, <1>8, <1>9, <1>10 DEF l, Asks

\* Nothing but a notice is sent.
Tells(c, d, req) ==
    /\ d.chanreqs = c.chanreqs /\ d.packets = Append(c.packets, Packet("notice", req))
    /\ d.sent_eof = c.sent_eof /\ d.pending_eof = c.pending_eof

\* ... and of one that does not
LEMMA NoticeFits ==
    ASSUME NEW F, Fitting(F), NEW c \in F, Usable(c), ~c.sent_close, NEW req \in Notices,
           NEW b, b = SendRequest(c, req, FALSE)
    PROVE  b \in F /\ Keeps(c, b) /\ Quiet(c, b) /\ Tells(c, b, req)
<1> DEFINE x == Packet("notice", req)
           q == Append(c.packets, x)
           d == [c EXCEPT !.packets = q]
<1>1. /\ c \in Mid /\ Sound(c) /\ c.fault = "none" /\ c.packets \in Seq(Item)
      /\ c.remwindow \in 0..1 /\ c.locwindow \in 0..1 /\ c.outbuffer \in Nat
  BY EndShape
<1>2. x \in Item /\ x.kind = "notice" /\ q \in Seq(Item)
  BY <1>1 DEF Packet, Item, Plain
<1>3. d \in Mid
  BY <1>1, <1>2 DEF Mid
<1>4. /\ d.packets = q /\ d.sent_eof = c.sent_eof /\ d.pending_eof = c.pending_eof
      /\ d.sent_close = c.sent_close /\ d.outbuffer = c.outbuffer
      /\ d.chan = c.chan /\ d.remwindow = c.remwindow /\ d.locwindow = c.locwindow
      /\ d.chanreqs = c.chanreqs /\ d.gone = c.gone /\ d.rcvd_close = c.rcvd_close
      /\ d.rcvd_eof = c.rcvd_eof
  BY <1>1 DEF Mid
<1>5. SendRequest(c, req, FALSE) = d
  <2>1. Assert(c, ~c.sent_close /\ ~c.rcvd_close, "request on a closed channel") = c
    BY <1>1 DEF Assert, Usable
  <2>2. SendRequest(c, req, FALSE) = Push(c, "notice", req)
    BY <2>1 DEF SendRequest
  <2> QED BY <1>1, <2>2 DEF Push, Mid
<1> HIDE DEF x, q, d
<1>6. Sound(d)
  BY <1>1, <1>4 DEF Sound
<1>7. Speaks(c, d, x)
  BY <1>1, <1>2, <1>4 DEF Speaks, One, Replying, Usable
<1>8. d \in F
  BY <1>2, <1>3, <1>4, <1>6, <1>7, Said DEF q
<1>9. Keeps(c, d) /\ Quiet(c, d)
  BY <1>4 DEF Keeps, Quiet, Ended
<1>10. b = d
  BY <1>5
<1> QED BY <1>4, <1>8, <1>9, <1>10 DEF q, x, Tells

\* A list of requests that has got at most a winadj at its end
Longer(c, d) == d.chanreqs = c.chanreqs \/ d.chanreqs = Append(c.chanreqs, "winadj")

\* ssh2_set_window
LEMMA SetWindowFits ==
    ASSUME NEW F, Fitting(F), NEW c \in F, Usable(c), NEW wide \in BOOLEAN
    PROVE  /\ SetWindow(c, wide) \in F /\ Keeps(c, SetWindow(c, wide)) /\ Quiet(c, SetWindow(c, wide))
           /\ Longer(c, SetWindow(c, wide))
<1> DEFINE x == Packet("adjust", "none")
           b == IF wide THEN SendRequest(c, "winadj", TRUE) ELSE c
           q == Append(b.packets, x)
           d == [b EXCEPT !.packets = q, !.locwindow = 1]
<1>1. c.locwindow \in 0..1
  BY EndShape
<1>2. CASE ~MayAdjust(c) \/ c.locwindow > 0
  BY <1>2 DEF SetWindow, Keeps, Quiet, Longer
<1>3. CASE MayAdjust(c) /\ c.locwindow = 0
  <2>1. ~c.sent_close
    BY <1>3 DEF MayAdjust
  <2>2. /\ b \in F /\ Keeps(c, b) /\ Quiet(c, b) /\ Longer(c, b) /\ b.locwindow = 0 /\ ~b.sent_close
    <3>1. CASE ~wide
      BY <3>1, <1>3, <2>1 DEF Keeps, Quiet, Longer
    <3>2. CASE wide
      <4>1. "winadj" \in Requests
        BY DEF Requests
      <4>2. b = SendRequest(c, "winadj", TRUE)
        BY <3>2
      <4> HIDE DEF b
      <4>3. b \in F /\ Keeps(c, b) /\ Quiet(c, b) /\ Asks(c, b, "winadj")
        BY <4>1, <4>2, <2>1, AskFits
      <4> QED BY <4>3, <1>3, <2>1 DEF Longer, Asks
    <3> QED BY <3>1, <3>2
  <2> HIDE DEF b
  <2>3. /\ b \in Mid /\ Sound(b) /\ b.packets \in Seq(Item) /\ 1 \in 0..1
        /\ b.remwindow \in 0..1 /\ b.outbuffer \in Nat
    BY <2>2, EndShape
  <2>4. x \in Item /\ x.kind = "adjust" /\ q \in Seq(Item)
    BY <2>3 DEF Packet, Item, Plain
  <2>5. SetWindow(c, wide) = d
    <3>1. SetWindow(c, wide) = [Push(b, "adjust", "none") EXCEPT !.locwindow = 1]
      <4>1. ~(~MayAdjust(c) \/ c.locwindow > 0)
        BY <1>3
      <4> QED BY <4>1 DEF SetWindow, b
    <3> QED BY <2>3, <3>1 DEF Push, Mid
  <2> HIDE DEF q, x
  <2>6. d \in Mid
    BY <2>3, <2>4 DEF Mid
  <2>7. /\ d.packets = q /\ d.sent_eof = b.sent_eof /\ d.pending_eof = b.pending_eof
        /\ d.sent_close = b.sent_close /\ d.outbuffer = b.outbuffer
        /\ d.chan = b.chan /\ d.remwindow = b.remwindow /\ d.locwindow = 1
        /\ d.chanreqs = b.chanreqs /\ d.gone = b.gone /\ d.rcvd_close = b.rcvd_close
        /\ d.rcvd_eof = b.rcvd_eof
    BY <2>3 DEF Mid
  <2> HIDE DEF d
  <2>8. Sound(d)
    BY <2>2, <2>3, <2>7 DEF Sound
  <2>9. ~b.gone
    BY <2>2 DEF Keeps, Usable
  <2>10. Speaks(b, d, x)
    BY <2>2, <2>3, <2>4, <2>7, <2>9 DEF Speaks, One, Replying
  <2>11. d \in F
    BY <2>2, <2>4, <2>6, <2>7, <2>8, <2>10, Said DEF q
  <2>12. Keeps(b, d) /\ Quiet(b, d) /\ Longer(c, d)
    BY <2>2, <2>7 DEF Keeps, Quiet, Ended, Longer
  <2> QED BY <2>2, <2>5, <2>11, <2>12, KeepsTransitive
<1>4. ~(~MayAdjust(c) \/ c.locwindow > 0) => MayAdjust(c) /\ c.locwindow = 0
  BY <1>1
<1> QED BY <1>2, <1>3, <1>4

\* CHANNEL_WINDOW_ADJUST
LEMMA RecvAdjustFits ==
    ASSUME NEW F, Fitting(F), NEW c \in Mid, Usable(c), c.sent_eof => c \in F,
           ~c.sent_eof => [c EXCEPT !.remwindow = @ + 1] \in F
    PROVE  /\ RecvAdjust(c) \in F /\ Keeps(c, RecvAdjust(c)) /\ Quiet(c, RecvAdjust(c))
           /\ RecvAdjust(c).chanreqs = c.chanreqs
<1> DEFINE b == [c EXCEPT !.remwindow = @ + 1]
           d == TrySend(b)
<1>1. Usable(b) /\ Keeps(c, b) /\ Quiet(c, b) /\ b.sent_eof = c.sent_eof /\ b.chanreqs = c.chanreqs
  BY DEF Usable, Keeps, Quiet, Ended, Mid
<1>2. RecvAdjust(c) = IF c.sent_eof THEN c ELSE IF d.outbuffer = 0 THEN CheckThrottle(d) ELSE d
  BY DEF RecvAdjust
<1>3. ~c.sent_eof => b \in F
  OBVIOUS
<1> HIDE DEF b
<1>4. ~c.sent_eof => d \in F /\ Keeps(b, d) /\ Quiet(b, d) /\ d.chanreqs = b.chanreqs
  BY <1>1, <1>3, TrySendFits
<1> HIDE DEF d
<1>5. ~c.sent_eof => d \in F /\ Keeps(c, d) /\ Quiet(c, d) /\ Usable(d) /\ d.chanreqs = c.chanreqs
  BY <1>1, <1>4, KeepsTransitive DEF Keeps, Usable
<1>6. ~c.sent_eof => /\ CheckThrottle(d) \in F /\ Keeps(d, CheckThrottle(d)) /\ Quiet(d, CheckThrottle(d))
                     /\ CheckThrottle(d).chanreqs = d.chanreqs
  BY <1>5, CheckThrottleFits
<1>7. Keeps(c, c) /\ Quiet(c, c)
  BY DEF Keeps, Quiet
<1> QED BY <1>2, <1>5, <1>6, <1>7, KeepsTransitive

\* CHANNEL_DATA
LEMMA RecvDataFits ==
    ASSUME NEW F, Fitting(F), NEW c \in Mid, Usable(c), [c EXCEPT !.locwindow = @ - 1] \in F,
           NEW takes \in BOOLEAN, NEW wide \in BOOLEAN
    PROVE  /\ RecvData(c, takes, wide) \in F /\ Keeps(c, RecvData(c, takes, wide))
           /\ Quiet(c, RecvData(c, takes, wide)) /\ Longer(c, RecvData(c, takes, wide))
<1> DEFINE d == [c EXCEPT !.locwindow = @ - 1]
<1>1. Usable(d) /\ Keeps(c, d) /\ Quiet(c, d) /\ d.chanreqs = c.chanreqs
  BY DEF Usable, Keeps, Quiet, Ended, Mid
<1>2. RecvData(c, takes, wide) = IF takes THEN SetWindow(d, wide) ELSE d
  BY DEF RecvData
<1>3. d \in F
  OBVIOUS
<1> HIDE DEF d
<1>4. /\ SetWindow(d, wide) \in F /\ Keeps(d, SetWindow(d, wide)) /\ Quiet(d, SetWindow(d, wide))
      /\ Longer(d, SetWindow(d, wide))
  BY <1>1, <1>3, SetWindowFits
<1>5. Keeps(c, SetWindow(d, wide)) /\ Quiet(c, SetWindow(d, wide)) /\ Longer(c, SetWindow(d, wide))
  BY <1>1, <1>4, KeepsTransitive DEF Longer
<1>6. Longer(c, d)
  BY <1>1 DEF Longer
<1> QED BY <1>1, <1>2, <1>3, <1>4, <1>5, <1>6

\* ssh2channel_unthrottle
LEMMA UnthrottleFits ==
    ASSUME NEW F, Fitting(F), NEW c \in F, Usable(c), NEW wide \in BOOLEAN
    PROVE  /\ Unthrottle(c, wide) \in F /\ Keeps(c, Unthrottle(c, wide))
           /\ Quiet(c, Unthrottle(c, wide)) /\ Longer(c, Unthrottle(c, wide))
<1> DEFINE b == SetWindow(c, wide)
<1>1. b \in F /\ Keeps(c, b) /\ Quiet(c, b) /\ Longer(c, b)
  BY SetWindowFits
<1>2. Unthrottle(c, wide) = [b EXCEPT !.throttling_conn = FALSE]
  BY DEF Unthrottle
<1> HIDE DEF b
<1>3. b \in Mid
  BY <1>1, EndShape
<1>4. [b EXCEPT !.throttling_conn = FALSE] = b
  BY <1>3 DEF Mid
<1> QED BY <1>1, <1>2, <1>4

\* CHANNEL_SUCCESS or CHANNEL_FAILURE
LEMMA AnsweredFits ==
    ASSUME NEW F, Fitting(F), NEW c \in Mid, Usable(c), [c EXCEPT !.chanreqs = Tail(@)] \in F
    PROVE  /\ Answered(c) \in F /\ Keeps(c, Answered(c)) /\ Quiet(c, Answered(c))
           /\ Answered(c).chanreqs = Tail(c.chanreqs)
<1> DEFINE d == [c EXCEPT !.chanreqs = Tail(@)]
<1>1. Usable(d) /\ Keeps(c, d) /\ Quiet(c, d) /\ d.chanreqs = Tail(c.chanreqs)
  BY DEF Usable, Keeps, Quiet, Ended, Mid
<1>2. Answered(c) = CheckClose(d)
  BY DEF Answered
<1>3. d \in F
  OBVIOUS
<1> HIDE DEF d
<1>4. /\ CheckClose(d) \in F /\ Keeps(d, CheckClose(d)) /\ Quiet(d, CheckClose(d))
      /\ CheckClose(d).chanreqs = d.chanreqs
  BY <1>1, <1>3, CheckCloseFits
<1> QED BY <1>1, <1>2, <1>4, KeepsTransitive

\* Nothing but the Channel object changes, and whether it is asked for input.
Becomes(c, d, k) ==
    /\ d.chan = k /\ d.chanreqs = c.chanreqs /\ (Ended(d) <=> Ended(c))
    /\ d.gone = c.gone /\ d.rcvd_close = c.rcvd_close /\ d.rcvd_eof = c.rcvd_eof
    /\ d.packets = c.packets /\ d.sent_eof = c.sent_eof

\* The Channel object of an end may change, within its kind.
LEMMA ObjectFits ==
    ASSUME NEW F, Fitting(F), NEW c \in F, NEW k, NEW i \in BOOLEAN,
           (c.chan \in Main /\ k \in Main) \/ (c.chan \in Sess /\ k \in Sess),
           NEW d, d = [c EXCEPT !.chan = k, !.input_wanted = i]
    PROVE  d \in F /\ Becomes(c, d, k)
<1>1. /\ c \in Mid /\ Sound(c)
      /\ c.remwindow \in 0..1 /\ c.locwindow \in 0..1 /\ c.outbuffer \in Nat
  BY EndShape
<1>2. d \in Mid
  BY <1>1 DEF Mid
<1>3. /\ d.packets = c.packets /\ d.sent_eof = c.sent_eof /\ d.pending_eof = c.pending_eof
      /\ d.sent_close = c.sent_close /\ d.outbuffer = c.outbuffer
      /\ d.chan = k /\ d.remwindow = c.remwindow /\ d.locwindow = c.locwindow
      /\ d.chanreqs = c.chanreqs /\ d.gone = c.gone /\ d.rcvd_close = c.rcvd_close
      /\ d.rcvd_eof = c.rcvd_eof /\ d.input_wanted = i
  BY <1>1 DEF Mid
<1>4. \A h \in Sess : h \notin Main
  BY DEF Main, Sess
<1>5. Sound(d) /\ Eases(c, d)
  BY <1>1, <1>3, <1>4 DEF Sound, Eases
<1>6. d \in F
  BY <1>1, <1>2, <1>3, <1>5, Changed
<1> QED BY <1>3, <1>6 DEF Ended, Becomes

--------------------------------------------------------------------------------
(* The main channel. *)

\* What a call leaves as it was of an end with a main channel, and what is never taken back
Kin(c, d) ==
    /\ d.gone = c.gone /\ d.rcvd_close = c.rcvd_close /\ d.rcvd_eof = c.rcvd_eof
    /\ Hopes(c) => Hopes(d)

\* The requests that the main channel waits for are the same.
Waiting_same(c, d) == d.chan.req_pty = c.chan.req_pty /\ d.chan.req_cmd = c.chan.req_cmd

\* A call that leaves the main channel alone does what Kin says.
LEMMA KeepsKin ==
    ASSUME NEW c, NEW d, Keeps(c, d), Minds(c)
    PROVE  Kin(c, d) /\ Minds(d) /\ Waiting_same(c, d)
  BY DEF Keeps, Kin, Minds, Hopes, Waiting_same

\* Two calls one after the other
LEMMA KinTransitive ==
    ASSUME NEW c, NEW d, NEW e, Kin(c, d), Kin(d, e)
    PROVE  Kin(c, e)
  BY DEF Kin

\* The fields of a main channel
LEMMA MainIs ==
    ASSUME NEW k \in Main
    PROVE  /\ [k EXCEPT !.eof_sent = TRUE] \in Main /\ [k EXCEPT !.eof_pending = TRUE] \in Main
           /\ [k EXCEPT !.ready = TRUE, !.eof_pending = FALSE] \in Main
           /\ [k EXCEPT !.req_cmd = "none"] \in Main /\ [k EXCEPT !.req_cmd = "fallback"] \in Main
           /\ [k EXCEPT !.req_cmd = "primary"] \in Main /\ [k EXCEPT !.req_pty = TRUE] \in Main
           /\ \A b \in BOOLEAN : [k EXCEPT !.req_pty = FALSE, !.got_pty = b] \in Main
           /\ k.req_cmd \in {"none", "primary", "fallback"} /\ k.req_pty \in BOOLEAN
           /\ k.vt = "main" /\ k.eof_sent \in BOOLEAN /\ k.eof_pending \in BOOLEAN
           /\ k.ready \in BOOLEAN /\ k.got_pty \in BOOLEAN
  BY DEF Main

\* mainchan.c sends EOF, and says so.
EofSent(w, d, i) == d = [w EXCEPT !.chan.eof_sent = TRUE, !.input_wanted = i]
Unasked(c, d) == d.chanreqs = c.chanreqs

\* An end that has sent EOF and notes it in the Channel object
LEMMA EofSentFits ==
    ASSUME NEW F, Fitting(F), NEW c \in F, Usable(c), Minds(c), NEW i \in BOOLEAN,
           NEW w, w = WriteEof(c), NEW d, EofSent(w, d, i)
    PROVE  d \in F /\ Kin(c, d) /\ Minds(d) /\ Ended(d) /\ Waiting_same(c, d) /\ Unasked(c, d)
<1> DEFINE k == [w.chan EXCEPT !.eof_sent = TRUE]
<1>1. w \in F /\ Keeps(c, w) /\ Ended(w) /\ w.chanreqs = c.chanreqs
  BY WriteEofFits
<1>2. w \in Mid /\ w.chan \in Main /\ w.chan = c.chan
  BY <1>1, EndShape DEF Keeps, Minds
<1>3. k \in Main
  BY <1>2, MainIs
<1>4. k.eof_sent = TRUE /\ k.req_pty = w.chan.req_pty /\ k.req_cmd = w.chan.req_cmd
  BY <1>2 DEF Main
<1>5. d = [w EXCEPT !.chan = k, !.input_wanted = i]
  BY <1>2 DEF Mid, EofSent
<1> HIDE DEF k
<1>6. d \in F /\ Becomes(w, d, k)
  BY <1>1, <1>2, <1>3, <1>5, ObjectFits
<1>7. Kin(c, d) /\ Minds(d) /\ Ended(d) /\ Waiting_same(c, d) /\ Unasked(c, d)
  BY <1>1, <1>2, <1>3, <1>4, <1>6 DEF Unasked, Kin, Minds, Hopes, Waiting_same, Keeps, Becomes
<1> QED BY <1>6, <1>7

\* SS_EOF
LEMMA SpecialEofFits ==
    ASSUME NEW F, Fitting(F), NEW c \in F, Usable(c), Minds(c), NEW d, d = SpecialEof(c)
    PROVE  d \in F /\ Kin(c, d) /\ Minds(d) /\ Hopes(d) /\ Waiting_same(c, d) /\ Unasked(c, d)
<1>1. c \in Mid /\ c.chan \in Main
  BY EndShape DEF Minds
<1>2. CASE ~c.chan.ready
  <2> DEFINE k == [c.chan EXCEPT !.eof_pending = TRUE]
  <2>1. /\ k \in Main /\ k.eof_pending /\ k.ready = c.chan.ready /\ k.eof_sent = c.chan.eof_sent
        /\ k.req_pty = c.chan.req_pty /\ k.req_cmd = c.chan.req_cmd
    BY <1>1 DEF Main
  <2>2. c.input_wanted \in BOOLEAN
    BY <1>1, EndTypes
  <2>3. d = [c EXCEPT !.chan = k, !.input_wanted = c.input_wanted]
    BY <1>1, <1>2 DEF SpecialEof, Mid
  <2> HIDE DEF k
  <2>4. d \in F /\ Becomes(c, d, k)
    BY <1>1, <2>1, <2>2, <2>3, ObjectFits
  <2> QED BY <1>2, <2>1, <2>4 DEF Becomes, Kin, Minds, Hopes, Waiting_same, Unasked
<1>3. CASE c.chan.ready /\ c.chan.eof_sent
  BY <1>3 DEF SpecialEof, Kin, Minds, Hopes, Waiting_same, Unasked
<1>4. CASE c.chan.ready /\ ~c.chan.eof_sent
  <2> DEFINE w == WriteEof(c)
  <2>1. d = [w EXCEPT !.chan.eof_sent = TRUE]
    BY <1>4 DEF SpecialEof
  <2>2. w \in Mid
    BY WriteEofFits, EndShape
  <2>3. w.input_wanted \in BOOLEAN /\ EofSent(w, d, w.input_wanted)
    BY <2>1, <2>2, ZenonT(60) DEF Mid, EofSent
  <2>4. w = WriteEof(c)
    OBVIOUS
  <2> HIDE DEF w
  <2>5. d \in F /\ Kin(c, d) /\ Minds(d) /\ Ended(d) /\ Waiting_same(c, d) /\ Unasked(c, d)
    BY <2>3, <2>4, EofSentFits
  <2> QED BY <2>5 DEF Hopes
<1>5. c.chan.ready \in BOOLEAN /\ c.chan.eof_sent \in BOOLEAN
  BY <1>1, MainIs
<1> QED BY <1>2, <1>3, <1>4, <1>5

\* mainchan_ready
LEMMA ReadyFits ==
    ASSUME NEW F, Fitting(F), NEW c \in F, Usable(c), Minds(c), NEW d, d = Ready(c)
    PROVE  /\ d \in F /\ Kin(c, d) /\ Minds(d) /\ Waiting_same(c, d) /\ Unasked(c, d)
<1> DEFINE k == [c.chan EXCEPT !.ready = TRUE, !.eof_pending = FALSE]
           e == [c EXCEPT !.chan = k, !.input_wanted = TRUE]
<1>1. c \in Mid /\ c.chan \in Main
  BY EndShape DEF Minds
<1>2. /\ k \in Main /\ k.eof_sent = c.chan.eof_sent
      /\ k.req_pty = c.chan.req_pty /\ k.req_cmd = c.chan.req_cmd
  BY <1>1 DEF Main
<1>3. d = IF c.chan.eof_pending THEN SpecialEof(e) ELSE e
  BY <1>1 DEF Ready, Mid
<1>4. e = [c EXCEPT !.chan = k, !.input_wanted = TRUE] /\ TRUE \in BOOLEAN
  OBVIOUS
<1> HIDE DEF e, k
<1>5. e \in F /\ Becomes(c, e, k)
  BY <1>1, <1>2, <1>4, ObjectFits
<1>6. Minds(e) /\ Usable(e) /\ Waiting_same(c, e) /\ Unasked(c, e)
  BY <1>1, <1>2, <1>5 DEF Unasked, Becomes, Minds, Usable, Waiting_same
<1>7. ~c.chan.eof_pending => Kin(c, e)
  BY <1>5 DEF Becomes, Kin, Hopes
<1>8. c.chan.eof_pending =>
        /\ d \in F /\ Kin(e, d) /\ Minds(d) /\ Hopes(d) /\ Waiting_same(e, d) /\ Unasked(e, d)
  BY <1>3, <1>5, <1>6, SpecialEofFits
<1>9. c.chan.eof_pending => Kin(c, d)
  BY <1>5, <1>8 DEF Becomes, Kin
<1> QED BY <1>3, <1>5, <1>6, <1>7, <1>8, <1>9 DEF Waiting_same, Unasked

\* What becomes of the requests that are waited for when one of them is answered, with ok or not:
\* the pty-req goes first; a command that failed may be followed by the other one.
Settles(c, d) ==
    IF c.chan.req_pty
    THEN ~d.chan.req_pty /\ d.chan.req_cmd = c.chan.req_cmd /\ d.chanreqs = c.chanreqs
    ELSE /\ ~d.chan.req_pty
         /\ \/ d.chan.req_cmd = "none" /\ d.chanreqs = c.chanreqs
            \/ /\ c.chan.req_cmd = "primary" /\ d.chan.req_cmd = "fallback"
               /\ d.chanreqs = Append(c.chanreqs, "fallback")

\* A command is waited for only while requests are outstanding, and they are only while the
\* channel is open.
Expects(c) == c.chan.req_cmd # "none" => c.chanreqs # <<>>

\* mainchan_request_response
LEMMA RespondedFits ==
    ASSUME NEW F, Fitting(F), NEW c \in F, Usable(c), Minds(c), Expects(c), NEW ok \in BOOLEAN,
           NEW d, d = Responded(c, ok)
    PROVE  d \in F /\ Kin(c, d) /\ Minds(d) /\ Settles(c, d)
<1>1. /\ c \in Mid /\ c.chan \in Main /\ c.input_wanted \in BOOLEAN /\ c.input_wanted = c.input_wanted
      /\ c.chanreqs \in Seq(Requests)
  BY EndShape, EndTypes DEF Minds
<1>2. c.chan.req_pty \in BOOLEAN /\ c.chan.req_cmd \in {"none", "primary", "fallback"}
  BY <1>1, MainIs
<1>3. CASE c.chan.req_pty
  <2> DEFINE k == [c.chan EXCEPT !.req_pty = FALSE, !.got_pty = ok]
  <2>1. /\ k \in Main /\ k.eof_sent = c.chan.eof_sent /\ k.eof_pending = c.chan.eof_pending
        /\ k.ready = c.chan.ready /\ k.req_pty = FALSE /\ k.req_cmd = c.chan.req_cmd
    BY <1>1 DEF Main
  <2>2. d = [c EXCEPT !.chan = k, !.input_wanted = c.input_wanted]
    BY <1>1, <1>3 DEF Responded, GivesUp, Mid
  <2> HIDE DEF k
  <2>3. d \in F /\ Becomes(c, d, k)
    BY <1>1, <2>1, <2>2, ObjectFits
  <2> QED BY <1>3, <2>1, <2>3 DEF Becomes, Kin, Minds, Hopes, Settles
<1>4. CASE ~c.chan.req_pty /\ c.chan.req_cmd = "none"
  <2>1. d = c
    BY <1>4 DEF Responded, GivesUp
  <2> QED BY <1>4, <2>1 DEF Settles, Kin
<1>5. CASE ~c.chan.req_pty /\ c.chan.req_cmd # "none"
  <2> DEFINE k == [c.chan EXCEPT !.req_cmd = "none"]
             e == [c EXCEPT !.chan = k, !.input_wanted = c.input_wanted]
             again == c.chan.req_cmd = "primary" /\ ~ok /\ setup.fallback
             l == [c.chan EXCEPT !.req_cmd = "fallback"]
             g == [c EXCEPT !.chan = l, !.input_wanted = c.input_wanted]
  <2>1. /\ k \in Main /\ k.eof_sent = c.chan.eof_sent /\ k.eof_pending = c.chan.eof_pending
        /\ k.ready = c.chan.ready /\ k.req_pty = c.chan.req_pty /\ k.req_cmd = "none"
    BY <1>1 DEF Main
  <2>2. /\ l \in Main /\ l.eof_sent = c.chan.eof_sent /\ l.eof_pending = c.chan.eof_pending
        /\ l.ready = c.chan.ready /\ l.req_pty = c.chan.req_pty /\ l.req_cmd = "fallback"
    BY <1>1 DEF Main
  <2>3. e = [c EXCEPT !.chan.req_cmd = "none"] /\ g = [c EXCEPT !.chan.req_cmd = "fallback"]
    BY <1>1 DEF Mid
  <2>4. /\ ok => d = Ready(e)
        /\ ~ok /\ again => d = SendRequest(g, "fallback", TRUE)
        /\ ~ok /\ ~again => d = e
    <3> HIDE DEF e, g
    <3>1. CASE ok
      BY <1>5, <2>3, <3>1 DEF Responded, GivesUp
    <3>2. CASE ~ok /\ again
      BY <1>5, <2>3, <3>2 DEF Responded, GivesUp
    <3>3. CASE ~ok /\ ~again
      BY <1>2, <1>5, <2>3, <3>3 DEF Responded, GivesUp
    <3> QED BY <3>1, <3>2, <3>3
  <2>5. /\ e = [c EXCEPT !.chan = k, !.input_wanted = c.input_wanted]
        /\ g = [c EXCEPT !.chan = l, !.input_wanted = c.input_wanted]
    OBVIOUS
  <2> HIDE DEF k, l, e, g
  <2>6. e \in F /\ Becomes(c, e, k)
    BY <1>1, <2>1, <2>5, ObjectFits
  <2>7. g \in F /\ Becomes(c, g, l)
    BY <1>1, <2>2, <2>5, ObjectFits
  <2>8. Kin(c, e) /\ Minds(e) /\ Usable(e) /\ Settles(c, e)
    BY <1>5, <2>1, <2>6 DEF Becomes, Kin, Minds, Hopes, Settles, Usable
  <2>9. Kin(c, g) /\ Minds(g) /\ Usable(g)
    BY <2>2, <2>7 DEF Becomes, Kin, Minds, Hopes, Usable
  <2>10. CASE ok
    <3>1. d = Ready(e)
      BY <2>4, <2>10
    <3>2. d \in F /\ Kin(e, d) /\ Minds(d) /\ Waiting_same(e, d) /\ Unasked(e, d)
      BY <2>6, <2>8, <3>1, ReadyFits
    <3>3. Kin(c, d)
      BY <2>8, <3>2, KinTransitive
    <3>4. Settles(c, d)
      BY <1>5, <2>1, <2>6, <3>2 DEF Settles, Becomes, Waiting_same, Unasked
    <3> QED BY <3>2, <3>3, <3>4
  <2>11. CASE ~ok /\ again
    <3>1. d = SendRequest(g, "fallback", TRUE) /\ "fallback" \in Requests
      BY <2>4, <2>11 DEF Requests
    <3>2. ~g.sent_close
      <4>1. g.chanreqs # <<>>
        BY <1>5, <2>7 DEF Expects, Becomes
      <4> QED BY <2>7, <2>9, <4>1, EndShape DEF Sound, Usable
    <3>3. d \in F /\ Keeps(g, d) /\ Asks(g, d, "fallback")
      BY <2>7, <2>9, <3>1, <3>2, AskFits
    <3>4. Kin(g, d) /\ Minds(d) /\ Waiting_same(g, d)
      BY <2>9, <3>3, KeepsKin
    <3>5. Kin(c, d)
      BY <2>9, <3>4, KinTransitive
    <3>6. d.chanreqs = Append(c.chanreqs, "fallback")
      BY <2>7, <3>3 DEF Asks, Becomes
    <3>7. Settles(c, d)
      BY <1>5, <2>2, <2>7, <2>11, <3>4, <3>6 DEF Settles, Waiting_same, Becomes
    <3> QED BY <3>3, <3>4, <3>5, <3>7
  <2>12. CASE ~ok /\ ~again
    <3>1. d = e
      BY <2>4, <2>12
    <3> QED BY <2>6, <2>8, <3>1
  <2> QED BY <2>10, <2>11, <2>12
<1> QED BY <1>2, <1>3, <1>4, <1>5

\* mainchan_send_eof
LEMMA ChanSendEofFits ==
    ASSUME NEW F, Fitting(F), NEW c \in F, Usable(c), Minds(c), NEW eof \in BOOLEAN,
           NEW d, d = ChanSendEof(c, eof)
    PROVE  d \in F /\ Kin(c, d) /\ Minds(d) /\ Waiting_same(c, d) /\ Unasked(c, d)
<1> DEFINE w == WriteEof(c)
           e == [w EXCEPT !.chan.eof_sent = TRUE, !.input_wanted = FALSE]
<1>1. EofSent(w, e, FALSE) /\ w = WriteEof(c) /\ FALSE \in BOOLEAN
  BY DEF EofSent
<1>2. d = e \/ d = c
  BY DEF ChanSendEof
<1> HIDE DEF w, e
<1>3. e \in F /\ Kin(c, e) /\ Minds(e) /\ Waiting_same(c, e) /\ Unasked(c, e)
  BY <1>1, EofSentFits
<1>4. Kin(c, c) /\ Waiting_same(c, c) /\ Unasked(c, c)
  BY DEF Kin, Waiting_same, Unasked
<1> QED BY <1>2, <1>3, <1>4

\* Two calls that leave the requests alone
LEMMA SameTransitive ==
    ASSUME NEW c, NEW d, NEW e, Waiting_same(c, d), Unasked(c, d), Waiting_same(d, e), Unasked(d, e)
    PROVE  Waiting_same(c, e) /\ Unasked(c, e)
  BY DEF Waiting_same, Unasked

\* What CHANNEL_EOF or CHANNEL_CLOSE says first
Told_eof(c) == [c EXCEPT !.rcvd_eof = TRUE]

\* The end that knows of the peer's EOF
LEMMA ToldEofIs ==
    ASSUME NEW c \in Mid, NEW d, d = Told_eof(c)
    PROVE  /\ d \in Mid
           /\ d.rcvd_eof /\ d.chan = c.chan /\ d.gone = c.gone /\ d.rcvd_close = c.rcvd_close
           /\ (Ended(d) <=> Ended(c)) /\ (Over(d) <=> Over(c)) /\ d.packets = c.packets
           /\ d.sent_eof = c.sent_eof /\ d.sent_close = c.sent_close
           /\ Unasked(c, d) /\ Waiting_same(c, d) /\ (c.rcvd_eof => d = c)
<1>1. d \in Mid
  BY DEF Mid, Told_eof
<1>2. /\ d.rcvd_eof /\ d.chan = c.chan /\ d.gone = c.gone /\ d.rcvd_close = c.rcvd_close
      /\ d.pending_eof = c.pending_eof
      /\ d.sent_eof = c.sent_eof /\ d.sent_close = c.sent_close /\ d.chanreqs = c.chanreqs
      /\ d.packets = c.packets
      /\ (c.rcvd_eof => d = c)
  BY DEF Mid, Told_eof
<1> QED BY <1>1, <1>2 DEF Ended, Over, Unasked, Waiting_same

\* CHANNEL_EOF at the client
LEMMA ClientEofFits ==
    ASSUME NEW F, Fitting(F), NEW c \in Mid, Told_eof(c) \in F, Usable(c), Minds(c), NEW eof \in BOOLEAN,
           NEW d, d = RecvEof(c, eof)
    PROVE  /\ d \in F /\ Usable(d) /\ Minds(d) /\ (Hopes(c) => Hopes(d))
           /\ Waiting_same(c, d) /\ Unasked(c, d)
<1> DEFINE b == Told_eof(c)
           e == ChanSendEof(b, eof)
<1>1. /\ b.chan = c.chan /\ b.gone = c.gone /\ b.rcvd_close = c.rcvd_close
      /\ (Ended(b) <=> Ended(c)) /\ Unasked(c, b) /\ Waiting_same(c, b) /\ (c.rcvd_eof => b = c)
  BY ToldEofIs
<1>2. d = IF c.rcvd_eof THEN c ELSE CheckClose(e)
  BY DEF RecvEof, Told_eof
<1>3. b \in F
  OBVIOUS
<1>4. e = ChanSendEof(b, eof)
  OBVIOUS
<1> HIDE DEF b, e
<1>5. Usable(b) /\ Minds(b) /\ (Hopes(c) => Hopes(b))
  BY <1>1 DEF Usable, Minds, Hopes
<1>6. e \in F /\ Kin(b, e) /\ Minds(e) /\ Waiting_same(b, e) /\ Unasked(b, e)
  BY <1>3, <1>4, <1>5, ChanSendEofFits
<1>7. Usable(e)
  BY <1>5, <1>6 DEF Usable, Kin
<1>8. CheckClose(e) \in F /\ Keeps(e, CheckClose(e)) /\ CheckClose(e).chanreqs = e.chanreqs
  BY <1>6, <1>7, CheckCloseFits
<1>9. Kin(e, CheckClose(e)) /\ Minds(CheckClose(e)) /\ Waiting_same(e, CheckClose(e))
      /\ Unasked(e, CheckClose(e))
  BY <1>6, <1>8, KeepsKin DEF Unasked
<1>10. Usable(CheckClose(e))
  BY <1>7, <1>9 DEF Usable, Kin
<1>11. Hopes(b) => Hopes(CheckClose(e))
  BY <1>6, <1>9 DEF Kin
<1>12. Waiting_same(b, CheckClose(e)) /\ Unasked(b, CheckClose(e))
  BY <1>6, <1>9, SameTransitive
<1>13. Waiting_same(c, CheckClose(e)) /\ Unasked(c, CheckClose(e))
  BY <1>1, <1>12, SameTransitive
<1>14. CASE c.rcvd_eof
  BY <1>1, <1>2, <1>3, <1>14
<1>15. CASE ~c.rcvd_eof
  BY <1>2, <1>5, <1>8, <1>9, <1>10, <1>11, <1>13, <1>15
<1> QED BY <1>14, <1>15

\* A session channel leaves an EOF alone.
LEMMA ServerSendEof ==
    ASSUME NEW c \in Mid, c.chan \notin Main, NEW eof
    PROVE  ChanSendEof(c, eof) = c
  BY ChanIs DEF ChanSendEof

\* CHANNEL_EOF at the server
LEMMA ServerEofFits ==
    ASSUME NEW F, Fitting(F), NEW c \in Mid, Told_eof(c) \in F, Usable(c), c.chan \notin Main,
           NEW eof, NEW d, d = RecvEof(c, eof)
    PROVE  /\ d \in F /\ Usable(d) /\ d.chan = c.chan /\ (Ended(d) => Ended(c) \/ Over(c))
           /\ Unasked(c, d)
<1> DEFINE b == Told_eof(c)
<1>1. /\ b \in Mid /\ b.chan = c.chan /\ b.gone = c.gone /\ b.rcvd_close = c.rcvd_close
      /\ (Ended(b) <=> Ended(c)) /\ (Over(b) <=> Over(c)) /\ Unasked(c, b) /\ (c.rcvd_eof => b = c)
  BY ToldEofIs
<1>2. d = IF c.rcvd_eof THEN c ELSE CheckClose(ChanSendEof(b, eof))
  BY DEF RecvEof, Told_eof
<1>3. b \in F
  OBVIOUS
<1> HIDE DEF b
<1>4. ChanSendEof(b, eof) = b
  BY <1>1, ServerSendEof
<1>5. Usable(b)
  BY <1>1 DEF Usable
<1>6. CheckClose(b) \in F /\ Keeps(b, CheckClose(b)) /\ Quiet(b, CheckClose(b))
      /\ CheckClose(b).chanreqs = b.chanreqs
  BY <1>3, <1>5, CheckCloseFits
<1>7. CASE c.rcvd_eof
  BY <1>1, <1>2, <1>3, <1>7
<1>8. CASE ~c.rcvd_eof
  BY <1>1, <1>2, <1>4, <1>5, <1>6, <1>8 DEF Keeps, Quiet, Usable, Unasked
<1> QED BY <1>7, <1>8

--------------------------------------------------------------------------------
(* The ends that the peer can live with. *)

\* The ends with which D is in accord once their packets are sent
Fits(D, V, W, m, n) == {c \in Mid : Sound(c) /\ Accord(c, D, V, W \o c.packets, m, n)}

\* They are a fitting set.
LEMMA FitsFitting ==
    ASSUME NEW D \in Mid, NEW V, NEW W \in Seq(Item), NEW m \in Nat, NEW n \in Nat
    PROVE  Fitting(Fits(D, V, W, m, n))
<1> DEFINE F == Fits(D, V, W, m, n)
<1>1. ASSUME NEW c \in F, NEW d \in Mid, d.packets = c.packets, Sound(d), Eases(c, d)
      PROVE  d \in F
  <2>1. c \in Mid /\ Accord(c, D, V, W \o c.packets, m, n)
    BY DEF Fits
  <2>2. Accord(d, D, V, W \o c.packets, m, n)
    BY <1>1, <2>1, EaseAccord
  <2> QED BY <1>1, <2>2 DEF Fits
<1>2. ASSUME NEW c \in F, NEW d \in Mid, NEW x \in Item,
             d.packets = Append(c.packets, x), Sound(d), Speaks(c, d, x)
      PROVE  d \in F
  <2>1. c \in Mid /\ Accord(c, D, V, W \o c.packets, m, n) /\ c.packets \in Seq(Item)
    BY EndTypes DEF Fits
  <2>2. Accord(d, D, V, Append(W \o c.packets, x), m, n)
    BY <1>2, <2>1, SayAccord
  <2>3. Append(W \o c.packets, x) = W \o Append(c.packets, x)
    BY <2>1, SMTT(30)
  <2> QED BY <1>2, <2>2, <2>3 DEF Fits
<1>3. F \subseteq Mid /\ \A c \in F : Sound(c)
  BY DEF Fits
<1> QED BY <1>1, <1>2, <1>3 DEF Fitting

\* An end that has sent its packets fits if it is in accord.
LEMMA FitsPlain ==
    ASSUME NEW D, NEW V, NEW W \in Seq(Item), NEW m, NEW n,
           NEW c \in Mid, c.packets = <<>>, Sound(c), Accord(c, D, V, W, m, n)
    PROVE  c \in Fits(D, V, W, m, n)
<1>1. W \o c.packets = W
  OBVIOUS
<1> QED BY <1>1 DEF Fits

\* What settles when the packets of a call are sent
LEMMA SettledIs ==
    ASSUME NEW c \in Mid, NEW d, d = Settled(c)
    PROVE  /\ d \in Mid /\ d.packets = <<>> /\ d.chan = c.chan /\ d.chanreqs = c.chanreqs
           /\ Eases(c, d) /\ Eases(d, c)
           /\ (Sound(c) => Sound(d)) /\ (Usable(c) => Usable(d)) /\ (Ended(d) <=> Ended(c))
           /\ (Over(d) <=> Over(c)) /\ (Hopes(d) <=> Hopes(c)) /\ (Minds(d) <=> Minds(c))
           /\ (Serves(d) <=> Serves(c))
<1>1. <<>> \in Seq(Item) /\ c.remwindow \in 0..1 /\ c.locwindow \in 0..1 /\ c.outbuffer \in Nat
  BY EndTypes
<1>2. d \in Mid
  BY <1>1 DEF Mid, Settled
<1>3. /\ d.packets = <<>> /\ d.chan = c.chan /\ d.chanreqs = c.chanreqs /\ d.gone = c.gone
      /\ d.sent_eof = c.sent_eof /\ d.sent_close = c.sent_close /\ d.rcvd_eof = c.rcvd_eof
      /\ d.rcvd_close = c.rcvd_close /\ d.pending_eof = c.pending_eof
      /\ d.remwindow = c.remwindow /\ d.locwindow = c.locwindow /\ d.outbuffer = c.outbuffer
  BY DEF Mid, Settled
<1>4. Eases(c, d) /\ Eases(d, c)
  BY <1>1, <1>3 DEF Eases
<1> QED BY <1>2, <1>3, <1>4 DEF Sound, Usable, Ended, Over, Hopes, Minds, Serves

\* An end that fits is in accord when its packets are sent.
LEMMA SettledAccord ==
    ASSUME NEW D \in Mid, NEW V, NEW W \in Seq(Item), NEW m \in Nat, NEW n \in Nat,
           NEW c \in Fits(D, V, W, m, n)
    PROVE  Accord(Settled(c), D, V, W \o c.packets, m, n)
<1>1. c \in Mid /\ Accord(c, D, V, W \o c.packets, m, n)
  BY DEF Fits
<1>2. Settled(c) \in Mid /\ Eases(c, Settled(c))
  BY <1>1, SettledIs
<1> QED BY <1>1, <1>2, EaseAccord

\* Once the peer sends nothing more, the requests that await a reply may be forgotten.
LEMMA ForgetAccord ==
    ASSUME NEW C \in Mid, NEW D \in Mid, NEW W, NEW m \in Nat, NEW n \in Nat,
           Accord(C, D, <<>>, W, m, n), D.gone \/ D.sent_close
    PROVE  Accord(ForgetRequests(C), D, <<>>, W, m, n)
<1> DEFINE B == ForgetRequests(C)
<1>1. /\ B.gone = C.gone /\ B.sent_eof = C.sent_eof /\ B.sent_close = C.sent_close
      /\ B.rcvd_eof = C.rcvd_eof /\ B.remwindow = C.remwindow /\ B.locwindow = C.locwindow
      /\ B.outbuffer = C.outbuffer /\ B.chanreqs = <<>>
  BY DEF ForgetRequests, Mid
<1> HIDE DEF B
<1>2. Link(C, D, <<>>, W, m) /\ Link(D, C, W, <<>>, n)
  BY DEF Accord
<1>3. Asked(B, D, <<>>, W)
  BY DEF Asked
<1>4. Asked(D, B, W, <<>>)
  BY <1>1, <1>2 DEF Link, Asked
<1>5. Room(B) = Room(C)
  BY <1>1 DEF Room
<1>6. Credit(B, D, <<>>, W) /\ Credit(D, B, W, <<>>)
  BY <1>1, <1>2, <1>5 DEF Link, Credit
<1>7. Link(B, D, <<>>, W, m)
  BY <1>1, <1>2, <1>3, <1>6 DEF Link, Marks
<1>8. Link(D, B, W, <<>>, n)
  BY <1>1, <1>2, <1>4, <1>6 DEF Link, Marks
<1> QED BY <1>7, <1>8 DEF Accord, B

\* CHANNEL_CLOSE, after the requests were forgotten: the last EOF is sent at once,
LEMMA LastEof ==
    ASSUME NEW F, Fitting(F), NEW c \in F, Usable(c), ~c.sent_eof, NEW d, d = CheckThrottle(WriteEof(Flush(c)))
    PROVE  d \in F /\ Keeps(c, d) /\ Unasked(c, d) /\ d.sent_eof
<1> DEFINE b == Flush(c)
           p == [b EXCEPT !.pending_eof = TRUE]
           x == Packet("eof", "none")
           q == [Push(p, "eof", "none") EXCEPT !.pending_eof = FALSE, !.sent_eof = TRUE]
           e == WriteEof(b)
<1>1. /\ c \in Mid /\ Sound(c) /\ c.fault = "none" /\ ~c.halfopen
      /\ c.remwindow \in 0..1 /\ c.locwindow \in 0..1 /\ c.outbuffer \in Nat
  BY EndShape
<1>2. b \in Mid
  BY <1>1 DEF Flush, Mid
<1>3. /\ b.packets = c.packets /\ b.sent_eof = c.sent_eof /\ b.pending_eof = c.pending_eof
      /\ b.sent_close = c.sent_close /\ b.outbuffer = 0 /\ b.fault = "none" /\ ~b.halfopen
      /\ b.chan = c.chan /\ b.remwindow = c.remwindow /\ b.locwindow = c.locwindow
      /\ b.chanreqs = c.chanreqs /\ b.gone = c.gone /\ b.rcvd_close = c.rcvd_close
      /\ b.rcvd_eof = c.rcvd_eof
  BY <1>1 DEF Flush, Mid
<1>4. d = CheckThrottle(e) /\ e = WriteEof(b)
  OBVIOUS
<1> HIDE DEF b
<1>5. Sound(b) /\ Eases(c, b)
  BY <1>1, <1>3 DEF Sound, Eases
<1>6. b \in F
  BY <1>1, <1>2, <1>3, <1>5, Changed
<1>7. Usable(b) /\ Keeps(c, b)
  BY <1>3 DEF Usable, Keeps, Ended
<1>8. e \in F /\ Keeps(b, e) /\ Ended(e) /\ e.chanreqs = b.chanreqs
  BY <1>4, <1>6, <1>7, WriteEofFits
<1>9. e.sent_eof
  <2>1. Assert(b, TRUE, "none") = b
    BY <1>3, <1>7 DEF Assert, Usable
  <2>2. e = TryEof(p)
    BY <1>3, <2>1 DEF WriteEof
  <2>3. p.outbuffer = 0 /\ ~p.halfopen /\ p.fault = "none" /\ ~p.gone
    BY <1>2, <1>3, <1>7 DEF Mid, Usable
  <2>4. e = CheckClose(q)
    BY <2>2, <2>3 DEF TryEof
  <2>5. q.sent_eof /\ q.fault = "none" /\ ~q.gone /\ ~q.rcvd_close
    BY <1>2, <1>3, <1>7 DEF Mid, Push, Usable
  <2>6. [Push(q, "close", "none") EXCEPT !.sent_eof = TRUE, !.sent_close = TRUE].sent_eof
    BY <1>2 DEF Push, Mid
  <2>7. ~[Push(q, "close", "none") EXCEPT !.sent_eof = TRUE, !.sent_close = TRUE].rcvd_close
    BY <1>2, <2>5 DEF Push, Mid
  <2>8. Assert(q, TRUE, "none") = q
    BY <2>5 DEF Assert
  <2> HIDE DEF q
  <2> QED BY <2>4, <2>5, <2>6, <2>7, <2>8 DEF CheckClose, BothClosed
<1> HIDE DEF e
<1>10. Usable(e)
  BY <1>7, <1>8 DEF Usable, Keeps
<1>11. d \in F /\ Keeps(e, d) /\ d.chanreqs = e.chanreqs
  BY <1>4, <1>8, <1>10, CheckThrottleFits
<1>12. d.sent_eof
  <2>1. e.fault = "none" /\ e \in Mid
    BY <1>8, EndShape
  <2>2. Assert(e, TRUE, "none") = e
    BY <1>10, <2>1 DEF Assert, Usable
  <2> DEFINE reads == ~e.held /\ ~e.pending_eof /\ ~e.sent_eof
  <2>3. d = [e EXCEPT !.input_wanted = reads]
    BY <1>4, <2>2 DEF CheckThrottle
  <2> HIDE DEF reads
  <2>4. [e EXCEPT !.input_wanted = reads].sent_eof = e.sent_eof
    BY <2>1 DEF Mid
  <2> QED BY <1>9, <2>3, <2>4
<1>13. Keeps(c, d)
  BY <1>7, <1>8, <1>11, KeepsTransitive
<1> QED BY <1>3, <1>8, <1>11, <1>12, <1>13 DEF Unasked

\* and then the end is destroyed, with nothing outstanding.
LEMMA LastClose ==
    ASSUME NEW F, Fitting(F), NEW c \in F, Usable(c), c.chanreqs = <<>>, WantClose(c),
           NEW d, d = CheckClose(c), NEW r, r = CheckClose([c EXCEPT !.rcvd_close = TRUE])
    PROVE  d \in F /\ d.sent_close /\ r.gone /\ r.fault = "none" /\ r.packets = d.packets
<1> DEFINE b == [c EXCEPT !.rcvd_close = TRUE]
           dc == [Push(c, "close", "none") EXCEPT !.sent_eof = TRUE, !.sent_close = TRUE]
           db == [Push(b, "close", "none") EXCEPT !.sent_eof = TRUE, !.sent_close = TRUE]
<1>1. d \in F /\ c \in Mid /\ c.fault = "none" /\ ~c.halfopen
  BY CheckCloseFits, EndShape
<1>2. /\ b.rcvd_close /\ b.fault = "none" /\ ~b.gone /\ ~b.halfopen /\ b.chanreqs = <<>>
      /\ b.sent_close = c.sent_close /\ b.packets = c.packets /\ b \in Mid
      /\ b.chan = c.chan /\ b.sent_eof = c.sent_eof /\ b.rcvd_eof = c.rcvd_eof
  BY <1>1 DEF Mid, Usable
<1>3. Assert(c, TRUE, "none") = c /\ Assert(b, TRUE, "none") = b
  BY <1>1, <1>2 DEF Assert, Usable
<1>4. WantClose(b)
  BY <1>2 DEF WantClose
<1>5. CASE c.sent_close
  <2>1. d = c
    BY <1>1, <1>3, <1>5 DEF CheckClose, ReadyToClose, BothClosed, Usable
  <2>2. r = Destroy(b)
    BY <1>2, <1>3, <1>5 DEF CheckClose, ReadyToClose, BothClosed
  <2>3. Assert(b, b.chanreqs = <<>>, "destroyed with requests outstanding") = b
    BY <1>2 DEF Assert
  <2>4. r = [b EXCEPT !.gone = TRUE]
    BY <2>2, <2>3 DEF Destroy
  <2> HIDE DEF b
  <2>5. r.gone /\ r.fault = "none" /\ r.packets = c.packets
    BY <1>2, <2>4 DEF Mid
  <2> QED BY <1>1, <1>5, <2>1, <2>5
<1>6. CASE ~c.sent_close
  <2>1. ReadyToClose(c) /\ ReadyToClose(b)
    BY <1>2, <1>4, <1>6 DEF ReadyToClose
  <2>2. dc.sent_close /\ ~dc.rcvd_close /\ dc.packets = Append(c.packets, Packet("close", "none"))
    BY <1>1 DEF Push, Mid, Usable
  <2>3. /\ db.sent_close /\ db.rcvd_close /\ db.packets = Append(c.packets, Packet("close", "none"))
        /\ db.chanreqs = <<>> /\ db.fault = "none" /\ ~db.gone
    BY <1>1, <1>2 DEF Push, Mid
  <2>4. [db EXCEPT !.gone = TRUE].gone /\ [db EXCEPT !.gone = TRUE].fault = "none"
        /\ [db EXCEPT !.gone = TRUE].packets = db.packets
    BY <1>1, <1>2 DEF Push, Mid
  <2>5. d = dc
    <3> HIDE DEF b, db
    <3>1. d = IF BothClosed(dc) THEN Destroy(dc) ELSE dc
      BY <1>1, <1>3, <2>1 DEF CheckClose
    <3> HIDE DEF dc
    <3> QED BY <2>2, <3>1 DEF BothClosed
  <2>6. r = Destroy(db)
    <3>1. r = CheckClose(b)
      OBVIOUS
    <3> HIDE DEF b, dc
    <3>2. r = IF BothClosed(db) THEN Destroy(db) ELSE db
      BY <1>2, <1>3, <2>1, <3>1 DEF CheckClose
    <3> HIDE DEF db
    <3> QED BY <2>3, <3>2 DEF BothClosed
  <2> HIDE DEF db, dc
  <2>7. Assert(db, db.chanreqs = <<>>, "destroyed with requests outstanding") = db
    BY <2>3 DEF Assert
  <2>8. r = [db EXCEPT !.gone = TRUE]
    BY <2>6, <2>7 DEF Destroy
  <2> QED BY <1>1, <2>2, <2>3, <2>4, <2>5, <2>8
<1>7. c.sent_close \in BOOLEAN
  BY <1>1, EndTypes
<1> QED BY <1>5, <1>6, <1>7

\* CHANNEL_CLOSE: after it, this end is gone and the peer has all that it sent.
LEMMA FinishCloseFits ==
    ASSUME NEW D \in Mid, NEW W \in Seq(Item), NEW m \in Nat, NEW n \in Nat,
           D.gone \/ D.sent_close, NEW c \in Fits(D, <<>>, W, m, n), Usable(c),
           (c.chan \in Main /\ c.rcvd_eof) \/ Over(c), NEW r, r = FinishClose(c)
    PROVE  /\ r.gone /\ r.fault = "none" /\ r.packets \in Seq(Item)
           /\ Accord(Gone, D, <<>>, W \o r.packets, m, n)
<1> DEFINE F == Fits(D, <<>>, W, m, n)
           b == ForgetRequests(c)
           e == IF b.sent_eof THEN b ELSE CheckThrottle(WriteEof(Flush(b)))
           d == CheckClose(e)
<1>1. Fitting(F)
  BY FitsFitting
<1>2. c \in Mid /\ Sound(c) /\ Accord(c, D, <<>>, W \o c.packets, m, n) /\ c.packets \in Seq(Item)
  BY EndTypes DEF Fits
<1>3. /\ b \in Mid /\ b.gone = c.gone /\ b.sent_eof = c.sent_eof /\ b.sent_close = c.sent_close
      /\ b.rcvd_eof = c.rcvd_eof /\ b.rcvd_close = c.rcvd_close /\ b.chanreqs = <<>>
      /\ b.packets = c.packets /\ b.chan = c.chan /\ b.pending_eof = c.pending_eof
  <2>1. <<>> \in Seq(Requests)
    OBVIOUS
  <2> QED BY <1>2, <2>1 DEF ForgetRequests, Mid
<1>4. Accord(b, D, <<>>, W \o c.packets, m, n)
  BY <1>2, ForgetAccord
<1>5. r = IF e.rcvd_close THEN e ELSE CheckClose([e EXCEPT !.rcvd_close = TRUE])
  BY DEF FinishClose
<1>6. ~b.sent_eof => e = CheckThrottle(WriteEof(Flush(b)))
  OBVIOUS
<1>7. b.sent_eof => e = b
  OBVIOUS
<1> HIDE DEF b
<1>8. Sound(b) /\ Usable(b)
  BY <1>2, <1>3 DEF Sound, Usable
<1>9. b \in F
  BY <1>3, <1>4, <1>8 DEF Fits
<1> HIDE DEF F, e
<1>10. ~b.sent_eof => e \in F /\ Keeps(b, e) /\ Unasked(b, e) /\ e.sent_eof
  BY <1>1, <1>6, <1>8, <1>9, LastEof
<1>11. e \in F /\ Keeps(b, e) /\ e.chanreqs = <<>> /\ e.sent_eof
  BY <1>3, <1>7, <1>9, <1>10 DEF Keeps, Unasked
<1>12. Usable(e) /\ e.chan = c.chan /\ e.rcvd_eof = c.rcvd_eof
  BY <1>3, <1>8, <1>11 DEF Keeps, Usable
<1>13. WantClose(e)
  <2>1. e \in Mid
    BY <1>1, <1>11, EndShape
  <2>2. CASE c.chan \in Main /\ c.rcvd_eof
    <3>1. e.chan.vt = "main"
      BY <1>12, <2>1, <2>2, ChanIs
    <3> QED BY <1>11, <1>12, <2>2, <3>1 DEF WantClose
  <2>3. CASE Over(c)
    <3>1. e.chan.vt = "zombie" \/ (e.chan.vt = "sess" /\ e.chan.seen_eof /\ e.chan.seen_exit)
      BY <1>12, <2>1, <2>3, ChanIs DEF Over
    <3> QED BY <3>1 DEF WantClose
  <2> QED BY <2>2, <2>3
<1>14. r = CheckClose([e EXCEPT !.rcvd_close = TRUE])
  BY <1>5, <1>12 DEF Usable
<1>15. d = CheckClose(e)
  OBVIOUS
<1> HIDE DEF d
<1>16. d \in F /\ d.sent_close /\ r.gone /\ r.fault = "none" /\ r.packets = d.packets
  BY <1>1, <1>11, <1>12, <1>13, <1>14, <1>15, LastClose
<1>17. d \in Mid /\ Accord(d, D, <<>>, W \o d.packets, m, n) /\ d.packets \in Seq(Item)
  BY <1>16, EndTypes DEF Fits, F
<1>18. Accord(Gone, D, <<>>, W \o d.packets, m, n)
  BY <1>17, BuryAccord
<1> QED BY <1>16, <1>17, <1>18

--------------------------------------------------------------------------------
(* The requests that the main channel waits for. *)

\* The list of requests, at its head and behind it
LEMMA ListIs ==
    ASSUME NEW L \in Seq(Requests), L # <<>>
    PROVE  /\ 1 \in DOMAIN L /\ L[1] \in Requests /\ Tail(L) \in Seq(Requests)
           /\ \A x \in DOMAIN Tail(L) : x \in Nat /\ x >= 1 /\ x + 1 \in DOMAIN L /\ Tail(L)[x] = L[x + 1]
           /\ \A x \in DOMAIN L : x = 1 \/ (x - 1 \in DOMAIN Tail(L) /\ Tail(L)[x - 1] = L[x])
           /\ DOMAIN L \subseteq Nat /\ \A x \in DOMAIN L : x >= 1
<1>1. /\ Len(L) \in Nat /\ Len(L) >= 1 /\ DOMAIN L = 1..Len(L)
      /\ Tail(L) \in Seq(Requests) /\ Len(Tail(L)) = Len(L) - 1
  OBVIOUS
<1>2. DOMAIN Tail(L) = 1..(Len(L) - 1) /\ \A x \in 1..(Len(L) - 1) : Tail(L)[x] = L[x + 1]
  BY <1>1
<1> QED BY <1>1, <1>2

\* ... and with one more at its end
LEMMA AppendIs ==
    ASSUME NEW L \in Seq(Requests), NEW r \in Requests
    PROVE  /\ Append(L, r) \in Seq(Requests) /\ Append(L, r) # <<>> /\ Len(L) \in Nat
           /\ DOMAIN L = 1..Len(L) /\ DOMAIN Append(L, r) = 1..(Len(L) + 1)
           /\ \A x \in DOMAIN L : Append(L, r)[x] = L[x]
           /\ Append(L, r)[Len(L) + 1] = r
           /\ L # <<>> => Tail(Append(L, r)) = Append(Tail(L), r) /\ Append(L, r)[1] = L[1]
<1> DEFINE M == Append(L, r)
<1>1. (L # <<>> => Len(L) >= 1) /\ Len(L) \in Nat /\ DOMAIN L = 1..Len(L)
  OBVIOUS
<1>2. L # <<>> => Tail(M) = Append(Tail(L), r)
  OBVIOUS
<1>3. /\ M \in Seq(Requests) /\ DOMAIN M = 1..(Len(L) + 1)
      /\ \A x \in 1..Len(L) : M[x] = L[x]
      /\ M[Len(L) + 1] = r
  OBVIOUS
<1>4. M # <<>>
  <2>1. Len(M) = Len(L) + 1 /\ Len(<<>>) = 0
    OBVIOUS
  <2> HIDE DEF M
  <2> QED BY <1>1, <2>1
<1> QED BY <1>1, <1>2, <1>3, <1>4

\* Whoever waits for a command waits for some request.
LEMMA WantsExpects ==
    ASSUME NEW c, Wants(c.chan, c.chanreqs), c.chan \in Main
    PROVE  Expects(c)
<1>1. c.chan.req_cmd \in {"none", "primary", "fallback"}
  BY MainIs
<1>2. DOMAIN <<>> = {}
  OBVIOUS
<1> QED BY <1>1, <1>2 DEF Wants, Waits, Expects

\* A winadj at the end of the list is none of the main channel's,
LEMMA WantsMore ==
    ASSUME NEW k, NEW L \in Seq(Requests), Wants(k, L)
    PROVE  Wants(k, Append(L, "winadj"))
<1> DEFINE M == Append(L, "winadj")
<1>1. /\ DOMAIN L = 1..Len(L) /\ Len(L) \in Nat /\ DOMAIN M = 1..(Len(L) + 1)
      /\ \A x \in DOMAIN L : M[x] = L[x]
      /\ M[Len(L) + 1] = "winadj"
  BY AppendIs DEF Requests
<1> HIDE DEF M
<1>2. \A x, y \in DOMAIN M : x < y => M[y] # "pty-req" /\ ~(M[x] \in Commands /\ M[y] \in Commands)
  BY <1>1 DEF Wants, Commands
<1>3. \A r \in {"pty-req", "shell", "fallback"} : Waits(M, r) <=> Waits(L, r)
  BY <1>1 DEF Waits
<1> QED BY <1>2, <1>3 DEF Wants, M

\* nor is one at its head.
LEMMA WantsLess ==
    ASSUME NEW k, NEW L \in Seq(Requests), L # <<>>, L[1] = "winadj", Wants(k, L)
    PROVE  Wants(k, Tail(L))
<1> DEFINE M == Tail(L)
<1>1. /\ 1 \in DOMAIN L
      /\ \A x \in DOMAIN M : x \in Nat /\ x + 1 \in DOMAIN L /\ M[x] = L[x + 1]
      /\ \A x \in DOMAIN L : x = 1 \/ (x - 1 \in DOMAIN M /\ M[x - 1] = L[x])
  BY ListIs
<1> HIDE DEF M
<1>2. \A x, y \in DOMAIN M : x < y => M[y] # "pty-req" /\ ~(M[x] \in Commands /\ M[y] \in Commands)
  <2> TAKE x \in DOMAIN M, y \in DOMAIN M
  <2>1. x < y => x + 1 < y + 1
    BY <1>1
  <2> QED BY <1>1, <2>1 DEF Wants
<1>3. \A r \in {"pty-req", "shell", "fallback"} : Waits(M, r) <=> Waits(L, r)
  BY <1>1 DEF Waits
<1> QED BY <1>2, <1>3 DEF Wants, M

\* The reply to its own request finds the main channel waiting for that.
LEMMA WantsHead ==
    ASSUME NEW k \in Main, NEW L \in Seq(Requests), L # <<>>, Wants(k, L)
    PROVE  /\ L[1] = "pty-req" => k.req_pty
           /\ L[1] = "shell" => ~k.req_pty /\ k.req_cmd = "primary"
           /\ L[1] = "fallback" => ~k.req_pty /\ k.req_cmd = "fallback"
<1>1. 1 \in DOMAIN L /\ \A x \in DOMAIN L : x \in Nat /\ x >= 1
  BY ListIs
<1>2. L[1] # "pty-req" => ~Waits(L, "pty-req")
  BY <1>1 DEF Wants, Waits
<1> QED BY <1>1, <1>2 DEF Wants, Waits

\* ... and when the reply was handled it waits for the others.
LEMMA WantsSettled ==
    ASSUME NEW c \in Mid, NEW d \in Mid, c.chan \in Main, d.chan \in Main, c.chanreqs # <<>>,
           c.chanreqs[1] # "winadj", Wants(c.chan, c.chanreqs), Settles(c, d)
    PROVE  Wants(d.chan, Tail(d.chanreqs))
<1> DEFINE L == c.chanreqs
           M == Tail(L)
           k == c.chan
           h == d.chan
<1>1. L \in Seq(Requests) /\ k.req_pty \in BOOLEAN /\ k.req_cmd \in {"none", "primary", "fallback"}
      /\ h.req_pty \in BOOLEAN
  BY EndTypes, MainIs
<1>2. /\ 1 \in DOMAIN L /\ L[1] \in Requests /\ M \in Seq(Requests)
      /\ \A x \in DOMAIN M : x \in Nat /\ x >= 1 /\ x + 1 \in DOMAIN L /\ M[x] = L[x + 1]
      /\ \A x \in DOMAIN L : x = 1 \/ (x - 1 \in DOMAIN M /\ M[x - 1] = L[x])
      /\ DOMAIN L \subseteq Nat /\ \A x \in DOMAIN L : x >= 1
  BY <1>1, ListIs
<1>3. /\ L[1] = "pty-req" => k.req_pty
      /\ L[1] = "shell" => ~k.req_pty /\ k.req_cmd = "primary"
      /\ L[1] = "fallback" => ~k.req_pty /\ k.req_cmd = "fallback"
  BY <1>1, WantsHead
<1>4. L[1] \in {"pty-req", "shell", "fallback"} /\ L[1] # "winadj"
  BY <1>2 DEF Requests
<1>5. Wants(k, L) /\ Settles(c, d)
  OBVIOUS
<1>6. \A x, y \in DOMAIN L : x < y => L[y] # "pty-req" /\ ~(L[x] \in Commands /\ L[y] \in Commands)
  BY <1>5 DEF Wants
<1>7. \A x, y \in DOMAIN M : x < y => M[y] # "pty-req" /\ ~(M[x] \in Commands /\ M[y] \in Commands)
  <2> HIDE DEF L, M
  <2> TAKE x \in DOMAIN M, y \in DOMAIN M
  <2>1. x < y => x + 1 < y + 1
    BY <1>2
  <2> QED BY <1>2, <1>6, <2>1
<1>8. ~Waits(M, "pty-req")
  <2> HIDE DEF L, M
  <2>1. ASSUME NEW x \in DOMAIN M
        PROVE  M[x] # "pty-req"
    <3>1. x + 1 \in DOMAIN L /\ 1 \in DOMAIN L /\ 1 < x + 1
      BY <1>2
    <3> QED BY <1>2, <1>6, <3>1
  <2> QED BY <2>1 DEF Waits
<1>9. L[1] \in Commands => \A x \in DOMAIN M : M[x] \notin Commands
  <2> HIDE DEF L, M
  <2>1. ASSUME NEW x \in DOMAIN M, L[1] \in Commands
        PROVE  M[x] \notin Commands
    <3>1. x + 1 \in DOMAIN L /\ 1 \in DOMAIN L /\ 1 < x + 1
      BY <1>2
    <3> QED BY <1>2, <1>6, <2>1, <3>1
  <2> QED BY <2>1
<1>10. CASE L[1] = "pty-req"
  <2>1. ~h.req_pty /\ h.req_cmd = k.req_cmd /\ d.chanreqs = L
    BY <1>3, <1>5, <1>10 DEF Settles
  <2>2. \A r \in {"shell", "fallback"} : Waits(M, r) <=> Waits(L, r)
    <3> HIDE DEF L, M
    <3> QED BY <1>2, <1>10 DEF Waits
  <2>3. (k.req_cmd = "primary" <=> Waits(L, "shell")) /\ (k.req_cmd = "fallback" <=> Waits(L, "fallback"))
    BY <1>5 DEF Wants
  <2> HIDE DEF L, M, k, h
  <2>4. Wants(h, M)
    BY <1>7, <1>8, <2>1, <2>2, <2>3 DEF Wants
  <2> QED BY <2>1, <2>4 DEF h, M
<1>11. CASE L[1] \in Commands
  <2>1. ~k.req_pty
    BY <1>3, <1>11 DEF Commands
  <2>2. \/ ~h.req_pty /\ h.req_cmd = "none" /\ d.chanreqs = L
        \/ ~h.req_pty /\ h.req_cmd = "fallback" /\ d.chanreqs = Append(L, "fallback")
    BY <1>5, <2>1 DEF Settles
  <2>3. \A r \in Commands : ~Waits(M, r)
    BY <1>9, <1>11 DEF Waits
  <2>4. CASE ~h.req_pty /\ h.req_cmd = "none" /\ d.chanreqs = L
    <3> HIDE DEF L, M, k, h
    <3>1. Wants(h, M)
      BY <1>7, <1>8, <2>3, <2>4 DEF Wants, Commands
    <3> QED BY <2>4, <3>1 DEF h, M
  <2>5. CASE ~h.req_pty /\ h.req_cmd = "fallback" /\ d.chanreqs = Append(L, "fallback")
    <3> DEFINE N == Append(M, "fallback")
    <3>1. "fallback" \in Requests
      BY DEF Requests
    <3> HIDE DEF L, k, h
    <3>2. Tail(d.chanreqs) = N
      BY <1>1, <1>2, <2>5, <3>1, AppendIs
    <3> HIDE DEF M
    <3>3. /\ DOMAIN M = 1..Len(M) /\ Len(M) \in Nat /\ DOMAIN N = 1..(Len(M) + 1)
          /\ \A x \in DOMAIN M : N[x] = M[x]
          /\ N[Len(M) + 1] = "fallback"
      BY <1>2, <3>1, AppendIs
    <3> HIDE DEF N
    <3>4. ASSUME NEW x \in DOMAIN N, NEW y \in DOMAIN N, x < y
          PROVE  N[y] # "pty-req" /\ ~(N[x] \in Commands /\ N[y] \in Commands)
      <4>1. x \in DOMAIN M /\ N[x] \notin Commands
        BY <1>9, <1>11, <3>3, <3>4
      <4>2. N[y] # "pty-req"
        <5>1. CASE y \in DOMAIN M
          BY <1>8, <3>3, <5>1 DEF Waits
        <5>2. CASE y = Len(M) + 1
          BY <3>3, <5>2
        <5> QED BY <3>3, <5>1, <5>2
      <4> QED BY <4>1, <4>2
    <3>5. Waits(N, "fallback") /\ ~Waits(N, "pty-req") /\ ~Waits(N, "shell")
      <4>1. Len(M) + 1 \in DOMAIN N
        BY <3>3
      <4>2. \A x \in DOMAIN N : x = Len(M) + 1 \/ x \in DOMAIN M
        BY <3>3
      <4>3. \A x \in DOMAIN M : M[x] # "pty-req" /\ M[x] # "shell"
        BY <1>8, <1>9, <1>11 DEF Waits, Commands
      <4> QED BY <3>3, <4>1, <4>2, <4>3 DEF Waits
    <3>6. Wants(h, N)
      BY <2>5, <3>4, <3>5 DEF Wants
    <3> QED BY <3>2, <3>6 DEF h
  <2> QED BY <2>2, <2>4, <2>5
<1> QED BY <1>4, <1>10, <1>11 DEF Commands

\* A call that leaves the requests alone leaves the main channel's opinion of them right.
LEMMA WantsSame ==
    ASSUME NEW c, NEW d, Waiting_same(c, d), Unasked(c, d), Wants(c.chan, c.chanreqs)
    PROVE  Wants(d.chan, d.chanreqs)
  BY DEF Waiting_same, Unasked, Wants

\* CHANNEL_CLOSE runs the handlers of all requests,
LEMMA CancelledFits ==
    ASSUME NEW F, Fitting(F), NEW c \in F, Usable(c), Minds(c), Expects(c), NEW d, d = Cancelled(c)
    PROVE  d \in F /\ Kin(c, d) /\ Minds(d)
<1> DEFINE once == Responded(c, FALSE)
           twice == Responded(once, FALSE)
           thrice == Responded(twice, FALSE)
<1>1. d = thrice
  BY MainIs DEF Cancelled, Minds
<1>2. ASSUME NEW a \in F, Usable(a), Minds(a), Expects(a), NEW b, b = Responded(a, FALSE)
      PROVE  b \in F /\ Kin(a, b) /\ Minds(b) /\ Usable(b) /\ Expects(b)
  <2>1. b \in F /\ Kin(a, b) /\ Minds(b) /\ Settles(a, b)
    BY <1>2, RespondedFits
  <2>2. Usable(b)
    BY <1>2, <2>1 DEF Usable, Kin
  <2>3. Append(a.chanreqs, "fallback") # <<>>
    BY <1>2, EndShape, AppendIs DEF Requests
  <2>4. Expects(b)
    BY <1>2, <2>1, <2>3 DEF Expects, Settles
  <2> QED BY <2>1, <2>2, <2>4
<1>3. once = Responded(c, FALSE) /\ twice = Responded(once, FALSE) /\ thrice = Responded(twice, FALSE)
  OBVIOUS
<1> HIDE DEF once, twice, thrice
<1>4. once \in F /\ Kin(c, once) /\ Minds(once) /\ Usable(once) /\ Expects(once)
  BY <1>2, <1>3
<1>5. twice \in F /\ Kin(once, twice) /\ Minds(twice) /\ Usable(twice) /\ Expects(twice)
  BY <1>2, <1>3, <1>4
<1>6. thrice \in F /\ Kin(twice, thrice) /\ Minds(thrice)
  BY <1>2, <1>3, <1>5
<1> QED BY <1>1, <1>4, <1>5, <1>6, KinTransitive

\* after an EOF that is implied.
LEMMA ClientCloseFits ==
    ASSUME NEW F, Fitting(F), NEW c \in Mid, Told_eof(c) \in F, Usable(c), Minds(c), Expects(c),
           NEW eof \in BOOLEAN, NEW d, d = Cancelled(ImpliedEof(c, eof))
    PROVE  d \in F /\ Usable(d) /\ d.chan \in Main /\ d.rcvd_eof
<1> DEFINE b == Told_eof(c)
           e == ChanSendEof(b, eof)
           i == ImpliedEof(c, eof)
<1>1. /\ b.chan = c.chan /\ b.gone = c.gone /\ b.rcvd_close = c.rcvd_close /\ b.rcvd_eof
      /\ (Ended(b) <=> Ended(c)) /\ Unasked(c, b) /\ Waiting_same(c, b) /\ (c.rcvd_eof => b = c)
  BY ToldEofIs
<1>2. i = IF c.rcvd_eof THEN c ELSE e
  BY DEF ImpliedEof, Told_eof
<1>3. b \in F
  OBVIOUS
<1>4. e = ChanSendEof(b, eof) /\ d = Cancelled(i)
  OBVIOUS
<1> HIDE DEF b, e, i
<1>5. Usable(b) /\ Minds(b) /\ Expects(b)
  BY <1>1 DEF Usable, Minds, Expects, Unasked, Waiting_same
<1>6. e \in F /\ Kin(b, e) /\ Minds(e) /\ Waiting_same(b, e) /\ Unasked(b, e)
  BY <1>3, <1>4, <1>5, ChanSendEofFits
<1>7. Usable(e) /\ Expects(e) /\ e.rcvd_eof
  BY <1>1, <1>5, <1>6 DEF Usable, Kin, Expects, Unasked, Waiting_same
<1>8. i \in F /\ Usable(i) /\ Minds(i) /\ Expects(i) /\ i.rcvd_eof
  BY <1>1, <1>2, <1>3, <1>5, <1>6, <1>7
<1>9. d \in F /\ Kin(i, d) /\ Minds(d)
  BY <1>4, <1>8, CancelledFits
<1> QED BY <1>8, <1>9 DEF Kin, Usable, Minds

--------------------------------------------------------------------------------
(* What a step leaves behind. *)

Typed == typed - arrived
Printed == printed - shown

\* What IInv says of the two ends while they talk
LEMMA TalkingIs ==
    ASSUME TypeOK, Talking
    PROVE  /\ Typed \in Nat /\ Printed \in Nat
           /\ wire["client"] \in Seq(Item) /\ wire["server"] \in Seq(Item)
           /\ cli \in Mid /\ cli.packets = <<>> /\ Sound(cli)
           /\ srv \in Mid /\ srv.packets = <<>> /\ Sound(srv)
           /\ Accord(cli, srv, wire["client"], wire["server"], Typed, Printed)
           /\ Accord(srv, cli, wire["server"], wire["client"], Printed, Typed)
           /\ ~cli.gone => /\ Usable(cli) /\ Minds(cli) /\ Wants(cli.chan, cli.chanreqs)
                           /\ (announced => Hopes(cli))
           /\ ~srv.gone => /\ Usable(srv) /\ Serves(srv) /\ Winadjs(srv.chanreqs)
                           /\ (Ended(srv) => Over(srv)) /\ srv.chan \notin Main
<1>1. Typed \in Nat /\ Printed \in Nat
  BY DEF TypeOK, Typed, Printed
<1>2. Accord(cli, srv, wire["client"], wire["server"], Typed, Printed)
  BY DEF Talking, Typed, Printed
<1>3. Accord(srv, cli, wire["server"], wire["client"], Printed, Typed)
  BY <1>2, AccordTurned
<1>4. wire["client"] \in Seq(Item) /\ wire["server"] \in Seq(Item)
  BY <1>2 DEF Accord, Link
<1>5. Sound(Gone)
  BY GoneIs DEF Sound, Zombie, Main
<1>6. cli \in Mid /\ cli.packets = <<>> /\ Sound(cli)
      /\ (~cli.gone => /\ Usable(cli) /\ Minds(cli) /\ Wants(cli.chan, cli.chanreqs)
                       /\ (announced => Hopes(cli)))
  BY <1>5, GoneIs DEF Talking, ClientSteady, Steady
<1>7. srv \in Mid /\ srv.packets = <<>> /\ Sound(srv)
      /\ (~srv.gone => /\ Usable(srv) /\ Serves(srv) /\ Winadjs(srv.chanreqs)
                       /\ (Ended(srv) => Over(srv)))
  BY <1>5, GoneIs DEF Talking, ServerSteady, Steady
<1>8. Serves(srv) => srv.chan \notin Main
  BY DEF Serves, Zombie, Main, Sess
<1> QED BY <1>1, <1>2, <1>3, <1>4, <1>6, <1>7, <1>8

\* An end between calls has its type.
LEMMA MidIsEnd ==
    ASSUME NEW c \in Mid, c.packets = <<>>, ~c.gone
    PROVE  c \in End
<1>1. c \in [chan : Channels, halfopen : BOOLEAN,
             sent_eof : BOOLEAN, sent_close : BOOLEAN, rcvd_eof : BOOLEAN, rcvd_close : BOOLEAN,
             pending_eof : BOOLEAN, outbuffer : Nat, remwindow : 0..1, locwindow : 0..1,
             chanreqs : Seq(Requests), throttling_conn : BOOLEAN, input_wanted : BOOLEAN,
             held : BOOLEAN, packets : {<<>>}, gone : {FALSE}, fault : {"none"}]
  <2>1. {Zombie} \cup Main \cup Sess \subseteq Channels
    BY DEF Channels
  <2> HIDE DEF Main, Sess, Zombie, Channels
  <2> QED BY <2>1 DEF Mid
<1> QED BY <1>1 DEF End

\* A packet that cites a channel is a packet.
LEMMA ItemsAreMessages ==
    ASSUME NEW w \in Seq(Item)
    PROVE  w \in Seq(Message)
<1>1. Item \subseteq Message
  BY DEF Item, Message, Plain
<1> QED BY <1>1

\* What two ends that talk are, has its type.
EndsType == ends \in [Sides -> End \cup {Gone}] /\ wire \in [Sides -> Seq(Message)]

\* The notice that brings the exit status
Noted(w) == \E x \in DOMAIN w : w[x].kind = "notice"

\* A call at the client that leaves its end open, as far as the server is concerned
LEMMA ClientBecomes ==
    ASSUME TypeOK, srv \in Mid, wire["server"] \in Seq(Item), ServerSteady(srv), NEW e, NEW rest,
           NEW abort \in BOOLEAN, Effect("client", e, rest, abort),
           NEW m \in Nat, NEW n \in Nat, m = Typed', n = Printed',
           e \in Fits(srv, rest, wire["server"], m, n), Usable(e), Minds(e),
           Wants(e.chan, e.chanreqs), announced' => Hopes(e),
           Over(srv) => exitcode' \/ Noted(rest)
    PROVE  Talking' /\ EndsType' /\ setup' = setup /\ conn' \in {conn, "aborting"} /\ fault' = NoFault
<1> DEFINE d == Settled(e)
<1>1. /\ ends \in [Sides -> End \cup {Gone}] /\ wire \in [Sides -> Seq(Message)]
      /\ "client" \in Sides /\ "server" \in Sides /\ Other("client") = "server"
  BY DEF TypeOK, Sides, Other
<1>2. /\ e \in Mid /\ e.fault = "none" /\ ~e.gone /\ e.packets \in Seq(Item)
      /\ Accord(e, srv, rest, wire["server"] \o e.packets, m, n) /\ Sound(e)
  BY EndTypes DEF Fits, Usable
<1>3. /\ ends' = [ends EXCEPT !["client"] = d]
      /\ wire' = [wire EXCEPT !["client"] = rest, !["server"] = @ \o e.packets]
      /\ fault' = NoFault /\ setup' = setup
      /\ conn' \in {conn, "aborting"}
  <2>1. conn' \in {conn, "aborting"}
    BY <1>2 DEF Effect
  <2> QED BY <1>1, <1>2, <2>1 DEF Effect
<1>4. cli' = d /\ srv' = srv
  BY <1>1, <1>3 DEF cli, srv, Sides
<1>5. wire'["client"] = rest /\ wire'["server"] = wire["server"] \o e.packets
  BY <1>1, <1>3 DEF Sides
<1>6. /\ d \in Mid /\ d.packets = <<>> /\ d.chan = e.chan /\ d.chanreqs = e.chanreqs
      /\ Sound(d) /\ Usable(d) /\ Minds(d) /\ (announced' => Hopes(d))
  BY <1>2, SettledIs
<1>7. Accord(d, srv, rest, wire["server"] \o e.packets, m, n)
  BY <1>2, SettledAccord
<1> HIDE DEF d
<1>8. ClientSteady(d, announced')
  BY <1>6 DEF ClientSteady, Steady
<1>9. rest \in Seq(Item) /\ wire["server"] \o e.packets \in Seq(Item)
  BY <1>7 DEF Accord, Link
<1>10. EndsType'
  <2>1. d \in End
    BY <1>6, MidIsEnd DEF Usable
  <2>2. rest \in Seq(Message) /\ wire["server"] \o e.packets \in Seq(Message)
    BY <1>9, ItemsAreMessages
  <2>3. ends' \in [Sides -> End \cup {Gone}]
    BY <1>1, <1>3, <2>1
  <2>4. wire' \in [Sides -> Seq(Message)]
    BY <1>1, <1>3, <2>2
  <2> QED BY <2>3, <2>4 DEF EndsType
<1>11. ~d.gone
  BY <1>6 DEF Usable
<1>12. Talking'
  <2>1. Accord(cli, srv, wire["client"], wire["server"], typed - arrived, printed - shown)'
    BY <1>4, <1>5, <1>7 DEF Typed, Printed
  <2>2. ClientSteady(cli, announced)' /\ ServerSteady(srv)'
    BY <1>4, <1>8
  <2>3. Told'
    BY <1>4, <1>5 DEF Told, Noted
  <2>4. ~cli.gone'
    BY <1>4, <1>11
  <2> QED BY <2>1, <2>2, <2>3, <2>4 DEF Talking
<1> QED BY <1>3, <1>10, <1>12

\* ... when both ends are open
LEMMA ClientEffect ==
    ASSUME TypeOK, Talking, NEW e, NEW rest, NEW abort \in BOOLEAN, Effect("client", e, rest, abort),
           NEW m \in Nat, NEW n \in Nat, m = Typed', n = Printed',
           e \in Fits(srv, rest, wire["server"], m, n), Usable(e), Minds(e),
           Wants(e.chan, e.chanreqs), announced' => Hopes(e),
           Over(srv) => exitcode' \/ Noted(rest)
    PROVE  Talking' /\ EndsType' /\ setup' = setup /\ conn' \in {conn, "aborting"} /\ fault' = NoFault
<1>1. srv \in Mid /\ wire["server"] \in Seq(Item) /\ ServerSteady(srv)
  BY TalkingIs DEF Talking
<1> QED BY <1>1, ClientBecomes

\* A call at the client that destroys its end
LEMMA ClientGone ==
    ASSUME TypeOK, Talking, NEW e, NEW abort \in BOOLEAN, Effect("client", e, <<>>, abort),
           NEW m \in Nat, NEW n \in Nat, m = Typed', n = Printed',
           e.gone, e.fault = "none", e.packets \in Seq(Item),
           Accord(Gone, srv, <<>>, wire["server"] \o e.packets, m, n),
           Over(srv) => exitcode'
    PROVE  /\ Talking' /\ EndsType' /\ setup' = setup /\ fault' = NoFault
           /\ conn' = "closing" \/ conn' = "aborting" \/ (conn' = conn /\ conn # "up")
<1>1. /\ ends \in [Sides -> End \cup {Gone}] /\ wire \in [Sides -> Seq(Message)]
      /\ "client" \in Sides /\ "server" \in Sides /\ Other("client") = "server"
  BY DEF TypeOK, Sides, Other
<1>2. srv \in Mid /\ wire["server"] \in Seq(Item)
  BY TalkingIs
<1>3. /\ ends' = [ends EXCEPT !["client"] = Gone]
      /\ wire' = [wire EXCEPT !["client"] = <<>>, !["server"] = @ \o e.packets]
      /\ fault' = NoFault /\ setup' = setup
      /\ conn' = "closing" \/ conn' = "aborting" \/ (conn' = conn /\ conn # "up")
  <2>1. conn' = "closing" \/ conn' = "aborting" \/ (conn' = conn /\ conn # "up")
    BY DEF Effect
  <2> QED BY <1>1, <2>1 DEF Effect
<1>4. cli' = Gone /\ srv' = srv
  BY <1>1, <1>3 DEF cli, srv, Sides
<1>5. wire'["client"] = <<>> /\ wire'["server"] = wire["server"] \o e.packets
  BY <1>1, <1>3 DEF Sides
<1>6. ClientSteady(Gone, announced')
  BY DEF ClientSteady
<1>7. EndsType'
  <2>1. <<>> \in Seq(Message)
    OBVIOUS
  <2>2. wire["server"] \o e.packets \in Seq(Item)
    BY <1>2
  <2>3. wire["server"] \o e.packets \in Seq(Message)
    BY <2>2, ItemsAreMessages
  <2>4. ends' \in [Sides -> End \cup {Gone}]
    BY <1>1, <1>3
  <2>5. wire' \in [Sides -> Seq(Message)]
    BY <1>1, <1>3, <2>1, <2>3
  <2> QED BY <2>4, <2>5 DEF EndsType
<1>8. ServerSteady(srv)
  BY DEF Talking
<1>9. Talking'
  <2>1. Accord(cli, srv, wire["client"], wire["server"], typed - arrived, printed - shown)'
    BY <1>4, <1>5 DEF Typed, Printed
  <2>2. ClientSteady(cli, announced)' /\ ServerSteady(srv)'
    BY <1>4, <1>6, <1>8
  <2>3. Told'
    BY <1>4, <1>5 DEF Told
  <2>4. conn' # "up"
    BY <1>3
  <2> QED BY <2>1, <2>2, <2>3, <2>4 DEF Talking
<1> QED BY <1>3, <1>7, <1>9

\* A call at the server, whose end becomes d
LEMMA ServerEffect ==
    ASSUME TypeOK, Talking, NEW e, NEW rest, Effect("server", e, rest, FALSE),
           announced' = announced,
           NEW m \in Nat, NEW n \in Nat, m = Typed', n = Printed',
           e.fault = "none", e.packets \in Seq(Item),
           NEW d, d = IF e.gone THEN Gone ELSE Settled(e),
           Accord(d, cli, rest, wire["client"] \o e.packets, n, m), ServerSteady(d),
           Over(d) => exitcode' \/ Noted(wire["client"] \o e.packets)
    PROVE  Talking' /\ EndsType' /\ setup' = setup /\ conn' = conn /\ fault' = NoFault
<1>1. /\ ends \in [Sides -> End \cup {Gone}] /\ wire \in [Sides -> Seq(Message)]
      /\ "client" \in Sides /\ "server" \in Sides /\ Other("server") = "client"
  BY DEF TypeOK, Sides, Other
<1>2. cli \in Mid /\ wire["client"] \in Seq(Item)
  BY TalkingIs
<1>3. /\ ends' = [ends EXCEPT !["server"] = d]
      /\ wire' = [wire EXCEPT !["server"] = rest, !["client"] = @ \o e.packets]
      /\ fault' = NoFault /\ setup' = setup /\ conn' = conn
  <2>1. conn' = conn
    BY DEF Effect
  <2> QED BY <1>1, <2>1 DEF Effect
<1>4. srv' = d /\ cli' = cli
  BY <1>1, <1>3 DEF cli, srv, Sides
<1>5. wire'["server"] = rest /\ wire'["client"] = wire["client"] \o e.packets
  BY <1>1, <1>3 DEF Sides
<1>6. rest \in Seq(Item) /\ wire["client"] \o e.packets \in Seq(Item)
  BY <1>2 DEF Accord, Link
<1>7. EndsType'
  <2>1. d \in End \cup {Gone}
    BY MidIsEnd DEF ServerSteady, Steady, Usable
  <2>2. rest \in Seq(Message) /\ wire["client"] \o e.packets \in Seq(Message)
    BY <1>6, ItemsAreMessages
  <2>3. ends' \in [Sides -> End \cup {Gone}]
    BY <1>1, <1>3, <2>1
  <2>4. wire' \in [Sides -> Seq(Message)]
    BY <1>1, <1>3, <2>2
  <2> QED BY <2>3, <2>4 DEF EndsType
<1>8. ClientSteady(cli, announced)
  BY DEF Talking
<1>9. Talking'
  <2>1. Accord(cli, d, wire["client"] \o e.packets, rest, m, n)
    BY AccordTurned
  <2>2. Accord(cli, srv, wire["client"], wire["server"], typed - arrived, printed - shown)'
    BY <1>4, <1>5, <2>1 DEF Typed, Printed
  <2>3. ClientSteady(cli, announced)' /\ ServerSteady(srv)'
    BY <1>4, <1>8
  <2>4. Told'
    BY <1>4, <1>5 DEF Told, Noted
  <2>5. cli'.gone => conn' # "up"
    BY <1>3, <1>4 DEF Talking
  <2> QED BY <2>2, <2>3, <2>4, <2>5 DEF Talking
<1> QED BY <1>3, <1>7, <1>9

\* What is on its way stays there when more is sent.
LEMMA NotedKept ==
    ASSUME NEW w \in Seq(Item), NEW p \in Seq(Item), Noted(w) \/ Noted(p)
    PROVE  Noted(w \o p)
<1>1. /\ Len(w) \in Nat /\ DOMAIN w = 1..Len(w) /\ Len(p) \in Nat /\ DOMAIN p = 1..Len(p)
      /\ DOMAIN (w \o p) = 1..(Len(w) + Len(p))
      /\ \A x \in 1..Len(w) : (w \o p)[x] = w[x]
      /\ \A x \in 1..Len(p) : (w \o p)[Len(w) + x] = p[x]
  OBVIOUS
<1>2. CASE Noted(w)
  BY <1>1, <1>2 DEF Noted
<1>3. CASE Noted(p)
  <2>1. PICK x \in 1..Len(p) : p[x].kind = "notice"
    BY <1>1, <1>3 DEF Noted
  <2>2. Len(w) + x \in DOMAIN (w \o p) /\ (w \o p)[Len(w) + x].kind = "notice"
    BY <1>1, <2>1
  <2> QED BY <2>2 DEF Noted
<1> QED BY <1>2, <1>3

\* ... with the server's end open after it
LEMMA ServerStays ==
    ASSUME TypeOK, Talking, NEW e, NEW rest, Effect("server", e, rest, FALSE),
           announced' = announced, exitcode' = exitcode,
           NEW m \in Nat, NEW n \in Nat, m = Typed', n = Printed',
           e \in Fits(cli, rest, wire["client"], n, m), Usable(e), Serves(e), Winadjs(e.chanreqs),
           Ended(e) => Over(e), Over(e) => Over(srv) \/ Noted(e.packets)
    PROVE  Talking' /\ EndsType' /\ setup' = setup /\ conn' = conn /\ fault' = NoFault
<1> DEFINE d == Settled(e)
<1>1. /\ e \in Mid /\ e.fault = "none" /\ ~e.gone /\ e.packets \in Seq(Item) /\ Sound(e)
      /\ cli \in Mid /\ wire["client"] \in Seq(Item)
  BY TalkingIs, EndTypes DEF Fits, Usable
<1>2. /\ d \in Mid /\ d.packets = <<>> /\ d.chan = e.chan /\ d.chanreqs = e.chanreqs
      /\ Sound(d) /\ Usable(d) /\ Serves(d) /\ (Ended(d) => Over(d)) /\ (Over(d) => Over(e))
  BY <1>1, SettledIs
<1>3. Accord(d, cli, rest, wire["client"] \o e.packets, n, m)
  BY <1>1, SettledAccord
<1>4. d = IF e.gone THEN Gone ELSE Settled(e)
  BY <1>1
<1> HIDE DEF d
<1>5. ServerSteady(d)
  BY <1>2 DEF ServerSteady, Steady
<1>6. Over(d) => exitcode' \/ Noted(wire["client"] \o e.packets)
  <2>1. Over(srv) => exitcode \/ Noted(wire["client"])
    BY DEF Talking, Told, Noted
  <2> QED BY <1>1, <1>2, <2>1, NotedKept
<1> QED BY <1>1, <1>3, <1>4, <1>5, <1>6, ServerEffect

\* What TypeOK says of the counters
CountsType ==
    /\ typed \in 0..MaxTyped /\ printed \in 0..MaxPrinted /\ asides \in 0..MaxAsides
    /\ arrived \in 0..typed /\ shown \in 0..printed

\* What is left to prove of a step that goes on with no fault
LEMMA Onwards ==
    ASSUME TypeOK, ExitStatusFirst, Talking', EndsType', setup' = setup, fault' = NoFault,
           exitcode' \in BOOLEAN, announced' \in BOOLEAN, CountsType', exitcode => exitcode',
           conn' \in {conn, "aborting"}
    PROVE  IInv'
<1>1. TypeOK'
  BY DEF TypeOK, EndsType, CountsType
<1>2. ExitStatusFirst'
  BY DEF ExitStatusFirst
<1>3. OtherAssertionsHold'
  BY DEF OtherAssertionsHold
<1> QED BY <1>1, <1>2, <1>3 DEF IInv

\* The counters that do not change
LEMMA SameCounts ==
    ASSUME TypeOK, UNCHANGED counts
    PROVE  CountsType' /\ Typed' = Typed /\ Printed' = Printed
<1>1. typed' = typed /\ printed' = printed /\ asides' = asides /\ arrived' = arrived /\ shown' = shown
  BY DEF counts
<1> QED BY <1>1 DEF TypeOK, CountsType, Typed, Printed

\* The exit status stays on its way while other packets are read.
LEMMA NotedTail ==
    ASSUME NEW w \in Seq(Item), w # <<>>, w[1].kind # "notice", Noted(w)
    PROVE  Noted(Tail(w))
<1>1. PICK x \in DOMAIN w : w[x].kind = "notice"
  BY DEF Noted
<1>2. x - 1 \in DOMAIN Tail(w) /\ Tail(w)[x - 1] = w[x]
  BY <1>1, TailIs
<1> QED BY <1>1, <1>2 DEF Noted

\* A packet that the client reads finds its channel.
LEMMA ClientReads ==
    ASSUME TypeOK, Talking, NEW kind, Arrives("client", kind)
    PROVE  /\ wire["client"] # <<>> /\ wire["client"][1].kind = kind /\ wire["client"][1] \in Item
           /\ ~cli.gone
<1>1. wire["client"] \in Seq(Item) /\ Accord(cli, srv, wire["client"], wire["server"], Typed, Printed)
  BY TalkingIs
<1>2. wire["client"] # <<>> /\ wire["client"][1].kind = kind
  BY DEF Arrives
<1>3. wire["client"][1] \in Item
  BY <1>1, <1>2, TailIs
<1>4. ~cli.gone
  BY <1>1, <1>2 DEF Accord, Link
<1> QED BY <1>2, <1>3, <1>4

\* What the client's end becomes as it takes the packet
LEMMA ClientTakes ==
    ASSUME TypeOK, Talking, wire["client"] # <<>>,
           NEW b \in Mid, b.packets = <<>>, Sound(b), Takes(cli, b, wire["client"][1]),
           NEW l \in Nat, l + One(wire["client"][1].kind, "data") >= Printed
    PROVE  b \in Fits(srv, Tail(wire["client"]), wire["server"], Typed, l)
<1>1. /\ Typed \in Nat /\ Printed \in Nat /\ cli \in Mid /\ srv \in Mid /\ Sound(srv)
      /\ wire["server"] \in Seq(Item)
      /\ Accord(cli, srv, wire["client"], wire["server"], Typed, Printed)
  BY TalkingIs
<1>2. Accord(b, srv, Tail(wire["client"]), wire["server"], Typed, l)
  BY <1>1, TakeAccord
<1> QED BY <1>1, <1>2, FitsPlain

\* A call at the client that learns of no exit status and of no EOF that the user announces
LEMMA ClientGoesOn ==
    ASSUME TypeOK, ExitStatusFirst, Talking, NEW e, NEW rest, NEW abort \in BOOLEAN,
           Effect("client", e, rest, abort), UNCHANGED <<exitcode, announced>>, CountsType',
           ~cli.gone, e \in Fits(srv, rest, wire["server"], Typed', Printed'), Usable(e), Minds(e),
           Wants(e.chan, e.chanreqs), Hopes(cli) => Hopes(e), Noted(wire["client"]) => Noted(rest)
    PROVE  IInv'
<1>1. Typed' \in Nat /\ Printed' \in Nat
  <2>1. typed' \in Nat /\ arrived' \in 0..typed' /\ printed' \in Nat /\ shown' \in 0..printed'
    BY DEF CountsType
  <2>2. typed' - arrived' \in Nat /\ printed' - shown' \in Nat
    <3>1. \A a \in Nat : \A b \in 0..a : a - b \in Nat
      OBVIOUS
    <3> QED BY <2>1, <3>1
  <2> QED BY <2>2 DEF Typed, Printed
<1>2. announced' => Hopes(e)
  BY TalkingIs
<1>3. Over(srv) => exitcode' \/ Noted(rest)
  BY DEF Talking, Told, Noted
<1>4. DEFINE m == Typed'
             n == Printed'
<1>5. m \in Nat /\ n \in Nat /\ m = Typed' /\ n = Printed'
  BY <1>1
<1>6. e \in Fits(srv, rest, wire["server"], m, n)
  OBVIOUS
<1> HIDE DEF m, n
<1>7. Talking' /\ EndsType' /\ setup' = setup /\ conn' \in {conn, "aborting"} /\ fault' = NoFault
  BY <1>2, <1>3, <1>5, <1>6, ClientEffect
<1>8. exitcode' = exitcode /\ announced' \in BOOLEAN /\ exitcode' \in BOOLEAN
  BY DEF TypeOK
<1> QED BY <1>7, <1>8, Onwards

\* CHANNEL_REQUEST: exit-status
LEMMA ExitStatusStep ==
    ASSUME TypeOK, ExitStatusFirst, Talking, ExitStatus
    PROVE  IInv'
<1>1. /\ wire["client"] # <<>> /\ wire["client"][1].kind = "notice" /\ ~cli.gone
  BY ClientReads DEF ExitStatus
<1>2. /\ cli \in Mid /\ cli.packets = <<>> /\ Sound(cli) /\ Typed \in Nat /\ Printed \in Nat
      /\ Usable(cli) /\ Minds(cli) /\ Wants(cli.chan, cli.chanreqs) /\ (announced => Hopes(cli))
  BY <1>1, TalkingIs
<1>3. Takes(cli, cli, wire["client"][1])
  BY <1>1, <1>2, EndTypes DEF Takes, One, Replying
<1>4. Printed + One(wire["client"][1].kind, "data") >= Printed
  BY <1>1, <1>2 DEF One
<1>5. cli \in Fits(srv, Tail(wire["client"]), wire["server"], Typed, Printed)
  BY <1>1, <1>2, <1>3, <1>4, ClientTakes
<1>6. /\ Effect("client", cli, Tail(wire["client"]), FALSE) /\ exitcode' = TRUE /\ announced' = announced
      /\ UNCHANGED counts
  BY DEF ExitStatus
<1>7. CountsType' /\ Typed' = Typed /\ Printed' = Printed
  BY <1>6, SameCounts
<1>8. Talking' /\ EndsType' /\ setup' = setup /\ conn' \in {conn, "aborting"} /\ fault' = NoFault
  BY <1>2, <1>5, <1>6, <1>7, ClientEffect
<1> QED BY <1>6, <1>7, <1>8, Onwards DEF TypeOK

\* There is no window at an end to which more of it is coming.
LEMMA AdjustRoom ==
    ASSUME NEW C \in Mid, NEW D \in Mid, NEW V \in Seq(Item), NEW W \in Seq(Item), NEW m, NEW n,
           Accord(C, D, V, W, m, n), V # <<>>, V[1].kind = "adjust", ~C.gone
    PROVE  C.remwindow = 0
<1>1. 1 \in DOMAIN V
  BY TailIs
<1>2. Upto(V, 1, {"adjust"}) >= 1 /\ Upto(V, 1, {"adjust"}) <= Num(V, {"adjust"})
      /\ Upto(V, 1, {"adjust"}) \in Nat
  BY <1>1, UptoBounds, UptoType
<1>3. Num(V, {"adjust"}) \in Nat /\ Num(W, {"data"}) \in Nat
  BY NumType
<1>4. C.remwindow \in 0..1 /\ D.locwindow \in 0..1 /\ Room(C) = C.remwindow
  BY EndTypes DEF Room
<1>5. Room(C) + (Num(W, {"data"}) + Num(V, {"adjust"})) <= D.locwindow
  BY DEF Accord, Link, Credit
<1> QED BY <1>2, <1>3, <1>4, <1>5

\* There is a window at an end to which data is coming, and data that has not arrived.
LEMMA DataRoom ==
    ASSUME NEW C \in Mid, NEW D \in Mid, NEW V \in Seq(Item), NEW W \in Seq(Item), NEW m \in Nat, NEW n \in Nat,
           Accord(C, D, V, W, m, n), V # <<>>, V[1].kind = "data", ~C.gone
    PROVE  C.locwindow = 1 /\ n >= 1
<1>1. 1 \in DOMAIN V
  BY TailIs
<1>2. Upto(V, 1, {"data"}) >= 1 /\ Upto(V, 1, {"data"}) <= Num(V, {"data"})
      /\ Upto(V, 1, {"data"}) \in Nat
  BY <1>1, UptoBounds, UptoType
<1>3. Num(V, {"data"}) \in Nat /\ Num(W, {"adjust"}) \in Nat
  BY NumType
<1>4. C.locwindow \in 0..1 /\ Room(D) \in 0..1 /\ D.outbuffer \in Nat
  BY EndTypes
<1>5. /\ Room(D) + (Num(V, {"data"}) + Num(W, {"adjust"})) <= C.locwindow
      /\ Num(V, {"data"}) + D.outbuffer <= n
  BY DEF Accord, Link, Credit
<1> QED BY <1>2, <1>3, <1>4, <1>5

\* An end takes an EOF, or a CLOSE, by knowing of the EOF.
LEMMA ToldTakes ==
    ASSUME NEW c \in Mid, c.packets = <<>>, Sound(c), ~c.gone, NEW x, x.kind \in {"eof", "close"}
    PROVE  /\ Told_eof(c) \in Mid /\ Told_eof(c).packets = <<>> /\ Sound(Told_eof(c))
           /\ Takes(c, Told_eof(c), x)
<1> DEFINE b == Told_eof(c)
<1>1. /\ b \in Mid /\ b.packets = <<>> /\ b.rcvd_eof
      /\ b.sent_eof = c.sent_eof /\ b.pending_eof = c.pending_eof
      /\ b.sent_close = c.sent_close /\ b.outbuffer = c.outbuffer
      /\ b.chan = c.chan /\ b.remwindow = c.remwindow /\ b.locwindow = c.locwindow
      /\ b.chanreqs = c.chanreqs /\ b.gone = c.gone
  BY DEF Told_eof, Mid
<1>2. c.remwindow \in 0..1 /\ c.locwindow \in 0..1 /\ c.outbuffer \in Nat
  BY EndTypes
<1> HIDE DEF b
<1>3. Sound(b)
  BY <1>1 DEF Sound
<1>4. Takes(c, b, x)
  BY <1>1, <1>2 DEF Takes, One, Replying
<1> QED BY <1>1, <1>3, <1>4 DEF b

--------------------------------------------------------------------------------
(* The client's steps. *)

\* What is left to prove of a packet that changes only the client's end
LEMMA ClientHandled ==
    ASSUME TypeOK, ExitStatusFirst, Talking, NEW kind, kind # "notice", NEW e, Handled("client", kind, e),
           e \in Fits(srv, Tail(wire["client"]), wire["server"], Typed, Printed), Usable(e), Minds(e),
           Wants(e.chan, e.chanreqs), Hopes(cli) => Hopes(e)
    PROVE  IInv'
<1>1. Arrives("client", kind) /\ Effect("client", e, Tail(wire["client"]), FALSE)
      /\ UNCHANGED <<exitcode, announced>> /\ UNCHANGED counts
  BY DEF Handled
<1>2. wire["client"] # <<>> /\ wire["client"][1].kind = kind /\ ~cli.gone
  BY <1>1, ClientReads
<1>3. Noted(wire["client"]) => Noted(Tail(wire["client"]))
  BY <1>2, TalkingIs, NotedTail
<1>4. CountsType' /\ Typed' = Typed /\ Printed' = Printed
  BY <1>1, SameCounts
<1> QED BY <1>1, <1>2, <1>3, <1>4, ClientGoesOn

\* What the client knows when a packet arrives
LEMMA ClientAt ==
    ASSUME TypeOK, Talking, ~cli.gone
    PROVE  /\ cli \in Mid /\ cli.packets = <<>> /\ Sound(cli) /\ Typed \in Nat /\ Printed \in Nat
           /\ Usable(cli) /\ Minds(cli) /\ Wants(cli.chan, cli.chanreqs) /\ Expects(cli)
           /\ srv \in Mid /\ wire["server"] \in Seq(Item) /\ wire["client"] \in Seq(Item)
           /\ Accord(cli, srv, wire["client"], wire["server"], Typed, Printed)
           /\ Accord(srv, cli, wire["server"], wire["client"], Printed, Typed)
           /\ Fitting(Fits(srv, wire["client"], wire["server"], Typed, Printed))
           /\ Fitting(Fits(srv, Tail(wire["client"]), wire["server"], Typed, Printed))
           /\ cli \in Fits(srv, wire["client"], wire["server"], Typed, Printed)
<1>1. /\ cli \in Mid /\ cli.packets = <<>> /\ Sound(cli) /\ Typed \in Nat /\ Printed \in Nat
      /\ Usable(cli) /\ Minds(cli) /\ Wants(cli.chan, cli.chanreqs)
      /\ srv \in Mid /\ wire["server"] \in Seq(Item) /\ wire["client"] \in Seq(Item)
      /\ Accord(cli, srv, wire["client"], wire["server"], Typed, Printed)
      /\ Accord(srv, cli, wire["server"], wire["client"], Printed, Typed)
  BY TalkingIs
<1>2. Expects(cli)
  BY <1>1, WantsExpects DEF Minds
<1> QED BY <1>1, <1>2, FitsFitting, FitsPlain

\* The server's requests are those about the window.
LEMMA WinadjAsked ==
    ASSUME TypeOK, Talking, wire["client"] # <<>>, wire["client"][1].kind = "request",
           ~cli.gone, ~cli.sent_close
    PROVE  wire["client"][1].req = "winadj"
<1> DEFINE V == wire["client"]
           W == wire["server"]
           L == srv.chanreqs
           v == Num(V, {"request"})
           u == Upto(V, 1, {"request"})
           w == Num(W, Replying)
<1>1. /\ V \in Seq(Item) /\ W \in Seq(Item) /\ L \in Seq(Requests)
      /\ Link(srv, cli, W, V, Printed) /\ (~srv.gone => Winadjs(L))
  BY TalkingIs, EndTypes DEF Accord
<1>2. ~srv.gone
  BY <1>1 DEF Link
<1>3. 1 \in DOMAIN V
  BY <1>1, TailIs
<1>4. Len(L) = w + v /\ L[w + u] = V[1].req
  BY <1>1, <1>2, <1>3 DEF Link, Asked
<1>5. w \in Nat /\ v \in Nat /\ u \in Nat
  BY <1>1, NumType, UptoType
<1>6. u >= 1 /\ u <= v
  BY <1>1, <1>3, UptoBounds
<1>7. DOMAIN L = 1..Len(L)
  BY <1>1
<1> HIDE DEF L, u, v, w
<1>8. w + u \in DOMAIN L
  BY <1>4, <1>5, <1>6, <1>7
<1>9. L[w + u] = "winadj"
  BY <1>1, <1>2, <1>8 DEF Winadjs
<1> QED BY <1>4, <1>9

\* CHANNEL_REQUEST at the client: a winadj
LEMMA WinadjStep ==
    ASSUME TypeOK, ExitStatusFirst, Talking,
           Handled("client", "request", RecvRequest(cli, "winadj", TRUE, FALSE))
    PROVE  IInv'
<1> DEFINE e == RecvRequest(cli, "winadj", TRUE, FALSE)
           x == Packet("failure", "winadj")
           F == Fits(srv, Tail(wire["client"]), wire["server"], Typed, Printed)
<1>1. wire["client"] # <<>> /\ wire["client"][1].kind = "request" /\ ~cli.gone
  BY ClientReads DEF Handled
<1>2. /\ cli \in Mid /\ cli.packets = <<>> /\ Sound(cli) /\ Typed \in Nat /\ Printed \in Nat
      /\ Usable(cli) /\ Minds(cli) /\ Wants(cli.chan, cli.chanreqs)
      /\ srv \in Mid /\ wire["server"] \in Seq(Item)
      /\ Accord(cli, srv, wire["client"], wire["server"], Typed, Printed)
  BY <1>1, ClientAt
<1>3. CASE cli.sent_close
  <2>1. e = cli
    BY <1>3 DEF RecvRequest, Replies
  <2>2. Takes(cli, cli, wire["client"][1])
    BY <1>1, <1>2, <1>3, EndTypes DEF Takes, One, Replying
  <2>3. Printed + One(wire["client"][1].kind, "data") >= Printed
    BY <1>1, <1>2 DEF One
  <2>4. e \in F
    BY <1>1, <1>2, <2>1, <2>2, <2>3, ClientTakes
  <2> HIDE DEF F
  <2> QED BY <1>2, <2>1, <2>4, ClientHandled DEF F
<1>4. CASE ~cli.sent_close
  <2>1. e = [cli EXCEPT !.packets = Append(@, x)]
    BY <1>4 DEF RecvRequest, Replies, Push
  <2>2. x \in Item /\ x.kind \in Replying /\ x.req = wire["client"][1].req
    BY <1>1, <1>4, WinadjAsked DEF Packet, Item, Plain, Replying, Requests
  <2>3. Append(cli.packets, x) \in Seq(Item) /\ wire["server"] \o Append(cli.packets, x) = Append(wire["server"], x)
    BY <1>2, <2>2
  <2> HIDE DEF x, e
  <2>4. e \in Mid
    BY <1>2, <2>1, <2>3 DEF Mid
  <2>5. /\ e.packets = Append(cli.packets, x) /\ e.sent_eof = cli.sent_eof /\ e.pending_eof = cli.pending_eof
        /\ e.sent_close = cli.sent_close /\ e.outbuffer = cli.outbuffer
        /\ e.chan = cli.chan /\ e.remwindow = cli.remwindow /\ e.locwindow = cli.locwindow
        /\ e.chanreqs = cli.chanreqs /\ e.gone = cli.gone /\ e.rcvd_close = cli.rcvd_close
        /\ e.rcvd_eof = cli.rcvd_eof
    BY <1>2, <2>1 DEF Mid
  <2>6. Replied(cli, e) /\ Sound(e) /\ Usable(e) /\ Minds(e) /\ Wants(e.chan, e.chanreqs)
        /\ (Hopes(cli) => Hopes(e))
    BY <1>1, <1>2, <1>4, <2>5 DEF Replied, Sound, Usable, Minds, Hopes, Ended
  <2>7. Accord(e, srv, Tail(wire["client"]), Append(wire["server"], x), Typed, Printed)
    BY <1>1, <1>2, <2>2, <2>4, <2>6, ReplyAccord
  <2>8. e \in F
    BY <2>3, <2>4, <2>5, <2>6, <2>7 DEF Fits
  <2> HIDE DEF F
  <2> QED BY <2>6, <2>8, ClientHandled DEF F, e
<1>5. cli.sent_close \in BOOLEAN
  BY <1>2, EndTypes
<1> QED BY <1>3, <1>4, <1>5

\* The end whose peer has opened its window
LEMMA OpenedIs ==
    ASSUME NEW c \in Mid, c.remwindow = 0, NEW b, b = [c EXCEPT !.remwindow = @ + 1]
    PROVE  /\ b \in Mid /\ b.packets = c.packets /\ b.sent_eof = c.sent_eof /\ b.pending_eof = c.pending_eof
           /\ b.sent_close = c.sent_close /\ b.outbuffer = c.outbuffer
           /\ b.chan = c.chan /\ b.remwindow = 1 /\ b.locwindow = c.locwindow
           /\ b.chanreqs = c.chanreqs /\ b.gone = c.gone /\ b.rcvd_close = c.rcvd_close
           /\ b.rcvd_eof = c.rcvd_eof
<1>1. b = [c EXCEPT !.remwindow = 1]
  OBVIOUS
<1>2. 1 \in 0..1
  OBVIOUS
<1>3. b \in Mid
  BY <1>1, <1>2 DEF Mid
<1> QED BY <1>1, <1>3 DEF Mid

\* CHANNEL_WINDOW_ADJUST at the client
LEMMA ClientAdjustStep ==
    ASSUME TypeOK, ExitStatusFirst, Talking, Handled("client", "adjust", RecvAdjust(cli))
    PROVE  IInv'
<1> DEFINE e == RecvAdjust(cli)
           b == [cli EXCEPT !.remwindow = @ + 1]
           F == Fits(srv, Tail(wire["client"]), wire["server"], Typed, Printed)
<1>1. wire["client"] # <<>> /\ wire["client"][1].kind = "adjust" /\ ~cli.gone
  BY ClientReads DEF Handled
<1>2. /\ cli \in Mid /\ cli.packets = <<>> /\ Sound(cli) /\ Typed \in Nat /\ Printed \in Nat
      /\ Usable(cli) /\ Minds(cli) /\ Wants(cli.chan, cli.chanreqs)
      /\ srv \in Mid /\ wire["server"] \in Seq(Item) /\ wire["client"] \in Seq(Item)
      /\ Accord(cli, srv, wire["client"], wire["server"], Typed, Printed)
      /\ Fitting(F)
  BY <1>1, ClientAt
<1>3. Printed + One(wire["client"][1].kind, "data") >= Printed
  BY <1>1, <1>2 DEF One
<1>4. cli.remwindow = 0
  BY <1>1, <1>2, AdjustRoom
<1>5. /\ b \in Mid /\ b.packets = <<>> /\ b.sent_eof = cli.sent_eof /\ b.pending_eof = cli.pending_eof
      /\ b.sent_close = cli.sent_close /\ b.outbuffer = cli.outbuffer
      /\ b.chan = cli.chan /\ b.remwindow = 1 /\ b.locwindow = cli.locwindow
      /\ b.chanreqs = cli.chanreqs /\ b.gone = cli.gone /\ b.rcvd_close = cli.rcvd_close
      /\ b.rcvd_eof = cli.rcvd_eof
  BY <1>2, <1>4, OpenedIs
<1>6. e = RecvAdjust(cli) /\ b = [cli EXCEPT !.remwindow = @ + 1]
  OBVIOUS
<1> HIDE DEF e, b, F
<1>7. Sound(b)
  BY <1>2, <1>5 DEF Sound
<1>8. Takes(cli, cli, wire["client"][1]) /\ Takes(cli, b, wire["client"][1])
  <2>1. cli.remwindow \in 0..1 /\ cli.locwindow \in 0..1 /\ cli.outbuffer \in Nat
    BY <1>2, EndTypes
  <2> QED BY <1>1, <1>4, <1>5, <2>1 DEF Takes, One, Replying
<1>9. cli \in F /\ b \in F
  BY <1>1, <1>2, <1>3, <1>5, <1>7, <1>8, ClientTakes DEF F
<1>10. e \in F /\ Keeps(cli, e) /\ e.chanreqs = cli.chanreqs
  BY <1>2, <1>6, <1>9, RecvAdjustFits
<1>11. Kin(cli, e) /\ Minds(e) /\ Waiting_same(cli, e) /\ Unasked(cli, e)
  BY <1>2, <1>10, KeepsKin DEF Unasked
<1>12. Usable(e) /\ Wants(e.chan, e.chanreqs) /\ (Hopes(cli) => Hopes(e))
  BY <1>2, <1>11, WantsSame DEF Kin, Usable
<1> QED BY <1>10, <1>11, <1>12, ClientHandled DEF F, e

\* CHANNEL_EOF at the client
LEMMA ClientEofStep ==
    ASSUME TypeOK, ExitStatusFirst, Talking, Handled("client", "eof", RecvEof(cli, setup.gui)),
           setup.gui \in BOOLEAN
    PROVE  IInv'
<1> DEFINE e == RecvEof(cli, setup.gui)
           b == Told_eof(cli)
           F == Fits(srv, Tail(wire["client"]), wire["server"], Typed, Printed)
<1>1. wire["client"] # <<>> /\ wire["client"][1].kind = "eof" /\ ~cli.gone
  BY ClientReads DEF Handled
<1>2. /\ cli \in Mid /\ cli.packets = <<>> /\ Sound(cli) /\ Typed \in Nat /\ Printed \in Nat
      /\ Usable(cli) /\ Minds(cli) /\ Wants(cli.chan, cli.chanreqs)
      /\ Fitting(F)
  BY <1>1, ClientAt
<1>3. b \in Mid /\ b.packets = <<>> /\ Sound(b) /\ Takes(cli, b, wire["client"][1])
  BY <1>1, <1>2, ToldTakes
<1>4. Printed + One(wire["client"][1].kind, "data") >= Printed
  BY <1>1, <1>2 DEF One
<1>5. b \in F
  BY <1>1, <1>2, <1>3, <1>4, ClientTakes
<1>6. e = RecvEof(cli, setup.gui) /\ b = Told_eof(cli)
  OBVIOUS
<1> HIDE DEF e, b, F
<1>7. e \in F /\ Usable(e) /\ Minds(e) /\ (Hopes(cli) => Hopes(e)) /\ Waiting_same(cli, e) /\ Unasked(cli, e)
  BY <1>2, <1>5, <1>6, ClientEofFits
<1>8. Wants(e.chan, e.chanreqs)
  BY <1>2, <1>7, WantsSame
<1> QED BY <1>7, <1>8, ClientHandled DEF F, e

\* The end that has taken a packet of data
LEMMA TakenIs ==
    ASSUME NEW c \in Mid, c.locwindow = 1, NEW b, b = [c EXCEPT !.locwindow = @ - 1]
    PROVE  /\ b \in Mid /\ b.packets = c.packets /\ b.sent_eof = c.sent_eof /\ b.pending_eof = c.pending_eof
           /\ b.sent_close = c.sent_close /\ b.outbuffer = c.outbuffer
           /\ b.chan = c.chan /\ b.remwindow = c.remwindow /\ b.locwindow = 0
           /\ b.chanreqs = c.chanreqs /\ b.gone = c.gone /\ b.rcvd_close = c.rcvd_close
           /\ b.rcvd_eof = c.rcvd_eof
<1>1. b = [c EXCEPT !.locwindow = 0]
  OBVIOUS
<1>2. 0 \in 0..1
  OBVIOUS
<1>3. b \in Mid
  BY <1>1, <1>2 DEF Mid
<1> QED BY <1>1, <1>3 DEF Mid

\* A winadj at the end of its list leaves the main channel's opinion of the others right.
LEMMA WantsLonger ==
    ASSUME NEW c \in Mid, NEW d, Longer(c, d), d.chan = c.chan, Wants(c.chan, c.chanreqs)
    PROVE  Wants(d.chan, d.chanreqs)
<1>1. c.chanreqs \in Seq(Requests)
  BY EndTypes
<1>2. CASE d.chanreqs = c.chanreqs
  BY <1>2
<1>3. CASE d.chanreqs = Append(c.chanreqs, "winadj")
  <2>1. Wants(c.chan, Append(c.chanreqs, "winadj"))
    BY <1>1, WantsMore
  <2> QED BY <1>3, <2>1
<1> QED BY <1>2, <1>3 DEF Longer

\* CHANNEL_DATA at the client
LEMMA ShowStep ==
    ASSUME TypeOK, ExitStatusFirst, Talking, NEW takes \in BOOLEAN, NEW wide \in BOOLEAN, Show(takes, wide)
    PROVE  IInv'
<1> DEFINE e == RecvData(cli, takes, wide)
           b == [cli EXCEPT !.locwindow = @ - 1]
           l == Printed - 1
           F == Fits(srv, Tail(wire["client"]), wire["server"], Typed, l)
<1>1. wire["client"] # <<>> /\ wire["client"][1].kind = "data" /\ ~cli.gone
  BY ClientReads DEF Show
<1>2. /\ cli \in Mid /\ cli.packets = <<>> /\ Sound(cli) /\ Typed \in Nat /\ Printed \in Nat
      /\ Usable(cli) /\ Minds(cli) /\ Wants(cli.chan, cli.chanreqs)
      /\ srv \in Mid /\ wire["server"] \in Seq(Item) /\ wire["client"] \in Seq(Item)
      /\ Accord(cli, srv, wire["client"], wire["server"], Typed, Printed)
  BY <1>1, ClientAt
<1>3. cli.locwindow = 1 /\ Printed >= 1
  BY <1>1, <1>2, DataRoom
<1>4. l \in Nat /\ l + One(wire["client"][1].kind, "data") >= Printed
  BY <1>1, <1>2, <1>3 DEF One
<1>5. e = RecvData(cli, takes, wide) /\ b = [cli EXCEPT !.locwindow = @ - 1]
  OBVIOUS
<1>6. /\ Effect("client", e, Tail(wire["client"]), FALSE) /\ UNCHANGED <<exitcode, announced>>
      /\ shown' = shown + 1 /\ typed' = typed /\ arrived' = arrived /\ printed' = printed /\ asides' = asides
  BY DEF Show
<1>7. Tail(wire["client"]) \in Seq(Item)
  BY <1>1, <1>2
<1>8. Fitting(F)
  BY <1>2, <1>4, <1>7, FitsFitting
<1>9. /\ b \in Mid /\ b.packets = cli.packets /\ b.sent_eof = cli.sent_eof /\ b.pending_eof = cli.pending_eof
      /\ b.sent_close = cli.sent_close /\ b.outbuffer = cli.outbuffer
      /\ b.chan = cli.chan /\ b.remwindow = cli.remwindow /\ b.locwindow = 0
      /\ b.chanreqs = cli.chanreqs /\ b.gone = cli.gone /\ b.rcvd_close = cli.rcvd_close
      /\ b.rcvd_eof = cli.rcvd_eof
  BY <1>2, <1>3, <1>5, TakenIs
<1>10. CountsType' /\ Typed' = Typed /\ Printed' = l
  <2>1. typed \in 0..MaxTyped /\ printed \in 0..MaxPrinted /\ asides \in 0..MaxAsides
        /\ arrived \in 0..typed /\ shown \in 0..printed /\ MaxPrinted \in Nat
    BY SessionAssumption DEF TypeOK
  <2>2. shown + 1 \in 0..printed /\ printed - (shown + 1) = (printed - shown) - 1
    BY <1>3, <2>1 DEF Printed
  <2> QED BY <1>6, <2>1, <2>2 DEF CountsType, Typed, Printed
<1> HIDE DEF e, b, l, F
<1>11. Sound(b)
  BY <1>2, <1>9 DEF Sound
<1>12. Takes(cli, b, wire["client"][1])
  <2>1. cli.remwindow \in 0..1 /\ cli.locwindow \in 0..1 /\ cli.outbuffer \in Nat
    BY <1>2, EndTypes
  <2> QED BY <1>1, <1>3, <1>9, <2>1 DEF Takes, One, Replying
<1>13. b \in F
  BY <1>1, <1>2, <1>4, <1>9, <1>11, <1>12, ClientTakes DEF F
<1>14. e \in F /\ Keeps(cli, e) /\ Longer(cli, e)
  BY <1>2, <1>5, <1>8, <1>13, RecvDataFits
<1>15. Kin(cli, e) /\ Minds(e)
  BY <1>2, <1>14, KeepsKin
<1>16. Usable(e) /\ Wants(e.chan, e.chanreqs) /\ (Hopes(cli) => Hopes(e))
  BY <1>2, <1>14, <1>15, WantsLonger DEF Kin, Usable, Keeps
<1>17. Noted(wire["client"]) => Noted(Tail(wire["client"]))
  BY <1>1, <1>2, NotedTail
<1>18. e \in Fits(srv, Tail(wire["client"]), wire["server"], Typed', Printed')
  BY <1>10, <1>14 DEF F
<1> QED BY <1>1, <1>6, <1>10, <1>15, <1>16, <1>17, <1>18, ClientGoesOn

\* A call at the client, between packets
LEMMA ClientActs ==
    ASSUME TypeOK, ExitStatusFirst, Talking, NEW e, Effect("client", e, wire["client"], FALSE), ~cli.gone,
           UNCHANGED <<exitcode, announced>>, CountsType', Typed' = Typed, Printed' = Printed,
           e \in Fits(srv, wire["client"], wire["server"], Typed, Printed), Usable(e), Minds(e),
           Wants(e.chan, e.chanreqs), Hopes(cli) => Hopes(e)
    PROVE  IInv'
<1>1. e \in Fits(srv, wire["client"], wire["server"], Typed', Printed')
  OBVIOUS
<1> QED BY <1>1, ClientGoesOn

\* ssh2_stdout_unthrottle
LEMMA DrainedStep ==
    ASSUME TypeOK, ExitStatusFirst, Talking, NEW wide \in BOOLEAN, Drained(wide)
    PROVE  IInv'
<1> DEFINE e == Unthrottle(cli, wide)
           F == Fits(srv, wire["client"], wire["server"], Typed, Printed)
<1>1. /\ Effect("client", e, wire["client"], FALSE) /\ UNCHANGED <<exitcode, announced>> /\ UNCHANGED counts
      /\ ~cli.gone
  BY DEF Drained
<1>2. /\ cli \in Mid /\ Usable(cli) /\ Minds(cli) /\ Wants(cli.chan, cli.chanreqs)
      /\ Fitting(F) /\ cli \in F
  BY <1>1, ClientAt
<1>3. e = Unthrottle(cli, wide)
  OBVIOUS
<1> HIDE DEF e, F
<1>4. e \in F /\ Keeps(cli, e) /\ Longer(cli, e)
  BY <1>2, <1>3, UnthrottleFits
<1>5. Kin(cli, e) /\ Minds(e)
  BY <1>2, <1>4, KeepsKin
<1>6. Usable(e) /\ Wants(e.chan, e.chanreqs) /\ (Hopes(cli) => Hopes(e))
  BY <1>2, <1>4, <1>5, WantsLonger DEF Kin, Usable, Keeps
<1>7. CountsType' /\ Typed' = Typed /\ Printed' = Printed
  BY <1>1, SameCounts
<1> QED BY <1>1, <1>4, <1>5, <1>6, <1>7, ClientActs DEF F

\* An end whose first request is about to leave the list
Trimmed(c) == [c EXCEPT !.chanreqs = Tail(@)]
Later(F) == {c \in Mid : c.chanreqs # <<>> /\ Sound(c) /\ Trimmed(c) \in F}

\* Nothing but the list changes.
LEMMA TrimmedIs ==
    ASSUME NEW c \in Mid, c.chanreqs # <<>>, Sound(c), NEW b, b = Trimmed(c)
    PROVE  /\ b \in Mid /\ Sound(b) /\ b.packets = c.packets /\ b.sent_eof = c.sent_eof
           /\ b.sent_close = c.sent_close /\ b.outbuffer = c.outbuffer
           /\ b.remwindow = c.remwindow /\ b.locwindow = c.locwindow
           /\ b.chanreqs = Tail(c.chanreqs) /\ b.gone = c.gone /\ b.rcvd_eof = c.rcvd_eof
<1> DEFINE L == Tail(c.chanreqs)
<1>1. c.chanreqs \in Seq(Requests)
  BY EndTypes
<1>2. L \in Seq(Requests)
  BY <1>1
<1>3. b = [c EXCEPT !.chanreqs = L]
  BY DEF Trimmed
<1>4. L = Tail(c.chanreqs)
  OBVIOUS
<1> HIDE DEF L
<1>5. b \in Mid
  BY <1>2, <1>3 DEF Mid
<1>6. /\ b.packets = c.packets /\ b.sent_eof = c.sent_eof /\ b.pending_eof = c.pending_eof
      /\ b.sent_close = c.sent_close /\ b.outbuffer = c.outbuffer
      /\ b.chan = c.chan /\ b.remwindow = c.remwindow /\ b.locwindow = c.locwindow
      /\ b.chanreqs = L /\ b.gone = c.gone /\ b.rcvd_eof = c.rcvd_eof
  BY <1>3 DEF Mid
<1>7. Sound(b)
  BY <1>6 DEF Sound
<1> QED BY <1>4, <1>5, <1>6, <1>7

\* The ends that fit once their first request has left the list are a fitting set.
LEMMA LaterFitting ==
    ASSUME NEW F, Fitting(F)
    PROVE  Fitting(Later(F))
<1> DEFINE G == Later(F)
<1>1. \A c \in G : c \in Mid /\ c.chanreqs # <<>> /\ Sound(c) /\ Trimmed(c) \in F
  BY DEF Later
<1>2. \A c \in Mid : c.chanreqs # <<>> /\ Sound(c) /\ Trimmed(c) \in F => c \in G
  BY DEF Later
<1> HIDE DEF G
<1>3. ASSUME NEW c \in G, NEW d \in Mid, d.packets = c.packets, Sound(d), Eases(c, d)
      PROVE  d \in G
  <2> DEFINE b == Trimmed(c)
             a == Trimmed(d)
  <2>1. c \in Mid /\ c.chanreqs # <<>> /\ Sound(c) /\ b \in F /\ d.chanreqs # <<>>
    BY <1>1, <1>3 DEF Eases
  <2>2. b = Trimmed(c) /\ a = Trimmed(d)
    OBVIOUS
  <2> HIDE DEF a, b
  <2>3. /\ b \in Mid /\ Sound(b) /\ b.packets = c.packets /\ b.sent_eof = c.sent_eof
        /\ b.sent_close = c.sent_close /\ b.outbuffer = c.outbuffer
        /\ b.remwindow = c.remwindow /\ b.locwindow = c.locwindow
        /\ b.chanreqs = Tail(c.chanreqs) /\ b.gone = c.gone /\ b.rcvd_eof = c.rcvd_eof
    BY <2>1, <2>2, TrimmedIs
  <2>4. /\ a \in Mid /\ Sound(a) /\ a.packets = d.packets /\ a.sent_eof = d.sent_eof
        /\ a.sent_close = d.sent_close /\ a.outbuffer = d.outbuffer
        /\ a.remwindow = d.remwindow /\ a.locwindow = d.locwindow
        /\ a.chanreqs = Tail(d.chanreqs) /\ a.gone = d.gone /\ a.rcvd_eof = d.rcvd_eof
    BY <1>3, <2>1, <2>2, TrimmedIs
  <2>5. a.packets = b.packets /\ Eases(b, a)
    BY <1>3, <2>3, <2>4 DEF Eases
  <2>6. a \in F
    BY <2>1, <2>4, <2>5, Changed
  <2> QED BY <1>2, <1>3, <2>1, <2>2, <2>6
<1>4. ASSUME NEW c \in G, NEW d \in Mid, NEW x \in Item, d.packets = Append(c.packets, x), Sound(d),
             Speaks(c, d, x)
      PROVE  d \in G
  <2> DEFINE b == Trimmed(c)
             a == Trimmed(d)
  <2>1. c \in Mid /\ c.chanreqs # <<>> /\ Sound(c) /\ b \in F /\ c.chanreqs \in Seq(Requests)
        /\ d.chanreqs \in Seq(Requests)
    BY <1>1, <1>4, EndTypes
  <2>2. b = Trimmed(c) /\ a = Trimmed(d)
    OBVIOUS
  <2> HIDE DEF a, b
  <2>3. /\ b \in Mid /\ Sound(b) /\ b.packets = c.packets /\ b.sent_eof = c.sent_eof
        /\ b.sent_close = c.sent_close /\ b.outbuffer = c.outbuffer
        /\ b.remwindow = c.remwindow /\ b.locwindow = c.locwindow
        /\ b.chanreqs = Tail(c.chanreqs) /\ b.gone = c.gone /\ b.rcvd_eof = c.rcvd_eof
    BY <2>1, <2>2, TrimmedIs
  <2>4. /\ d.chanreqs # <<>>
        /\ Tail(d.chanreqs) = IF x.kind = "request" THEN Append(Tail(c.chanreqs), x.req) ELSE Tail(c.chanreqs)
    <3>1. CASE x.kind # "request"
      BY <1>4, <2>1, <3>1 DEF Speaks
    <3>2. CASE x.kind = "request"
      <4>1. d.chanreqs = Append(c.chanreqs, x.req)
        BY <1>4, <3>2 DEF Speaks
      <4>2. x.req \in Requests
        <5> DEFINE L == c.chanreqs
                   S == Requests \cup Notices \cup {"none"}
        <5>1. L \in Seq(S) /\ x.req \in S
          BY <2>1 DEF Item
        <5> HIDE DEF L, S
        <5>2. Append(L, x.req)[Len(L) + 1] = x.req /\ Len(L) + 1 \in DOMAIN Append(L, x.req)
          BY <5>1
        <5>3. d.chanreqs[Len(L) + 1] = x.req /\ Len(L) + 1 \in DOMAIN d.chanreqs
          BY <4>1, <5>2 DEF L
        <5> QED BY <2>1, <5>3
      <4>3. Append(c.chanreqs, x.req) # <<>>
            /\ Tail(Append(c.chanreqs, x.req)) = Append(Tail(c.chanreqs), x.req)
        BY <2>1, <4>2, AppendIs
      <4> QED BY <3>2, <4>1, <4>3
    <3> QED BY <3>1, <3>2
  <2>5. /\ a \in Mid /\ Sound(a) /\ a.packets = d.packets /\ a.sent_eof = d.sent_eof
        /\ a.sent_close = d.sent_close /\ a.outbuffer = d.outbuffer
        /\ a.remwindow = d.remwindow /\ a.locwindow = d.locwindow
        /\ a.chanreqs = Tail(d.chanreqs) /\ a.gone = d.gone /\ a.rcvd_eof = d.rcvd_eof
    BY <1>4, <2>2, <2>4, TrimmedIs
  <2>6. a.packets = Append(b.packets, x)
    BY <1>4, <2>3, <2>5
  <2>7. Speaks(b, a, x)
    BY <1>4, <2>3, <2>4, <2>5 DEF Speaks
  <2>8. a \in F
    BY <2>1, <2>5, <2>6, <2>7, Said
  <2> QED BY <1>2, <1>4, <2>2, <2>4, <2>8
<1>5. G \subseteq Mid /\ \A c \in G : Sound(c)
  BY <1>1
<1>6. Fitting(G)
  BY <1>3, <1>4, <1>5 DEF Fitting
<1> QED BY <1>6 DEF G

\* CHANNEL_SUCCESS or CHANNEL_FAILURE at the client
LEMMA ReplyStep ==
    ASSUME TypeOK, ExitStatusFirst, Talking, NEW ok \in BOOLEAN, Reply(ok)
    PROVE  IInv'
<1> DEFINE winadj == Head(cli.chanreqs) = "winadj"
           d == IF winadj THEN cli ELSE Responded(cli, ok)
           e == Answered(d)
           abort == ~winadj /\ GivesUp(cli, ok)
           V == wire["client"]
           F == Fits(srv, Tail(V), wire["server"], Typed, Printed)
           b == Trimmed(cli)
<1>1. V # <<>> /\ V[1].kind \in Replying /\ ~cli.gone /\ cli.chanreqs # <<>>
      /\ V[1].kind \notin {"close", "data", "adjust", "request", "notice", "eof"}
  BY ClientReads DEF Reply, Replying
<1>2. /\ Effect("client", e, Tail(V), abort) /\ UNCHANGED <<exitcode, announced>> /\ UNCHANGED counts
  BY DEF Reply
<1>3. /\ cli \in Mid /\ cli.packets = <<>> /\ Sound(cli) /\ Typed \in Nat /\ Printed \in Nat
      /\ Usable(cli) /\ Minds(cli) /\ Wants(cli.chan, cli.chanreqs) /\ Expects(cli)
      /\ V \in Seq(Item) /\ cli.chanreqs \in Seq(Requests)
      /\ Fitting(F)
  BY <1>1, ClientAt, EndTypes
<1>4. abort \in BOOLEAN
  BY DEF GivesUp
<1>5. Printed + One(V[1].kind, "data") >= Printed
  BY <1>1, <1>3 DEF One
<1>6. b = Trimmed(cli) /\ (winadj => d = cli) /\ (~winadj => d = Responded(cli, ok)) /\ e = Answered(d)
  OBVIOUS
<1>7. winadj <=> cli.chanreqs[1] = "winadj"
  BY <1>1, <1>3
<1> HIDE DEF winadj, d, e, abort, F, b
<1>8. /\ b \in Mid /\ Sound(b) /\ b.packets = cli.packets /\ b.sent_eof = cli.sent_eof
      /\ b.sent_close = cli.sent_close /\ b.outbuffer = cli.outbuffer
      /\ b.remwindow = cli.remwindow /\ b.locwindow = cli.locwindow
      /\ b.chanreqs = Tail(cli.chanreqs) /\ b.gone = cli.gone /\ b.rcvd_eof = cli.rcvd_eof
  BY <1>1, <1>3, <1>6, TrimmedIs
<1>9. Takes(cli, b, V[1])
  <2>1. cli.remwindow \in 0..1 /\ cli.locwindow \in 0..1 /\ cli.outbuffer \in Nat
    BY <1>3, EndTypes
  <2> QED BY <1>1, <1>8, <2>1 DEF Takes, One
<1>10. b \in F
  BY <1>1, <1>3, <1>5, <1>8, <1>9, ClientTakes DEF F
<1>11. cli \in Later(F)
  BY <1>1, <1>3, <1>6, <1>10 DEF Later
<1>12. d \in Later(F) /\ Kin(cli, d) /\ Minds(d) /\ Usable(d) /\ Wants(d.chan, Tail(d.chanreqs))
  <2>1. CASE winadj
    <3>1. Wants(cli.chan, Tail(cli.chanreqs))
      BY <1>1, <1>3, <1>7, <2>1, WantsLess
    <3> QED BY <1>3, <1>6, <1>11, <2>1, <3>1 DEF Kin
  <2>2. CASE ~winadj
    <3>1. d \in Later(F) /\ Kin(cli, d) /\ Minds(d) /\ Settles(cli, d)
      BY <1>3, <1>6, <1>11, <2>2, LaterFitting, RespondedFits
    <3>2. Usable(d)
      BY <1>3, <3>1 DEF Kin, Usable
    <3>3. Wants(d.chan, Tail(d.chanreqs))
      <4>1. d \in Mid /\ cli.chan \in Main /\ d.chan \in Main
        BY <1>3, <3>1 DEF Later, Minds
      <4> QED BY <1>1, <1>3, <1>7, <2>2, <3>1, <4>1, WantsSettled
    <3> QED BY <3>1, <3>2, <3>3
  <2> QED BY <2>1, <2>2
<1>13. d \in Mid /\ [d EXCEPT !.chanreqs = Tail(@)] \in F
  BY <1>12 DEF Later, Trimmed
<1>14. e \in F /\ Keeps(d, e) /\ e.chanreqs = Tail(d.chanreqs)
  BY <1>3, <1>6, <1>12, <1>13, AnsweredFits
<1>15. Kin(d, e) /\ Minds(e) /\ e.chan = d.chan
  BY <1>12, <1>14, KeepsKin DEF Keeps
<1>16. Kin(cli, e)
  BY <1>12, <1>15, KinTransitive
<1>17. Usable(e) /\ Wants(e.chan, e.chanreqs) /\ (Hopes(cli) => Hopes(e))
  BY <1>3, <1>12, <1>14, <1>15, <1>16 DEF Kin, Usable
<1>18. CountsType' /\ Typed' = Typed /\ Printed' = Printed
  BY <1>2, SameCounts
<1>19. Noted(V) => Noted(Tail(V))
  BY <1>1, <1>3, NotedTail
<1>20. e \in Fits(srv, Tail(wire["client"]), wire["server"], Typed', Printed')
  BY <1>14, <1>18 DEF F
<1> QED BY <1>1, <1>2, <1>4, <1>15, <1>17, <1>18, <1>19, <1>20, ClientGoesOn

\* The server has said that the process finished, once it has sent CLOSE.
LEMMA ServerOver ==
    ASSUME TypeOK, Talking, srv.gone \/ srv.sent_close
    PROVE  Over(srv)
<1>1. CASE srv = Gone
  BY <1>1, GoneIs DEF Over
<1>2. CASE srv # Gone
  <2>1. ~srv.gone /\ Sound(srv) /\ (Ended(srv) => Over(srv))
    BY <1>2 DEF Talking, ServerSteady, Steady, Usable
  <2> QED BY <2>1 DEF Sound, Ended
<1> QED BY <1>1, <1>2

\* CHANNEL_CLOSE at the client
LEMMA ClientCloseStep ==
    ASSUME TypeOK, ExitStatusFirst, Talking, ClientClose, setup.gui \in BOOLEAN
    PROVE  IInv'
<1> DEFINE c == ImpliedEof(cli, setup.gui)
           d == Cancelled(c)
           e == FinishClose(d)
           abort == c.chan.vt = "main" /\ c.chan.req_cmd # "none"
           V == wire["client"]
           F == Fits(srv, <<>>, wire["server"], Typed, Printed)
           b == Told_eof(cli)
<1>1. V # <<>> /\ V[1].kind = "close" /\ ~cli.gone
  BY ClientReads DEF ClientClose
<1>2. /\ Effect("client", e, Tail(V), abort) /\ UNCHANGED <<exitcode, announced>> /\ UNCHANGED counts
  BY DEF ClientClose
<1>3. /\ cli \in Mid /\ cli.packets = <<>> /\ Sound(cli) /\ Typed \in Nat /\ Printed \in Nat
      /\ Usable(cli) /\ Minds(cli) /\ Expects(cli) /\ srv \in Mid /\ wire["server"] \in Seq(Item)
      /\ V \in Seq(Item) /\ Accord(cli, srv, V, wire["server"], Typed, Printed)
  BY <1>1, ClientAt
<1>4. CloseLast(V) /\ Marks(srv, V)
  BY <1>3 DEF Accord, Link
<1>5. Tail(V) = <<>> /\ Len(V) = 1 /\ 1 \in DOMAIN V
  BY <1>1, <1>3, <1>4, CloseIsLast, TailIs
<1>6. srv.gone \/ srv.sent_close
  BY <1>1, <1>4, <1>5 DEF Marks
<1>7. abort \in BOOLEAN
  OBVIOUS
<1>8. Printed + One(V[1].kind, "data") >= Printed
  BY <1>1, <1>3 DEF One
<1>9. d = Cancelled(ImpliedEof(cli, setup.gui)) /\ e = FinishClose(d) /\ b = Told_eof(cli)
  OBVIOUS
<1> HIDE DEF c, d, e, abort, F, b
<1>10. b \in Mid /\ b.packets = <<>> /\ Sound(b) /\ Takes(cli, b, V[1])
  BY <1>1, <1>3, <1>9, ToldTakes
<1>11. b \in F
  BY <1>1, <1>3, <1>5, <1>8, <1>10, ClientTakes DEF F
<1>12. Fitting(F)
  BY <1>3, FitsFitting DEF F
<1>13. d \in F /\ Usable(d) /\ d.chan \in Main /\ d.rcvd_eof
  BY <1>3, <1>9, <1>11, <1>12, ClientCloseFits
<1>14. /\ e.gone /\ e.fault = "none" /\ e.packets \in Seq(Item)
       /\ Accord(Gone, srv, <<>>, wire["server"] \o e.packets, Typed, Printed)
  BY <1>3, <1>6, <1>9, <1>13, FinishCloseFits DEF F
<1>15. exitcode
  <2>1. Over(srv)
    BY <1>6, ServerOver
  <2>2. DOMAIN V = {1}
    BY <1>3, <1>5
  <2>3. ~Noted(V)
    BY <1>1, <2>2 DEF Noted
  <2> QED BY <2>1, <2>3 DEF Talking, Told, Noted
<1>16. CountsType' /\ Typed' = Typed /\ Printed' = Printed
  BY <1>2, SameCounts
<1>17. exitcode' /\ announced' = announced
  BY <1>2, <1>15
<1>18. DEFINE m == Typed'
              n == Printed'
<1>19. m \in Nat /\ n \in Nat /\ m = Typed' /\ n = Printed'
       /\ Accord(Gone, srv, <<>>, wire["server"] \o e.packets, m, n)
  BY <1>3, <1>14, <1>16
<1> HIDE DEF m, n
<1>20. Effect("client", e, <<>>, abort)
  BY <1>2, <1>5
<1>21. /\ Talking' /\ EndsType' /\ setup' = setup /\ fault' = NoFault
       /\ conn' = "closing" \/ conn' = "aborting" \/ (conn' = conn /\ conn # "up")
  BY <1>7, <1>14, <1>17, <1>19, <1>20, ClientGone
<1>22. TypeOK'
  BY <1>2, <1>16, <1>17, <1>21 DEF TypeOK, EndsType, CountsType
<1>23. ExitStatusFirst' /\ OtherAssertionsHold'
  BY <1>17, <1>21 DEF ExitStatusFirst, OtherAssertionsHold
<1> QED BY <1>21, <1>22, <1>23 DEF IInv

--------------------------------------------------------------------------------
(* The user's steps. *)

\* Two queues of packets make one.
LEMMA MessagesJoined ==
    ASSUME NEW w \in Seq(Message), NEW q \in Seq(Message)
    PROVE  w \o q \in Seq(Message)
  OBVIOUS

\* A call in which one of the assertions fails that may fail stops the program, and the model.
LEMMA FailedStep ==
    ASSUME TypeOK, ExitStatusFirst, NEW p \in Sides, NEW e, NEW rest \in Seq(Message),
           Effect(p, e, rest, FALSE), ~e.gone, NEW d \in End, d = Settled(e), e.packets \in Seq(Message), CountsType',
           e.fault # "none", exitcode' = exitcode, announced' = announced,
           \/ p = "client" /\ e.fault \in {"request on a closed channel", "remote id not set",
                                           "data written after EOF"}
           \/ p = "server" /\ e.fault = "signal without a backend"
    PROVE  IInv'
<1>1. /\ ends \in [Sides -> End \cup {Gone}] /\ wire \in [Sides -> Seq(Message)]
      /\ Other(p) \in Sides /\ Other(p) # p
  BY DEF TypeOK, Sides, Other
<1>3. /\ ends' = [ends EXCEPT ![p] = d]
      /\ wire' = [wire EXCEPT ![p] = rest, ![Other(p)] = @ \o e.packets]
      /\ fault' = [at |-> p, what |-> e.fault] /\ setup' = setup /\ conn' = conn
  <2>1. conn' = conn
    BY DEF Effect
  <2> QED BY <2>1 DEF Effect
<1>4. ends' \in [Sides -> End \cup {Gone}]
  BY <1>1, <1>3
<1>5. wire' \in [Sides -> Seq(Message)]
  <2>1. wire[Other(p)] \o e.packets \in Seq(Message)
    BY <1>1, MessagesJoined
  <2>2. wire' = [wire EXCEPT ![p] = rest, ![Other(p)] = wire[Other(p)] \o e.packets]
    BY <1>1, <1>3
  <2> QED BY <1>1, <2>1, <2>2
<1>6. TypeOK'
  BY <1>3, <1>4, <1>5 DEF TypeOK, CountsType
<1>7. ExitStatusFirst'
  BY <1>3 DEF ExitStatusFirst
<1>8. OtherAssertionsHold'
  BY <1>3 DEF OtherAssertionsHold
<1>9. fault'.what # "none" /\ NoFault.what = "none"
  BY <1>3 DEF NoFault
<1>10. ~Running'
  BY <1>9 DEF Running
<1> QED BY <1>6, <1>7, <1>8, <1>10 DEF IInv

\* A request that wants no reply, sent on a channel that the client has closed
LEMMA TooLate ==
    ASSUME NEW c \in Mid, c.packets = <<>>, Usable(c), c.sent_close, NEW req \in Notices,
           NEW e, e = SendRequest(c, req, FALSE)
    PROVE  ~e.gone /\ Settled(e) \in End /\ e.packets \in Seq(Message)
           /\ e.fault = "request on a closed channel"
<1> DEFINE x == Packet("notice", req)
           q == Append(c.packets, x)
<1>1. c.fault = "none" /\ ~c.gone
  BY EndTypes DEF Usable
<1>2. e = [[c EXCEPT !.fault = "request on a closed channel"] EXCEPT !.packets = q]
  BY <1>1 DEF SendRequest, Assert, Push
<1>3. x \in Message
  BY DEF Packet, Message, Notices
<1>4. q \in Seq(Message)
  BY <1>3
<1> HIDE DEF q, x
<1>5. ~e.gone /\ e.packets = q /\ e.fault = "request on a closed channel"
  BY <1>1, <1>2 DEF Mid
<1>6. Settled(e) = c
  BY <1>1, <1>2 DEF Settled, Mid
<1>7. c \in End
  BY <1>1, MidIsEnd
<1> QED BY <1>4, <1>5, <1>6, <1>7

\* A change of the terminal size, a break or a signal
LEMMA AsideStep ==
    ASSUME TypeOK, ExitStatusFirst, Talking, NEW req \in Notices, ~cli.gone,
           Effect("client", SendRequest(cli, req, FALSE), wire["client"], FALSE),
           asides < MaxAsides, asides' = asides + 1,
           UNCHANGED <<exitcode, announced, typed, arrived, printed, shown>>
    PROVE  IInv'
<1> DEFINE e == SendRequest(cli, req, FALSE)
           F == Fits(srv, wire["client"], wire["server"], Typed, Printed)
<1>1. e = SendRequest(cli, req, FALSE)
  OBVIOUS
<1>2. /\ cli \in Mid /\ Usable(cli) /\ Minds(cli) /\ Wants(cli.chan, cli.chanreqs) /\ cli.packets = <<>>
      /\ Fitting(F) /\ cli \in F
  BY ClientAt
<1>3. CountsType' /\ Typed' = Typed /\ Printed' = Printed
  <2>1. asides + 1 \in 0..MaxAsides
    BY SessionAssumption DEF TypeOK
  <2> QED BY <2>1 DEF TypeOK, CountsType, Typed, Printed
<1> HIDE DEF e, F
<1>4. Effect("client", e, wire["client"], FALSE)
  BY DEF e
<1>5. CASE cli.sent_close
  <2>1. ~e.gone /\ Settled(e) \in End /\ e.packets \in Seq(Message) /\ e.fault = "request on a closed channel"
    BY <1>1, <1>2, <1>5, TooLate
  <2>2. "client" \in Sides /\ wire["client"] \in Seq(Message)
    BY DEF Sides, TypeOK
  <2> QED BY <1>3, <1>4, <2>1, <2>2, FailedStep
<1>6. CASE ~cli.sent_close
  <2>1. e \in F /\ Keeps(cli, e) /\ Tells(cli, e, req)
    BY <1>1, <1>2, <1>6, NoticeFits
  <2>2. Kin(cli, e) /\ Minds(e)
    BY <1>2, <2>1, KeepsKin
  <2>3. Usable(e) /\ Wants(e.chan, e.chanreqs) /\ (Hopes(cli) => Hopes(e))
    BY <1>2, <2>1, <2>2 DEF Kin, Usable, Keeps, Tells
  <2> QED BY <1>3, <1>4, <2>1, <2>2, <2>3, ClientActs DEF F
<1> QED BY <1>5, <1>6

\* mainchan_terminal_size
LEMMA ResizeStep ==
    ASSUME TypeOK, ExitStatusFirst, Talking, Resize
    PROVE  IInv'
<1>1. "aside" \in Notices
  BY DEF Notices
<1> QED BY <1>1, AsideStep DEF Resize

\* mainchan_special_cmd with SS_BRK or a signal
LEMMA SpecialStep ==
    ASSUME TypeOK, ExitStatusFirst, Talking, Special
    PROVE  IInv'
<1>1. ~cli.gone
  BY DEF Special
<1>2. cli.fault = "none" /\ ~cli.halfopen
  BY <1>1, ClientAt, EndTypes
<1>3. Assert(cli, ~cli.halfopen, "remote id not set") = cli
  BY <1>1, <1>2 DEF Assert
<1>4. PICK req \in {"aside", "signal"} :
           Effect("client", SendRequest(cli, req, FALSE), wire["client"], FALSE)
  BY <1>3 DEF Special
<1>5. req \in Notices
  BY DEF Notices
<1> QED BY <1>1, <1>4, <1>5, AsideStep DEF Special

\* SS_EOF
LEMMA AnnounceStep ==
    ASSUME TypeOK, ExitStatusFirst, Talking, Announce
    PROVE  IInv'
<1> DEFINE e == SpecialEof(cli)
           F == Fits(srv, wire["client"], wire["server"], Typed, Printed)
<1>1. e = SpecialEof(cli)
  OBVIOUS
<1>2. /\ Effect("client", e, wire["client"], FALSE) /\ announced' = TRUE /\ exitcode' = exitcode
      /\ UNCHANGED counts /\ ~cli.gone
  BY DEF Announce
<1>3. /\ cli \in Mid /\ Usable(cli) /\ Minds(cli) /\ Wants(cli.chan, cli.chanreqs)
      /\ Fitting(F) /\ cli \in F /\ Typed \in Nat /\ Printed \in Nat
  BY <1>2, ClientAt
<1> HIDE DEF e, F
<1>4. e \in F /\ Kin(cli, e) /\ Minds(e) /\ Hopes(e) /\ Waiting_same(cli, e) /\ Unasked(cli, e)
  BY <1>1, <1>3, SpecialEofFits
<1>5. Usable(e) /\ Wants(e.chan, e.chanreqs)
  BY <1>3, <1>4, WantsSame DEF Usable, Kin
<1>6. CountsType' /\ Typed' = Typed /\ Printed' = Printed
  BY <1>2, SameCounts
<1>7. Over(srv) => exitcode' \/ Noted(wire["client"])
  BY <1>2 DEF Talking, Told, Noted
<1>8. Talking' /\ EndsType' /\ setup' = setup /\ conn' \in {conn, "aborting"} /\ fault' = NoFault
  <2>1. e \in Fits(srv, wire["client"], wire["server"], Typed, Printed)
    BY <1>4 DEF F
  <2> QED BY <1>2, <1>3, <1>4, <1>5, <1>6, <1>7, <2>1, ClientEffect
<1> QED BY <1>2, <1>6, <1>8, Onwards DEF TypeOK

\* ssh_sw_abort or ssh2_check_termination, at last
LEMMA CallbackStep ==
    ASSUME TypeOK, ExitStatusFirst, OtherAssertionsHold, Callback
    PROVE  IInv'
<1>1. /\ ends' = ends /\ wire' = wire /\ exitcode' = exitcode /\ announced' = announced
      /\ typed' = typed /\ arrived' = arrived /\ printed' = printed /\ shown' = shown /\ asides' = asides
      /\ fault' = fault /\ setup' = setup
      /\ \/ conn = "closing" /\ conn' = "closed"
         \/ conn' = "aborted"
  BY DEF Callback, counts
<1>2. TypeOK'
  BY <1>1 DEF TypeOK
<1>3. ExitStatusFirst'
  BY <1>1 DEF ExitStatusFirst
<1>4. OtherAssertionsHold'
  BY <1>1 DEF OtherAssertionsHold
<1>5. ~Running'
  BY <1>1 DEF Running
<1> QED BY <1>2, <1>3, <1>4, <1>5 DEF IInv

\* The end that is given a packet of data to send
LEMMA WrittenIs ==
    ASSUME NEW c \in Mid, NEW b, b = [c EXCEPT !.outbuffer = @ + 1]
    PROVE  /\ b \in Mid /\ b.packets = c.packets /\ b.sent_eof = c.sent_eof /\ b.pending_eof = c.pending_eof
           /\ b.sent_close = c.sent_close /\ b.outbuffer = c.outbuffer + 1
           /\ b.chan = c.chan /\ b.remwindow = c.remwindow /\ b.locwindow = c.locwindow
           /\ b.chanreqs = c.chanreqs /\ b.gone = c.gone /\ b.rcvd_close = c.rcvd_close
           /\ b.rcvd_eof = c.rcvd_eof /\ [b EXCEPT !.outbuffer = c.outbuffer] = c
<1> DEFINE n == c.outbuffer + 1
<1>1. n \in Nat
  BY EndTypes
<1>2. b = [c EXCEPT !.outbuffer = n] /\ n = c.outbuffer + 1
  OBVIOUS
<1> HIDE DEF n
<1>3. b \in Mid
  BY <1>1, <1>2 DEF Mid
<1>4. [b EXCEPT !.outbuffer = c.outbuffer] = c
  BY <1>2 DEF Mid
<1> QED BY <1>2, <1>3, <1>4 DEF Mid

\* ssh2channel_write, of one packet
LEMMA WriteFits ==
    ASSUME NEW D \in Mid, NEW V \in Seq(Item), NEW W \in Seq(Item), NEW m \in Nat, NEW n \in Nat,
           NEW c \in Mid, c.packets = <<>>, Sound(c), Accord(c, D, V, W, m, n), Usable(c), ~c.sent_eof,
           NEW e, e = Write(c)
    PROVE  /\ e \in Fits(D, V, W, m + 1, n) /\ Keeps(c, e) /\ Quiet(c, e) /\ Unasked(c, e)
<1> DEFINE b == [c EXCEPT !.outbuffer = @ + 1]
           F == Fits(D, V, W, m + 1, n)
<1>1. b = [c EXCEPT !.outbuffer = @ + 1]
  OBVIOUS
<1>2. e = TrySend(b)
  <2>1. c.fault = "none" /\ ~c.gone
    BY EndTypes DEF Usable
  <2> QED BY <2>1 DEF Write, Assert
<1>3. Fitting(F)
  BY FitsFitting
<1> HIDE DEF b
<1>4. /\ b \in Mid /\ b.packets = c.packets /\ b.sent_eof = c.sent_eof /\ b.pending_eof = c.pending_eof
      /\ b.sent_close = c.sent_close /\ b.outbuffer = c.outbuffer + 1
      /\ b.chan = c.chan /\ b.remwindow = c.remwindow /\ b.locwindow = c.locwindow
      /\ b.chanreqs = c.chanreqs /\ b.gone = c.gone /\ b.rcvd_close = c.rcvd_close
      /\ b.rcvd_eof = c.rcvd_eof /\ [b EXCEPT !.outbuffer = c.outbuffer] = c
  BY <1>1, WrittenIs, ZenonT(60)
<1>5. Eases(c, [b EXCEPT !.outbuffer = c.outbuffer])
  <2>1. c.remwindow \in 0..1 /\ c.locwindow \in 0..1 /\ c.outbuffer \in Nat
    BY EndTypes
  <2>2. Eases(c, c)
    BY <2>1 DEF Eases
  <2> QED BY <1>4, <2>2
<1>6. Accord(b, D, V, W, m + 1, n)
  BY <1>4, <1>5, WriteAccord
<1>7. Sound(b) /\ Usable(b)
  BY <1>4 DEF Sound, Usable
<1>8. b \in F
  BY <1>4, <1>6, <1>7, FitsPlain
<1> HIDE DEF F
<1>9. e \in F /\ Keeps(b, e) /\ Quiet(b, e) /\ e.chanreqs = b.chanreqs
  BY <1>2, <1>3, <1>4, <1>7, <1>8, TrySendFits
<1>10. Keeps(c, e) /\ Quiet(c, e) /\ Unasked(c, e)
  BY <1>4, <1>9 DEF Keeps, Quiet, Unasked, Ended, Over
<1> QED BY <1>9, <1>10 DEF F

\* Data written on a channel on which the client has sent EOF
LEMMA WrittenTooLate ==
    ASSUME NEW c \in Mid, c.packets = <<>>, Usable(c), c.sent_eof, ~c.pending_eof, NEW e, e = Write(c)
    PROVE  ~e.gone /\ Settled(e) \in End /\ e.packets \in Seq(Message)
           /\ e.fault = "data written after EOF"
<1> DEFINE f == [c EXCEPT !.fault = "data written after EOF"]
           n == c.outbuffer + 1
           b == [f EXCEPT !.outbuffer = n]
           x == Packet("data", "none")
           q == Append(c.packets, x)
           r == c.remwindow - 1
           s == [b EXCEPT !.packets = q, !.outbuffer = c.outbuffer, !.remwindow = r]
<1>1. /\ c.fault = "none" /\ ~c.gone /\ ~c.halfopen /\ c.outbuffer \in Nat /\ c.remwindow \in 0..1
      /\ n \in Nat /\ n > 0 /\ n - 1 = c.outbuffer
  BY EndTypes DEF Usable
<1>2. b = [Assert(c, ~c.sent_eof, "data written after EOF") EXCEPT !.outbuffer = @ + 1]
  BY <1>1 DEF Assert, Mid
<1>3. x \in Message
  BY DEF Packet, Message
<1>4. q \in Seq(Message) /\ <<>> \in Seq(Message)
  BY <1>3
<1> HIDE DEF q, n, x
<1>5. /\ b.fault = "data written after EOF" /\ ~b.gone /\ ~b.halfopen /\ ~b.pending_eof
      /\ b.outbuffer = n /\ b.remwindow = c.remwindow /\ b.packets = c.packets
  BY <1>1 DEF Mid
<1>6. e = IF c.remwindow > 0 THEN s ELSE b
  <2>1. MaySend(b) <=> c.remwindow > 0
    BY <1>1, <1>5 DEF MaySend
  <2>2. [Push(b, "data", "none") EXCEPT !.outbuffer = @ - 1, !.remwindow = @ - 1] = s
    BY <1>1, <1>5 DEF Push, q, x, Mid
  <2>3. ~s.pending_eof
    BY <1>5 DEF Mid
  <2> QED BY <1>2, <1>5, <2>1, <2>2, <2>3 DEF Write, TrySend
<1>7. c.remwindow > 0 => r \in 0..1
  BY <1>1
<1>8. CASE c.remwindow > 0
  <2>1. e = s
    BY <1>6, <1>8
  <2>2. ~e.gone /\ e.packets = q /\ e.fault = "data written after EOF"
    BY <1>1, <2>1 DEF Mid
  <2> DEFINE d == [c EXCEPT !.remwindow = r]
  <2>3. Settled(e) = d
    BY <1>1, <2>1, ZenonT(60) DEF Settled, Mid
  <2>4. d \in Mid /\ d.packets = <<>> /\ ~d.gone
    BY <1>1, <1>7, <1>8 DEF Mid
  <2> HIDE DEF d
  <2>5. d \in End
    BY <2>4, MidIsEnd
  <2> QED BY <1>4, <2>2, <2>3, <2>5
<1>9. CASE ~(c.remwindow > 0)
  <2>1. e = b
    BY <1>6, <1>9
  <2>2. ~e.gone /\ e.packets = <<>> /\ e.fault = "data written after EOF"
    BY <1>1, <1>5, <2>1
  <2> DEFINE d == [c EXCEPT !.outbuffer = n]
  <2>3. Settled(e) = d
    BY <1>1, <2>1 DEF Settled, Mid
  <2>4. d \in Mid /\ d.packets = <<>> /\ ~d.gone
    BY <1>1 DEF Mid
  <2> HIDE DEF d
  <2>5. d \in End
    BY <2>4, MidIsEnd
  <2> QED BY <1>4, <2>2, <2>3, <2>5
<1> QED BY <1>8, <1>9

\* ssh_send
LEMMA TypeStep ==
    ASSUME TypeOK, ExitStatusFirst, Talking, Type
    PROVE  IInv'
<1> DEFINE e == Write(cli)
<1>1. e = Write(cli)
  OBVIOUS
<1>2. /\ Effect("client", e, wire["client"], FALSE) /\ ~cli.gone /\ UNCHANGED <<exitcode, announced>>
      /\ typed < MaxTyped /\ typed' = typed + 1 /\ arrived' = arrived /\ printed' = printed
      /\ shown' = shown /\ asides' = asides
  BY DEF Type
<1>3. /\ cli \in Mid /\ Usable(cli) /\ Minds(cli) /\ Wants(cli.chan, cli.chanreqs) /\ cli.packets = <<>>
      /\ Sound(cli) /\ Typed \in Nat /\ Printed \in Nat /\ srv \in Mid
      /\ wire["server"] \in Seq(Item) /\ wire["client"] \in Seq(Item)
      /\ Accord(cli, srv, wire["client"], wire["server"], Typed, Printed)
  BY <1>2, ClientAt
<1>4. CountsType' /\ Typed' = Typed + 1 /\ Printed' = Printed
  <2>1. typed \in 0..MaxTyped /\ printed \in 0..MaxPrinted /\ asides \in 0..MaxAsides
        /\ arrived \in 0..typed /\ shown \in 0..printed /\ MaxTyped \in Nat
    BY SessionAssumption DEF TypeOK
  <2>2. typed + 1 \in 0..MaxTyped /\ arrived \in 0..(typed + 1) /\ (typed + 1) - arrived = (typed - arrived) + 1
    BY <1>2, <2>1
  <2> QED BY <1>2, <2>1, <2>2 DEF CountsType, Typed, Printed
<1> HIDE DEF e
<1>5. CASE cli.sent_eof
  <2>1. ~cli.pending_eof
    BY <1>3, <1>5 DEF Sound, Minds
  <2>2. ~e.gone /\ Settled(e) \in End /\ e.packets \in Seq(Message) /\ e.fault = "data written after EOF"
    BY <1>1, <1>3, <1>5, <2>1, WrittenTooLate
  <2>3. "client" \in Sides /\ wire["client"] \in Seq(Message)
    BY DEF Sides, TypeOK
  <2> QED BY <1>2, <1>4, <2>2, <2>3, FailedStep
<1>6. CASE ~cli.sent_eof
  <2>1. e \in Fits(srv, wire["client"], wire["server"], Typed + 1, Printed) /\ Keeps(cli, e) /\ Unasked(cli, e)
    BY <1>1, <1>3, <1>6, WriteFits
  <2>2. Kin(cli, e) /\ Minds(e) /\ Waiting_same(cli, e)
    BY <1>3, <2>1, KeepsKin
  <2>3. Usable(e) /\ Wants(e.chan, e.chanreqs) /\ (Hopes(cli) => Hopes(e))
    BY <1>3, <2>1, <2>2, WantsSame DEF Kin, Usable
  <2>4. e \in Fits(srv, wire["client"], wire["server"], Typed', Printed')
    BY <1>4, <2>1
  <2> QED BY <1>2, <1>4, <2>2, <2>3, <2>4, ClientGoesOn
<1> QED BY <1>5, <1>6

--------------------------------------------------------------------------------
(* The server's steps. *)

\* A packet that the server reads finds its channel.
LEMMA ServerReads ==
    ASSUME TypeOK, Talking, NEW kind, Arrives("server", kind)
    PROVE  /\ wire["server"] # <<>> /\ wire["server"][1].kind = kind /\ wire["server"][1] \in Item
           /\ ~srv.gone
<1>1. wire["server"] \in Seq(Item) /\ Accord(cli, srv, wire["client"], wire["server"], Typed, Printed)
  BY TalkingIs
<1>2. wire["server"] # <<>> /\ wire["server"][1].kind = kind
  BY DEF Arrives
<1>3. wire["server"][1] \in Item
  BY <1>1, <1>2, TailIs
<1>4. ~srv.gone
  BY <1>1, <1>2 DEF Accord, Link
<1> QED BY <1>2, <1>3, <1>4

\* What the server knows of its end
LEMMA ServerAt ==
    ASSUME TypeOK, Talking, ~srv.gone
    PROVE  /\ srv \in Mid /\ srv.packets = <<>> /\ Sound(srv) /\ Typed \in Nat /\ Printed \in Nat
           /\ Usable(srv) /\ Serves(srv) /\ Winadjs(srv.chanreqs) /\ (Ended(srv) => Over(srv))
           /\ srv.chan \notin Main
           /\ cli \in Mid /\ wire["server"] \in Seq(Item) /\ wire["client"] \in Seq(Item)
           /\ Accord(srv, cli, wire["server"], wire["client"], Printed, Typed)
           /\ Fitting(Fits(cli, wire["server"], wire["client"], Printed, Typed))
           /\ Fitting(Fits(cli, Tail(wire["server"]), wire["client"], Printed, Typed))
           /\ srv \in Fits(cli, wire["server"], wire["client"], Printed, Typed)
<1>1. /\ srv \in Mid /\ srv.packets = <<>> /\ Sound(srv) /\ Typed \in Nat /\ Printed \in Nat
      /\ Usable(srv) /\ Serves(srv) /\ Winadjs(srv.chanreqs) /\ (Ended(srv) => Over(srv))
      /\ srv.chan \notin Main
      /\ cli \in Mid /\ wire["server"] \in Seq(Item) /\ wire["client"] \in Seq(Item)
      /\ Accord(srv, cli, wire["server"], wire["client"], Printed, Typed)
  BY TalkingIs
<1> QED BY <1>1, FitsFitting, FitsPlain

\* What the server's end becomes as it takes the packet
LEMMA ServerTakes ==
    ASSUME TypeOK, Talking, wire["server"] # <<>>,
           NEW b \in Mid, b.packets = <<>>, Sound(b), Takes(srv, b, wire["server"][1]),
           NEW l \in Nat, l + One(wire["server"][1].kind, "data") >= Typed
    PROVE  b \in Fits(cli, Tail(wire["server"]), wire["client"], Printed, l)
<1>1. /\ Typed \in Nat /\ Printed \in Nat /\ srv \in Mid /\ cli \in Mid /\ Sound(cli)
      /\ wire["client"] \in Seq(Item)
      /\ Accord(srv, cli, wire["server"], wire["client"], Printed, Typed)
  BY TalkingIs
<1>2. Accord(b, cli, Tail(wire["server"]), wire["client"], Printed, l)
  BY <1>1, TakeAccord
<1> QED BY <1>1, <1>2, FitsPlain

\* A call at the server that leaves its end open
LEMMA ServerGoesOn ==
    ASSUME TypeOK, ExitStatusFirst, Talking, NEW e, NEW rest, Effect("server", e, rest, FALSE),
           UNCHANGED <<exitcode, announced>>, CountsType',
           e \in Fits(cli, rest, wire["client"], Printed', Typed'), Usable(e), Serves(e),
           Winadjs(e.chanreqs), Ended(e) => Over(e), Over(e) => Over(srv) \/ Noted(e.packets)
    PROVE  IInv'
<1>1. Typed' \in Nat /\ Printed' \in Nat
  <2>1. typed' \in Nat /\ arrived' \in 0..typed' /\ printed' \in Nat /\ shown' \in 0..printed'
    BY DEF CountsType
  <2>2. typed' - arrived' \in Nat /\ printed' - shown' \in Nat
    <3>1. \A a \in Nat : \A b \in 0..a : a - b \in Nat
      OBVIOUS
    <3> QED BY <2>1, <3>1
  <2> QED BY <2>2 DEF Typed, Printed
<1>2. DEFINE m == Typed'
             n == Printed'
<1>3. m \in Nat /\ n \in Nat /\ m = Typed' /\ n = Printed'
  BY <1>1
<1>4. e \in Fits(cli, rest, wire["client"], n, m)
  OBVIOUS
<1> HIDE DEF m, n
<1>5. exitcode' = exitcode /\ announced' = announced /\ announced' \in BOOLEAN /\ exitcode' \in BOOLEAN
  BY DEF TypeOK
<1>6. Talking' /\ EndsType' /\ setup' = setup /\ conn' = conn /\ fault' = NoFault
  BY <1>3, <1>4, <1>5, ServerStays
<1> QED BY <1>5, <1>6, Onwards

\* What is left to prove of a packet that changes only the server's end
LEMMA ServerHandled ==
    ASSUME TypeOK, ExitStatusFirst, Talking, NEW kind, NEW e, Handled("server", kind, e),
           e \in Fits(cli, Tail(wire["server"]), wire["client"], Printed, Typed), Usable(e), Serves(e),
           Winadjs(e.chanreqs), Ended(e) => Over(e), Over(e) => Over(srv) \/ Noted(e.packets)
    PROVE  IInv'
<1>1. Effect("server", e, Tail(wire["server"]), FALSE)
      /\ UNCHANGED <<exitcode, announced>> /\ UNCHANGED counts
  BY DEF Handled
<1>2. CountsType' /\ Typed' = Typed /\ Printed' = Printed
  BY <1>1, SameCounts
<1>3. e \in Fits(cli, Tail(wire["server"]), wire["client"], Printed', Typed')
  BY <1>2
<1> QED BY <1>1, <1>2, <1>3, ServerGoesOn

\* A call that leaves the server's Channel object alone
LEMMA ServerKept ==
    ASSUME NEW c, NEW e, Keeps(c, e), Quiet(c, e), Usable(c), Serves(c), Ended(c) => Over(c)
    PROVE  Usable(e) /\ Serves(e) /\ (Ended(e) => Over(e)) /\ (Over(e) => Over(c))
  BY DEF Keeps, Quiet, Usable, Serves, Over

\* The server asks only for its window to be known.
LEMMA WinadjsLonger ==
    ASSUME NEW c \in Mid, NEW d, Longer(c, d), Winadjs(c.chanreqs)
    PROVE  Winadjs(d.chanreqs)
<1>1. c.chanreqs \in Seq(Requests) /\ "winadj" \in Requests
  BY EndTypes DEF Requests
<1>2. CASE d.chanreqs = c.chanreqs
  BY <1>2
<1>3. CASE d.chanreqs = Append(c.chanreqs, "winadj")
  <2> DEFINE L == c.chanreqs
             M == Append(L, "winadj")
  <2>1. /\ Len(L) \in Nat /\ DOMAIN L = 1..Len(L) /\ DOMAIN M = 1..(Len(L) + 1)
        /\ \A x \in DOMAIN L : M[x] = L[x]
        /\ M[Len(L) + 1] = "winadj"
    BY <1>1, AppendIs
  <2>2. \A x \in DOMAIN L : L[x] = "winadj"
    BY DEF Winadjs
  <2>3. M = d.chanreqs
    BY <1>3
  <2> HIDE DEF L, M
  <2>4. \A x \in DOMAIN M : x \in DOMAIN L \/ x = Len(L) + 1
    BY <2>1
  <2>5. \A x \in DOMAIN M : M[x] = "winadj"
    BY <2>1, <2>2, <2>4
  <2> QED BY <2>3, <2>5 DEF Winadjs
<1> QED BY <1>2, <1>3 DEF Longer

\* CHANNEL_DATA at the server
LEMMA FeedStep ==
    ASSUME TypeOK, ExitStatusFirst, Talking, NEW takes \in BOOLEAN, NEW wide \in BOOLEAN, Feed(takes, wide)
    PROVE  IInv'
<1> DEFINE e == RecvData(srv, takes, wide)
           b == [srv EXCEPT !.locwindow = @ - 1]
           l == Typed - 1
           F == Fits(cli, Tail(wire["server"]), wire["client"], Printed, l)
<1>1. wire["server"] # <<>> /\ wire["server"][1].kind = "data" /\ ~srv.gone
  BY ServerReads DEF Feed
<1>2. /\ srv \in Mid /\ srv.packets = <<>> /\ Sound(srv) /\ Typed \in Nat /\ Printed \in Nat
      /\ Usable(srv) /\ Serves(srv) /\ Winadjs(srv.chanreqs) /\ (Ended(srv) => Over(srv))
      /\ cli \in Mid /\ wire["server"] \in Seq(Item) /\ wire["client"] \in Seq(Item)
      /\ Accord(srv, cli, wire["server"], wire["client"], Printed, Typed)
  BY <1>1, ServerAt
<1>3. srv.locwindow = 1 /\ Typed >= 1
  BY <1>1, <1>2, DataRoom
<1>4. l \in Nat /\ l + One(wire["server"][1].kind, "data") >= Typed
  BY <1>1, <1>2, <1>3 DEF One
<1>5. e = RecvData(srv, takes, wide) /\ b = [srv EXCEPT !.locwindow = @ - 1]
  OBVIOUS
<1>6. /\ Effect("server", e, Tail(wire["server"]), FALSE) /\ UNCHANGED <<exitcode, announced>>
      /\ arrived' = arrived + 1 /\ typed' = typed /\ shown' = shown /\ printed' = printed /\ asides' = asides
  BY DEF Feed
<1>7. Tail(wire["server"]) \in Seq(Item)
  BY <1>1, <1>2
<1>8. Fitting(F)
  BY <1>2, <1>4, <1>7, FitsFitting
<1>9. /\ b \in Mid /\ b.packets = srv.packets /\ b.sent_eof = srv.sent_eof /\ b.pending_eof = srv.pending_eof
      /\ b.sent_close = srv.sent_close /\ b.outbuffer = srv.outbuffer
      /\ b.chan = srv.chan /\ b.remwindow = srv.remwindow /\ b.locwindow = 0
      /\ b.chanreqs = srv.chanreqs /\ b.gone = srv.gone /\ b.rcvd_close = srv.rcvd_close
      /\ b.rcvd_eof = srv.rcvd_eof
  BY <1>2, <1>3, <1>5, TakenIs
<1>10. CountsType' /\ Typed' = l /\ Printed' = Printed
  <2>1. typed \in 0..MaxTyped /\ printed \in 0..MaxPrinted /\ asides \in 0..MaxAsides
        /\ arrived \in 0..typed /\ shown \in 0..printed /\ MaxTyped \in Nat
    BY SessionAssumption DEF TypeOK
  <2>2. arrived + 1 \in 0..typed /\ typed - (arrived + 1) = (typed - arrived) - 1
    BY <1>3, <2>1 DEF Typed
  <2> QED BY <1>6, <2>1, <2>2 DEF CountsType, Typed, Printed
<1> HIDE DEF e, b, l, F
<1>11. Sound(b)
  BY <1>2, <1>9 DEF Sound
<1>12. Takes(srv, b, wire["server"][1])
  <2>1. srv.remwindow \in 0..1 /\ srv.locwindow \in 0..1 /\ srv.outbuffer \in Nat
    BY <1>2, EndTypes
  <2> QED BY <1>1, <1>3, <1>9, <2>1 DEF Takes, One, Replying
<1>13. b \in F
  BY <1>1, <1>2, <1>4, <1>9, <1>11, <1>12, ServerTakes DEF F
<1>14. e \in F /\ Keeps(srv, e) /\ Quiet(srv, e) /\ Longer(srv, e)
  BY <1>2, <1>5, <1>8, <1>13, RecvDataFits
<1>15. Usable(e) /\ Serves(e) /\ (Ended(e) => Over(e)) /\ (Over(e) => Over(srv))
  BY <1>2, <1>14, ServerKept
<1>16. Winadjs(e.chanreqs)
  BY <1>2, <1>14, WinadjsLonger
<1>17. e \in Fits(cli, Tail(wire["server"]), wire["client"], Printed', Typed')
  BY <1>10, <1>14 DEF F
<1> QED BY <1>6, <1>10, <1>15, <1>16, <1>17, ServerGoesOn

\* CHANNEL_WINDOW_ADJUST at the server
LEMMA ServerAdjustStep ==
    ASSUME TypeOK, ExitStatusFirst, Talking, Handled("server", "adjust", RecvAdjust(srv))
    PROVE  IInv'
<1> DEFINE e == RecvAdjust(srv)
           b == [srv EXCEPT !.remwindow = @ + 1]
           F == Fits(cli, Tail(wire["server"]), wire["client"], Printed, Typed)
<1>1. wire["server"] # <<>> /\ wire["server"][1].kind = "adjust" /\ ~srv.gone
  BY ServerReads DEF Handled
<1>2. /\ srv \in Mid /\ srv.packets = <<>> /\ Sound(srv) /\ Typed \in Nat /\ Printed \in Nat
      /\ Usable(srv) /\ Serves(srv) /\ Winadjs(srv.chanreqs) /\ (Ended(srv) => Over(srv))
      /\ cli \in Mid /\ wire["server"] \in Seq(Item) /\ wire["client"] \in Seq(Item)
      /\ Accord(srv, cli, wire["server"], wire["client"], Printed, Typed)
      /\ Fitting(F)
  BY <1>1, ServerAt
<1>3. Typed + One(wire["server"][1].kind, "data") >= Typed
  BY <1>1, <1>2 DEF One
<1>4. srv.remwindow = 0
  BY <1>1, <1>2, AdjustRoom
<1>5. /\ b \in Mid /\ b.packets = <<>> /\ b.sent_eof = srv.sent_eof /\ b.pending_eof = srv.pending_eof
      /\ b.sent_close = srv.sent_close /\ b.outbuffer = srv.outbuffer
      /\ b.chan = srv.chan /\ b.remwindow = 1 /\ b.locwindow = srv.locwindow
      /\ b.chanreqs = srv.chanreqs /\ b.gone = srv.gone /\ b.rcvd_close = srv.rcvd_close
      /\ b.rcvd_eof = srv.rcvd_eof
  BY <1>2, <1>4, OpenedIs
<1>6. e = RecvAdjust(srv) /\ b = [srv EXCEPT !.remwindow = @ + 1]
  OBVIOUS
<1> HIDE DEF e, b, F
<1>7. Sound(b)
  BY <1>2, <1>5 DEF Sound
<1>8. Takes(srv, srv, wire["server"][1]) /\ Takes(srv, b, wire["server"][1])
  <2>1. srv.remwindow \in 0..1 /\ srv.locwindow \in 0..1 /\ srv.outbuffer \in Nat
    BY <1>2, EndTypes
  <2> QED BY <1>1, <1>4, <1>5, <2>1 DEF Takes, One, Replying
<1>9. srv \in F /\ b \in F
  BY <1>1, <1>2, <1>3, <1>5, <1>7, <1>8, ServerTakes DEF F
<1>10. e \in F /\ Keeps(srv, e) /\ Quiet(srv, e) /\ e.chanreqs = srv.chanreqs
  BY <1>2, <1>6, <1>9, RecvAdjustFits
<1>11. Usable(e) /\ Serves(e) /\ (Ended(e) => Over(e)) /\ (Over(e) => Over(srv)) /\ Winadjs(e.chanreqs)
  BY <1>2, <1>10, ServerKept
<1> QED BY <1>10, <1>11, ServerHandled DEF F, e

\* CHANNEL_EOF at the server
LEMMA ServerEofStep ==
    ASSUME TypeOK, ExitStatusFirst, Talking, Handled("server", "eof", RecvEof(srv, FALSE))
    PROVE  IInv'
<1> DEFINE e == RecvEof(srv, FALSE)
           b == Told_eof(srv)
           F == Fits(cli, Tail(wire["server"]), wire["client"], Printed, Typed)
<1>1. wire["server"] # <<>> /\ wire["server"][1].kind = "eof" /\ ~srv.gone
  BY ServerReads DEF Handled
<1>2. /\ srv \in Mid /\ srv.packets = <<>> /\ Sound(srv) /\ Typed \in Nat /\ Printed \in Nat
      /\ Usable(srv) /\ Serves(srv) /\ Winadjs(srv.chanreqs) /\ (Ended(srv) => Over(srv))
      /\ srv.chan \notin Main /\ Fitting(F)
  BY <1>1, ServerAt
<1>3. b \in Mid /\ b.packets = <<>> /\ Sound(b) /\ Takes(srv, b, wire["server"][1])
  BY <1>1, <1>2, ToldTakes
<1>4. Typed + One(wire["server"][1].kind, "data") >= Typed
  BY <1>1, <1>2 DEF One
<1>5. b \in F
  BY <1>1, <1>2, <1>3, <1>4, ServerTakes
<1>6. e = RecvEof(srv, FALSE) /\ b = Told_eof(srv)
  OBVIOUS
<1> HIDE DEF e, b, F
<1>7. e \in F /\ Usable(e) /\ e.chan = srv.chan /\ (Ended(e) => Ended(srv) \/ Over(srv)) /\ Unasked(srv, e)
  BY <1>2, <1>5, <1>6, ServerEofFits
<1>8. Serves(e) /\ (Ended(e) => Over(e)) /\ (Over(e) => Over(srv)) /\ Winadjs(e.chanreqs)
  BY <1>2, <1>7 DEF Serves, Over, Unasked
<1> QED BY <1>7, <1>8, ServerHandled DEF F, e

\* CHANNEL_SUCCESS or CHANNEL_FAILURE at the server
LEMMA ServerReplyStep ==
    ASSUME TypeOK, ExitStatusFirst, Talking, NEW kind \in Replying, srv.chanreqs # <<>>,
           Handled("server", kind, Answered(srv))
    PROVE  IInv'
<1> DEFINE e == Answered(srv)
           F == Fits(cli, Tail(wire["server"]), wire["client"], Printed, Typed)
           b == Trimmed(srv)
           x == wire["server"][1]
<1>1. wire["server"] # <<>> /\ x.kind = kind /\ ~srv.gone
  BY ServerReads DEF Handled
<1>2. x.kind \in Replying /\ x.kind \notin {"close", "data", "adjust", "request", "notice", "eof"}
  BY <1>1 DEF Replying
<1>3. /\ srv \in Mid /\ srv.packets = <<>> /\ Sound(srv) /\ Typed \in Nat /\ Printed \in Nat
      /\ Usable(srv) /\ Serves(srv) /\ Winadjs(srv.chanreqs) /\ (Ended(srv) => Over(srv))
      /\ Fitting(F) /\ srv.chanreqs \in Seq(Requests)
  BY <1>1, ServerAt, EndTypes
<1>4. Typed + One(x.kind, "data") >= Typed
  BY <1>2, <1>3 DEF One
<1>5. b = Trimmed(srv) /\ e = Answered(srv)
  OBVIOUS
<1> HIDE DEF e, F, b
<1>6. /\ b \in Mid /\ Sound(b) /\ b.packets = srv.packets /\ b.sent_eof = srv.sent_eof
      /\ b.sent_close = srv.sent_close /\ b.outbuffer = srv.outbuffer
      /\ b.remwindow = srv.remwindow /\ b.locwindow = srv.locwindow
      /\ b.chanreqs = Tail(srv.chanreqs) /\ b.gone = srv.gone /\ b.rcvd_eof = srv.rcvd_eof
  BY <1>3, <1>5, TrimmedIs
<1>7. Takes(srv, b, x)
  <2>1. srv.remwindow \in 0..1 /\ srv.locwindow \in 0..1 /\ srv.outbuffer \in Nat
    BY <1>3, EndTypes
  <2> HIDE DEF x
  <2> QED BY <1>1, <1>2, <1>6, <2>1 DEF Takes, One
<1>8. b \in F
  BY <1>1, <1>3, <1>4, <1>6, <1>7, ServerTakes DEF F
<1>9. [srv EXCEPT !.chanreqs = Tail(@)] \in F
  BY <1>5, <1>8 DEF Trimmed
<1>10. e \in F /\ Keeps(srv, e) /\ Quiet(srv, e) /\ e.chanreqs = Tail(srv.chanreqs)
  BY <1>3, <1>5, <1>9, AnsweredFits
<1>11. Usable(e) /\ Serves(e) /\ (Ended(e) => Over(e)) /\ (Over(e) => Over(srv))
  BY <1>3, <1>10, ServerKept
<1>12. Winadjs(e.chanreqs)
  BY <1>3, <1>10, ListIs DEF Winadjs
<1> QED BY <1>10, <1>11, <1>12, ServerHandled DEF F, e

\* A request without a reply at the server
LEMMA NoticeStep ==
    ASSUME TypeOK, ExitStatusFirst, Talking, Handled("server", "notice", Noticed(srv, Head(wire["server"]).req))
    PROVE  IInv'
<1> DEFINE req == Head(wire["server"]).req
           e == Noticed(srv, req)
           heeds == ~(req = "signal" /\ srv.chan.vt = "sess" /\ srv.chan.backend = "none")
           x == wire["server"][1]
<1>1. wire["server"] # <<>> /\ x.kind = "notice" /\ ~srv.gone
  BY ServerReads DEF Handled
<1>2. /\ srv \in Mid /\ srv.packets = <<>> /\ Sound(srv) /\ Typed \in Nat /\ Printed \in Nat
      /\ Usable(srv) /\ Serves(srv) /\ Winadjs(srv.chanreqs) /\ (Ended(srv) => Over(srv))
      /\ srv.fault = "none"
  BY <1>1, ServerAt, EndTypes
<1>3. e = IF heeds THEN srv ELSE [srv EXCEPT !.fault = "signal without a backend"]
  BY <1>1, <1>2 DEF Noticed, Assert
<1>4. Handled("server", "notice", e)
  OBVIOUS
<1>5. heeds \in BOOLEAN
  OBVIOUS
<1> HIDE DEF e, heeds
<1>6. CASE heeds
  <2>1. e = srv
    BY <1>3, <1>6
  <2>2. Takes(srv, srv, x)
    BY <1>1, <1>2, EndTypes DEF Takes, One, Replying
  <2>3. Typed + One(x.kind, "data") >= Typed
    BY <1>1, <1>2 DEF One
  <2>4. srv \in Fits(cli, Tail(wire["server"]), wire["client"], Printed, Typed)
    BY <1>1, <1>2, <2>2, <2>3, ServerTakes
  <2> QED BY <1>2, <1>4, <2>1, <2>4, ServerHandled
<1>7. CASE ~heeds
  <2>1. e = [srv EXCEPT !.fault = "signal without a backend"]
    BY <1>3, <1>7
  <2>2. ~e.gone /\ e.packets = <<>> /\ e.fault = "signal without a backend" /\ Settled(e) = srv
    BY <1>1, <1>2, <2>1 DEF Settled, Mid
  <2>3. srv \in End
    BY <1>1, <1>2, MidIsEnd
  <2>4. <<>> \in Seq(Message) /\ "server" \in Sides
    BY DEF Sides
  <2>5. Tail(wire["server"]) \in Seq(Message)
    BY <1>1, <2>4 DEF TypeOK
  <2>6. /\ Effect("server", e, Tail(wire["server"]), FALSE)
        /\ UNCHANGED <<exitcode, announced>> /\ UNCHANGED counts
    BY <1>4 DEF Handled
  <2>7. CountsType'
    BY <2>6, SameCounts
  <2> QED BY <2>2, <2>3, <2>4, <2>5, <2>6, <2>7, FailedStep
<1> QED BY <1>5, <1>6, <1>7

\* What the server does about a request it grants, which changes only its Channel object
LEMMA DoneIs ==
    ASSUME NEW c \in Mid, NEW req, NEW able, Granted(c, req, able), Serves(c), NEW s, s = Done(c, req)
    PROVE  /\ s \in Mid /\ s.packets = c.packets /\ s.sent_eof = c.sent_eof /\ s.pending_eof = c.pending_eof
           /\ s.sent_close = c.sent_close /\ s.outbuffer = c.outbuffer
           /\ s.remwindow = c.remwindow /\ s.locwindow = c.locwindow
           /\ s.chanreqs = c.chanreqs /\ s.gone = c.gone /\ s.rcvd_close = c.rcvd_close
           /\ s.rcvd_eof = c.rcvd_eof
           /\ s.chan \notin Main /\ c.chan \notin Main /\ (Over(s) <=> Over(c)) /\ Serves(s)
<1> DEFINE p == [c.chan EXCEPT !.want_pty = TRUE]
           b == [c.chan EXCEPT !.backend = "running"]
<1>1. c.chan.vt = "sess" /\ (req # "pty-req" => c.chan.backend = "none")
  BY DEF Granted
<1>2. c.chan \in Sess
  BY <1>1, ChanIs
<1>3. p \in Sess /\ p.seen_eof = c.chan.seen_eof /\ p.seen_exit = c.chan.seen_exit
      /\ p.backend = c.chan.backend
  BY <1>2 DEF Sess
<1>4. b \in Sess /\ b.seen_eof = c.chan.seen_eof /\ b.seen_exit = c.chan.seen_exit
  BY <1>2 DEF Sess
<1>5. s = [c EXCEPT !.chan = p] \/ (s = [c EXCEPT !.chan = b] /\ req # "pty-req")
  BY DEF Done
<1> HIDE DEF p, b
<1>6. PICK k \in {p, b} : s = [c EXCEPT !.chan = k] /\ (k = p \/ req # "pty-req")
  BY <1>5
<1>7. k \in Sess /\ k.seen_eof = c.chan.seen_eof /\ k.seen_exit = c.chan.seen_exit
  BY <1>3, <1>4, <1>6
<1>8. s \in Mid
  BY <1>6, <1>7 DEF Mid
<1>9. /\ s.packets = c.packets /\ s.sent_eof = c.sent_eof /\ s.pending_eof = c.pending_eof
      /\ s.sent_close = c.sent_close /\ s.outbuffer = c.outbuffer
      /\ s.chan = k /\ s.remwindow = c.remwindow /\ s.locwindow = c.locwindow
      /\ s.chanreqs = c.chanreqs /\ s.gone = c.gone /\ s.rcvd_close = c.rcvd_close
      /\ s.rcvd_eof = c.rcvd_eof
  BY <1>6 DEF Mid
<1>10. \A h \in Sess : h \notin Main /\ h # Zombie
  BY DEF Sess, Main, Zombie
<1>11. Over(s) <=> Over(c)
  BY <1>2, <1>7, <1>9, <1>10 DEF Over
<1>12. k.seen_eof \/ k.seen_exit => k.backend = "finished"
  <2>1. c.chan.seen_eof \/ c.chan.seen_exit => c.chan.backend = "finished"
    BY <1>2 DEF Serves
  <2>2. CASE k = p
    BY <1>3, <2>1, <2>2
  <2>3. CASE req # "pty-req"
    BY <1>1, <1>7, <2>1, <2>3
  <2> QED BY <1>6, <2>2, <2>3
<1>13. Serves(s)
  BY <1>7, <1>9, <1>12 DEF Serves
<1> QED BY <1>2, <1>7, <1>8, <1>9, <1>10, <1>11, <1>13

\* A request that the server replies to, unless it has sent CLOSE
LEMMA ServerRequestStep ==
    ASSUME TypeOK, ExitStatusFirst, Talking, NEW s \in Mid, NEW ok \in BOOLEAN,
           Handled("server", "request", RecvRequest(s, wire["server"][1].req, TRUE, ok)),
           s.packets = <<>>, s.sent_eof = srv.sent_eof, s.pending_eof = srv.pending_eof,
           s.sent_close = srv.sent_close, s.outbuffer = srv.outbuffer, s.remwindow = srv.remwindow,
           s.locwindow = srv.locwindow, s.chanreqs = srv.chanreqs, s.gone = srv.gone,
           s.rcvd_close = srv.rcvd_close, s.rcvd_eof = srv.rcvd_eof, s.chan \notin Main,
           Over(s) <=> Over(srv), Serves(s)
    PROVE  IInv'
<1> DEFINE x == wire["server"][1]
           y == Packet(IF ok THEN "success" ELSE "failure", x.req)
           e == RecvRequest(s, x.req, TRUE, ok)
           F == Fits(cli, Tail(wire["server"]), wire["client"], Printed, Typed)
<1>1. wire["server"] # <<>> /\ x.kind = "request" /\ ~srv.gone /\ x \in Item
  BY ServerReads DEF Handled
<1>2. /\ srv \in Mid /\ srv.packets = <<>> /\ Sound(srv) /\ Typed \in Nat /\ Printed \in Nat
      /\ Usable(srv) /\ Winadjs(srv.chanreqs) /\ (Ended(srv) => Over(srv))
      /\ srv.chan \notin Main /\ cli \in Mid /\ wire["client"] \in Seq(Item)
      /\ Accord(srv, cli, wire["server"], wire["client"], Printed, Typed)
  BY <1>1, ServerAt
<1>3. Sound(s) /\ Usable(s) /\ (Ended(s) => Over(s)) /\ Winadjs(s.chanreqs)
  BY <1>2 DEF Sound, Usable, Ended
<1>4. Handled("server", "request", e)
  OBVIOUS
<1>5. CASE s.sent_close
  <2>1. e = s
    BY <1>5 DEF RecvRequest, Replies
  <2>2. Takes(srv, s, x)
    <3>1. srv.remwindow \in 0..1 /\ srv.locwindow \in 0..1 /\ srv.outbuffer \in Nat
      BY <1>2, EndTypes
    <3> HIDE DEF x
    <3> QED BY <1>1, <1>5, <3>1 DEF Takes, One, Replying
  <2>3. Typed + One(x.kind, "data") >= Typed
    BY <1>1, <1>2 DEF One
  <2>4. e \in F
    BY <1>1, <1>2, <1>3, <2>1, <2>2, <2>3, ServerTakes
  <2> HIDE DEF F, e
  <2> QED BY <1>3, <1>4, <2>1, <2>4, ServerHandled DEF F
<1>6. CASE ~s.sent_close
  <2>1. e = [s EXCEPT !.packets = Append(@, y)]
    BY <1>6 DEF RecvRequest, Replies, Push
  <2>2. y \in Item /\ y.kind \in Replying /\ y.req = x.req
    BY <1>1 DEF Packet, Item, Plain, Replying
  <2>3. Append(s.packets, y) \in Seq(Item) /\ wire["client"] \o Append(s.packets, y) = Append(wire["client"], y)
    BY <1>2, <2>2
  <2> HIDE DEF x, y, e
  <2>4. e \in Mid
    BY <2>1, <2>3 DEF Mid
  <2>5. /\ e.packets = Append(s.packets, y) /\ e.sent_eof = s.sent_eof /\ e.pending_eof = s.pending_eof
        /\ e.sent_close = s.sent_close /\ e.outbuffer = s.outbuffer
        /\ e.chan = s.chan /\ e.remwindow = s.remwindow /\ e.locwindow = s.locwindow
        /\ e.chanreqs = s.chanreqs /\ e.gone = s.gone /\ e.rcvd_close = s.rcvd_close
        /\ e.rcvd_eof = s.rcvd_eof
    BY <2>1 DEF Mid
  <2>6. Replied(srv, e)
    BY <1>1, <1>6, <2>5 DEF Replied
  <2>7. Sound(e) /\ Usable(e) /\ Winadjs(e.chanreqs)
    BY <1>3, <2>5 DEF Sound, Usable
  <2>8. Serves(e) /\ (Ended(e) => Over(e)) /\ (Over(e) => Over(srv))
    BY <1>3, <2>5 DEF Serves, Ended, Over
  <2>9. Accord(e, cli, Tail(wire["server"]), Append(wire["client"], y), Printed, Typed)
    BY <1>1, <1>2, <2>2, <2>4, <2>6, ReplyAccord DEF x
  <2>10. e \in F
    BY <2>3, <2>4, <2>5, <2>7, <2>9 DEF Fits
  <2> HIDE DEF F
  <2> QED BY <1>4, <2>7, <2>8, <2>10, ServerHandled DEF F
<1>7. s.sent_close \in BOOLEAN
  BY EndTypes
<1> QED BY <1>5, <1>6, <1>7

\* CHANNEL_REQUEST at the server
LEMMA ServeStep ==
    ASSUME TypeOK, ExitStatusFirst, Talking, NEW able \in BOOLEAN, Serve(able)
    PROVE  IInv'
<1> DEFINE req == Head(wire["server"]).req
           ok == Granted(srv, req, able)
           s == IF ok THEN Done(srv, req) ELSE srv
<1>1. wire["server"] # <<>> /\ ~srv.gone
  BY ServerReads DEF Serve
<1>2. /\ srv \in Mid /\ srv.packets = <<>> /\ Serves(srv) /\ srv.chan \notin Main
  BY <1>1, ServerAt
<1>3. Handled("server", "request", RecvRequest(s, req, TRUE, ok)) /\ req = wire["server"][1].req
  <2>1. Handled("server", "request", RecvRequest(s, req, TRUE, ok))
    BY DEF Serve
  <2>2. Head(wire["server"]) = wire["server"][1]
    BY <1>1, ServerAt
  <2> QED BY <2>1, <2>2
<1>4. ok \in BOOLEAN
  BY DEF Granted
<1>5. /\ s \in Mid /\ s.packets = srv.packets /\ s.sent_eof = srv.sent_eof /\ s.pending_eof = srv.pending_eof
      /\ s.sent_close = srv.sent_close /\ s.outbuffer = srv.outbuffer
      /\ s.remwindow = srv.remwindow /\ s.locwindow = srv.locwindow
      /\ s.chanreqs = srv.chanreqs /\ s.gone = srv.gone /\ s.rcvd_close = srv.rcvd_close
      /\ s.rcvd_eof = srv.rcvd_eof
      /\ s.chan \notin Main /\ (Over(s) <=> Over(srv)) /\ Serves(s)
  <2>1. CASE ok
    <3>1. s = Done(srv, req)
      BY <2>1
    <3> HIDE DEF s
    <3> QED BY <1>2, <2>1, <3>1, DoneIs
  <2>2. CASE ~ok
    BY <1>2, <2>2
  <2> QED BY <1>4, <2>1, <2>2
<1> HIDE DEF s, ok, req
<1> QED BY <1>2, <1>3, <1>4, <1>5, ServerRequestStep

\* CHANNEL_CLOSE at the server
LEMMA ServerCloseStep ==
    ASSUME TypeOK, ExitStatusFirst, Talking, Handled("server", "close", FinishClose(ImpliedEof(srv, FALSE)))
    PROVE  IInv'
<1> DEFINE c == ImpliedEof(srv, FALSE)
           e == FinishClose(c)
           W == wire["server"]
           F == Fits(cli, <<>>, wire["client"], Printed, Typed)
           b == Told_eof(srv)
<1>1. W # <<>> /\ W[1].kind = "close" /\ ~srv.gone
  BY ServerReads DEF Handled
<1>2. /\ Effect("server", e, Tail(W), FALSE) /\ UNCHANGED <<exitcode, announced>> /\ UNCHANGED counts
  BY DEF Handled
<1>3. /\ srv \in Mid /\ srv.packets = <<>> /\ Sound(srv) /\ Typed \in Nat /\ Printed \in Nat
      /\ Usable(srv) /\ (Ended(srv) => Over(srv)) /\ srv.chan \notin Main
      /\ cli \in Mid /\ W \in Seq(Item) /\ wire["client"] \in Seq(Item)
      /\ Accord(srv, cli, W, wire["client"], Printed, Typed)
  BY <1>1, ServerAt
<1>4. /\ CloseLast(W) /\ Marks(cli, W)
      /\ (cli.gone => srv.gone \/ srv.sent_close)
      /\ (cli.rcvd_eof => srv.gone \/ srv.sent_eof)
  BY <1>3 DEF Accord, Link
<1>5. Tail(W) = <<>> /\ 1 \in DOMAIN W
  BY <1>1, <1>3, <1>4, CloseIsLast, TailIs
<1>6. cli.gone \/ cli.sent_close
  BY <1>1, <1>4, <1>5 DEF Marks
<1>7. srv.sent_eof
  <2>1. CASE cli.gone
    BY <1>1, <1>3, <1>4, <2>1 DEF Sound
  <2>2. CASE ~cli.gone
    <3>1. cli.chan \in Main /\ Sound(cli)
      BY <2>2, ClientAt DEF Minds
    <3>2. cli.rcvd_eof
      BY <1>6, <2>2, <3>1 DEF Sound
    <3> QED BY <1>1, <1>4, <3>2
  <2> QED BY <2>1, <2>2
<1>8. Over(srv)
  BY <1>3, <1>7 DEF Ended
<1>9. Typed + One(W[1].kind, "data") >= Typed
  BY <1>1, <1>3 DEF One
<1>10. b = Told_eof(srv) /\ c = IF srv.rcvd_eof THEN srv ELSE ChanSendEof(b, FALSE)
  BY DEF ImpliedEof, Told_eof
<1> HIDE DEF b, F
<1>11. b \in Mid /\ b.packets = <<>> /\ Sound(b) /\ Takes(srv, b, W[1])
  BY <1>1, <1>3, <1>10, ToldTakes
<1>12. b.chan = srv.chan /\ b.gone = srv.gone /\ b.rcvd_close = srv.rcvd_close /\ (Over(b) <=> Over(srv))
       /\ (srv.rcvd_eof => b = srv)
  BY <1>3, <1>10, ToldEofIs
<1>13. c = b
  <2>1. ChanSendEof(b, FALSE) = b
    BY <1>3, <1>11, <1>12, ServerSendEof
  <2> QED BY <1>10, <1>12, <2>1
<1>14. b \in F
  BY <1>1, <1>3, <1>5, <1>9, <1>11, ServerTakes DEF F
<1>15. e = FinishClose(b)
  BY <1>13
<1> HIDE DEF c, e
<1>16. Usable(b) /\ Over(b)
  BY <1>3, <1>8, <1>12 DEF Usable
<1>17. /\ e.gone /\ e.fault = "none" /\ e.packets \in Seq(Item)
       /\ Accord(Gone, cli, <<>>, wire["client"] \o e.packets, Printed, Typed)
  BY <1>3, <1>6, <1>14, <1>15, <1>16, FinishCloseFits DEF F
<1>18. CountsType' /\ Typed' = Typed /\ Printed' = Printed
  BY <1>2, SameCounts
<1>19. exitcode' \/ Noted(wire["client"] \o e.packets)
  <2>1. exitcode \/ Noted(wire["client"])
    BY <1>8 DEF Talking, Told, Noted
  <2> QED BY <1>2, <1>3, <1>17, <2>1, NotedKept
<1>20. ServerSteady(Gone)
  BY DEF ServerSteady
<1>21. DEFINE d == Gone
<1>22. d = IF e.gone THEN Gone ELSE Settled(e)
  BY <1>17
<1> HIDE DEF d
<1>23. Effect("server", e, <<>>, FALSE) /\ announced' = announced /\ exitcode' = exitcode
  BY <1>2, <1>5
<1>24. Talking' /\ EndsType' /\ setup' = setup /\ conn' = conn /\ fault' = NoFault
  <2>1. Accord(d, cli, <<>>, wire["client"] \o e.packets, Printed, Typed) /\ ServerSteady(d)
    BY <1>17, <1>20 DEF d
  <2> QED BY <1>3, <1>17, <1>18, <1>19, <1>22, <1>23, <2>1, ServerEffect
<1>25. announced' \in BOOLEAN /\ exitcode' \in BOOLEAN
  BY <1>23 DEF TypeOK
<1> QED BY <1>18, <1>23, <1>24, <1>25, Onwards

\* While the process runs, the server's end is open and has announced no EOF.
LEMMA ProcessIs ==
    ASSUME TypeOK, Talking, Process
    PROVE  /\ ~srv.gone /\ srv.chan \in Sess /\ srv.chan.backend = "running" /\ ~Over(srv)
           /\ ~srv.sent_eof /\ ~srv.pending_eof /\ ~srv.sent_close
           /\ ~srv.chan.seen_eof /\ ~srv.chan.seen_exit
<1>1. srv.chan.vt = "sess" /\ srv.chan.backend = "running"
  BY DEF Process
<1>2. ~srv.gone
  <2>1. Zombie.vt = "zombie"
    BY DEF Zombie
  <2> QED BY <1>1, <2>1, GoneIs DEF Talking, ServerSteady, Steady, Usable
<1>3. /\ srv \in Mid /\ Serves(srv) /\ (Ended(srv) => Over(srv)) /\ Sound(srv)
  BY <1>2, ServerAt
<1>4. srv.chan \in Sess
  BY <1>1, <1>3, ChanIs
<1>5. ~srv.chan.seen_eof /\ ~srv.chan.seen_exit
  BY <1>1, <1>3, <1>4 DEF Serves
<1>6. srv.chan # Zombie
  BY <1>4 DEF Sess, Zombie
<1>7. ~Over(srv)
  BY <1>5, <1>6 DEF Over
<1> QED BY <1>1, <1>2, <1>3, <1>4, <1>5, <1>7 DEF Ended, Sound

\* pty.c writes.
LEMMA OutputStep ==
    ASSUME TypeOK, ExitStatusFirst, Talking, Output
    PROVE  IInv'
<1> DEFINE e == Write(srv)
<1>1. e = Write(srv)
  OBVIOUS
<1>2. /\ Effect("server", e, wire["server"], FALSE) /\ Process /\ UNCHANGED <<exitcode, announced>>
      /\ printed < MaxPrinted /\ printed' = printed + 1 /\ arrived' = arrived /\ typed' = typed
      /\ shown' = shown /\ asides' = asides
  BY DEF Output
<1>3. ~srv.gone /\ ~srv.sent_eof
  BY <1>2, ProcessIs
<1>4. /\ srv \in Mid /\ srv.packets = <<>> /\ Sound(srv) /\ Typed \in Nat /\ Printed \in Nat
      /\ Usable(srv) /\ Serves(srv) /\ Winadjs(srv.chanreqs) /\ (Ended(srv) => Over(srv))
      /\ cli \in Mid /\ wire["server"] \in Seq(Item) /\ wire["client"] \in Seq(Item)
      /\ Accord(srv, cli, wire["server"], wire["client"], Printed, Typed)
  BY <1>3, ServerAt
<1>5. CountsType' /\ Typed' = Typed /\ Printed' = Printed + 1
  <2>1. typed \in 0..MaxTyped /\ printed \in 0..MaxPrinted /\ asides \in 0..MaxAsides
        /\ arrived \in 0..typed /\ shown \in 0..printed /\ MaxPrinted \in Nat
    BY SessionAssumption DEF TypeOK
  <2>2. printed + 1 \in 0..MaxPrinted /\ shown \in 0..(printed + 1) /\ (printed + 1) - shown = (printed - shown) + 1
    BY <1>2, <2>1
  <2> QED BY <1>2, <2>1, <2>2 DEF CountsType, Typed, Printed
<1> HIDE DEF e
<1>6. /\ e \in Fits(cli, wire["server"], wire["client"], Printed + 1, Typed)
      /\ Keeps(srv, e) /\ Quiet(srv, e) /\ Unasked(srv, e)
  BY <1>1, <1>3, <1>4, WriteFits
<1>7. Usable(e) /\ Serves(e) /\ (Ended(e) => Over(e)) /\ (Over(e) => Over(srv))
  BY <1>4, <1>6, ServerKept
<1>8. Winadjs(e.chanreqs)
  BY <1>4, <1>6 DEF Unasked
<1>9. e \in Fits(cli, wire["server"], wire["client"], Printed', Typed')
  BY <1>5, <1>6
<1> QED BY <1>2, <1>5, <1>7, <1>8, <1>9, ServerGoesOn

\* A session channel that is not over sends EOF and no CLOSE after it.
LEMMA WriteEofOpen ==
    ASSUME NEW c \in Mid, Usable(c), c.chan \in Sess, ~Over(c), ~c.sent_close, ~c.sent_eof,
           NEW w, w = WriteEof(c)
    PROVE  ~w.sent_close
<1> DEFINE p == [c EXCEPT !.pending_eof = TRUE]
           q == [Push(p, "eof", "none") EXCEPT !.pending_eof = FALSE, !.sent_eof = TRUE]
<1>1. /\ c.fault = "none" /\ ~c.gone /\ ~c.halfopen
  BY EndTypes DEF Usable
<1>2. Assert(c, TRUE, "none") = c
  BY <1>1 DEF Assert
<1>3. w = TryEof(p)
  BY <1>2 DEF WriteEof
<1>4. /\ p.fault = "none" /\ ~p.gone /\ ~p.halfopen /\ ~p.sent_close /\ p.chan = c.chan
  BY <1>1 DEF Mid
<1>5. /\ q.fault = "none" /\ ~q.gone /\ ~q.halfopen /\ ~q.sent_close /\ q.chan = c.chan
  BY <1>1 DEF Mid, Push
<1>6. w = IF p.outbuffer > 0 THEN p ELSE CheckClose(q)
  BY <1>3, <1>4 DEF TryEof
<1> HIDE DEF p, q
<1>7. CheckClose(q) = q
  <2>1. Assert(q, TRUE, "none") = q
    BY <1>5 DEF Assert
  <2>2. ~WantClose(q)
    <3>1. c.chan.vt = "sess" /\ ~(c.chan.seen_eof /\ c.chan.seen_exit)
      BY ChanIs DEF Over
    <3> QED BY <1>5, <3>1 DEF WantClose
  <2> QED BY <1>5, <2>1, <2>2 DEF CheckClose, ReadyToClose, BothClosed
<1> QED BY <1>4, <1>5, <1>6, <1>7

\* pty_finished
LEMMA FinishStep ==
    ASSUME TypeOK, ExitStatusFirst, Talking, Finish
    PROVE  IInv'
<1> DEFINE w == WriteEof(srv)
           k == [w.chan EXCEPT !.seen_eof = TRUE, !.backend = "finished"]
           c == [w EXCEPT !.chan = k, !.input_wanted = w.input_wanted]
           s == SendRequest(c, "exit-status", FALSE)
           h == [s.chan EXCEPT !.seen_exit = TRUE, !.callbacks = 2]
           e == [s EXCEPT !.chan = h, !.input_wanted = s.input_wanted]
           F == Fits(cli, wire["server"], wire["client"], Printed, Typed)
<1>1. Process /\ UNCHANGED <<exitcode, announced>> /\ UNCHANGED counts
  BY DEF Finish
<1>2. /\ ~srv.gone /\ srv.chan \in Sess /\ ~Over(srv) /\ ~srv.sent_eof /\ ~srv.sent_close
  BY <1>1, ProcessIs
<1>3. /\ srv \in Mid /\ Usable(srv) /\ Winadjs(srv.chanreqs) /\ Fitting(F) /\ srv \in F
  BY <1>2, ServerAt
<1>4. /\ w = WriteEof(srv) /\ k = [w.chan EXCEPT !.seen_eof = TRUE, !.backend = "finished"]
      /\ c = [w EXCEPT !.chan = k, !.input_wanted = w.input_wanted]
      /\ s = SendRequest(c, "exit-status", FALSE)
      /\ h = [s.chan EXCEPT !.seen_exit = TRUE, !.callbacks = 2]
      /\ e = [s EXCEPT !.chan = h, !.input_wanted = s.input_wanted]
  OBVIOUS
<1> HIDE DEF w, F
<1>5. w \in F /\ Keeps(srv, w) /\ w.chanreqs = srv.chanreqs /\ ~w.sent_close
  BY <1>2, <1>3, <1>4, WriteEofFits, WriteEofOpen
<1>6. w \in Mid /\ w.chan = srv.chan /\ Usable(w) /\ w.input_wanted \in BOOLEAN /\ w.input_wanted = w.input_wanted
  BY <1>3, <1>5, EndShape, EndTypes DEF Keeps, Usable
<1>7. k \in Sess /\ k.seen_eof /\ k.backend = "finished"
  BY <1>2, <1>6 DEF Sess
<1>8. c = [WriteEof(srv) EXCEPT !.chan.seen_eof = TRUE, !.chan.backend = "finished"]
  BY <1>4, <1>6 DEF Mid
<1> HIDE DEF c, k
<1>9. c \in F /\ Becomes(w, c, k)
  BY <1>2, <1>3, <1>4, <1>5, <1>6, <1>7, ObjectFits, ZenonT(60)
<1>10. c \in Mid /\ c.chan = k /\ Usable(c) /\ ~c.sent_close
  <2>1. c \in Mid /\ c.chan = k /\ Usable(c)
    BY <1>3, <1>6, <1>9, EndShape DEF Becomes, Usable
  <2>2. c.sent_close = w.sent_close
    BY <1>4, <1>6 DEF Mid
  <2> QED BY <1>5, <2>1, <2>2
<1>11. "exit-status" \in Notices
  BY DEF Notices
<1> HIDE DEF s
<1>12. s \in F /\ Keeps(c, s) /\ Tells(c, s, "exit-status")
  BY <1>3, <1>4, <1>9, <1>10, <1>11, NoticeFits
<1>13. s \in Mid /\ s.chan = k /\ Usable(s) /\ s.input_wanted \in BOOLEAN /\ c.packets \in Seq(Item)
  BY <1>3, <1>9, <1>10, <1>12, EndShape, EndTypes DEF Keeps, Usable
<1>14. h \in Sess /\ h.seen_eof /\ h.seen_exit /\ h.backend = "finished" /\ s.chan \in Sess
  <2> HIDE DEF e, h
  <2>1. h = [k EXCEPT !.seen_exit = TRUE, !.callbacks = 2]
    BY <1>4, <1>13, Zenon
  <2>2. 2 \in 0..2
    OBVIOUS
  <2> QED BY <1>7, <1>13, <2>1, <2>2 DEF Sess
<1>15. e = [s EXCEPT !.chan.seen_exit = TRUE, !.chan.callbacks = 2]
  BY <1>13 DEF Mid
<1> HIDE DEF e, h
<1>16. e \in F /\ Becomes(s, e, h)
  <2>1. e = [s EXCEPT !.chan = h, !.input_wanted = s.input_wanted]
    BY <1>4
  <2> QED BY <1>3, <1>12, <1>13, <1>14, <2>1, ObjectFits
<1>17. Over(e) /\ Serves(e) /\ Usable(e)
  BY <1>13, <1>14, <1>16 DEF Becomes, Over, Serves, Usable
<1>18. Winadjs(e.chanreqs)
  BY <1>3, <1>5, <1>9, <1>12, <1>16 DEF Becomes, Tells
<1>19. Noted(e.packets)
  <2> DEFINE q == c.packets
             x == Packet("notice", "exit-status")
             p == Append(q, x)
  <2>1. e.packets = p
    BY <1>12, <1>16 DEF Becomes, Tells
  <2>2. x.kind = "notice"
    BY DEF Packet
  <2> HIDE DEF x
  <2>3. Len(q) + 1 \in DOMAIN p /\ p[Len(q) + 1] = x
    BY <1>13
  <2> HIDE DEF p, q
  <2> QED BY <2>1, <2>2, <2>3 DEF Noted
<1>20. CountsType' /\ Typed' = Typed /\ Printed' = Printed
  BY <1>1, SameCounts
<1>21. Effect("server", e, wire["server"], FALSE)
  BY <1>4, <1>8, <1>15 DEF Finish
<1>22. e \in Fits(cli, wire["server"], wire["client"], Printed', Typed')
  BY <1>16, <1>20 DEF F
<1> QED BY <1>1, <1>17, <1>18, <1>19, <1>20, <1>21, <1>22, ServerGoesOn

\* sesschan_check_close_callback
LEMMA CheckCloseStep ==
    ASSUME TypeOK, ExitStatusFirst, Talking, CheckCloseCallback
    PROVE  IInv'
<1> DEFINE n == srv.chan.callbacks - 1
           k == [srv.chan EXCEPT !.callbacks = n]
           c == [srv EXCEPT !.chan = k, !.input_wanted = srv.input_wanted]
           e == IF c.chan.seen_eof /\ c.chan.seen_exit THEN InitiateClose(c) ELSE c
           F == Fits(cli, wire["server"], wire["client"], Printed, Typed)
<1>1. /\ srv.chan.vt = "sess" /\ srv.chan.callbacks > 0 /\ UNCHANGED <<exitcode, announced>>
      /\ UNCHANGED counts
  BY DEF CheckCloseCallback
<1>2. ~srv.gone
  <2>1. Zombie.vt = "zombie"
    BY DEF Zombie
  <2> QED BY <1>1, <2>1, GoneIs DEF Talking, ServerSteady, Steady, Usable
<1>3. /\ srv \in Mid /\ Usable(srv) /\ Winadjs(srv.chanreqs) /\ Fitting(F) /\ srv \in F
      /\ Serves(srv) /\ (Ended(srv) => Over(srv)) /\ srv.input_wanted \in BOOLEAN
  BY <1>2, ServerAt, EndTypes
<1>4. srv.chan \in Sess
  BY <1>1, <1>3, ChanIs
<1>5. n \in 0..2
  <2>1. srv.chan.callbacks \in 0..2
    BY <1>4 DEF Sess
  <2> QED BY <1>1, <2>1
<1>6. Effect("server", e, wire["server"], FALSE)
  <2>1. c = [srv EXCEPT !.chan.callbacks = @ - 1]
    BY <1>3 DEF Mid
  <2> QED BY <2>1 DEF CheckCloseCallback
<1>7. k \in Sess /\ k.seen_eof = srv.chan.seen_eof /\ k.seen_exit = srv.chan.seen_exit
      /\ k.backend = srv.chan.backend
  <2> HIDE DEF n
  <2> QED BY <1>4, <1>5 DEF Sess
<1>8. c = [srv EXCEPT !.chan = k, !.input_wanted = srv.input_wanted]
  OBVIOUS
<1>9. e = IF c.chan.seen_eof /\ c.chan.seen_exit THEN InitiateClose(c) ELSE c
  OBVIOUS
<1> HIDE DEF k, c, e, F
<1>10. c \in F /\ Becomes(srv, c, k)
  BY <1>3, <1>4, <1>7, <1>8, ObjectFits
<1>11. \A j \in Sess : j # Zombie
  BY DEF Sess, Zombie
<1>12. Usable(c) /\ Serves(c) /\ Winadjs(c.chanreqs) /\ (Ended(c) => Over(c)) /\ (Over(c) <=> Over(srv))
       /\ (Over(c) <=> c.chan.seen_eof /\ c.chan.seen_exit)
  BY <1>3, <1>4, <1>7, <1>10, <1>11 DEF Becomes, Usable, Serves, Over
<1>13. /\ e \in F /\ Usable(e) /\ Serves(e) /\ Winadjs(e.chanreqs) /\ (Ended(e) => Over(e))
       /\ (Over(e) => Over(srv))
  <2>1. CASE ~(c.chan.seen_eof /\ c.chan.seen_exit)
    <3>1. e = c
      BY <1>9, <2>1
    <3> QED BY <1>10, <1>12, <3>1
  <2>2. CASE c.chan.seen_eof /\ c.chan.seen_exit
    <3>1. e = InitiateClose(c)
      BY <1>9, <2>2
    <3>2. e \in F /\ Usable(e) /\ e.chan = Zombie /\ e.chanreqs = c.chanreqs
      BY <1>3, <1>10, <1>12, <3>1, InitiateCloseFits
    <3>3. Zombie \notin Sess
      BY <1>11
    <3> QED BY <1>12, <2>2, <3>2, <3>3 DEF Serves, Over
  <2> QED BY <2>1, <2>2
<1>14. CountsType' /\ Typed' = Typed /\ Printed' = Printed
  BY <1>1, SameCounts
<1>15. e \in Fits(cli, wire["server"], wire["client"], Printed', Typed')
  BY <1>13, <1>14 DEF F
<1> QED BY <1>1, <1>6, <1>13, <1>14, <1>15, ServerGoesOn

--------------------------------------------------------------------------------
(* The opening of the session. *)

\* The client's end until the server's answer comes
LEMMA WaitingIs ==
    ASSUME NEW eof \in BOOLEAN, NEW c, c = Waiting(eof)
    PROVE  /\ c.chan \in Main /\ c.chan.eof_pending = eof /\ ~c.chan.ready /\ ~c.chan.eof_sent
           /\ c.chan.vt = "main" /\ ~c.chan.req_pty /\ ~c.chan.got_pty /\ c.chan.req_cmd = "none"
           /\ c.halfopen /\ ~c.gone /\ ~c.input_wanted /\ c.locwindow = 1 /\ c.outbuffer = 0
           /\ ~c.sent_eof /\ ~c.sent_close /\ ~c.rcvd_eof /\ ~c.rcvd_close /\ ~c.pending_eof
           /\ c.chanreqs = <<>> /\ c.packets = <<>> /\ c.fault = "none" /\ c.remwindow = 0
           /\ ~c.held /\ ~c.throttling_conn
  BY DEF Waiting, NewEnd, NewMain, Main

\* The server's end when it has just answered
LEMMA AcceptedIs ==
    ASSUME NEW c, c = NewEnd(NewSess, FALSE)
    PROVE  /\ c \in Mid /\ c.chan \in Sess /\ ~c.chan.seen_eof /\ c.chan.backend = "none" /\ c.chan.callbacks = 0
           /\ ~c.chan.seen_exit /\ ~c.halfopen /\ ~c.gone /\ c.locwindow = 1 /\ c.remwindow = 1 /\ c.outbuffer = 0
           /\ ~c.sent_eof /\ ~c.sent_close /\ ~c.rcvd_eof /\ ~c.rcvd_close /\ ~c.pending_eof
           /\ c.chanreqs = <<>> /\ c.packets = <<>> /\ c.fault = "none"
<1>1. <<>> \in Seq(Item) /\ <<>> \in Seq(Requests) /\ 1 \in 0..1 /\ 0 \in Nat /\ 0 \in 0..2
  OBVIOUS
<1>2. NewSess \in Sess /\ ~NewSess.seen_eof /\ ~NewSess.seen_exit /\ NewSess.backend = "none"
      /\ NewSess.callbacks = 0
  BY <1>1 DEF NewSess, Sess
<1>3. /\ c.chan = NewSess /\ ~c.halfopen /\ ~c.gone /\ c.locwindow = 1 /\ c.remwindow = 1 /\ c.outbuffer = 0
      /\ ~c.sent_eof /\ ~c.sent_close /\ ~c.rcvd_eof /\ ~c.rcvd_close /\ ~c.pending_eof
      /\ c.chanreqs = <<>> /\ c.packets = <<>> /\ c.fault = "none"
  BY DEF NewEnd
<1>4. c \in Mid
  <2> HIDE DEF NewSess
  <2> QED BY <1>1, <1>2 DEF NewEnd, Mid
<1> QED BY <1>2, <1>3, <1>4

\* Two ends that have said nothing to each other are in accord.
LEMMA FreshAccord ==
    ASSUME NEW C \in Mid, NEW D \in Mid, ~C.gone, ~D.gone, ~C.rcvd_eof, ~D.rcvd_eof,
           C.chanreqs = <<>>, D.chanreqs = <<>>, C.outbuffer = 0, D.outbuffer = 0,
           C.locwindow = 1, D.locwindow = 1
    PROVE  Accord(C, D, <<>>, <<>>, 0, 0)
<1>1. \A k : Num(<<>>, k) = 0
  BY NumNone
<1>2. <<>> \in Seq(Item) /\ DOMAIN <<>> = {} /\ Len(<<>>) = 0
  OBVIOUS
<1>3. CloseLast(<<>>) /\ \A c : Marks(c, <<>>)
  BY <1>2 DEF CloseLast, Marks
<1>4. Asked(C, D, <<>>, <<>>) /\ Asked(D, C, <<>>, <<>>)
  BY <1>1, <1>2 DEF Asked
<1>5. Room(C) \in 0..1 /\ Room(D) \in 0..1
  BY EndTypes
<1>6. Credit(C, D, <<>>, <<>>) /\ Credit(D, C, <<>>, <<>>)
  BY <1>1, <1>5 DEF Credit
<1> QED BY <1>1, <1>2, <1>3, <1>4, <1>6 DEF Accord, Link

\* What is so until the ends talk
LEMMA OpeningIs ==
    ASSUME TypeOK, Opening
    PROVE  /\ announced \in BOOLEAN /\ cli = Waiting(announced) /\ conn = "up"
           /\ wire["client"] # <<>> => srv = NewEnd(NewSess, FALSE) /\ wire["server"] = <<>>
                                       /\ wire["client"] = <<Packet("confirmation", "none")>>
           /\ wire["server"] # <<>> => srv = Gone /\ wire["client"] = <<>>
                                       /\ wire["server"] = <<Packet("open", "none")>>
           /\ srv = Gone \/ srv = NewEnd(NewSess, FALSE)
  BY DEF TypeOK, Opening

\* Only the answer can arrive at the client, and only the question at the server.
LEMMA OpeningReads ==
    ASSUME TypeOK, Opening, NEW kind
    PROVE  /\ Arrives("client", kind) => kind = "confirmation" /\ wire["client"] # <<>>
           /\ Arrives("server", kind) => kind = "open" /\ wire["server"] # <<>>
<1>1. Head(<<Packet("confirmation", "none")>>).kind = "confirmation"
      /\ Head(<<Packet("open", "none")>>).kind = "open"
  BY DEF Packet
<1> QED BY <1>1, OpeningIs DEF Arrives

\* What is left to prove of a step after which the session is still to be opened
LEMMA StillOpening ==
    ASSUME TypeOK, ExitStatusFirst, Opening', EndsType', setup' = setup, fault' = NoFault,
           exitcode' = exitcode, announced' \in BOOLEAN, UNCHANGED counts, conn' = conn
    PROVE  IInv'
<1>1. CountsType'
  BY SameCounts
<1>2. TypeOK'
  BY <1>1 DEF TypeOK, EndsType, CountsType
<1>3. ExitStatusFirst' /\ OtherAssertionsHold'
  BY DEF ExitStatusFirst, OtherAssertionsHold
<1> QED BY <1>2, <1>3 DEF IInv

\* CHANNEL_OPEN
LEMMA AcceptStep ==
    ASSUME TypeOK, ExitStatusFirst, Opening, Accept
    PROVE  IInv'
<1> DEFINE a == NewEnd(NewSess, FALSE)
           x == Packet("confirmation", "none")
           e == Push(a, "confirmation", "none")
<1>1. /\ ends \in [Sides -> End \cup {Gone}] /\ wire \in [Sides -> Seq(Message)]
      /\ "client" \in Sides /\ "server" \in Sides /\ Other("server") = "client"
  BY DEF TypeOK, Sides, Other
<1>2. /\ Arrives("server", "open") /\ Effect("server", e, Tail(wire["server"]), FALSE)
      /\ exitcode' = exitcode /\ announced' = announced /\ UNCHANGED counts
  BY DEF Accept, Handled
<1>3. wire["server"] = <<Packet("open", "none")>> /\ wire["client"] = <<>> /\ conn = "up"
      /\ cli = Waiting(announced) /\ announced \in BOOLEAN
  BY <1>2, OpeningIs DEF Arrives
<1>4. a \in Mid /\ a.packets = <<>> /\ ~a.gone /\ a.fault = "none"
  BY AcceptedIs
<1>5. e = [a EXCEPT !.packets = Append(a.packets, x)]
  BY DEF Push
<1>6. a = NewEnd(NewSess, FALSE)
  OBVIOUS
<1> HIDE DEF a, x, e
<1>7. ~e.gone /\ e.fault = "none" /\ e.packets = Append(a.packets, x) /\ Settled(e) = a
  BY <1>4, <1>5 DEF Settled, Mid
<1>8. e.packets = <<x>>
  BY <1>4, <1>7
<1>9. Tail(wire["server"]) = <<>> /\ <<>> \o <<x>> = <<x>>
  BY <1>3
<1>10. /\ ends' = [ends EXCEPT !["server"] = a]
       /\ wire' = [wire EXCEPT !["server"] = <<>>, !["client"] = @ \o <<x>>]
       /\ fault' = NoFault /\ setup' = setup /\ conn' = conn
  <2>1. conn' = conn
    BY <1>2 DEF Effect
  <2> QED BY <1>1, <1>2, <1>7, <1>8, <1>9, <2>1 DEF Effect
<1>11. srv' = a /\ cli' = cli
  BY <1>1, <1>10 DEF cli, srv, Sides
<1>12. wire'["server"] = <<>> /\ wire'["client"] = <<x>>
  BY <1>1, <1>3, <1>9, <1>10 DEF Sides
<1>13. EndsType'
  <2>1. a \in End
    BY <1>4, MidIsEnd
  <2>2. x \in Message
    BY DEF x, Packet, Message
  <2>3. <<x>> \in Seq(Message) /\ <<>> \in Seq(Message)
    BY <2>2
  <2>4. ends' \in [Sides -> End \cup {Gone}]
    BY <1>1, <1>10, <2>1
  <2>5. wire' = [wire EXCEPT !["server"] = <<>>, !["client"] = <<x>>]
    BY <1>1, <1>3, <1>9, <1>10 DEF Sides
  <2>6. wire' \in [Sides -> Seq(Message)]
    BY <1>1, <2>3, <2>5
  <2> QED BY <2>4, <2>6 DEF EndsType
<1>14. Opening'
  <2>1. typed' = 0 /\ arrived' = 0 /\ printed' = 0 /\ shown' = 0
    BY <1>2 DEF Opening, counts
  <2> QED BY <1>2, <1>3, <1>6, <1>10, <1>11, <1>12, <2>1 DEF Opening, x
<1> QED BY <1>2, <1>3, <1>10, <1>13, <1>14, StillOpening

\* The client's end has its type while it waits,
LEMMA WaitingType ==
    ASSUME NEW eof \in BOOLEAN
    PROVE  Waiting(eof) \in End
<1> DEFINE k == [NewMain EXCEPT !.eof_pending = eof]
<1>1. k \in Channels
  BY DEF NewMain, Main, Channels
<1>2. <<>> \in Seq(Requests) /\ 0 \in 0..1 /\ 1 \in 0..1 /\ 0 \in Nat
  OBVIOUS
<1>3. Waiting(eof) = [NewEnd(k, TRUE) EXCEPT !.input_wanted = FALSE]
  BY DEF Waiting
<1> HIDE DEF k
<1> QED BY <1>1, <1>2, <1>3 DEF NewEnd, End

\* Two ends that differ in the Channel object only
LEMMA SameButChan ==
    ASSUME NEW c \in End, NEW d \in End,
           c.halfopen = d.halfopen, c.sent_eof = d.sent_eof, c.sent_close = d.sent_close,
           c.rcvd_eof = d.rcvd_eof, c.rcvd_close = d.rcvd_close, c.pending_eof = d.pending_eof,
           c.outbuffer = d.outbuffer, c.remwindow = d.remwindow, c.locwindow = d.locwindow,
           c.chanreqs = d.chanreqs, c.throttling_conn = d.throttling_conn,
           c.input_wanted = d.input_wanted, c.held = d.held, c.packets = d.packets,
           c.gone = d.gone, c.fault = d.fault
    PROVE  [c EXCEPT !.chan = d.chan] = d
  BY DEF End

\* The fields of the client's end while it waits
WaitsStill(c) ==
    /\ c.halfopen = TRUE /\ c.sent_eof = FALSE /\ c.sent_close = FALSE /\ c.rcvd_eof = FALSE
    /\ c.rcvd_close = FALSE /\ c.pending_eof = FALSE /\ c.outbuffer = 0 /\ c.remwindow = 0
    /\ c.locwindow = 1 /\ c.chanreqs = <<>> /\ c.throttling_conn = FALSE
    /\ c.input_wanted = FALSE /\ c.held = FALSE /\ c.packets = <<>> /\ c.gone = FALSE
    /\ c.fault = "none"

\* They do not depend on what the user announced,
LEMMA WaitingStill ==
    ASSUME NEW eof, NEW c, c = Waiting(eof)
    PROVE  WaitsStill(c)
<1> DEFINE k == [NewMain EXCEPT !.eof_pending = eof]
<1>1. c = [NewEnd(k, TRUE) EXCEPT !.input_wanted = FALSE]
  BY DEF Waiting
<1> HIDE DEF k
<1> QED BY <1>1 DEF NewEnd, WaitsStill

\* of which only the Channel object knows.
LEMMA WaitingChan ==
    ASSUME NEW eof, NEW c, c = Waiting(eof)
    PROVE  c.chan = [NewMain EXCEPT !.eof_pending = eof]
<1> DEFINE k == [NewMain EXCEPT !.eof_pending = eof]
<1>1. c = [NewEnd(k, TRUE) EXCEPT !.input_wanted = FALSE]
  BY DEF Waiting
<1> HIDE DEF k
<1>2. c.chan = k
  BY <1>1 DEF NewEnd
<1> QED BY <1>2 DEF k

\* and when it notes the EOF nothing else changes.
LEMMA WaitingNoted ==
    ASSUME NEW c, c = Waiting(FALSE), NEW d, d = Waiting(TRUE)
    PROVE  [c EXCEPT !.chan.eof_pending = TRUE] = d
<1>1. c \in End /\ d \in End
  BY WaitingType
<1>2. /\ c.halfopen = d.halfopen /\ c.sent_eof = d.sent_eof /\ c.sent_close = d.sent_close
      /\ c.rcvd_eof = d.rcvd_eof /\ c.rcvd_close = d.rcvd_close /\ c.pending_eof = d.pending_eof
      /\ c.outbuffer = d.outbuffer /\ c.remwindow = d.remwindow /\ c.locwindow = d.locwindow
      /\ c.chanreqs = d.chanreqs /\ c.throttling_conn = d.throttling_conn
      /\ c.input_wanted = d.input_wanted /\ c.held = d.held /\ c.packets = d.packets
      /\ c.gone = d.gone /\ c.fault = d.fault
  <2>1. WaitsStill(c) /\ WaitsStill(d)
    BY <1>1, WaitingStill
  <2> QED BY <2>1, ZenonT(60) DEF WaitsStill
<1>3. [c EXCEPT !.chan = d.chan] = d
  BY <1>1, <1>2, SameButChan
<1>4. c.chan = [NewMain EXCEPT !.eof_pending = FALSE] /\ d.chan = [NewMain EXCEPT !.eof_pending = TRUE]
  BY WaitingChan
<1>5. [c.chan EXCEPT !.eof_pending = TRUE] = d.chan
  BY <1>4 DEF NewMain
<1> QED BY <1>3, <1>5

\* SS_EOF before the session is open is noted.
LEMMA AnnounceEarly ==
    ASSUME TypeOK, ExitStatusFirst, Opening, Announce
    PROVE  IInv'
<1> DEFINE e == SpecialEof(cli)
           d == Waiting(TRUE)
<1>1. /\ ends \in [Sides -> End \cup {Gone}] /\ wire \in [Sides -> Seq(Message)]
      /\ "client" \in Sides /\ "server" \in Sides /\ Other("client") = "server"
  BY DEF TypeOK, Sides, Other
<1>2. /\ Effect("client", e, wire["client"], FALSE) /\ ~announced
      /\ exitcode' = exitcode /\ announced' = TRUE /\ UNCHANGED counts
  BY DEF Announce
<1>3. conn = "up" /\ cli = Waiting(FALSE) /\ announced \in BOOLEAN
  BY <1>2, OpeningIs
<1>4. ~cli.chan.ready /\ ~cli.gone /\ cli.packets = <<>> /\ cli.fault = "none"
  BY <1>3, WaitingIs
<1>5. e = [cli EXCEPT !.chan.eof_pending = TRUE]
  BY <1>4 DEF SpecialEof
<1>6. e = d
  <2> HIDE DEF d
  <2>1. d = Waiting(TRUE)
    BY DEF d
  <2> QED BY <1>3, <1>5, <2>1, WaitingNoted
<1>7. ~d.gone /\ d.packets = <<>> /\ d.fault = "none" /\ d \in End
  BY WaitingIs, WaitingType
<1>8. d = Waiting(TRUE)
  OBVIOUS
<1> HIDE DEF e, d
<1>9. Settled(d) = d
  BY <1>7 DEF Settled, End
<1>10. wire["server"] \in Seq(Message) /\ wire["server"] \o <<>> = wire["server"]
  BY <1>1
<1>11. /\ ends' = [ends EXCEPT !["client"] = d]
       /\ wire' = [wire EXCEPT !["client"] = wire["client"], !["server"] = @ \o <<>>]
       /\ fault' = NoFault /\ setup' = setup /\ conn' = conn
  <2>1. conn' = conn
    BY <1>2, <1>6, <1>7 DEF Effect
  <2> QED BY <1>1, <1>2, <1>6, <1>7, <1>9, <2>1 DEF Effect
<1>12. cli' = d /\ srv' = srv
  BY <1>1, <1>11 DEF cli, srv, Sides
<1>13. wire' = wire
  BY <1>1, <1>10, <1>11
<1>14. EndsType'
  <2>1. ends' \in [Sides -> End \cup {Gone}]
    BY <1>1, <1>7, <1>11
  <2> QED BY <1>1, <1>13, <2>1 DEF EndsType
<1>15. Opening'
  <2>1. typed' = 0 /\ arrived' = 0 /\ printed' = 0 /\ shown' = 0
    BY <1>2 DEF Opening, counts
  <2> QED BY <1>2, <1>3, <1>8, <1>11, <1>12, <1>13, <2>1 DEF Opening
<1> QED BY <1>2, <1>11, <1>14, <1>15, StillOpening

\* The queue of a call that sends one packet
LEMMA OneMessage ==
    ASSUME NEW x \in Message
    PROVE  <<>> \in Seq(Message) /\ Append(<<>>, x) \in Seq(Message)
  OBVIOUS

\* A request that cites a channel which is not open yet
LEMMA TooEarly ==
    ASSUME NEW eof \in BOOLEAN, NEW c, c = Waiting(eof), c \in End, NEW req \in Notices,
           NEW e, e = SendRequest(Assert(c, ~c.halfopen, "remote id not set"), req, FALSE)
    PROVE  ~e.gone /\ Settled(e) \in End /\ e.packets \in Seq(Message) /\ e.fault = "remote id not set"
<1> DEFINE x == Packet("notice", req)
           q == Append(c.packets, x)
           f == [c EXCEPT !.fault = "remote id not set"]
<1>1. c.fault = "none" /\ ~c.gone /\ c.halfopen /\ c.packets = <<>>
  BY WaitingIs
<1>2. Assert(c, ~c.halfopen, "remote id not set") = f
  BY <1>1 DEF Assert
<1>3. f.fault = "remote id not set" /\ f.packets = c.packets /\ ~f.gone
  BY <1>1 DEF End
<1>4. e = [f EXCEPT !.packets = q]
  BY <1>2, <1>3 DEF SendRequest, Assert, Push
<1>5. x \in Message
  BY DEF Packet, Message, Notices
<1> HIDE DEF x
<1>6. q \in Seq(Message)
  BY <1>1, <1>5, OneMessage
<1> HIDE DEF q
<1>7. ~e.gone /\ e.packets = q /\ e.fault = "remote id not set"
  BY <1>1, <1>4 DEF End
<1>8. Settled(e) = c
  BY <1>1, <1>4, ZenonT(60) DEF Settled, End
<1> QED BY <1>6, <1>7, <1>8

\* ... stops the program.
LEMMA SpecialEarly ==
    ASSUME TypeOK, ExitStatusFirst, Opening, Special
    PROVE  IInv'
<1>1. PICK req \in {"aside", "signal"} :
           Effect("client", SendRequest(Assert(cli, ~cli.halfopen, "remote id not set"), req, FALSE),
                  wire["client"], FALSE)
  BY DEF Special
<1> DEFINE e == SendRequest(Assert(cli, ~cli.halfopen, "remote id not set"), req, FALSE)
<1>2. e = SendRequest(Assert(cli, ~cli.halfopen, "remote id not set"), req, FALSE)
      /\ Effect("client", e, wire["client"], FALSE)
  BY <1>1
<1>3. asides < MaxAsides /\ asides' = asides + 1
      /\ UNCHANGED <<exitcode, announced, typed, arrived, printed, shown>>
  BY DEF Special
<1>4. cli = Waiting(announced) /\ announced \in BOOLEAN
  BY OpeningIs
<1>5. "client" \in Sides /\ wire["client"] \in Seq(Message)
  BY DEF TypeOK, Sides
<1>6. cli \in End
  BY <1>4, WaitingType
<1>7. req \in Notices
  BY DEF Notices
<1> HIDE DEF e
<1>8. ~e.gone /\ Settled(e) \in End /\ e.packets \in Seq(Message) /\ e.fault = "remote id not set"
  BY <1>2, <1>4, <1>6, <1>7, TooEarly
<1>9. CountsType'
  <2>1. asides + 1 \in 0..MaxAsides
    BY <1>3, SessionAssumption DEF TypeOK
  <2> QED BY <1>3, <2>1 DEF TypeOK, CountsType
<1> QED BY <1>2, <1>3, <1>5, <1>8, <1>9, FailedStep

\* mainchan_open_confirmation sends a request, and notes it in the Channel object.
Noting(b, d, k) == d = [b EXCEPT !.chan = k]

\* What the end is afterwards
Requested(c, d, k, req) ==
    Usable(d) /\ d.chan = k /\ ~Ended(d) /\ d.chanreqs = Append(c.chanreqs, req)

\* It is an end that the peer can live with.
LEMMA RequestFits ==
    ASSUME NEW F, Fitting(F), NEW c \in F, Usable(c), c.chan \in Main, ~Ended(c), NEW req \in Requests,
           NEW k \in Main, NEW b, b = SendRequest(c, req, TRUE), NEW d, Noting(b, d, k)
    PROVE  d \in F /\ Requested(c, d, k, req)
<1>2. c \in Mid /\ Sound(c)
  BY EndShape
<1>3. ~c.sent_close /\ ~Over(c)
  <2>1. c.chan.vt = "main"
    BY MainIs
  <2> QED BY <1>2, <2>1 DEF Sound, Ended, Over, Zombie, Sess
<1>4. b \in F /\ Keeps(c, b) /\ Quiet(c, b) /\ Asks(c, b, req)
  BY <1>3, AskFits
<1>5. b \in Mid /\ b.input_wanted \in BOOLEAN
  BY <1>4, EndShape, EndTypes
<1>6. d = [b EXCEPT !.chan = k, !.input_wanted = b.input_wanted]
  BY <1>5 DEF Mid, Noting
<1>7. b.chan \in Main
  BY <1>4 DEF Keeps
<1>8. d \in F /\ Becomes(b, d, k)
  BY <1>4, <1>5, <1>6, <1>7, ObjectFits
<1> QED BY <1>3, <1>4, <1>8 DEF Keeps, Quiet, Asks, Becomes, Usable, Requested

\* The client's end when the channel has just been confirmed
LEMMA ConfirmedIs ==
    ASSUME NEW eof \in BOOLEAN, NEW w, w = Waiting(eof), NEW c, c = Confirmed(w)
    PROVE  /\ c \in Mid /\ c.packets = <<>> /\ Sound(c) /\ Usable(c) /\ ~Ended(c)
           /\ c.chan = w.chan /\ c.chanreqs = <<>> /\ c.outbuffer = 0 /\ c.locwindow = 1
           /\ ~c.gone /\ ~c.rcvd_eof
<1>1. w \in End /\ WaitsStill(w) /\ w.chan \in Main
  BY WaitingType, WaitingStill, WaitingIs
<1>2. Assert(w, w.halfopen, "confirmed twice") = w
  BY <1>1 DEF Assert, WaitsStill
<1>3. c = [w EXCEPT !.halfopen = FALSE, !.remwindow = 1]
  BY <1>2 DEF Confirmed
<1>4. /\ c.packets = <<>> /\ c.chan = w.chan /\ c.chanreqs = <<>> /\ c.outbuffer = 0 /\ c.locwindow = 1
      /\ c.gone = FALSE /\ c.rcvd_eof = FALSE /\ c.sent_eof = FALSE /\ c.sent_close = FALSE
      /\ c.rcvd_close = FALSE /\ c.pending_eof = FALSE
  BY <1>1, <1>3 DEF End, WaitsStill
<1>5. c \in Mid
  <2>1. 1 \in 0..1 /\ <<>> \in Seq(Item) /\ <<>> \in Seq(Requests)
    OBVIOUS
  <2>2. /\ w.throttling_conn \in {FALSE} /\ w.held \in {FALSE} /\ w.packets \in Seq(Item)
        /\ w.chan \in {Zombie} \cup Main \cup Sess
    BY <1>1, <2>1 DEF WaitsStill
  <2> QED BY <1>1, <1>3, <2>1, <2>2 DEF End, Mid
<1> QED BY <1>4, <1>5 DEF Sound, Usable, Ended

\* What the main channel has asked for
FirstAsks(c, pty, d, e) ==
    /\ d = IF pty THEN [SendRequest(c, "pty-req", TRUE) EXCEPT !.chan.req_pty = TRUE] ELSE c
    /\ e = [SendRequest(d, "shell", TRUE) EXCEPT !.chan.req_cmd = "primary"]

\* The requests in the order in which they are sent
LEMMA AddShell ==
    Append(<<>>, "shell") = <<"shell">> /\ Append(<<>>, "pty-req") = <<"pty-req">>
<1>1. <<>> \in Seq(Requests) /\ {"pty-req", "shell"} \subseteq Requests
  BY DEF Requests
<1>2. Append(<<>>, "shell") = <<"shell">>
  BY <1>1
<1>3. Append(<<>>, "pty-req") = <<"pty-req">>
  BY <1>1
<1> QED BY <1>2, <1>3

\* What the Channel object notes of them is right.
LEMMA FirstWants ==
    ASSUME NEW k \in Main, NEW L, k.req_cmd = "primary",
           L = IF k.req_pty THEN Append(<<"pty-req">>, "shell") ELSE <<"shell">>
    PROVE  Wants(k, L)
<1>1. CASE k.req_pty
  <2>1. L = Append(<<"pty-req">>, "shell")
    BY <1>1
  <2>2. DOMAIN L = 1..2 /\ L[1] = "pty-req" /\ L[2] = "shell"
    BY <2>1
  <2> QED BY <1>1, <2>2 DEF Wants, Waits, Commands
<1>2. CASE ~k.req_pty
  <2>1. L = <<"shell">>
    BY <1>2
  <2>2. DOMAIN L = {1} /\ L[1] = "shell"
    BY <2>1
  <2> QED BY <1>2, <2>2 DEF Wants, Waits, Commands
<1> QED BY <1>1, <1>2

\* No EOF waits, so that nothing more happens after the confirmation.
LEMMA QuietConfirmation ==
    ASSUME NEW c \in Mid, ~Ended(c), c.chan \in Main, Usable(c)
    PROVE  AfterConfirmation(c) = c
<1>1. c.chan.vt = "main"
  BY MainIs
<1>2. c.fault = "none" /\ ~c.halfopen
  BY EndTypes
<1>3. Assert(c, TRUE, "none") = c
  BY <1>2 DEF Assert, Usable
<1>4. ~ReadyToClose(c) /\ ~BothClosed(c)
  BY <1>1 DEF ReadyToClose, WantClose, BothClosed, Ended, Usable
<1>5. CheckClose(c) = c
  BY <1>2, <1>3, <1>4 DEF CheckClose
<1> QED BY <1>5 DEF AfterConfirmation, Ended

\* mainchan_open_confirmation
LEMMA ConfirmationFits ==
    ASSUME NEW F, Fitting(F), NEW c \in F, Usable(c), c.chan \in Main, ~Ended(c), c.chanreqs = <<>>,
           ~c.chan.req_pty, ~c.chan.eof_sent, NEW pty \in BOOLEAN,
           NEW d, NEW e, FirstAsks(c, pty, d, e)
    PROVE  /\ e \in F /\ Usable(e) /\ Minds(e) /\ ~Ended(e) /\ Wants(e.chan, e.chanreqs)
           /\ e.chan.eof_pending = c.chan.eof_pending /\ e.chan.ready = c.chan.ready
           /\ AfterConfirmation(e) = e
<1> DEFINE k == IF pty THEN [c.chan EXCEPT !.req_pty = TRUE] ELSE c.chan
           h == [k EXCEPT !.req_cmd = "primary"]
           L == IF pty THEN <<"pty-req">> ELSE <<>>
<1>1. k \in Main /\ k.req_pty = pty /\ k.eof_pending = c.chan.eof_pending /\ k.ready = c.chan.ready
      /\ ~k.eof_sent
  BY DEF Main
<1>2. "pty-req" \in Requests /\ "shell" \in Requests
  BY DEF Requests
<1>3. /\ d \in F /\ Usable(d) /\ d.chan = k /\ ~Ended(d) /\ d.chanreqs = L
  <2>1. CASE ~pty
    BY <2>1 DEF FirstAsks
  <2>2. CASE pty
    <3> DEFINE b == SendRequest(c, "pty-req", TRUE)
    <3>1. b = SendRequest(c, "pty-req", TRUE) /\ d = [b EXCEPT !.chan.req_pty = TRUE]
      BY <2>2 DEF FirstAsks
    <3>2. c \in Mid /\ Sound(c) /\ c.chan.vt = "main"
      BY EndShape, MainIs
    <3>3. ~c.sent_close
      BY <3>2 DEF Sound, Ended
    <3> HIDE DEF b
    <3>4. b \in F /\ Keeps(c, b)
      BY <1>2, <3>1, <3>3, AskFits
    <3>5. b.chan = c.chan
      BY <3>4 DEF Keeps
    <3>6. k = [c.chan EXCEPT !.req_pty = TRUE]
      BY <2>2
    <3> HIDE DEF k
    <3>7. Noting(b, d, k)
      BY <3>1, <3>5, <3>6 DEF Noting
    <3>8. d \in F /\ Requested(c, d, k, "pty-req")
      BY <1>1, <1>2, <3>1, <3>7, RequestFits
    <3> QED BY <2>2, <3>8, AddShell DEF Requested
  <2> QED BY <2>1, <2>2
<1>4. h \in Main /\ h.req_pty = pty /\ h.eof_pending = c.chan.eof_pending /\ h.ready = c.chan.ready
      /\ ~h.eof_sent /\ h.req_cmd = "primary"
  <2> HIDE DEF k
  <2> QED BY <1>1 DEF Main
<1>5. h = [k EXCEPT !.req_cmd = "primary"]
  OBVIOUS
<1> HIDE DEF h, k
<1> DEFINE b == SendRequest(d, "shell", TRUE)
<1>6. b = SendRequest(d, "shell", TRUE) /\ Noting(b, e, h)
  <2>1. b = SendRequest(d, "shell", TRUE) /\ e = [b EXCEPT !.chan.req_cmd = "primary"]
    BY DEF FirstAsks
  <2>2. d \in Mid /\ Sound(d) /\ d.chan.vt = "main"
    BY <1>1, <1>3, EndShape, MainIs
  <2>3. ~d.sent_close
    BY <1>3, <2>2 DEF Sound, Ended
  <2> HIDE DEF b
  <2>4. b \in F /\ Keeps(d, b)
    BY <1>2, <1>3, <2>1, <2>3, AskFits
  <2>5. b.chan = k
    BY <1>3, <2>4 DEF Keeps
  <2> QED BY <1>5, <2>1, <2>5 DEF Noting
<1> HIDE DEF b
<1>7. /\ e \in F /\ Usable(e) /\ e.chan = h /\ ~Ended(e) /\ e.chanreqs = Append(d.chanreqs, "shell")
  <2>1. e \in F /\ Requested(d, e, h, "shell")
    BY <1>1, <1>2, <1>3, <1>4, <1>6, RequestFits
  <2> QED BY <2>1 DEF Requested
<1>8. e.chanreqs = IF pty THEN Append(<<"pty-req">>, "shell") ELSE <<"shell">>
  BY <1>3, <1>7, AddShell
<1>9. Wants(e.chan, e.chanreqs)
  BY <1>4, <1>7, <1>8, FirstWants
<1>10. e \in Mid
  BY <1>7, EndShape
<1>11. AfterConfirmation(e) = e
  BY <1>4, <1>7, <1>10, QuietConfirmation
<1> QED BY <1>4, <1>7, <1>9, <1>11 DEF Minds

\* CHANNEL_OPEN_CONFIRMATION
LEMMA ConfirmationStep ==
    ASSUME TypeOK, ExitStatusFirst, Opening, Confirmation, setup.pty \in BOOLEAN
    PROVE  IInv'
<1> DEFINE c == Confirmed(cli)
           d == IF setup.pty THEN [SendRequest(c, "pty-req", TRUE) EXCEPT !.chan.req_pty = TRUE] ELSE c
           e == [SendRequest(d, "shell", TRUE) EXCEPT !.chan.req_cmd = "primary"]
           F == Fits(srv, <<>>, <<>>, 0, 0)
<1>1. /\ Arrives("client", "confirmation") /\ Effect("client", AfterConfirmation(e), Tail(wire["client"]), FALSE)
      /\ exitcode' = exitcode /\ announced' = announced /\ UNCHANGED counts
  BY DEF Confirmation, Handled
<1>2. c = Confirmed(cli) /\ FirstAsks(c, setup.pty, d, e)
  BY DEF FirstAsks
<1> HIDE DEF c, d, e, F
<1>3. /\ announced \in BOOLEAN /\ cli = Waiting(announced) /\ conn = "up"
      /\ srv = NewEnd(NewSess, FALSE) /\ wire["server"] = <<>>
      /\ wire["client"] = <<Packet("confirmation", "none")>>
  <2>1. wire["client"] # <<>>
    BY <1>1 DEF Arrives
  <2> QED BY <2>1, OpeningIs
<1>4. /\ srv \in Mid /\ srv.chan \in Sess /\ ~srv.chan.seen_eof /\ srv.chan.backend = "none"
      /\ ~srv.chan.seen_exit /\ ~srv.halfopen /\ ~srv.gone /\ srv.locwindow = 1 /\ srv.outbuffer = 0
      /\ ~srv.sent_eof /\ ~srv.sent_close /\ ~srv.rcvd_eof /\ ~srv.rcvd_close /\ ~srv.pending_eof
      /\ srv.chanreqs = <<>> /\ srv.packets = <<>>
  BY <1>3, AcceptedIs
<1>5. /\ c \in Mid /\ c.packets = <<>> /\ Sound(c) /\ Usable(c) /\ ~Ended(c)
      /\ c.chan = cli.chan /\ c.chanreqs = <<>> /\ c.outbuffer = 0 /\ c.locwindow = 1
      /\ ~c.gone /\ ~c.rcvd_eof
  BY <1>2, <1>3, ConfirmedIs
<1>6. /\ c.chan \in Main /\ ~c.chan.req_pty /\ ~c.chan.eof_sent
      /\ c.chan.eof_pending = announced /\ ~c.chan.ready
  BY <1>3, <1>5, WaitingIs
<1>7. <<>> \in Seq(Item) /\ Tail(wire["client"]) = <<>> /\ 0 \in Nat
  BY <1>3
<1>8. Fitting(F)
  BY <1>4, <1>7, FitsFitting DEF F
<1>9. c \in F
  BY <1>4, <1>5, <1>7, FreshAccord, FitsPlain DEF F
<1>10. /\ e \in F /\ Usable(e) /\ Minds(e) /\ ~Ended(e) /\ Wants(e.chan, e.chanreqs)
       /\ e.chan.eof_pending = c.chan.eof_pending /\ e.chan.ready = c.chan.ready
       /\ AfterConfirmation(e) = e
  BY <1>2, <1>5, <1>6, <1>8, <1>9, ConfirmationFits
<1>11. Effect("client", e, <<>>, FALSE)
  BY <1>1, <1>7, <1>10
<1>12. announced' => Hopes(e)
  BY <1>1, <1>6, <1>10 DEF Hopes
<1>13. ~Over(srv) /\ ServerSteady(srv)
  <2>1. srv.chan # Zombie
    BY <1>4 DEF Zombie, Sess
  <2>2. ~Over(srv)
    BY <1>4, <2>1 DEF Over
  <2>3. Sound(srv)
    BY <1>4 DEF Sound
  <2>4. Winadjs(srv.chanreqs)
    BY <1>4 DEF Winadjs
  <2> QED BY <1>4, <2>2, <2>3, <2>4 DEF ServerSteady, Steady, Serves, Usable, Ended
<1>14. CountsType' /\ Typed' = 0 /\ Printed' = 0
  <2>1. typed = 0 /\ arrived = 0 /\ printed = 0 /\ shown = 0 /\ 0 - 0 = 0
    BY DEF Opening
  <2> QED BY <1>1, <2>1, SameCounts DEF Typed, Printed
<1>15. Talking' /\ EndsType' /\ setup' = setup /\ conn' \in {conn, "aborting"} /\ fault' = NoFault
  <2>1. wire["server"] \in Seq(Item) /\ e \in Fits(srv, <<>>, wire["server"], 0, 0)
    BY <1>3, <1>7, <1>10 DEF F
  <2>2. FALSE \in BOOLEAN /\ 0 = Typed' /\ 0 = Printed'
    BY <1>14
  <2> QED BY <1>4, <1>7, <1>10, <1>11, <1>12, <1>13, <2>1, <2>2, ClientBecomes
<1>16. exitcode' \in BOOLEAN /\ announced' \in BOOLEAN /\ (exitcode => exitcode')
  BY <1>1, <1>3 DEF TypeOK
<1> QED BY <1>14, <1>15, <1>16, Onwards

--------------------------------------------------------------------------------
(* The invariant is inductive. *)

\* The settings are those of a client.
LEMMA SetupIs ==
    ASSUME TypeOK
    PROVE  setup.pty \in BOOLEAN /\ setup.gui \in BOOLEAN
<1>1. setup \in Setup
  BY SessionAssumption DEF TypeOK
<1> QED BY <1>1 DEF Setup

\* No step is taken once the program has stopped.
LEMMA NextRuns ==
    ASSUME Next
    PROVE  Running
<1>1. ASSUME NEW p, NEW kind, NEW e, Handled(p, kind, e)
      PROVE  Running
  BY <1>1 DEF Handled, Effect
<1>2. CASE ClientReceives
  <2>1. CASE Confirmation
    BY <1>1, <2>1 DEF Confirmation
  <2>2. CASE ExitStatus
    BY <2>2 DEF ExitStatus, Effect
  <2>3. CASE ClientClose
    BY <2>3 DEF ClientClose, Effect
  <2>4. CASE \E ok \in BOOLEAN : Reply(ok)
    BY <2>4 DEF Reply, Effect
  <2>5. CASE \E takes, wide \in BOOLEAN : Show(takes, wide)
    BY <2>5 DEF Show, Effect
  <2> QED BY <1>1, <1>2, <2>1, <2>2, <2>3, <2>4, <2>5 DEF ClientReceives
<1>3. CASE ServerReceives
  <2>1. CASE Accept
    BY <1>1, <2>1 DEF Accept
  <2>2. CASE \E able \in BOOLEAN : Serve(able)
    BY <1>1, <2>2 DEF Serve
  <2>3. CASE \E takes, wide \in BOOLEAN : Feed(takes, wide)
    BY <2>3 DEF Feed, Effect
  <2> QED BY <1>1, <1>3, <2>1, <2>2, <2>3 DEF ServerReceives
<1>4. CASE DrainedSome \/ Callback \/ CheckCloseCallback
  BY <1>4 DEF DrainedSome, Drained, Callback, CheckCloseCallback, Effect
<1>5. CASE UserActs
  BY <1>5 DEF UserActs, Type, Announce, Resize, Special, Effect
<1>6. CASE ProcessActs
  BY <1>6 DEF ProcessActs, Output, Finish, Process
<1> QED BY <1>2, <1>3, <1>4, <1>5, <1>6 DEF Next

\* While the ends talk nothing arrives that opens a channel.
LEMMA NothingOpens ==
    ASSUME TypeOK, Talking
    PROVE  ~Confirmation /\ ~Accept
<1>1. \A x \in Item : x.kind \notin {"open", "confirmation"}
  BY DEF Item, Plain
<1>2. ~Arrives("client", "confirmation")
  BY <1>1, ClientReads
<1>3. ~Arrives("server", "open")
  BY <1>1, ServerReads
<1> QED BY <1>2, <1>3 DEF Confirmation, Accept, Handled

\* Every step while they talk keeps the invariant,
LEMMA TalkingStep ==
    ASSUME TypeOK, ExitStatusFirst, OtherAssertionsHold, Talking, Next
    PROVE  IInv'
<1> USE SetupIs, NothingOpens
<1>1. CASE ClientReceives
  BY <1>1, ExitStatusStep, ClientCloseStep, ReplyStep, ShowStep, WinadjStep, ClientAdjustStep,
     ClientEofStep DEF ClientReceives
<1>2. CASE ServerReceives
  <2>1. CASE \E ok \in BOOLEAN : /\ srv.chanreqs # <<>>
                                 /\ Handled("server", IF ok THEN "success" ELSE "failure", Answered(srv))
    <3>1. PICK ok \in BOOLEAN : /\ srv.chanreqs # <<>>
                                /\ Handled("server", IF ok THEN "success" ELSE "failure", Answered(srv))
      BY <2>1
    <3>2. (IF ok THEN "success" ELSE "failure") \in Replying
      BY DEF Replying
    <3> QED BY <3>1, <3>2, ServerReplyStep
  <2> QED BY <1>2, <2>1, ServeStep, FeedStep, NoticeStep, ServerAdjustStep, ServerEofStep,
             ServerCloseStep DEF ServerReceives
<1>3. CASE DrainedSome \/ Callback \/ CheckCloseCallback
  BY <1>3, DrainedStep, CallbackStep, CheckCloseStep DEF DrainedSome
<1>4. CASE UserActs \/ ProcessActs
  BY <1>4, TypeStep, AnnounceStep, ResizeStep, SpecialStep, OutputStep, FinishStep
     DEF UserActs, ProcessActs
<1> QED BY <1>1, <1>2, <1>3, <1>4 DEF Next

\* While the session is to be opened only four things can happen.
LEMMA OpeningStep ==
    ASSUME TypeOK, ExitStatusFirst, Opening, Next
    PROVE  IInv'
<1>1. \A kind : (Arrives("client", kind) => kind = "confirmation")
                /\ (Arrives("server", kind) => kind = "open")
  BY OpeningReads
<1>2. announced \in BOOLEAN /\ cli = Waiting(announced) /\ conn = "up"
      /\ (srv = Gone \/ srv = NewEnd(NewSess, FALSE))
  BY OpeningIs
<1>3. ~cli.input_wanted /\ cli.locwindow = 1 /\ ~cli.chan.req_pty /\ ~cli.chan.got_pty
  BY <1>2, WaitingIs
<1>4. srv.chan.vt = "sess" => srv.chan.backend = "none" /\ srv.chan.callbacks = 0
  <2>1. CASE srv = Gone
    BY <2>1, GoneIs DEF Zombie
  <2>2. CASE srv = NewEnd(NewSess, FALSE)
    BY <2>2, AcceptedIs
  <2> QED BY <1>2, <2>1, <2>2
<1>5. CASE ClientReceives
  <2>1. ~ExitStatus /\ ~ClientClose /\ \A ok \in BOOLEAN : ~Reply(ok)
    BY <1>1 DEF ExitStatus, ClientClose, Reply
  <2>2. \A takes, wide \in BOOLEAN : ~Show(takes, wide)
    BY <1>1 DEF Show
  <2>3. \A kind, e : Handled("client", kind, e) => kind = "confirmation"
    BY <1>1 DEF Handled
  <2> QED BY <1>5, <2>1, <2>2, <2>3, SetupIs, ConfirmationStep DEF ClientReceives
<1>6. CASE ServerReceives
  <2>1. \A kind, e : Handled("server", kind, e) => kind = "open"
    BY <1>1 DEF Handled
  <2>2. (\A able \in BOOLEAN : ~Serve(able)) /\ \A takes, wide \in BOOLEAN : ~Feed(takes, wide)
    BY <1>1 DEF Serve, Feed
  <2>3. \A ok \in BOOLEAN : (IF ok THEN "success" ELSE "failure") # "open"
    OBVIOUS
  <2> QED BY <1>6, <2>1, <2>2, <2>3, AcceptStep DEF ServerReceives
<1>7. CASE UserActs
  <2>1. ~Type /\ ~Resize
    BY <1>3 DEF Type, Resize
  <2> QED BY <1>7, <2>1, AnnounceEarly, SpecialEarly DEF UserActs
<1>8. ~DrainedSome
  BY <1>3 DEF DrainedSome, Drained
<1>9. ~ProcessActs
  BY <1>4 DEF ProcessActs, Output, Finish, Process
<1>10. ~Callback /\ ~CheckCloseCallback
  <2>1. CheckCloseCallback => srv.chan.vt = "sess" /\ srv.chan.callbacks > 0
    BY DEF CheckCloseCallback
  <2>2. ~CheckCloseCallback
    BY <1>4, <2>1
  <2> QED BY <1>2, <2>2 DEF Callback
<1> QED BY <1>5, <1>6, <1>7, <1>8, <1>9, <1>10 DEF Next

\* The invariant holds when the client has just sent CHANNEL_OPEN,
LEMMA InitHolds ==
    ASSUME Init
    PROVE  IInv
<1> DEFINE c == [NewEnd(NewMain, TRUE) EXCEPT !.input_wanted = FALSE]
<1>1. c = Waiting(FALSE)
  <2>1. [NewMain EXCEPT !.eof_pending = FALSE] = NewMain
    <3>1. NewMain \in Main /\ NewMain.eof_pending = FALSE
      BY DEF NewMain, Main
    <3> QED BY <3>1 DEF Main
  <2> QED BY <2>1 DEF Waiting
<1>2. c \in End
  BY <1>1, WaitingType
<1> HIDE DEF c
<1>3. /\ setup \in Setups /\ ends = [p \in Sides |-> IF p = "client" THEN c ELSE Gone]
      /\ wire = [p \in Sides |-> IF p = "server" THEN <<Packet("open", "none")>> ELSE <<>>]
      /\ conn = "up" /\ exitcode = FALSE /\ announced = FALSE /\ fault = NoFault
      /\ typed = 0 /\ arrived = 0 /\ printed = 0 /\ shown = 0 /\ asides = 0
  BY DEF Init, c
<1>4. <<Packet("open", "none")>> \in Seq(Message) /\ <<>> \in Seq(Message)
  <2>1. Packet("open", "none") \in Message
    BY DEF Packet, Message
  <2> HIDE DEF Packet
  <2> QED BY <2>1
<1>5. TypeOK
  <2>1. ends \in [Sides -> End \cup {Gone}] /\ wire \in [Sides -> Seq(Message)]
    BY <1>2, <1>3, <1>4
  <2>2. 0 \in 0..MaxTyped /\ 0 \in 0..MaxPrinted /\ 0 \in 0..MaxAsides /\ 0 \in 0..0
    BY SessionAssumption
  <2> QED BY <1>3, <2>1, <2>2 DEF TypeOK
<1>6. Opening
  <2>1. cli = c /\ srv = Gone
    BY <1>3 DEF cli, srv, Sides
  <2>2. wire["server"] = <<Packet("open", "none")>> /\ wire["client"] = <<>>
    BY <1>3 DEF Sides
  <2> QED BY <1>1, <1>3, <2>1, <2>2 DEF Opening
<1>7. ExitStatusFirst /\ OtherAssertionsHold
  BY <1>3 DEF ExitStatusFirst, OtherAssertionsHold
<1> QED BY <1>5, <1>6, <1>7 DEF IInv

\* and every step keeps it.
LEMMA StepKeeps ==
    ASSUME IInv, [Next]_vars
    PROVE  IInv'
<1>1. CASE Next
  <2>1. TypeOK /\ ExitStatusFirst /\ OtherAssertionsHold /\ (Opening \/ Talking)
    BY <1>1, NextRuns DEF IInv
  <2> QED BY <1>1, <2>1, OpeningStep, TalkingStep
<1>2. CASE UNCHANGED vars
  <2>1. /\ ends' = ends /\ wire' = wire /\ conn' = conn /\ exitcode' = exitcode
        /\ announced' = announced /\ typed' = typed /\ arrived' = arrived /\ printed' = printed
        /\ shown' = shown /\ asides' = asides /\ fault' = fault /\ setup' = setup
    BY <1>2 DEF vars, counts
  <2>2. cli' = cli /\ srv' = srv
    BY <2>1 DEF cli, srv
  <2>3. (TypeOK => TypeOK') /\ (ExitStatusFirst => ExitStatusFirst')
        /\ (OtherAssertionsHold => OtherAssertionsHold') /\ (Running' => Running)
    BY <2>1 DEF TypeOK, ExitStatusFirst, OtherAssertionsHold, Running
  <2>4. (Opening => Opening') /\ (Talking => Talking')
    BY <2>1, <2>2 DEF Opening, Talking, Told
  <2> QED BY <2>3, <2>4 DEF IInv
<1> QED BY <1>1, <1>2

--------------------------------------------------------------------------------
(* What follows from the invariant. *)

\* The first reply on its way is to the first request that waits for one.
LEMMA FirstReply ==
    ASSUME NEW C \in Mid, NEW D, NEW V \in Seq(Item), V # <<>>, NEW W, Asked(C, D, V, W), ~C.gone,
           V[1].kind \in Replying
    PROVE  C.chanreqs # <<>> /\ C.chanreqs[1] = V[1].req
<1> DEFINE k == Upto(V, 1, Replying)
<1>1. 1 \in DOMAIN V /\ Tail(V) \in Seq(Item) /\ C.chanreqs \in Seq(Requests)
  BY TailIs, EndTypes
<1>2. k = 1
  <2>1. Upto(V, 0 + 1, Replying) = Upto(Tail(V), 0, Replying) + 1
    BY UptoTail
  <2>2. Upto(Tail(V), 0, Replying) = 0
    BY <1>1, UptoNone
  <2> QED BY <2>1, <2>2
<1>3. k <= Len(C.chanreqs) /\ C.chanreqs[k] = V[1].req
  BY <1>1 DEF Asked
<1> HIDE DEF k
<1>4. 1 <= Len(C.chanreqs)
  BY <1>2, <1>3
<1>5. C.chanreqs # <<>>
  BY <1>1, <1>4
<1> QED BY <1>2, <1>3, <1>5

\* So the main channel, too, takes it for the reply that it is.
Understood(c, m) ==
    /\ ~c.gone
    /\ m.kind \in {"success", "failure"} => c.chanreqs # <<>> /\ Head(c.chanreqs) = m.req
    /\ m.kind \in {"success", "failure"} /\ c.chan.vt = "main" =>
          /\ m.req = "pty-req" => c.chan.req_pty
          /\ m.req = "shell" => ~c.chan.req_pty /\ c.chan.req_cmd = "primary"
          /\ m.req = "fallback" => ~c.chan.req_pty /\ c.chan.req_cmd = "fallback"

\* A packet in accord with the end that it comes to is understood there.
LEMMA ReplyUnderstood ==
    ASSUME NEW C \in Mid, NEW D, NEW V \in Seq(Item), V # <<>>, NEW W, Asked(C, D, V, W), ~C.gone,
           C.chan \in Main => Wants(C.chan, C.chanreqs)
    PROVE  Understood(C, Head(V))
<1> DEFINE m == V[1]
<1>1. Head(V) = m
  OBVIOUS
<1> HIDE DEF m
<1>2. CASE m.kind \notin {"success", "failure"}
  BY <1>1, <1>2 DEF Understood
<1>3. CASE m.kind \in {"success", "failure"}
  <2>1. C.chanreqs # <<>> /\ C.chanreqs[1] = m.req
    BY <1>3, FirstReply DEF Replying, m
  <2>2. C.chanreqs \in Seq(Requests)
    BY EndTypes
  <2>3. Head(C.chanreqs) = m.req
    BY <2>1, <2>2
  <2>4. C.chan \in Main =>
           /\ C.chanreqs[1] = "pty-req" => C.chan.req_pty
           /\ C.chanreqs[1] = "shell" => ~C.chan.req_pty /\ C.chan.req_cmd = "primary"
           /\ C.chanreqs[1] = "fallback" => ~C.chan.req_pty /\ C.chan.req_cmd = "fallback"
    BY <2>1, <2>2, WantsHead
  <2>5. C.chan.vt = "main" => C.chan \in Main
    BY ChanIs
  <2> QED BY <1>1, <2>1, <2>3, <2>4, <2>5 DEF Understood
<1> QED BY <1>2, <1>3

\* So the invariant implies RepliesUnderstood,
LEMMA IInvUnderstands == IInv => RepliesUnderstood
<1> SUFFICES ASSUME IInv, NEW p \in Sides, Running, wire[p] # <<>>, Head(wire[p]).kind # "open"
             PROVE  Understood(ends[p], Head(wire[p]))
  BY DEF RepliesUnderstood, Understood
<1>1. TypeOK /\ (Opening \/ Talking)
  BY DEF IInv
<1>2. p \in {"client", "server"}
  BY DEF Sides
<1>3. CASE Opening
  <2>1. Head(<<Packet("confirmation", "none")>>).kind = "confirmation"
        /\ Head(<<Packet("open", "none")>>).kind = "open"
    BY DEF Packet
  <2>2. p = "client" /\ Head(wire[p]).kind = "confirmation"
    BY <1>1, <1>2, <1>3, <2>1, OpeningIs
  <2>3. ~cli.gone
    BY <1>1, <1>3, OpeningIs, WaitingIs
  <2> QED BY <2>2, <2>3 DEF Understood, cli
<1>4. CASE Talking
  <2>1. CASE p = "client"
    <3>1. ~cli.gone
      BY <1>1, <1>4, <2>1, ClientReads DEF Arrives
    <3>2. cli \in Mid /\ Wants(cli.chan, cli.chanreqs)
      BY <1>1, <1>4, <3>1, ClientAt
    <3>3. wire["client"] \in Seq(Item) /\ Asked(cli, srv, wire["client"], wire["server"])
      BY <1>1, <1>4, TalkingIs DEF Accord, Link
    <3> QED BY <2>1, <3>1, <3>2, <3>3, ReplyUnderstood DEF cli
  <2>2. CASE p = "server"
    <3>1. ~srv.gone
      BY <1>1, <1>4, <2>2, ServerReads DEF Arrives
    <3>2. srv \in Mid /\ srv.chan \notin Main
      BY <1>1, <1>4, <3>1, ServerAt
    <3>3. wire["server"] \in Seq(Item) /\ Asked(srv, cli, wire["server"], wire["client"])
      BY <1>1, <1>4, TalkingIs DEF Accord, Link
    <3> QED BY <2>2, <3>1, <3>2, <3>3, ReplyUnderstood DEF srv
  <2> QED BY <1>2, <2>1, <2>2
<1> QED BY <1>1, <1>3, <1>4

\* and EofKept: it says where the EOF waits.
LEMMA IInvKeepsEof == IInv => EofKept
<1> SUFFICES ASSUME IInv, announced, Running
             PROVE  \/ cli.gone
                    \/ cli.chan.eof_pending /\ ~cli.chan.ready
                    \/ cli.pending_eof \/ cli.sent_eof
  BY DEF EofKept
<1>1. TypeOK /\ (Opening \/ Talking)
  BY DEF IInv
<1>2. CASE Opening
  BY <1>1, <1>2, OpeningIs, WaitingIs
<1>3. CASE Talking
  BY <1>3, GoneIs DEF Talking, ClientSteady, Hopes, Ended
<1> QED BY <1>1, <1>2, <1>3

--------------------------------------------------------------------------------
(* The theorems. *)

\* The two ends of the channel of a session agree about every packet in transit, or the session
\* is still to be opened: ssh/connection2.c with ssh/mainchan.c and ssh/sesschan.c.
THEOREM InvariantHolds == Spec => []IInv
<1>1. Init => IInv
  BY InitHolds
<1>2. IInv /\ [Next]_vars => IInv'
  BY StepKeeps
<1> QED BY <1>1, <1>2, PTL DEF Spec

\* Every variable of the session has its type.
THEOREM TypeCorrect == Spec => []TypeOK
<1>1. IInv => TypeOK
  BY DEF IInv
<1> QED BY <1>1, InvariantHolds, PTL

\* Every packet that cites a channel finds it, and every CHANNEL_SUCCESS and CHANNEL_FAILURE finds
\* its request at the head of the list; mainchan_request_response, which does not look at the
\* list, takes it for the same one.
THEOREM RepliesAreUnderstood == Spec => []RepliesUnderstood
<1> QED BY InvariantHolds, IInvUnderstands, PTL

\* ssh2_check_termination ends no session whose exit status has not arrived.
THEOREM ExitStatusComesFirst == Spec => []ExitStatusFirst
<1>1. IInv => ExitStatusFirst
  BY DEF IInv
<1> QED BY <1>1, InvariantHolds, PTL

\* The EOF that the user announced is in one of the two places where mainchan.c and
\* connection2.c keep it, until it is sent.
THEOREM EofIsKept == Spec => []EofKept
<1> QED BY InvariantHolds, IInvKeepsEof, PTL

\* Of the assertions of connection2.c only the four that the runs violate can fail, and no function
\* uses a channel that another has freed.
THEOREM FewAssertionsFail == Spec => []OtherAssertionsHold
<1>1. IInv => OtherAssertionsHold
  BY DEF IInv
<1> QED BY <1>1, InvariantHolds, PTL
=================================================================================
