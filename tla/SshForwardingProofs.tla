--------------------------- MODULE SshForwardingProofs --------------------------
(***************************************************************************)
(* The safety properties of SshForwarding, proved for any Kinds, MaxOpens, *)
(* MaxData and MaxBacklogs.                                                *)
(*                                                                         *)
(* IInv says that the two peers agree (Agree of SshForwardingAgree) and    *)
(* that between calls each peer's ends are Steady.  A handler is proved in *)
(* two parts: the operators of Ssh2Channel stay within any set of ends     *)
(* that is Fitting, and the ends that the rest of the connection can live  *)
(* with are such a set.                                                    *)
(***************************************************************************)
EXTENDS SshForwardingAgree, WellFoundedInduction

(* What the operators of Ssh2Channel do to an end. *)

\* A set of ends that contains what each becomes when it keeps its promises or sends a packet
\* it may send (a reply apart, which has to answer a request).
Fitting(F) ==
    /\ F \subseteq Mid
    /\ \A c \in F : Sound(c)
    /\ \A c \in F, d \in Mid :
          d.packets = c.packets /\ Sound(d) /\ Eases(c, d) => d \in F
    /\ \A c \in F, d \in Mid, x \in Item :
          /\ d.packets = Append(c.packets, x) /\ Sound(d) /\ Speaks(c, d, x.kind)
          /\ x.kind # "failure" /\ (x.kind = "request" => x.req = "winadj")
          => d \in F

\* A socket that is read before its channel is open
Hasty(c) == c.chan # Zombie /\ ~c.pending_eof /\ c.halfopen /\ c.input_wanted

\* What a call on an end leaves as it was, unless it receives CLOSE
Keeps(c, d) ==
    /\ d.gone = c.gone /\ d.rcvd_close = c.rcvd_close /\ d.halfopen = c.halfopen
    /\ d.held = c.held /\ d.throttling_conn = c.throttling_conn
    /\ Hasty(d) => Hasty(c)

\* An end that no function has freed and that may be called upon
Usable(c) == ~c.gone /\ ~c.rcvd_close

\* A fitting set contains what an end becomes when it keeps its promises,
LEMMA Changed ==
    ASSUME NEW F, Fitting(F), NEW c \in F, NEW d \in Mid, d.packets = c.packets, Sound(d), Eases(c, d)
    PROVE  d \in F
  BY DEF Fitting

\* and what it becomes when it sends a packet it may send.
LEMMA Said ==
    ASSUME NEW F, Fitting(F), NEW c \in F, NEW d \in Mid, NEW x \in Item,
           d.packets = Append(c.packets, x), Sound(d), Speaks(c, d, x.kind), x.kind # "failure",
           x.kind = "request" => x.req = "winadj"
    PROVE  d \in F
  BY DEF Fitting

\* Two calls one after the other keep what each keeps.
LEMMA KeepsTransitive ==
    ASSUME NEW c, NEW d, NEW e, Keeps(c, d), Keeps(d, e)
    PROVE  Keeps(c, e)
  BY DEF Keeps

\* What the fields of such an end are
LEMMA EndShape ==
    ASSUME NEW F, Fitting(F), NEW c \in F
    PROVE  /\ c \in Mid /\ Sound(c) /\ c.packets \in Seq(Item) /\ c.chanreqs \in Seq({"winadj"})
           /\ Len(c.chanreqs) \in Nat /\ c.remwindow \in 0..1 /\ c.locwindow \in 0..1
           /\ c.outbuffer \in Nat /\ c.fault = "none"
           /\ c.chan \in {Fwd, X11, Zombie}
           /\ c.chan.vt = "zombie" <=> c.chan = Zombie
           /\ c.chan.vt \notin {"sess", "main"}
<1>1. c \in Mid /\ Sound(c)
  BY DEF Fitting
<1>2. c.chan \in {Fwd, X11, Zombie} /\ c.packets \in Seq(Item) /\ c.chanreqs \in Seq({"winadj"})
  BY <1>1 DEF Mid
<1>3. /\ c.chan.vt = "zombie" <=> c.chan = Zombie
      /\ c.chan.vt \notin {"sess", "main"}
  BY <1>2 DEF Fwd, X11, Zombie
<1> QED BY <1>1, <1>2, <1>3 DEF Mid

\* ssh2_channel_check_close sends CLOSE only once all else is said, and destroys no end that may be
\* called upon.
LEMMA CheckCloseFits ==
    ASSUME NEW F, Fitting(F), NEW c \in F, Usable(c)
    PROVE  CheckClose(c) \in F /\ Keeps(c, CheckClose(c))
<1> DEFINE x == Packet("close", "none")
           q == Append(c.packets, x)
           d == [c EXCEPT !.packets = q, !.sent_eof = TRUE, !.sent_close = TRUE]
<1>1. /\ c \in Mid /\ Sound(c) /\ c.fault = "none" /\ c.packets \in Seq(Item)
      /\ c.chan.vt = "zombie" <=> c.chan = Zombie
      /\ c.chan.vt # "sess"
  BY EndShape
<1>2. x \in Item /\ x.kind = "close" /\ q \in Seq(Item)
  BY <1>1 DEF Packet, Item, Plain
<1> HIDE DEF x, q
<1>3. Assert(c, TRUE, "none") = c
  BY <1>1 DEF Assert, Usable
<1>4. CASE c.halfopen
  BY <1>3, <1>4 DEF CheckClose, Keeps
<1>5. CASE ~c.halfopen /\ ~ReadyToClose(c)
  BY <1>3, <1>5 DEF CheckClose, BothClosed, Usable, Keeps
<1>6. CASE ~c.halfopen /\ ReadyToClose(c)
  <2>1. d \in Mid
    BY <1>1, <1>2 DEF Mid
  <2>2. /\ d.packets = q /\ d.sent_eof = TRUE /\ d.sent_close = TRUE /\ d.pending_eof = c.pending_eof
        /\ d.chan = c.chan /\ d.halfopen = c.halfopen /\ d.remwindow = c.remwindow
        /\ d.locwindow = c.locwindow /\ d.chanreqs = c.chanreqs /\ d.gone = c.gone
        /\ d.rcvd_close = c.rcvd_close /\ d.input_wanted = c.input_wanted /\ d.held = c.held
        /\ d.throttling_conn = c.throttling_conn
    BY <1>1 DEF Mid
  <2> HIDE DEF d
  <2>3. Sound(d)
    BY <1>1, <1>6, <2>2 DEF Sound, ReadyToClose, WantClose
  <2>4. Speaks(c, d, "close")
    BY <1>1, <1>6, <2>2 DEF Speaks, One, ReadyToClose, Mid
  <2>5. d \in F
    BY <1>2, <2>1, <2>2, <2>3, <2>4, Said DEF q
  <2>6. d = [Push(c, "close", "none") EXCEPT !.sent_eof = TRUE, !.sent_close = TRUE]
    BY <1>1 DEF d, q, x, Push, Mid
  <2>7. CheckClose(c) = d
    BY <1>3, <1>6, <2>2, <2>6 DEF CheckClose, BothClosed, Usable
  <2> QED BY <2>2, <2>5, <2>7 DEF Keeps, Hasty
<1> QED BY <1>4, <1>5, <1>6

\* ssh2_channel_try_eof, called while an EOF is pending
LEMMA TryEofFits ==
    ASSUME NEW F, Fitting(F), NEW c \in F, Usable(c), c.pending_eof
    PROVE  TryEof(c) \in F /\ Keeps(c, TryEof(c))
<1> DEFINE x == Packet("eof", "none")
           q == Append(c.packets, x)
           d == [c EXCEPT !.packets = q, !.pending_eof = FALSE, !.sent_eof = TRUE]
<1>1. c \in Mid /\ Sound(c) /\ c.packets \in Seq(Item)
  BY EndShape
<1>2. x \in Item /\ x.kind = "eof" /\ q \in Seq(Item)
  BY <1>1 DEF Packet, Item, Plain
<1> HIDE DEF x, q
<1>3. CASE c.halfopen \/ c.outbuffer > 0
  BY <1>3 DEF TryEof, Keeps
<1>4. CASE ~(c.halfopen \/ c.outbuffer > 0)
  <2>1. d \in Mid
    BY <1>1, <1>2 DEF Mid
  <2>2. /\ d.packets = q /\ d.sent_eof = TRUE /\ d.pending_eof = FALSE /\ d.sent_close = c.sent_close
        /\ d.chan = c.chan /\ d.halfopen = c.halfopen /\ d.remwindow = c.remwindow
        /\ d.locwindow = c.locwindow /\ d.chanreqs = c.chanreqs /\ d.gone = c.gone
        /\ d.rcvd_close = c.rcvd_close /\ d.input_wanted = c.input_wanted /\ d.held = c.held
        /\ d.throttling_conn = c.throttling_conn
    BY <1>1 DEF Mid
  <2> HIDE DEF d
  <2>3. Sound(d)
    BY <1>1, <1>4, <2>2 DEF Sound
  <2>4. Speaks(c, d, "eof")
    BY <1>1, <1>4, <2>2 DEF Speaks, One, Sound, Mid
  <2>5. d \in F
    BY <1>2, <2>1, <2>2, <2>3, <2>4, Said DEF q
  <2>6. d = [Push(c, "eof", "none") EXCEPT !.pending_eof = FALSE, !.sent_eof = TRUE]
    BY <1>1 DEF d, q, x, Push, Mid
  <2>7. TryEof(c) = CheckClose(d)
    BY <1>4, <2>6 DEF TryEof
  <2>8. Usable(d) /\ Keeps(c, d)
    BY <1>4, <2>2 DEF Usable, Keeps, Hasty
  <2>9. CheckClose(d) \in F /\ Keeps(d, CheckClose(d))
    BY <2>5, <2>8, CheckCloseFits
  <2> QED BY <2>7, <2>8, <2>9, KeepsTransitive
<1> QED BY <1>3, <1>4

\* ssh2channel_write_eof, for a channel that still has its socket
LEMMA WriteEofFits ==
    ASSUME NEW F, Fitting(F), NEW c \in F, Usable(c), c.chan # Zombie
    PROVE  WriteEof(c) \in F /\ Keeps(c, WriteEof(c))
<1> DEFINE d == [c EXCEPT !.pending_eof = TRUE]
<1>1. c \in Mid /\ Sound(c) /\ c.fault = "none"
  BY EndShape
<1>2. CASE c.sent_eof
  BY <1>2 DEF WriteEof, Keeps
<1>3. CASE ~c.sent_eof
  <2>1. d \in Mid
    BY <1>1 DEF Mid
  <2>2. /\ d.packets = c.packets /\ d.sent_eof = c.sent_eof /\ d.pending_eof = TRUE
        /\ d.sent_close = c.sent_close
        /\ d.chan = c.chan /\ d.halfopen = c.halfopen /\ d.remwindow = c.remwindow
        /\ d.locwindow = c.locwindow /\ d.chanreqs = c.chanreqs /\ d.gone = c.gone
        /\ d.rcvd_close = c.rcvd_close /\ d.input_wanted = c.input_wanted /\ d.held = c.held
        /\ d.throttling_conn = c.throttling_conn
    BY <1>1 DEF Mid
  <2>3. WriteEof(c) = TryEof(d)
    BY <1>1, <1>3 DEF WriteEof, Assert, Usable
  <2> HIDE DEF d
  <2>4. Sound(d) /\ Eases(c, d)
    BY <1>1, <1>3, <2>2 DEF Sound, Eases, Mid
  <2>5. d \in F
    BY <1>1, <2>1, <2>2, <2>4, Changed
  <2>6. Usable(d) /\ Keeps(c, d)
    BY <2>2 DEF Usable, Keeps, Hasty
  <2>7. TryEof(d) \in F /\ Keeps(d, TryEof(d))
    BY <2>2, <2>5, <2>6, TryEofFits
  <2> QED BY <2>3, <2>6, <2>7, KeepsTransitive
<1> QED BY <1>2, <1>3

\* ssh2channel_initiate_close
LEMMA InitiateCloseFits ==
    ASSUME NEW F, Fitting(F), NEW c \in F, Usable(c)
    PROVE  InitiateClose(c) \in F /\ Keeps(c, InitiateClose(c))
<1> DEFINE d == [c EXCEPT !.chan = Zombie, !.pending_eof = FALSE]
<1>1. c \in Mid /\ Sound(c)
  BY EndShape
<1>2. d \in Mid
  BY <1>1 DEF Mid
<1>3. /\ d.packets = c.packets /\ d.sent_eof = c.sent_eof /\ d.pending_eof = FALSE
      /\ d.sent_close = c.sent_close
      /\ d.chan = Zombie /\ d.halfopen = c.halfopen /\ d.remwindow = c.remwindow
      /\ d.locwindow = c.locwindow /\ d.chanreqs = c.chanreqs /\ d.gone = c.gone
      /\ d.rcvd_close = c.rcvd_close /\ d.held = c.held /\ d.throttling_conn = c.throttling_conn
  BY <1>1 DEF Mid
<1>4. InitiateClose(c) = CheckClose(d)
  BY DEF InitiateClose
<1> HIDE DEF d
<1>5. Sound(d) /\ Eases(c, d)
  BY <1>1, <1>3 DEF Sound, Eases, Mid
<1>6. d \in F
  BY <1>1, <1>2, <1>3, <1>5, Changed
<1>7. Usable(d) /\ Keeps(c, d)
  BY <1>3 DEF Usable, Keeps, Hasty
<1>8. CheckClose(d) \in F /\ Keeps(d, CheckClose(d))
  BY <1>6, <1>7, CheckCloseFits
<1> QED BY <1>4, <1>7, <1>8, KeepsTransitive

\* ssh2_try_send, while no EOF has been sent
LEMMA TrySendFits ==
    ASSUME NEW F, Fitting(F), NEW c \in F, Usable(c), ~c.sent_eof
    PROVE  TrySend(c) \in F /\ Keeps(c, TrySend(c))
<1> DEFINE x == Packet("data", "none")
           q == Append(c.packets, x)
           s == [c EXCEPT !.packets = q, !.outbuffer = @ - 1, !.remwindow = @ - 1]
           d == IF MaySend(c) THEN s ELSE c
<1>1. /\ c \in Mid /\ Sound(c) /\ c.packets \in Seq(Item)
      /\ c.remwindow \in 0..1 /\ c.outbuffer \in Nat
  BY EndShape
<1>2. x \in Item /\ x.kind = "data" /\ q \in Seq(Item)
  BY <1>1 DEF Packet, Item, Plain
<1> HIDE DEF x, q
<1>3. MaySend(c) => s = [Push(c, "data", "none") EXCEPT !.outbuffer = @ - 1, !.remwindow = @ - 1]
  BY <1>1 DEF q, x, Push, Mid
<1>4. TrySend(c) = IF d.outbuffer = 0 /\ d.pending_eof THEN TryEof(d) ELSE d
  BY <1>3 DEF TrySend
<1>5. d \in F /\ Usable(d) /\ Keeps(c, d)
  <2>1. CASE ~MaySend(c)
    BY <2>1 DEF Keeps
  <2>2. CASE MaySend(c)
    <3>1. s \in Mid
      <4>1. c.outbuffer - 1 \in Nat /\ c.remwindow - 1 \in 0..1
        BY <1>1, <2>2 DEF MaySend
      <4> QED BY <1>1, <1>2, <4>1 DEF Mid
    <3>2. /\ s.packets = q /\ s.sent_eof = c.sent_eof /\ s.pending_eof = c.pending_eof
          /\ s.sent_close = c.sent_close
          /\ s.chan = c.chan /\ s.halfopen = c.halfopen /\ s.remwindow = c.remwindow - 1
          /\ s.locwindow = c.locwindow /\ s.chanreqs = c.chanreqs /\ s.gone = c.gone
          /\ s.rcvd_close = c.rcvd_close /\ s.input_wanted = c.input_wanted /\ s.held = c.held
          /\ s.throttling_conn = c.throttling_conn
      BY <1>1 DEF Mid
    <3>3. d = s
      BY <2>2
    <3> HIDE DEF s, d
    <3>4. Sound(s)
      BY <1>1, <2>2, <3>2 DEF Sound, MaySend
    <3>5. Speaks(c, s, "data")
      BY <1>1, <2>2, <3>2 DEF Speaks, One, Sound, MaySend, Mid
    <3>6. s \in F
      BY <1>2, <3>1, <3>2, <3>4, <3>5, Said DEF q
    <3>7. Usable(s) /\ Keeps(c, s)
      BY <2>2, <3>2 DEF Usable, Keeps, Hasty, MaySend
    <3> QED BY <3>3, <3>6, <3>7
  <2> QED BY <2>1, <2>2
<1> HIDE DEF d
<1>6. d.pending_eof => TryEof(d) \in F /\ Keeps(d, TryEof(d))
  BY <1>5, TryEofFits
<1> QED BY <1>4, <1>5, <1>6, KeepsTransitive

\* ssh2channel_write
LEMMA WriteFits ==
    ASSUME NEW F, Fitting(F), NEW c \in F, Usable(c), ~c.sent_eof
    PROVE  Write(c) \in F /\ Keeps(c, Write(c))
<1> DEFINE d == [c EXCEPT !.outbuffer = @ + 1]
<1>1. c \in Mid /\ Sound(c) /\ c.fault = "none"
  BY EndShape
<1>2. d \in Mid
  BY <1>1 DEF Mid
<1>3. /\ d.packets = c.packets /\ d.sent_eof = c.sent_eof /\ d.pending_eof = c.pending_eof
      /\ d.sent_close = c.sent_close
      /\ d.chan = c.chan /\ d.halfopen = c.halfopen /\ d.remwindow = c.remwindow
      /\ d.locwindow = c.locwindow /\ d.chanreqs = c.chanreqs /\ d.gone = c.gone
      /\ d.rcvd_close = c.rcvd_close /\ d.input_wanted = c.input_wanted /\ d.held = c.held
      /\ d.throttling_conn = c.throttling_conn
  BY <1>1 DEF Mid
<1>4. Write(c) = TrySend(d)
  BY <1>1 DEF Write, Assert, Usable
<1> HIDE DEF d
<1>5. Sound(d) /\ Eases(c, d)
  BY <1>1, <1>3 DEF Sound, Eases, Mid
<1>6. d \in F
  BY <1>1, <1>2, <1>3, <1>5, Changed
<1>7. Usable(d) /\ Keeps(c, d)
  BY <1>3 DEF Usable, Keeps, Hasty
<1>8. TrySend(d) \in F /\ Keeps(d, TrySend(d))
  BY <1>3, <1>6, <1>7, TrySendFits
<1> QED BY <1>4, <1>7, <1>8, KeepsTransitive

\* ssh2_channel_check_throttle, of a channel that is open
LEMMA CheckThrottleFits ==
    ASSUME NEW F, Fitting(F), NEW c \in F, Usable(c), ~c.halfopen
    PROVE  CheckThrottle(c) \in F /\ Keeps(c, CheckThrottle(c))
<1> DEFINE reads == ~c.held /\ ~c.pending_eof /\ ~c.sent_eof
           d == [c EXCEPT !.input_wanted = reads]
<1>1. c \in Mid /\ Sound(c) /\ c.fault = "none" /\ reads \in BOOLEAN
  BY EndShape
<1>2. CheckThrottle(c) = d
  BY <1>1 DEF CheckThrottle, Assert, Usable
<1> HIDE DEF reads
<1>3. d \in Mid
  BY <1>1 DEF Mid
<1>4. /\ d.packets = c.packets /\ d.sent_eof = c.sent_eof /\ d.pending_eof = c.pending_eof
      /\ d.sent_close = c.sent_close
      /\ d.chan = c.chan /\ d.halfopen = c.halfopen /\ d.remwindow = c.remwindow
      /\ d.locwindow = c.locwindow /\ d.chanreqs = c.chanreqs /\ d.gone = c.gone
      /\ d.rcvd_close = c.rcvd_close /\ d.input_wanted = reads /\ d.held = c.held
      /\ d.throttling_conn = c.throttling_conn
  BY <1>1 DEF Mid
<1> HIDE DEF d
<1>5. Sound(d)
  BY <1>1, <1>4 DEF Sound, reads
<1>6. Eases(c, d)
  BY <1>1, <1>4 DEF Eases, Mid
<1>7. d \in F /\ Keeps(c, d)
  BY <1>1, <1>3, <1>4, <1>5, <1>6, Changed DEF Keeps, Hasty
<1> QED BY <1>2, <1>7

\* ssh2_set_window
LEMMA SetWindowFits ==
    ASSUME NEW F, Fitting(F), NEW c \in F, Usable(c), NEW wide \in BOOLEAN
    PROVE  SetWindow(c, wide) \in F /\ Keeps(c, SetWindow(c, wide))
<1> DEFINE x == Packet("request", "winadj")
           y == Packet("adjust", "none")
           q == Append(c.packets, x)
           l == Append(c.chanreqs, "winadj")
           b == IF wide THEN [c EXCEPT !.packets = q, !.chanreqs = l] ELSE c
           r == Append(b.packets, y)
           d == [b EXCEPT !.packets = r, !.locwindow = 1]
<1>1. /\ c \in Mid /\ Sound(c) /\ c.fault = "none" /\ c.packets \in Seq(Item)
      /\ c.chanreqs \in Seq({"winadj"}) /\ c.locwindow \in 0..1
  BY EndShape
<1>2. CASE ~MayAdjust(c) \/ c.locwindow > 0
  BY <1>2 DEF SetWindow, Keeps
<1>3. CASE MayAdjust(c) /\ c.locwindow = 0
  <2>1. /\ x \in Item /\ x.kind = "request" /\ x.req = "winadj" /\ y \in Item /\ y.kind = "adjust"
        /\ q \in Seq(Item) /\ l \in Seq({"winadj"}) /\ Len(l) = Len(c.chanreqs) + 1
        /\ Len(c.chanreqs) \in Nat
    BY <1>1 DEF Packet, Item, Plain
  <2>2. ~c.halfopen /\ ~c.sent_close
    BY <1>1, <1>3 DEF Sound, MayAdjust
  <2> HIDE DEF x, y, q, l
  <2>3. wide => b = SendRequest(c, "winadj", TRUE)
    BY <1>1, <1>3 DEF SendRequest, Assert, Usable, MayAdjust, Push, Mid, q, l, x
  <2>4. b \in F /\ Usable(b) /\ Keeps(c, b) /\ ~b.halfopen /\ ~b.sent_close /\ b.locwindow = 0
    <3>1. CASE ~wide
      BY <3>1, <1>3, <2>2 DEF Keeps
    <3>2. CASE wide
      <4>1. b \in Mid
        BY <1>1, <2>1, <3>2 DEF Mid
      <4>2. /\ b.packets = q /\ b.sent_eof = c.sent_eof /\ b.pending_eof = c.pending_eof
            /\ b.sent_close = c.sent_close
            /\ b.chan = c.chan /\ b.halfopen = c.halfopen /\ b.remwindow = c.remwindow
            /\ b.locwindow = c.locwindow /\ b.chanreqs = l /\ b.gone = c.gone
            /\ b.rcvd_close = c.rcvd_close /\ b.input_wanted = c.input_wanted /\ b.held = c.held
            /\ b.throttling_conn = c.throttling_conn
        BY <1>1, <3>2 DEF Mid
      <4> HIDE DEF b
      <4>3. Sound(b)
        BY <1>1, <2>2, <4>2 DEF Sound
      <4>4. Speaks(c, b, "request")
        BY <1>1, <2>1, <2>2, <4>2 DEF Speaks, One, Mid
      <4>5. b \in F
        BY <2>1, <4>1, <4>2, <4>3, <4>4, Said DEF q
      <4> QED BY <1>3, <2>2, <4>2, <4>5 DEF Usable, Keeps, Hasty
    <3> QED BY <3>1, <3>2
  <2> HIDE DEF b
  <2>5. SetWindow(c, wide) = d
    <3>1. SetWindow(c, wide) = [Push(b, "adjust", "none") EXCEPT !.locwindow = 1]
      <4>1. (IF wide THEN SendRequest(c, "winadj", TRUE) ELSE c) = b
        BY <2>3 DEF b
      <4>2. ~(~MayAdjust(c) \/ c.locwindow > 0)
        BY <1>3
      <4> QED BY <4>1, <4>2, Zenon DEF SetWindow
    <3>2. b \in Mid
      BY <2>4, EndShape
    <3> QED BY <3>1, <3>2 DEF Push, Mid, y
  <2>6. b \in Mid /\ Sound(b) /\ b.packets \in Seq(Item) /\ 1 \in 0..1
    BY <2>4, EndShape
  <2>7. r \in Seq(Item)
    BY <2>1, <2>6
  <2> HIDE DEF r
  <2>8. d \in Mid
    BY <2>6, <2>7 DEF Mid
  <2>9. /\ d.packets = r /\ d.sent_eof = b.sent_eof /\ d.pending_eof = b.pending_eof
        /\ d.sent_close = b.sent_close
        /\ d.chan = b.chan /\ d.halfopen = b.halfopen /\ d.remwindow = b.remwindow
        /\ d.locwindow = 1 /\ d.chanreqs = b.chanreqs /\ d.gone = b.gone
        /\ d.rcvd_close = b.rcvd_close /\ d.input_wanted = b.input_wanted /\ d.held = b.held
        /\ d.throttling_conn = b.throttling_conn
    BY <2>6 DEF Mid
  <2> HIDE DEF d
  <2>10. Sound(d)
    BY <2>4, <2>6, <2>9 DEF Sound
  <2>11. Len(b.chanreqs) \in Nat /\ b.remwindow \in 0..1
    BY <2>4, EndShape
  <2>12. Speaks(b, d, "adjust")
    BY <2>4, <2>6, <2>9, <2>11 DEF Speaks, One, Mid
  <2>13. d \in F
    BY <2>1, <2>4, <2>8, <2>9, <2>10, <2>12, Said DEF r
  <2>14. Keeps(b, d)
    BY <2>9 DEF Keeps, Hasty
  <2> QED BY <2>4, <2>5, <2>13, <2>14, KeepsTransitive
<1>4. ~(~MayAdjust(c) \/ c.locwindow > 0) => MayAdjust(c) /\ c.locwindow = 0
  BY <1>1
<1> QED BY <1>2, <1>3, <1>4

\* CHANNEL_WINDOW_ADJUST
LEMMA RecvAdjustFits ==
    ASSUME NEW F, Fitting(F), NEW c \in F, Usable(c), ~c.halfopen, [c EXCEPT !.remwindow = @ + 1] \in F
    PROVE  RecvAdjust(c) \in F /\ Keeps(c, RecvAdjust(c))
<1> DEFINE b == [c EXCEPT !.remwindow = @ + 1]
           d == TrySend(b)
<1>1. c \in Mid
  BY EndShape
<1>2. Usable(b) /\ Keeps(c, b) /\ b.sent_eof = c.sent_eof
  BY <1>1 DEF Usable, Keeps, Hasty, Mid
<1>3. RecvAdjust(c) = IF c.sent_eof THEN c ELSE IF d.outbuffer = 0 THEN CheckThrottle(d) ELSE d
  BY DEF RecvAdjust
<1>4. b \in F
  OBVIOUS
<1> HIDE DEF b
<1>5. ~c.sent_eof => d \in F /\ Keeps(b, d)
  BY <1>2, <1>4, TrySendFits
<1> HIDE DEF d
<1>6. ~c.sent_eof => d \in F /\ Keeps(c, d) /\ Usable(d) /\ ~d.halfopen
  BY <1>2, <1>5, KeepsTransitive DEF Keeps, Usable
<1>7. ~c.sent_eof => CheckThrottle(d) \in F /\ Keeps(d, CheckThrottle(d))
  BY <1>6, CheckThrottleFits
<1>8. Keeps(c, c)
  BY DEF Keeps
<1> QED BY <1>3, <1>6, <1>7, <1>8, KeepsTransitive

\* CHANNEL_DATA
LEMMA RecvDataFits ==
    ASSUME NEW F, Fitting(F), NEW c \in Mid, Usable(c), [c EXCEPT !.locwindow = @ - 1] \in F,
           NEW takes \in BOOLEAN, NEW wide \in BOOLEAN
    PROVE  RecvData(c, takes, wide) \in F /\ Keeps(c, RecvData(c, takes, wide))
<1> DEFINE d == [c EXCEPT !.locwindow = @ - 1]
<1>1. Usable(d) /\ Keeps(c, d)
  BY DEF Usable, Keeps, Hasty, Mid
<1>2. RecvData(c, takes, wide) = IF takes THEN SetWindow(d, wide) ELSE d
  BY DEF RecvData
<1>3. d \in F
  OBVIOUS
<1> HIDE DEF d
<1>4. SetWindow(d, wide) \in F /\ Keeps(d, SetWindow(d, wide))
  BY <1>1, <1>3, SetWindowFits
<1> QED BY <1>1, <1>2, <1>3, <1>4, KeepsTransitive

\* CHANNEL_FAILURE
LEMMA AnsweredFits ==
    ASSUME NEW F, Fitting(F), NEW c \in Mid, Usable(c), [c EXCEPT !.chanreqs = Tail(@)] \in F
    PROVE  Answered(c) \in F /\ Keeps(c, Answered(c))
<1> DEFINE d == [c EXCEPT !.chanreqs = Tail(@)]
<1>1. Usable(d) /\ Keeps(c, d)
  BY DEF Usable, Keeps, Hasty, Mid
<1>2. Answered(c) = CheckClose(d)
  BY DEF Answered
<1>3. d \in F
  OBVIOUS
<1> HIDE DEF d
<1>4. CheckClose(d) \in F /\ Keeps(d, CheckClose(d))
  BY <1>1, <1>3, CheckCloseFits
<1> QED BY <1>1, <1>2, <1>4, KeepsTransitive

\* CHANNEL_EOF
LEMMA RecvEofFits ==
    ASSUME NEW F, Fitting(F), NEW c \in F, Usable(c)
    PROVE  RecvEof(c, FALSE) \in F /\ Keeps(c, RecvEof(c, FALSE))
<1> DEFINE d == [c EXCEPT !.rcvd_eof = TRUE]
<1>1. c \in Mid /\ Sound(c) /\ c.chan.vt # "main"
  BY EndShape
<1>2. d \in Mid
  BY <1>1 DEF Mid
<1>3. /\ d.packets = c.packets /\ d.sent_eof = c.sent_eof /\ d.pending_eof = c.pending_eof
      /\ d.sent_close = c.sent_close
      /\ d.chan = c.chan /\ d.halfopen = c.halfopen /\ d.remwindow = c.remwindow
      /\ d.locwindow = c.locwindow /\ d.chanreqs = c.chanreqs /\ d.gone = c.gone
      /\ d.rcvd_close = c.rcvd_close /\ d.input_wanted = c.input_wanted /\ d.held = c.held
      /\ d.throttling_conn = c.throttling_conn
  BY <1>1 DEF Mid
<1> HIDE DEF d
<1>4. RecvEof(c, FALSE) = IF c.rcvd_eof THEN c ELSE CheckClose(d)
  BY <1>1, <1>3 DEF RecvEof, ChanSendEof, d
<1>5. Sound(d) /\ Eases(c, d)
  BY <1>1, <1>3 DEF Sound, Eases, Mid
<1>6. d \in F
  BY <1>1, <1>2, <1>3, <1>5, Changed
<1>7. Usable(d) /\ Keeps(c, d) /\ Keeps(c, c)
  BY <1>3 DEF Usable, Keeps, Hasty
<1>8. CheckClose(d) \in F /\ Keeps(d, CheckClose(d))
  BY <1>6, <1>7, CheckCloseFits
<1>9. Keeps(c, CheckClose(d))
  BY <1>7, <1>8, KeepsTransitive
<1> QED BY <1>4, <1>7, <1>8, <1>9

\* ssh2channel_unthrottle
LEMMA UnthrottleFits ==
    ASSUME NEW F, Fitting(F), NEW c \in F, Usable(c), NEW wide \in BOOLEAN
    PROVE  Unthrottle(c, wide) \in F /\ Keeps([c EXCEPT !.throttling_conn = FALSE], Unthrottle(c, wide))
<1> DEFINE b == SetWindow(c, wide)
           d == [b EXCEPT !.throttling_conn = FALSE]
           e == [c EXCEPT !.throttling_conn = FALSE]
<1>1. b \in F /\ Keeps(c, b)
  BY SetWindowFits
<1>2. Unthrottle(c, wide) = d
  BY DEF Unthrottle
<1> HIDE DEF b
<1>3. b \in Mid /\ Sound(b) /\ c \in Mid
  BY <1>1, EndShape
<1>4. d \in Mid
  BY <1>3 DEF Mid
<1>5. /\ d.packets = b.packets /\ d.sent_eof = b.sent_eof /\ d.pending_eof = b.pending_eof
      /\ d.sent_close = b.sent_close
      /\ d.chan = b.chan /\ d.halfopen = b.halfopen /\ d.remwindow = b.remwindow
      /\ d.locwindow = b.locwindow /\ d.chanreqs = b.chanreqs /\ d.gone = b.gone
      /\ d.rcvd_close = b.rcvd_close /\ d.input_wanted = b.input_wanted /\ d.held = b.held
      /\ d.throttling_conn = FALSE
  BY <1>3 DEF Mid
<1>6. /\ e.gone = c.gone /\ e.rcvd_close = c.rcvd_close /\ e.halfopen = c.halfopen
      /\ e.held = c.held /\ e.throttling_conn = FALSE /\ e.chan = c.chan
      /\ e.pending_eof = c.pending_eof /\ e.input_wanted = c.input_wanted
  BY <1>3 DEF Mid
<1> HIDE DEF d, e
<1>7. Sound(d) /\ Eases(b, d)
  BY <1>3, <1>5 DEF Sound, Eases, Mid
<1>8. d \in F
  BY <1>1, <1>3, <1>4, <1>5, <1>7, Changed
<1>9. Keeps(e, d)
  BY <1>1, <1>5, <1>6 DEF Keeps, Hasty
<1> QED BY <1>2, <1>8, <1>9 DEF e

\* The rest of CHANNEL_OPEN_CONFIRMATION
LEMMA AfterConfirmationFits ==
    ASSUME NEW F, Fitting(F), NEW c \in F, Usable(c)
    PROVE  AfterConfirmation(c) \in F /\ Keeps(c, AfterConfirmation(c))
<1> DEFINE d == CheckClose(c)
<1>1. d \in F /\ Keeps(c, d)
  BY CheckCloseFits
<1>2. AfterConfirmation(c) = IF d.pending_eof THEN TryEof(d) ELSE d
  BY DEF AfterConfirmation
<1> HIDE DEF d
<1>3. Usable(d)
  BY <1>1 DEF Keeps, Usable
<1>4. d.pending_eof => TryEof(d) \in F /\ Keeps(d, TryEof(d))
  BY <1>1, <1>3, TryEofFits
<1> QED BY <1>1, <1>2, <1>4, KeepsTransitive

--------------------------------------------------------------------------------
(* The ends that the rest of the connection can live with. *)

\* W, with the packets that end i has queued for channel k, addressed to `to`
Parcel(x, to, i, k) == [kind |-> x.kind, req |-> x.req, to |-> to, from |-> i, inc |-> k]
Longer(W, m) == Append(W, m)
Posted(W, c, to, i, k) == W \o [x \in DOMAIN c.packets |-> Parcel(c.packets[x], to, i, k)]
Left(C, i, c) == [C EXCEPT ![i].end = Settled(c)]
Fits(C, D, V, W, n, i) ==
    {c \in Mid : Sound(c) /\ Agree(Left(C, i, c), D, V, Posted(W, c, C[i].remoteid, i, C[i].inc), n)}

\* A settled end differs from the end in the middle of the call in its packets only.
LEMMA SettledIs ==
    ASSUME NEW c \in Mid
    PROVE  /\ Settled(c) \in Mid /\ Settled(c).packets = <<>> /\ Settled(c).chan = c.chan
           /\ Settled(c).halfopen = c.halfopen /\ Settled(c).sent_eof = c.sent_eof
           /\ Settled(c).sent_close = c.sent_close /\ Settled(c).rcvd_close = c.rcvd_close
           /\ Settled(c).pending_eof = c.pending_eof /\ Settled(c).remwindow = c.remwindow
           /\ Settled(c).locwindow = c.locwindow /\ Settled(c).chanreqs = c.chanreqs
           /\ Settled(c).throttling_conn = c.throttling_conn /\ Settled(c).held = c.held
           /\ Settled(c).input_wanted = c.input_wanted /\ Settled(c).gone = c.gone
           /\ Settled(c).fault = "none" /\ (c.packets = <<>> => Settled(c) = c)
<1> DEFINE d == [c EXCEPT !.packets = <<>>, !.fault = "none"]
<1>1. d \in Mid
  <2>1. <<>> \in Seq(Item) /\ "none" \in {"none"}
    OBVIOUS
  <2> QED BY <2>1 DEF Mid
<1>2. c.packets = <<>> => d = c
  BY DEF Mid
<1>3. /\ d.packets = <<>> /\ d.chan = c.chan /\ d.halfopen = c.halfopen /\ d.sent_eof = c.sent_eof
      /\ d.sent_close = c.sent_close /\ d.rcvd_close = c.rcvd_close
      /\ d.pending_eof = c.pending_eof /\ d.remwindow = c.remwindow
      /\ d.locwindow = c.locwindow /\ d.chanreqs = c.chanreqs
      /\ d.throttling_conn = c.throttling_conn /\ d.held = c.held
      /\ d.input_wanted = c.input_wanted /\ d.gone = c.gone /\ d.fault = "none"
  BY DEF Mid
<1> QED BY <1>1, <1>2, <1>3 DEF Settled

\* Leaving a call changes that one end.
LEMMA LeftIs ==
    ASSUME NEW n, NEW C, Tree(C, n), NEW i \in DOMAIN C, NEW c \in Mid
    PROVE  /\ Tree(Left(C, i, c), n) /\ DOMAIN Left(C, i, c) = DOMAIN C
           /\ Left(C, i, c)[i].end = Settled(c)
           /\ Left(C, i, c)[i].inc = C[i].inc /\ Left(C, i, c)[i].remoteid = C[i].remoteid
           /\ \A j \in DOMAIN C : j # i => Left(C, i, c)[j] = C[j]
           /\ i \in Nat /\ C[i].inc \in 1..n /\ C[i].remoteid \in Nat
           /\ C[i].end = Settled(c) => Left(C, i, c) = C
<1> DEFINE B == [C EXCEPT ![i].end = Settled(c)]
           Chan == [end : Mid, remoteid : Nat, inc : 1..n]
<1>1. Settled(c) \in Mid
  BY SettledIs
<1>2. DOMAIN C \subseteq 1..MaxOpens /\ C \in [DOMAIN C -> Chan]
  BY DEF Tree
<1>3. C[i] \in Chan
  BY <1>2
<1>4. [C[i] EXCEPT !.end = Settled(c)] \in Chan
  BY <1>1, <1>3
<1>5. B = [C EXCEPT ![i] = [C[i] EXCEPT !.end = Settled(c)]]
  BY <1>2
<1>6. DOMAIN B = DOMAIN C /\ B[i] = [C[i] EXCEPT !.end = Settled(c)] /\ \A j \in DOMAIN C : j # i => B[j] = C[j]
  BY <1>2, <1>5
<1>7. B \in [DOMAIN C -> Chan]
  BY <1>2, <1>4, <1>5
<1>8. B[i].end = Settled(c) /\ B[i].inc = C[i].inc /\ B[i].remoteid = C[i].remoteid
  BY <1>3, <1>6
<1>9. i \in Nat
  BY <1>2, ForwardingAssumption
<1>10. C[i].end = Settled(c) => B = C
  <2> HAVE C[i].end = Settled(c)
  <2>1. [C[i] EXCEPT !.end = Settled(c)] = C[i]
    BY <1>3
  <2> QED BY <2>1, <1>2, <1>5
<1> HIDE DEF B
<1>11. Tree(B, n)
  BY <1>2, <1>6, <1>7 DEF Tree
<1> QED BY <1>3, <1>6, <1>8, <1>9, <1>10, <1>11 DEF B, Left

\* What has been queued are packets.
LEMMA PostedIs ==
    ASSUME NEW c \in Mid, NEW to \in Nat, NEW i \in Nat, NEW k \in Nat, NEW W \in Seq(Letter)
    PROVE  /\ Posted(W, c, to, i, k) \in Seq(Letter)
           /\ c.packets = <<>> => Posted(W, c, to, i, k) = W
<1> DEFINE P(s) == [x \in DOMAIN s |-> Parcel(s[x], to, i, k)]
<1>1. c.packets \in Seq(Item)
  BY DEF Mid
<1>2. \A x \in Item : Parcel(x, to, i, k) \in Letter
  BY DEF Item, Letter, Plain, Requests, Parcel
<1>3. P(c.packets) \in Seq(Letter)
  BY <1>1, <1>2
<1>4. c.packets = <<>> => P(c.packets) = <<>>
  BY <1>1
<1>5. W \o <<>> = W
  OBVIOUS
<1>6. Posted(W, c, to, i, k) = W \o P(c.packets)
  BY DEF Posted
<1> HIDE DEF P
<1> QED BY <1>3, <1>4, <1>5, <1>6

\* Queueing one more adds one at the end.
LEMMA PostedGrows ==
    ASSUME NEW c \in Mid, NEW to \in Nat, NEW i \in Nat, NEW k \in Nat, NEW W \in Seq(Letter),
           NEW d \in Mid, NEW x \in Item, d.packets = Append(c.packets, x)
    PROVE  Posted(W, d, to, i, k) = Longer(Posted(W, c, to, i, k), Parcel(x, to, i, k))
<1> DEFINE L(y) == Parcel(y, to, i, k)
           P(q) == [y \in DOMAIN q |-> L(q[y])]
           s == c.packets
           t == d.packets
           r == Append(P(s), L(x))
<1>1. \A y \in Item : L(y) \in Letter
  BY DEF Item, Letter, Plain, Requests, Parcel
<1>2. Posted(W, c, to, i, k) = W \o P(s) /\ Posted(W, d, to, i, k) = W \o P(t)
  BY DEF Posted
<1>3. /\ s \in Seq(Item) /\ Len(s) \in Nat /\ DOMAIN s = 1..Len(s)
      /\ t \in Seq(Item) /\ Len(t) = Len(s) + 1 /\ DOMAIN t = 1..(Len(s) + 1)
      /\ \A y \in 1..Len(s) : t[y] = s[y]
      /\ t[Len(s) + 1] = x
  <2>1. s \in Seq(Item) /\ t = Append(s, x)
    BY DEF Mid
  <2> HIDE DEF s, t
  <2> QED BY <2>1
<1> HIDE DEF s, t, L
<1>4. /\ P(t) \in Seq(Letter) /\ Len(P(t)) = Len(s) + 1
      /\ \A y \in 1..(Len(s) + 1) : P(t)[y] = L(t[y])
  BY <1>1, <1>3
<1>5. /\ P(s) \in Seq(Letter) /\ Len(P(s)) = Len(s)
      /\ \A y \in 1..Len(s) : P(s)[y] = L(s[y])
  BY <1>1, <1>3
<1>6. L(x) \in Letter
  BY <1>1
<1> HIDE DEF P
<1>7. /\ r \in Seq(Letter) /\ Len(r) = Len(s) + 1
      /\ \A y \in 1..Len(s) : r[y] = P(s)[y]
      /\ r[Len(s) + 1] = L(x)
  BY <1>5, <1>6
<1> HIDE DEF r
<1>8. \A y \in 1..(Len(s) + 1) : P(t)[y] = r[y]
  <2>1. \A y \in 1..(Len(s) + 1) : y \in 1..Len(s) \/ y = Len(s) + 1
    BY <1>3
  <2>2. ASSUME NEW y \in 1..Len(s)
        PROVE  P(t)[y] = r[y]
    <3>1. y \in 1..(Len(s) + 1)
      BY <1>3
    <3>2. P(t)[y] = L(t[y]) /\ r[y] = P(s)[y] /\ P(s)[y] = L(s[y]) /\ t[y] = s[y]
      BY <3>1, <1>3, <1>4, <1>5, <1>7
    <3> QED BY <3>2
  <2>3. P(t)[Len(s) + 1] = r[Len(s) + 1]
    BY <1>3, <1>4, <1>7
  <2> QED BY <2>1, <2>2, <2>3
<1>9. P(t) = r
  BY <1>4, <1>7, <1>8
<1>10. W \o r = Append(W \o P(s), L(x))
  BY <1>5, <1>6 DEF r
<1>11. Posted(W, d, to, i, k) = Append(Posted(W, c, to, i, k), L(x))
  BY <1>2, <1>9, <1>10
<1> QED BY <1>11 DEF L, Longer

\* An end that has queued the same has the same to send.
LEMMA PostedSame ==
    ASSUME NEW W, NEW c, NEW d, d.packets = c.packets, NEW to, NEW i, NEW k
    PROVE  Posted(W, d, to, i, k) = Posted(W, c, to, i, k)
  BY DEF Posted

\* Those ends are Fitting.
LEMMA FitsFitting ==
    ASSUME NEW n \in Nat, NEW C, NEW D, NEW V, NEW W, Tree(C, n), NEW i \in DOMAIN C, W \in Seq(Letter)
    PROVE  Fitting(Fits(C, D, V, W, n, i))
<1> DEFINE F == Fits(C, D, V, W, n, i)
           B(c) == Left(C, i, c)
           S(c) == Posted(W, c, C[i].remoteid, i, C[i].inc)
           Good(c) == Agree(B(c), D, V, S(c), n)
<1>1. ASSUME NEW c \in Mid
      PROVE  /\ Tree(B(c), n) /\ DOMAIN B(c) = DOMAIN C /\ B(c)[i].end = Settled(c)
             /\ B(c)[i].inc = C[i].inc /\ B(c)[i].remoteid = C[i].remoteid
             /\ \A j \in DOMAIN C : j # i => B(c)[j] = C[j]
  BY LeftIs
<1>2. i \in Nat /\ C[i].inc \in Nat /\ C[i].remoteid \in Nat
  <2>1. "none" \in {"none"} /\ Tree(C, n) /\ i \in DOMAIN C
    OBVIOUS
  <2>2. i \in 1..MaxOpens /\ C[i] \in [end : Mid, remoteid : Nat, inc : 1..n]
    BY DEF Tree
  <2> QED BY <2>2, ForwardingAssumption
<1>3. ASSUME NEW c \in Mid, NEW d \in Mid, d.packets = c.packets
      PROVE  S(d) = S(c)
  BY <1>3, PostedSame
<1>4. ASSUME NEW c \in Mid, NEW d \in Mid, NEW x \in Item, d.packets = Append(c.packets, x)
      PROVE  S(d) = Longer(S(c), Parcel(x, C[i].remoteid, i, C[i].inc))
  BY <1>2, <1>4, PostedGrows
<1>5. ASSUME NEW c \in Mid, Sound(c)
      PROVE  Sound(Settled(c)) /\ Settled(c).packets = <<>>
  BY <1>5, SettledIs DEF Sound
<1>6. \A c : c \in F <=> c \in Mid /\ Sound(c) /\ Good(c)
  BY DEF Fits
<1> HIDE DEF F, B, S
<1>7. ASSUME NEW c \in F, NEW d \in Mid, d.packets = c.packets, Sound(d), Eases(c, d)
      PROVE  d \in F
  <2>1. c \in Mid /\ Agree(B(c), D, V, S(c), n)
    BY <1>6
  <2>2. Eases(Settled(c), Settled(d))
    BY <1>7, <2>1, SettledIs DEF Eases
  <2>3. ASSUME NEW j \in DOMAIN B(c)
        PROVE  /\ B(d)[j].inc = B(c)[j].inc /\ B(d)[j].remoteid = B(c)[j].remoteid
               /\ B(d)[j].end.packets = <<>> /\ Sound(B(d)[j].end)
               /\ Eases(B(c)[j].end, B(d)[j].end)
    <3>1. CASE j = i
      BY <3>1, <1>1, <1>5, <1>7, <2>1, <2>2
    <3>2. CASE j # i
      <4>1. B(d)[j] = B(c)[j]
        BY <3>2, <1>1, <2>1
      <4>2. B(c)[j].end.packets = <<>> /\ Sound(B(c)[j].end) /\ B(c)[j].end \in Mid
        BY <2>1 DEF Agree, Half, Ends
      <4>3. Eases(B(c)[j].end, B(c)[j].end)
        BY <4>2 DEF Eases, Mid
      <4> QED BY <4>1, <4>2, <4>3
    <3> QED BY <3>1, <3>2
  <2>4. Tree(B(d), n) /\ DOMAIN B(d) = DOMAIN B(c)
    BY <1>1, <2>1
  <2>5. Agree(B(d), D, V, S(c), n)
    BY <2>1, <2>3, <2>4, ChangeAgrees
  <2> QED BY <1>3, <1>6, <1>7, <2>1, <2>5
<1>8. ASSUME NEW c \in F, NEW d \in Mid, NEW x \in Item, d.packets = Append(c.packets, x), Sound(d),
             Speaks(c, d, x.kind), x.kind # "failure", x.kind = "request" => x.req = "winadj"
      PROVE  d \in F
  <2> DEFINE m == Parcel(x, C[i].remoteid, i, C[i].inc)
             Y == S(c)
  <2>1. c \in Mid /\ Agree(B(c), D, V, Y, n)
    BY <1>6
  <2>2. Speaks(Settled(c), Settled(d), m.kind)
    BY <1>8, <2>1, SettledIs DEF Speaks, Parcel
  <2>3. /\ m \in Letter /\ m.kind \in Plain /\ m.kind # "failure" /\ m.inc = B(c)[i].inc
        /\ m.to = B(c)[i].remoteid
        /\ m.kind \in {"request", "failure"} => m.req = "winadj"
    BY <1>1, <1>2, <1>8, <2>1 DEF Letter, Item, Requests, Parcel
  <2>4. Replaces(B(d), B(c), i, n)
    BY <1>1, <1>5, <1>8, <2>1 DEF Replaces
  <2>5. B(c)[i].end = Settled(c) /\ B(d)[i].end = Settled(d)
    BY <1>1, <2>1
  <2>6. S(d) = Longer(Y, m)
    BY <1>4, <1>8, <2>1
  <2> HIDE DEF m, Y
  <2>7. Agree(B(d), D, V, Append(Y, m), n)
    BY <2>1, <2>2, <2>3, <2>4, <2>5, SayAgrees
  <2> QED BY <1>6, <1>8, <2>6, <2>7 DEF Longer
<1>9. \A c \in F : c \in Mid /\ Sound(c)
  BY <1>6
<1>10. Fitting(F)
  BY <1>7, <1>8, <1>9 DEF Fitting
<1> QED BY <1>10 DEF F

\* An end takes the packet that is read and stays one that the rest can live with.
LEMMA TakeFits ==
    ASSUME NEW n \in Nat, NEW C, NEW D, NEW V, NEW W, Agree(C, D, V, W, n), V # <<>>,
           V[1].kind # "confirmation", NEW i \in DOMAIN C, C[i].inc = V[1].inc,
           NEW b \in Mid, b.packets = <<>>, Sound(b), Takes(C[i].end, b, V[1].kind)
    PROVE  b \in Fits(C, D, Tail(V), W, n, i)
<1>1. Ends(C, n) /\ Mail(W, n)
  BY DEF Agree, Half
<1>2. Tree(C, n) /\ W \in Seq(Letter)
  BY <1>1 DEF Ends, Tree, Mail
<1> DEFINE B == Left(C, i, b)
<1>3. /\ Tree(B, n) /\ DOMAIN B = DOMAIN C /\ B[i].end = b
      /\ B[i].inc = C[i].inc /\ B[i].remoteid = C[i].remoteid
      /\ \A j \in DOMAIN C : j # i => B[j] = C[j]
      /\ i \in Nat /\ C[i].inc \in Nat /\ C[i].remoteid \in Nat
  BY <1>2, LeftIs, SettledIs
<1> HIDE DEF B
<1>4. ASSUME NEW j \in DOMAIN C
      PROVE  /\ B[j].inc = C[j].inc /\ B[j].remoteid = C[j].remoteid
             /\ B[j].end.packets = <<>> /\ Sound(B[j].end)
             /\ Takes(C[j].end, B[j].end, IF C[j].inc = V[1].inc THEN V[1].kind ELSE "none")
  <2>1. CASE j = i
    BY <2>1, <1>3
  <2>2. CASE j # i
    <3>1. B[j] = C[j] /\ C[j].inc # V[1].inc
      BY <2>2, <1>1, <1>3 DEF Ends
    <3>2. C[j].end.packets = <<>> /\ Sound(C[j].end) /\ C[j].end \in Mid
      BY <1>1 DEF Ends
    <3>3. Takes(C[j].end, C[j].end, "none")
      BY <3>2 DEF Takes, One, Mid
    <3> QED BY <3>1, <3>2, <3>3
  <2> QED BY <2>1, <2>2
<1>5. Taken(B, C, V[1], n)
  BY <1>3, <1>4 DEF Taken
<1>6. Agree(B, D, Tail(V), W, n)
  BY <1>5, DropAgrees
<1>7. Posted(W, b, C[i].remoteid, i, C[i].inc) = W
  BY <1>2, <1>3, PostedIs
<1> QED BY <1>6, <1>7 DEF Fits, B

\* Nothing done to an end leaves it as it was.
LEMMA StartFits ==
    ASSUME NEW n \in Nat, NEW C, NEW D, NEW V, NEW W, Agree(C, D, V, W, n), NEW i \in DOMAIN C
    PROVE  /\ Tree(C, n) /\ W \in Seq(Letter) /\ Fitting(Fits(C, D, V, W, n, i))
           /\ C[i].end \in Fits(C, D, V, W, n, i)
           /\ C[i].end \in Mid /\ C[i].end.packets = <<>> /\ Sound(C[i].end)
<1>1. Ends(C, n) /\ Mail(W, n)
  BY DEF Agree, Half
<1>2. /\ Tree(C, n) /\ W \in Seq(Letter) /\ C[i].end \in Mid /\ C[i].end.packets = <<>>
      /\ Sound(C[i].end)
  BY <1>1 DEF Ends, Tree, Mail
<1>3. Left(C, i, C[i].end) = C /\ i \in Nat /\ C[i].inc \in Nat /\ C[i].remoteid \in Nat
  BY <1>2, LeftIs, SettledIs
<1>4. Posted(W, C[i].end, C[i].remoteid, i, C[i].inc) = W
  BY <1>2, <1>3, PostedIs
<1>5. C[i].end \in Fits(C, D, V, W, n, i)
  BY <1>2, <1>3, <1>4 DEF Fits
<1>6. Fitting(Fits(C, D, V, W, n, i))
  BY <1>2, FitsFitting
<1> QED BY <1>2, <1>5, <1>6

--------------------------------------------------------------------------------
(* The invariant. *)

\* Between calls: no channel is freed and still in the tree, or has seen CLOSE, none has missed
\* a backlog, one at most stops the connection, and only a cleared backlog makes a peer hasty.
Steady(C, count, held, past) ==
    \A i \in DOMAIN C :
        /\ Usable(C[i].end) /\ C[i].end.held = held
        /\ C[i].end.throttling_conn => count = 1
        /\ Hasty(C[i].end) => C[i].inc \in past
        /\ \A j \in DOMAIN C : C[i].end.throttling_conn /\ C[j].end.throttling_conn => i = j

\* Both peers have a tree, and nothing else has: an equation to be quoted and not expanded
Forest == chans = [p \in Sides |-> chans[p]]
Shape ==
    /\ DOMAIN chans = Sides /\ Forest /\ wire \in [Sides -> Seq(Letter)]
    /\ throttle \in [Sides -> 0..1] /\ throttled \in [Sides -> BOOLEAN]
    /\ opened \in 0..MaxOpens /\ written \in 0..MaxData /\ backlogs \in 0..MaxBacklogs
    /\ thawed \subseteq 1..MaxOpens

Accord == Agree(chans["client"], chans["server"], wire["client"], wire["server"], opened)

IInv ==
    /\ Shape /\ Accord /\ fault = "none"
    /\ \A p \in Sides : Steady(chans[p], throttle[p], throttled[p], thawed)

\* The agreement is the same seen from either side.
LEMMA AccordOf ==
    ASSUME Accord, NEW p \in Sides
    PROVE  Agree(chans[p], chans[Other(p)], wire[p], wire[Other(p)], opened)
<1>1. CASE p = "client"
  BY <1>1 DEF Accord, Other
<1>2. CASE p = "server"
  BY <1>2 DEF Accord, Other, Agree
<1> QED BY <1>1, <1>2 DEF Sides

\* The other side is another side.
LEMMA Sided ==
    ASSUME NEW p \in Sides
    PROVE  Other(p) \in Sides /\ Other(p) # p /\ \A q \in Sides : q = p \/ q = Other(p)
  BY DEF Sides, Other

\* A step of p keeps the invariant if p's channels go on agreeing with the other's and stay steady.
LEMMA StepOf ==
    ASSUME IInv, NEW p \in Sides, NEW B, NEW X, NEW Y,
           chans' = [q \in Sides |-> IF q = p THEN B ELSE chans[q]],
           wire' = [q \in Sides |-> IF q = p THEN X ELSE Y],
           Agree(B, chans[Other(p)], X, Y, opened'),
           Steady(B, throttle'[p], throttled'[p], thawed'),
           throttle' \in [Sides -> 0..1], throttle'[Other(p)] = throttle[Other(p)],
           throttled' \in [Sides -> BOOLEAN], throttled'[Other(p)] = throttled[Other(p)],
           opened' \in 0..MaxOpens, written' \in 0..MaxData, backlogs' \in 0..MaxBacklogs,
           thawed \subseteq thawed', thawed' \subseteq 1..MaxOpens, fault' = "none"
    PROVE  IInv'
<1> DEFINE q == Other(p)
<1>1. q \in Sides /\ q # p /\ \A s \in Sides : s = p \/ s = q
  BY Sided
<1>2. Mail(X, opened') /\ Mail(Y, opened')
  BY DEF Agree, Half
<1>3. Shape'
  <2>1. DOMAIN chans' = Sides /\ Forest'
    BY DEF Forest
  <2> QED BY <1>2, <2>1 DEF IInv, Shape, Mail
<1>4. /\ chans'[p] = B /\ chans'[q] = chans[q] /\ wire'[p] = X /\ wire'[q] = Y
  BY <1>1
<1>5. Agree(chans'[p], chans'[q], wire'[p], wire'[q], opened')
  BY <1>4
<1>6. Agree(chans'[q], chans'[p], wire'[q], wire'[p], opened')
  BY <1>5 DEF Agree
<1>7. Accord'
  BY <1>5, <1>6 DEF Accord, Sides, Other
<1>8. ASSUME NEW s \in Sides
      PROVE  Steady(chans'[s], throttle'[s], throttled'[s], thawed')
  <2>1. CASE s = p
    BY <2>1, <1>4
  <2>2. CASE s = q
    <3>1. Steady(chans[q], throttle[q], throttled[q], thawed)
      BY <1>1 DEF IInv
    <3>2. Steady(chans[q], throttle[q], throttled[q], thawed')
      BY <3>1 DEF Steady
    <3> QED BY <2>2, <3>2, <1>4
  <2> QED BY <2>1, <2>2, <1>1
<1> QED BY <1>3, <1>7, <1>8 DEF IInv

\* A call that keeps what Keeps says leaves a steady side steady.
LEMMA SteadyCall ==
    ASSUME NEW n, NEW C, Tree(C, n), NEW i \in DOMAIN C, NEW b \in Mid, NEW e \in Mid, Keeps(b, e),
           NEW count, NEW held, NEW past, Steady(Left(C, i, b), count, held, past)
    PROVE  Steady(Left(C, i, e), count, held, past) /\ Usable(b) /\ Usable(e)
<1> DEFINE A == Left(C, i, b)
           B == Left(C, i, e)
           c == Settled(b)
           d == Settled(e)
<1>1. /\ DOMAIN A = DOMAIN C /\ A[i].end = c /\ A[i].inc = C[i].inc
      /\ \A j \in DOMAIN C : j # i => A[j] = C[j]
  BY LeftIs
<1>2. /\ DOMAIN B = DOMAIN C /\ B[i].end = d /\ B[i].inc = C[i].inc
      /\ \A j \in DOMAIN C : j # i => B[j] = C[j]
  BY LeftIs
<1>3. /\ d.gone = e.gone /\ d.rcvd_close = e.rcvd_close /\ d.held = e.held
      /\ d.throttling_conn = e.throttling_conn /\ d.chan = e.chan /\ d.pending_eof = e.pending_eof
      /\ d.halfopen = e.halfopen /\ d.input_wanted = e.input_wanted
  BY SettledIs
<1>4. /\ c.gone = b.gone /\ c.rcvd_close = b.rcvd_close /\ c.held = b.held
      /\ c.throttling_conn = b.throttling_conn /\ c.chan = b.chan /\ c.pending_eof = b.pending_eof
      /\ c.halfopen = b.halfopen /\ c.input_wanted = b.input_wanted
  BY SettledIs
<1> HIDE DEF A, B, c, d
<1>5. Steady(A, count, held, past)
  BY DEF A
<1>6. Keeps(c, d) /\ Usable(c) /\ c.held = held
  BY <1>1, <1>3, <1>4, <1>5 DEF Keeps, Hasty, Steady
<1>7. Usable(d) /\ d.held = held /\ d.throttling_conn = c.throttling_conn /\ (Hasty(d) => Hasty(c))
  BY <1>6 DEF Keeps, Usable
<1>8. Steady(B, count, held, past)
  BY <1>1, <1>2, <1>5, <1>7 DEF Steady
<1>9. Usable(b) /\ Usable(e)
  BY <1>3, <1>4, <1>6, <1>7 DEF Usable
<1> QED BY <1>8, <1>9 DEF B

\* What Effect does to the trees and the queues, if the call has not freed the channel.
LEMMA EffectIs ==
    ASSUME IInv, NEW p \in Sides, NEW i \in DOMAIN chans[p], NEW e \in Mid, ~e.gone, NEW X,
           Effect(p, i, e, X)
    PROVE  /\ chans' = [q \in Sides |-> IF q = p THEN Left(chans[p], i, e) ELSE chans[q]]
           /\ wire' = [q \in Sides |-> IF q = p THEN X
                         ELSE Posted(wire[Other(p)], e, chans[p][i].remoteid, i, chans[p][i].inc)]
           /\ fault' = "none"
<1>1. Agree(chans[p], chans[Other(p)], wire[p], wire[Other(p)], opened)
  BY AccordOf DEF IInv
<1>2. Tree(chans[p], opened) /\ DOMAIN chans = Sides /\ DOMAIN wire = Sides /\ fault = "none"
  BY <1>1 DEF Agree, Half, Ends, Tree, IInv, Shape
<1>3. Updated(p, i, e) = Left(chans[p], i, e)
  <2> DEFINE B == [j \in DOMAIN chans[p] \cup {i} |->
                     IF j = i THEN [chans[p][i] EXCEPT !.end = Settled(e)] ELSE chans[p][j]]
  <2>1. B = [chans[p] EXCEPT ![i] = [chans[p][i] EXCEPT !.end = Settled(e)]]
    BY <1>2 DEF Tree
  <2>2. [chans[p] EXCEPT ![i].end = Settled(e)] = B
    BY <1>2, <2>1 DEF Tree
  <2> QED BY <2>2 DEF Updated, With, Left
<1>4. wire[Other(p)] \o Addressed(p, i, e) =
          Posted(wire[Other(p)], e, chans[p][i].remoteid, i, chans[p][i].inc)
  BY DEF Addressed, Posted, Parcel
<1>5. e.fault = "none"
  BY DEF Mid
<1>6. \A q \in Sides : q # p => q = Other(p)
  BY Sided
<1>7. chans' = [chans EXCEPT ![p] = Left(chans[p], i, e)]
  BY <1>3 DEF Effect
<1>8. wire' = [wire EXCEPT ![p] = X, ![Other(p)] =
                 Posted(wire[Other(p)], e, chans[p][i].remoteid, i, chans[p][i].inc)]
  BY <1>2, <1>4, Sided DEF Effect
<1>9. fault' = "none"
  BY <1>2, <1>5 DEF Effect
<1>10. chans' = [q \in Sides |-> IF q = p THEN Left(chans[p], i, e) ELSE chans[q]]
  BY <1>2, <1>7
<1> QED BY <1>2, <1>6, <1>8, <1>9, <1>10, Sided

\* A call of p on end i that the rest of the connection can live with keeps the invariant; b is
\* the end as the call begins.
LEMMA CallStep ==
    ASSUME IInv, NEW p \in Sides, NEW i \in DOMAIN chans[p], NEW X, NEW e,
           e \in Fits(chans[p], chans[Other(p)], X, wire[Other(p)], opened, i), Effect(p, i, e, X),
           NEW b \in Mid, Keeps(b, e), Steady(Left(chans[p], i, b), throttle'[p], throttled[p], thawed),
           throttle' \in [Sides -> 0..1], throttle'[Other(p)] = throttle[Other(p)],
           opened' = opened, written' \in 0..MaxData, UNCHANGED backlog
    PROVE  IInv'
<1> DEFINE B == Left(chans[p], i, e)
           Y == Posted(wire[Other(p)], e, chans[p][i].remoteid, i, chans[p][i].inc)
<1>1. Agree(chans[p], chans[Other(p)], wire[p], wire[Other(p)], opened)
  BY AccordOf DEF IInv
<1>2. Tree(chans[p], opened)
  BY <1>1 DEF Agree, Half, Ends, Tree
<1>3. e \in Mid /\ Agree(B, chans[Other(p)], X, Y, opened)
  BY DEF Fits
<1>4. Steady(B, throttle'[p], throttled[p], thawed) /\ Usable(e)
  BY <1>2, <1>3, SteadyCall
<1>5. /\ chans' = [q \in Sides |-> IF q = p THEN B ELSE chans[q]]
      /\ wire' = [q \in Sides |-> IF q = p THEN X ELSE Y]
      /\ fault' = "none"
  BY <1>3, <1>4, EffectIs DEF Usable
<1> HIDE DEF B, Y
<1>6. /\ throttled' = throttled /\ thawed' = thawed /\ backlogs' = backlogs
      /\ throttled \in [Sides -> BOOLEAN] /\ opened \in 0..MaxOpens /\ backlogs \in 0..MaxBacklogs
      /\ thawed \subseteq 1..MaxOpens
  BY DEF IInv, Shape, backlog
<1> QED BY <1>3, <1>4, <1>5, <1>6, StepOf

\* As the calls of p begin, its ends fit and are usable.
LEMMA CallStart ==
    ASSUME IInv, NEW p \in Sides, NEW i \in DOMAIN chans[p]
    PROVE  /\ opened \in Nat /\ Agree(chans[p], chans[Other(p)], wire[p], wire[Other(p)], opened)
           /\ chans[p][i].end \in Fits(chans[p], chans[Other(p)], wire[p], wire[Other(p)], opened, i)
           /\ Fitting(Fits(chans[p], chans[Other(p)], wire[p], wire[Other(p)], opened, i))
           /\ chans[p][i].end \in Mid /\ Sound(chans[p][i].end) /\ Usable(chans[p][i].end)
           /\ chans[p][i].end.packets = <<>>
           /\ Tree(chans[p], opened) /\ Left(chans[p], i, chans[p][i].end) = chans[p]
           /\ Steady(chans[p], throttle[p], throttled[p], thawed)
           /\ throttle \in [Sides -> 0..1] /\ written \in 0..MaxData
<1>1. opened \in Nat /\ Agree(chans[p], chans[Other(p)], wire[p], wire[Other(p)], opened)
  BY AccordOf, ForwardingAssumption DEF IInv, Shape
<1>2. /\ Tree(chans[p], opened)
      /\ chans[p][i].end \in Fits(chans[p], chans[Other(p)], wire[p], wire[Other(p)], opened, i)
      /\ Fitting(Fits(chans[p], chans[Other(p)], wire[p], wire[Other(p)], opened, i))
      /\ chans[p][i].end \in Mid /\ Sound(chans[p][i].end) /\ chans[p][i].end.packets = <<>>
  BY <1>1, StartFits
<1>3. Left(chans[p], i, chans[p][i].end) = chans[p]
  BY <1>2, LeftIs, SettledIs
<1>4. Steady(chans[p], throttle[p], throttled[p], thawed)
  BY DEF IInv
<1>5. Usable(chans[p][i].end)
  BY <1>4 DEF Steady
<1> QED BY <1>1, <1>2, <1>3, <1>4, <1>5 DEF IInv, Shape

\* What the sockets do, but for taking what was backed up
LEMMA SocketStep ==
    ASSUME IInv, NEW p \in Sides, NEW i \in DOMAIN chans[p],
           SocketData(p, i) \/ SocketEof(p, i) \/ SocketError(p, i)
    PROVE  IInv'
<1> DEFINE c == chans[p][i].end
           F == Fits(chans[p], chans[Other(p)], wire[p], wire[Other(p)], opened, i)
<1>1. /\ c \in F /\ Fitting(F) /\ c \in Mid /\ Usable(c)
      /\ Left(chans[p], i, c) = chans[p] /\ Steady(chans[p], throttle[p], throttled[p], thawed)
      /\ throttle \in [Sides -> 0..1] /\ written \in 0..MaxData
  BY CallStart
<1> HIDE DEF F
<1>2. ASSUME NEW e \in F, Keeps(c, e), Effect(p, i, e, wire[p]), throttle' = throttle, opened' = opened,
             written' \in 0..MaxData, UNCHANGED backlog
      PROVE  IInv'
  BY <1>1, <1>2, CallStep DEF F
<1>3. CASE SocketData(p, i)
  <2>1. /\ Effect(p, i, IF c.halfopen THEN c ELSE Write(c), wire[p]) /\ ~c.sent_eof
        /\ throttle' = throttle /\ opened' = opened /\ UNCHANGED backlog
        /\ written < MaxData /\ written' = written + 1
    BY <1>3 DEF SocketData
  <2>2. written' \in 0..MaxData
    BY <1>1, <2>1, ForwardingAssumption
  <2>3. Keeps(c, c) /\ Write(c) \in F /\ Keeps(c, Write(c))
    BY <1>1, <2>1, WriteFits DEF Keeps
  <2>4. CASE c.halfopen
    BY <1>1, <1>2, <2>1, <2>2, <2>3, <2>4
  <2>5. CASE ~c.halfopen
    BY <1>2, <2>1, <2>2, <2>3, <2>5
  <2> QED BY <2>4, <2>5
<1>4. CASE SocketEof(p, i)
  <2>1. /\ Effect(p, i, WriteEof(c), wire[p]) /\ c.chan # Zombie
        /\ throttle' = throttle /\ opened' = opened /\ UNCHANGED backlog /\ written' = written
    BY <1>4 DEF SocketEof, Live
  <2>2. WriteEof(c) \in F /\ Keeps(c, WriteEof(c))
    BY <1>1, <2>1, WriteEofFits
  <2> QED BY <1>1, <1>2, <2>1, <2>2
<1>5. CASE SocketError(p, i)
  <2>1. /\ Effect(p, i, InitiateClose(c), wire[p])
        /\ throttle' = throttle /\ opened' = opened /\ UNCHANGED backlog /\ written' = written
    BY <1>5 DEF SocketError
  <2>2. InitiateClose(c) \in F /\ Keeps(c, InitiateClose(c))
    BY <1>1, InitiateCloseFits
  <2> QED BY <1>1, <1>2, <2>1, <2>2
<1> QED BY <1>3, <1>4, <1>5

\* An end that begins or ceases to stop the connection, and is counted
LEMMA SteadyThrottle ==
    ASSUME NEW n, NEW C, Tree(C, n), NEW i \in DOMAIN C, NEW t \in BOOLEAN, C[i].end \in Mid,
           NEW count, NEW held, NEW past, Steady(C, count, held, past), NEW more,
           t => count # 1 /\ more = 1, ~t => more = count \/ C[i].end.throttling_conn
    PROVE  Steady(Left(C, i, [C[i].end EXCEPT !.throttling_conn = t]), more, held, past)
<1> DEFINE c == C[i].end
           e == [c EXCEPT !.throttling_conn = t]
           B == Left(C, i, e)
           d == Settled(e)
<1>1. e \in Mid
  BY DEF Mid
<1>2. /\ e.gone = c.gone /\ e.rcvd_close = c.rcvd_close /\ e.held = c.held
      /\ e.throttling_conn = t /\ e.chan = c.chan /\ e.pending_eof = c.pending_eof
      /\ e.halfopen = c.halfopen /\ e.input_wanted = c.input_wanted
  BY DEF Mid
<1> HIDE DEF e
<1>3. /\ DOMAIN B = DOMAIN C /\ B[i].end = d /\ B[i].inc = C[i].inc
      /\ \A j \in DOMAIN C : j # i => B[j] = C[j]
  BY <1>1, LeftIs
<1>4. /\ d.gone = e.gone /\ d.rcvd_close = e.rcvd_close /\ d.held = e.held
      /\ d.throttling_conn = e.throttling_conn /\ d.chan = e.chan /\ d.pending_eof = e.pending_eof
      /\ d.halfopen = e.halfopen /\ d.input_wanted = e.input_wanted
  BY <1>1, SettledIs
<1> HIDE DEF B, d
<1>5. Usable(d) /\ d.held = held /\ d.throttling_conn = t /\ (Hasty(d) => Hasty(c))
  BY <1>2, <1>4 DEF Usable, Hasty, Steady
<1>6. \A j \in DOMAIN C : j # i /\ C[j].end.throttling_conn => ~t /\ more = count
  BY DEF Steady
<1>7. Steady(B, more, held, past)
  BY <1>3, <1>5, <1>6 DEF Steady
<1> QED BY <1>7 DEF B, e

\* pfd_sent, of a socket that was backed up
LEMMA DrainStep ==
    ASSUME IInv, NEW p \in Sides, NEW i \in DOMAIN chans[p], NEW wide \in BOOLEAN, SocketDrained(p, i, wide)
    PROVE  IInv'
<1> DEFINE c == chans[p][i].end
           F == Fits(chans[p], chans[Other(p)], wire[p], wire[Other(p)], opened, i)
           b == [c EXCEPT !.throttling_conn = FALSE]
           e == Unthrottle(c, wide)
<1>1. /\ c \in F /\ Fitting(F) /\ c \in Mid /\ Usable(c) /\ Tree(chans[p], opened)
      /\ Steady(chans[p], throttle[p], throttled[p], thawed)
      /\ throttle \in [Sides -> 0..1] /\ written \in 0..MaxData
  BY CallStart
<1>2. e \in F /\ Keeps(b, e)
  BY <1>1, UnthrottleFits
<1>3. /\ Effect(p, i, e, wire[p])
      /\ throttle' = IF c.throttling_conn THEN [throttle EXCEPT ![p] = @ - 1] ELSE throttle
      /\ opened' = opened /\ written' = written /\ UNCHANGED backlog
  BY DEF SocketDrained
<1>4. c.throttling_conn => throttle[p] = 1
  BY <1>1 DEF Steady
<1>5. /\ throttle' \in [Sides -> 0..1] /\ throttle'[Other(p)] = throttle[Other(p)]
      /\ throttle'[p] = throttle[p] \/ c.throttling_conn
  BY <1>1, <1>3, <1>4, Sided
<1>6. b \in Mid
  BY <1>1 DEF Mid
<1>7. Steady(Left(chans[p], i, b), throttle'[p], throttled[p], thawed)
  BY <1>1, <1>5, SteadyThrottle
<1> HIDE DEF e, b
<1> QED BY <1>1, <1>2, <1>3, <1>5, <1>6, <1>7, CallStep

--------------------------------------------------------------------------------
(* Packets. *)

\* The packet that is read, and the end that it cites
LEMMA Reading ==
    ASSUME IInv, NEW p \in Sides, wire[p] # <<>>
    PROVE  /\ Head(wire[p]) = wire[p][1] /\ wire[p][1] \in Letter
           /\ wire[p][1].inc \in 1..opened
           /\ wire[p][1].kind \in {"request", "failure"} => wire[p][1].req = "winadj"
           /\ wire[p][1].kind \in Plain =>
                 /\ Cited(p) = wire[p][1].to /\ Cited(p) \in DOMAIN chans[p]
                 /\ chans[p][Cited(p)].inc = wire[p][1].inc /\ ~chans[p][Cited(p)].end.halfopen
<1>1. opened \in Nat /\ Agree(chans[p], chans[Other(p)], wire[p], wire[Other(p)], opened)
  BY AccordOf, ForwardingAssumption DEF IInv, Shape
<1>2. Mail(wire[p], opened) /\ wire[p] \in Seq(Letter) /\ 1 \in DOMAIN wire[p]
  <2>1. Mail(wire[p], opened) /\ wire[p] \in Seq(Letter)
    BY <1>1 DEF Agree, Half, Mail
  <2> QED BY <2>1
<1>3. Head(wire[p]) = wire[p][1] /\ wire[p][1] \in Letter
  BY <1>2
<1>4. wire[p][1].inc \in 1..opened /\ (wire[p][1].kind \in {"request", "failure"} => wire[p][1].req = "winadj")
  BY <1>2 DEF Mail
<1>5. ASSUME wire[p][1].kind \in Plain
      PROVE  /\ wire[p][1].to \in DOMAIN chans[p] /\ chans[p][wire[p][1].to].inc = wire[p][1].inc
             /\ ~chans[p][wire[p][1].to].end.halfopen
  BY <1>1, <1>5, HeadFacts
<1> QED BY <1>3, <1>4, <1>5 DEF Cited

\* What it brings is due.
LEMMA Due ==
    ASSUME IInv, NEW p \in Sides, wire[p] # <<>>, NEW i, i = Cited(p), wire[p][1].kind \in Plain
    PROVE  /\ wire[p][1].kind = "data" => chans[p][i].end.locwindow = 1
           /\ wire[p][1].kind = "adjust" => chans[p][i].end.remwindow = 0
           /\ wire[p][1].kind = "failure" => Len(chans[p][i].end.chanreqs) >= 1
<1>1. i \in DOMAIN chans[p] /\ i = wire[p][1].to
  BY Reading
<1>2. opened \in Nat /\ Agree(chans[p], chans[Other(p)], wire[p], wire[Other(p)], opened)
  BY <1>1, CallStart
<1>3. ~chans[p][i].end.gone
  BY <1>1, CallStart DEF Usable
<1> QED BY <1>1, <1>2, <1>3, HeadFacts

\* What may be done with a packet that cites an end: b is the end once it has taken it.
LEMMA TakeStart ==
    ASSUME IInv, NEW p \in Sides, wire[p] # <<>>, wire[p][1].kind \in Plain,
           NEW i, i = Cited(p), NEW b \in Mid, b.packets = <<>>, Sound(b),
           Takes(chans[p][i].end, b, wire[p][1].kind)
    PROVE  /\ b \in Fits(chans[p], chans[Other(p)], Tail(wire[p]), wire[Other(p)], opened, i)
           /\ Fitting(Fits(chans[p], chans[Other(p)], Tail(wire[p]), wire[Other(p)], opened, i))
<1>1. i \in DOMAIN chans[p] /\ chans[p][i].inc = wire[p][1].inc
  BY Reading
<1>2. opened \in Nat /\ Agree(chans[p], chans[Other(p)], wire[p], wire[Other(p)], opened)
      /\ Tree(chans[p], opened)
  BY <1>1, CallStart
<1>3. wire[p][1].kind # "confirmation"
  BY DEF Plain
<1>4. b \in Fits(chans[p], chans[Other(p)], Tail(wire[p]), wire[Other(p)], opened, i)
  BY <1>1, <1>2, <1>3, TakeFits
<1>5. wire[Other(p)] \in Seq(Letter)
  BY <1>2 DEF Agree, Half, Mail
<1> QED BY <1>1, <1>2, <1>4, <1>5, FitsFitting

\* CHANNEL_DATA
LEMMA DataStep ==
    ASSUME IInv, NEW p \in Sides, NEW fate, NEW wide \in BOOLEAN, RecvDataPacket(p, fate, wide)
    PROVE  IInv'
<1> DEFINE i == Cited(p)
           c == chans[p][i].end
           stops == fate = "too much"
           b == [c EXCEPT !.throttling_conn = @ \/ stops]
           d == [b EXCEPT !.locwindow = @ - 1]
           takes == fate = "taken"
           e == RecvData(b, takes, wide)
           F == Fits(chans[p], chans[Other(p)], Tail(wire[p]), wire[Other(p)], opened, i)
<1>0. throttle[p] = 0 /\ throttle[p] # 1
  <2>1. throttle[p] = 0
    BY Zenon DEF RecvDataPacket, Arrives
  <2> QED BY <2>1
<1>1. /\ wire[p] # <<>> /\ Head(wire[p]).kind = "data"
      /\ Effect(p, i, e, Tail(wire[p]))
      /\ throttle' = IF stops /\ ~c.throttling_conn THEN [throttle EXCEPT ![p] = @ + 1] ELSE throttle
      /\ opened' = opened /\ written' = written /\ UNCHANGED backlog
  BY DEF RecvDataPacket, Arrives
<1>2. wire[p][1].kind = "data" /\ "data" \in Plain
  BY <1>1, Reading DEF Plain
<1>3. i \in DOMAIN chans[p] /\ ~c.halfopen /\ i = wire[p][1].to
  BY <1>1, <1>2, Reading
<1>4. /\ c \in Mid /\ Sound(c) /\ Usable(c) /\ c.packets = <<>> /\ Tree(chans[p], opened)
      /\ Steady(chans[p], throttle[p], throttled[p], thawed)
      /\ throttle \in [Sides -> 0..1] /\ written \in 0..MaxData
      /\ opened \in Nat /\ Agree(chans[p], chans[Other(p)], wire[p], wire[Other(p)], opened)
  BY <1>3, CallStart
<1>5. c.locwindow = 1
  BY <1>1, <1>2, Due
<1>6. ~c.throttling_conn
  <2>1. c.throttling_conn => throttle[p] = 1
    BY <1>3, <1>4 DEF Steady
  <2> QED BY <2>1, <1>0
<1>7. stops \in BOOLEAN /\ takes \in BOOLEAN
  OBVIOUS
<1> HIDE DEF stops, takes
<1>8. b = [c EXCEPT !.throttling_conn = stops]
  <2>1. (c.throttling_conn \/ stops) = stops
    BY <1>6, <1>7
  <2> QED BY <2>1, <1>4
<1> HIDE DEF b
<1>9. /\ b \in Mid /\ b.packets = <<>> /\ b.sent_eof = c.sent_eof /\ b.pending_eof = c.pending_eof
      /\ b.sent_close = c.sent_close /\ b.rcvd_close = c.rcvd_close
      /\ b.chan = c.chan /\ b.halfopen = c.halfopen /\ b.remwindow = c.remwindow
      /\ b.locwindow = 1 /\ b.chanreqs = c.chanreqs /\ b.gone = c.gone
      /\ b.input_wanted = c.input_wanted /\ b.held = c.held
  BY <1>4, <1>5, <1>7, <1>8 DEF Mid
<1>10. d = [b EXCEPT !.locwindow = 0]
  BY <1>9
<1> HIDE DEF d
<1>11. d \in Mid
  BY <1>9, <1>10 DEF Mid
<1>12. /\ d.packets = <<>> /\ d.sent_eof = c.sent_eof /\ d.pending_eof = c.pending_eof
       /\ d.sent_close = c.sent_close
       /\ d.chan = c.chan /\ d.halfopen = c.halfopen /\ d.remwindow = c.remwindow
       /\ d.locwindow = 0 /\ d.chanreqs = c.chanreqs /\ d.gone = c.gone
       /\ d.input_wanted = c.input_wanted /\ d.held = c.held
  BY <1>9, <1>10 DEF Mid
<1>13. Sound(d)
  BY <1>3, <1>4, <1>12 DEF Sound
<1>14. Takes(c, d, "data")
  BY <1>4, <1>5, <1>12 DEF Takes, One, Mid
<1> HIDE DEF F, c
<1>15. d \in F /\ Fitting(F)
  BY <1>1, <1>2, <1>11, <1>12, <1>13, <1>14, TakeStart DEF F, c
<1>16. Usable(b)
  BY <1>4, <1>9 DEF Usable
<1>17. e \in F /\ Keeps(b, e)
  <2>1. [b EXCEPT !.locwindow = @ - 1] \in F
    BY <1>15 DEF d
  <2> QED BY <1>7, <1>9, <1>15, <1>16, <2>1, RecvDataFits
<1>18. /\ throttle' \in [Sides -> 0..1] /\ throttle'[Other(p)] = throttle[Other(p)]
       /\ stops => throttle'[p] = 1
       /\ ~stops => throttle'[p] = throttle[p]
  BY <1>0, <1>1, <1>4, <1>6, Sided
<1>19. Steady(Left(chans[p], i, b), throttle'[p], throttled[p], thawed)
  <2>1. b = [chans[p][i].end EXCEPT !.throttling_conn = stops]
    BY <1>8 DEF c
  <2>2. chans[p][i].end \in Mid
    BY <1>4 DEF c
  <2> QED BY <1>0, <1>3, <1>4, <1>7, <1>18, <2>1, <2>2, SteadyThrottle
<1> HIDE DEF e, i
<1>20. e \in Fits(chans[p], chans[Other(p)], Tail(wire[p]), wire[Other(p)], opened, i)
  BY <1>17 DEF F
<1> QED BY <1>1, <1>3, <1>4, <1>9, <1>17, <1>18, <1>19, <1>20, CallStep

\* CHANNEL_WINDOW_ADJUST, CHANNEL_REQUEST, CHANNEL_FAILURE and CHANNEL_EOF, which leave the channel in the tree
LEMMA HandledStep ==
    ASSUME IInv, NEW p \in Sides, wire[p] # <<>>, Citing(p), NEW kind \in Plain, NEW e,
           Handled(p, kind, e), Keeps(chans[p][Cited(p)].end, e),
           e \in Fits(chans[p], chans[Other(p)], Tail(wire[p]), wire[Other(p)], opened, Cited(p))
    PROVE  IInv'
<1> DEFINE i == Cited(p)
           c == chans[p][i].end
<1>1. /\ Effect(p, i, e, Tail(wire[p])) /\ i \in DOMAIN chans[p]
      /\ throttle' = throttle /\ opened' = opened /\ written' = written /\ UNCHANGED backlog
  BY DEF Handled, Citing
<1>2. /\ c \in Mid /\ Left(chans[p], i, c) = chans[p]
      /\ Steady(chans[p], throttle[p], throttled[p], thawed)
      /\ throttle \in [Sides -> 0..1] /\ written \in 0..MaxData
  BY <1>1, CallStart
<1> HIDE DEF i
<1>3. e \in Fits(chans[p], chans[Other(p)], Tail(wire[p]), wire[Other(p)], opened, i) /\ Keeps(c, e)
  BY DEF i
<1> QED BY <1>1, <1>2, <1>3, CallStep

\* CHANNEL_WINDOW_ADJUST: the end had no window, so that it has one now.
LEMMA AdjustStep ==
    ASSUME IInv, NEW p \in Sides, wire[p] # <<>>, Citing(p),
           Handled(p, "adjust", RecvAdjust(chans[p][Cited(p)].end))
    PROVE  IInv'
<1> DEFINE i == Cited(p)
           c == chans[p][i].end
           d == [c EXCEPT !.remwindow = @ + 1]
           F == Fits(chans[p], chans[Other(p)], Tail(wire[p]), wire[Other(p)], opened, i)
<1>1. wire[p][1].kind = "adjust" /\ "adjust" \in Plain
  BY Reading DEF Plain, Handled, Arrives
<1>2. i \in DOMAIN chans[p] /\ ~c.halfopen /\ i = wire[p][1].to
  BY <1>1, Reading
<1>3. /\ c \in Mid /\ Sound(c) /\ Usable(c) /\ c.packets = <<>>
      /\ opened \in Nat /\ Agree(chans[p], chans[Other(p)], wire[p], wire[Other(p)], opened)
  BY <1>2, CallStart
<1>4. c.remwindow = 0
  BY <1>1, Due
<1>5. d = [c EXCEPT !.remwindow = 1]
  BY <1>4
<1> HIDE DEF d
<1>6. d \in Mid
  <2>1. 1 \in 0..1
    OBVIOUS
  <2> QED BY <1>3, <1>5, <2>1 DEF Mid
<1>7. /\ d.packets = <<>> /\ d.sent_eof = c.sent_eof /\ d.pending_eof = c.pending_eof
      /\ d.sent_close = c.sent_close
      /\ d.chan = c.chan /\ d.halfopen = c.halfopen /\ d.remwindow = 1
      /\ d.locwindow = c.locwindow /\ d.chanreqs = c.chanreqs /\ d.gone = c.gone
      /\ d.input_wanted = c.input_wanted /\ d.held = c.held
  BY <1>3, <1>5 DEF Mid
<1>8. Sound(d)
  BY <1>2, <1>3, <1>7 DEF Sound
<1>9. Takes(c, d, "adjust") /\ Takes(c, c, "adjust")
  BY <1>3, <1>4, <1>7 DEF Takes, One, Mid
<1> HIDE DEF F, c
<1>10. d \in F /\ c \in F /\ Fitting(F)
  BY <1>1, <1>3, <1>6, <1>7, <1>8, <1>9, TakeStart DEF F, c
<1>11. [c EXCEPT !.remwindow = @ + 1] \in F
  BY <1>10 DEF d
<1>12. RecvAdjust(c) \in F /\ Keeps(c, RecvAdjust(c))
  BY <1>2, <1>3, <1>10, <1>11, RecvAdjustFits
<1> QED BY <1>1, <1>12, HandledStep DEF F, c

\* CHANNEL_EOF
LEMMA EofStep ==
    ASSUME IInv, NEW p \in Sides, wire[p] # <<>>, Citing(p),
           Handled(p, "eof", RecvEof(chans[p][Cited(p)].end, FALSE))
    PROVE  IInv'
<1> DEFINE i == Cited(p)
           c == chans[p][i].end
           F == Fits(chans[p], chans[Other(p)], Tail(wire[p]), wire[Other(p)], opened, i)
<1>1. wire[p][1].kind = "eof" /\ "eof" \in Plain
  BY Reading DEF Plain, Handled, Arrives
<1>2. i \in DOMAIN chans[p]
  BY <1>1, Reading
<1>3. c \in Mid /\ Sound(c) /\ Usable(c) /\ c.packets = <<>>
  BY <1>2, CallStart
<1>4. Takes(c, c, "eof")
  BY <1>3 DEF Takes, One, Mid
<1> HIDE DEF F, c
<1>5. c \in F /\ Fitting(F)
  BY <1>1, <1>3, <1>4, TakeStart DEF F, c
<1>6. RecvEof(c, FALSE) \in F /\ Keeps(c, RecvEof(c, FALSE))
  BY <1>3, <1>5, RecvEofFits
<1> QED BY <1>1, <1>6, HandledStep DEF F, c

\* CHANNEL_FAILURE answers the request that has been on the list for longest.
LEMMA FailureStep ==
    ASSUME IInv, NEW p \in Sides, wire[p] # <<>>, Citing(p),
           Handled(p, "failure", Answered(chans[p][Cited(p)].end))
    PROVE  IInv'
<1> DEFINE i == Cited(p)
           c == chans[p][i].end
           r == Tail(c.chanreqs)
           d == [c EXCEPT !.chanreqs = r]
           F == Fits(chans[p], chans[Other(p)], Tail(wire[p]), wire[Other(p)], opened, i)
<1>1. wire[p][1].kind = "failure" /\ "failure" \in Plain
  BY Reading DEF Plain, Handled, Arrives
<1>2. i \in DOMAIN chans[p] /\ ~c.halfopen /\ i = wire[p][1].to
  BY <1>1, Reading
<1>3. /\ c \in Mid /\ Sound(c) /\ Usable(c) /\ c.packets = <<>>
      /\ opened \in Nat /\ Agree(chans[p], chans[Other(p)], wire[p], wire[Other(p)], opened)
  BY <1>2, CallStart
<1>4. Len(c.chanreqs) >= 1
  BY <1>1, Due
<1>5. /\ c.chanreqs # <<>> /\ r \in Seq({"winadj"}) /\ Len(r) = Len(c.chanreqs) - 1
      /\ Len(c.chanreqs) \in Nat
  <2>1. c.chanreqs \in Seq({"winadj"})
    BY <1>3 DEF Mid
  <2> DEFINE l == c.chanreqs
  <2>2. l \in Seq({"winadj"}) /\ Len(l) >= 1
    BY <2>1, <1>4
  <2> HIDE DEF l
  <2>3. l # <<>> /\ Tail(l) \in Seq({"winadj"}) /\ Len(Tail(l)) = Len(l) - 1 /\ Len(l) \in Nat
    BY <2>2
  <2> QED BY <2>3 DEF l
<1> HIDE DEF r
<1>6. d \in Mid
  BY <1>3, <1>5 DEF Mid
<1>7. /\ d.packets = <<>> /\ d.sent_eof = c.sent_eof /\ d.pending_eof = c.pending_eof
      /\ d.sent_close = c.sent_close
      /\ d.chan = c.chan /\ d.halfopen = c.halfopen /\ d.remwindow = c.remwindow
      /\ d.locwindow = c.locwindow /\ d.chanreqs = r /\ d.gone = c.gone
      /\ d.input_wanted = c.input_wanted /\ d.held = c.held
  BY <1>3 DEF Mid
<1>8. [c EXCEPT !.chanreqs = Tail(@)] = d
  BY <1>3 DEF r
<1> HIDE DEF d
<1>9. Sound(d)
  BY <1>3, <1>5, <1>7 DEF Sound, Usable
<1>10. Takes(c, d, "failure")
  <2>1. c.remwindow \in 0..1 /\ c.locwindow \in 0..1
    BY <1>3 DEF Mid
  <2> HIDE DEF c
  <2> QED BY <1>5, <1>7, <2>1 DEF Takes, One
<1>11. d \in F /\ Fitting(F)
  <2>1. d.packets = <<>>
    BY <1>7
  <2> HIDE DEF i
  <2> QED BY <1>1, <1>6, <1>9, <1>10, <2>1, TakeStart DEF i
<1> HIDE DEF F, c
<1>12. Answered(c) \in F /\ Keeps(c, Answered(c))
  BY <1>3, <1>8, <1>11, AnsweredFits
<1> QED BY <1>1, <1>12, HandledStep DEF F, c

\* A request is refused, if the end may still speak.
LEMMA RequestStep ==
    ASSUME IInv, NEW p \in Sides, wire[p] # <<>>, Citing(p),
           Handled(p, "request", RecvRequest(chans[p][Cited(p)].end, Head(wire[p]).req, TRUE, FALSE))
    PROVE  IInv'
<1> DEFINE i == Cited(p)
           C == chans[p]
           D == chans[Other(p)]
           W == wire[Other(p)]
           c == C[i].end
           x == Packet("failure", "winadj")
           q == Append(c.packets, x)
           e == [c EXCEPT !.packets = q]
           m == Parcel(x, C[i].remoteid, i, C[i].inc)
           F == Fits(C, D, Tail(wire[p]), W, opened, i)
<1>1. wire[p][1].kind = "request" /\ "request" \in Plain
  BY Reading DEF Plain, Handled, Arrives
<1>2. /\ i \in DOMAIN C /\ ~c.halfopen /\ C[i].inc = wire[p][1].inc
      /\ Head(wire[p]).req = "winadj"
  BY <1>1, Reading
<1>3. /\ c \in Mid /\ Sound(c) /\ Usable(c) /\ c.packets = <<>> /\ Tree(C, opened) /\ Left(C, i, c) = C
      /\ opened \in Nat /\ Agree(C, D, wire[p], W, opened)
  BY <1>2, CallStart
<1>4. Takes(c, c, "request")
  BY <1>3 DEF Takes, One, Mid
<1>5. c \in F
  BY <1>1, <1>3, <1>4, TakeStart
<1>6. CASE c.sent_close
  <2>1. RecvRequest(c, Head(wire[p]).req, TRUE, FALSE) = c /\ Keeps(c, c)
    BY <1>6 DEF RecvRequest, Replies, Keeps
  <2> HIDE DEF F
  <2> QED BY <1>1, <1>5, <2>1, HandledStep DEF F
<1>7. CASE ~c.sent_close
  <2>1. x \in Item /\ x.kind = "failure" /\ x.req = "winadj"
    BY DEF Packet, Item, Plain
  <2>2. RecvRequest(c, Head(wire[p]).req, TRUE, FALSE) = e
    BY <1>2, <1>7 DEF RecvRequest, Replies, Push
  <2> HIDE DEF x
  <2>3. q \in Seq(Item)
    BY <1>3, <2>1
  <2> HIDE DEF q
  <2>4. e \in Mid
    BY <1>3, <2>3 DEF Mid
  <2>5. /\ e.packets = q /\ e.halfopen = c.halfopen /\ e.sent_eof = c.sent_eof
        /\ e.sent_close = c.sent_close
        /\ e.chan = c.chan /\ e.pending_eof = c.pending_eof /\ e.remwindow = c.remwindow
        /\ e.locwindow = c.locwindow /\ e.chanreqs = c.chanreqs /\ e.gone = c.gone
        /\ e.rcvd_close = c.rcvd_close /\ e.input_wanted = c.input_wanted /\ e.held = c.held
        /\ e.throttling_conn = c.throttling_conn
    BY <1>3 DEF Mid
  <2>6. Settled(e) = Settled(c)
    BY <1>3 DEF Settled, Mid
  <2> HIDE DEF e
  <2>7. Sound(e) /\ Keeps(c, e)
    BY <1>3, <2>5 DEF Sound, Keeps, Hasty
  <2>8. Left(C, i, e) = C
    BY <1>3, <2>6 DEF Left
  <2>9. W \in Seq(Letter) /\ i \in Nat /\ C[i].remoteid \in Nat /\ C[i].inc \in Nat
    BY <1>2, <1>3, StartFits, LeftIs
  <2>10. Posted(W, c, C[i].remoteid, i, C[i].inc) = W
    BY <1>3, <2>9, PostedIs
  <2>11. Posted(W, e, C[i].remoteid, i, C[i].inc) = Longer(Posted(W, c, C[i].remoteid, i, C[i].inc), m)
    <3>1. e.packets = Append(c.packets, x)
      BY <2>5 DEF q
    <3>2. c \in Mid /\ e \in Mid /\ x \in Item
      BY <1>3, <2>1, <2>4
    <3> DEFINE to == C[i].remoteid
               k == C[i].inc
    <3>3. to \in Nat /\ k \in Nat
      BY <2>9
    <3> HIDE DEF to, k, W, c
    <3>4. Posted(W, e, to, i, k) = Longer(Posted(W, c, to, i, k), Parcel(x, to, i, k))
      BY <2>9, <3>1, <3>2, <3>3, PostedGrows
    <3> QED BY <3>4 DEF to, k
  <2>12. /\ Agree(C, D, Tail(wire[p]), W, opened)
         /\ \A j \in DOMAIN D : D[j].inc = C[i].inc /\ ~D[j].end.gone =>
               Num(Tail(wire[p]), C[i].inc, "request") + Num(W, C[i].inc, "failure") + 1 <= Len(D[j].end.chanreqs)
    <3>1. Taken(C, C, wire[p][1], opened)
      <4>1. ASSUME NEW j \in DOMAIN C
            PROVE  /\ C[j].end.packets = <<>> /\ Sound(C[j].end)
                   /\ Takes(C[j].end, C[j].end, IF C[j].inc = wire[p][1].inc THEN wire[p][1].kind ELSE "none")
        <5>1. C[j].end \in Mid /\ C[j].end.packets = <<>> /\ Sound(C[j].end)
          BY CallStart
        <5>2. Takes(C[j].end, C[j].end, "request") /\ Takes(C[j].end, C[j].end, "none")
          BY <5>1 DEF Takes, One, Mid
        <5> QED BY <5>1, <5>2, <1>1
      <4> QED BY <4>1, <1>3 DEF Taken
    <3>2. wire[p][1].kind # "confirmation"
      BY <1>1
    <3> QED BY <1>1, <1>2, <1>3, <3>1, <3>2, DropAgrees
  <2>13. m \in Letter /\ m.kind = "failure" /\ m.req = "winadj" /\ m.to = C[i].remoteid /\ m.inc = C[i].inc
    BY <2>1, <2>9 DEF Parcel, Letter, Plain, Requests
  <2>14. Speaks(c, c, "failure")
    BY <1>2, <1>3, <1>7 DEF Speaks, One, Mid
  <2>15. Replaces(C, C, i, opened)
    BY <1>2, <1>3 DEF Replaces
  <2> HIDE DEF m, C, D, W
  <2>16. m.kind \in Plain
    BY <2>13 DEF Plain
  <2>17. Agree(C, D, Tail(wire[p]), Append(W, m), opened)
    BY <1>3, <2>12, <2>13, <2>14, <2>15, <2>16, SayAgrees
  <2>18. e \in F
    BY <2>4, <2>7, <2>8, <2>10, <2>11, <2>17 DEF Fits, Longer, m
  <2> HIDE DEF F
  <2> QED BY <1>1, <2>2, <2>7, <2>18, HandledStep DEF F, C, D, W
<1> QED BY <1>6, <1>7

\* The last look at an end that has received CLOSE frees it, once CLOSE has been sent.
LEMMA LastClose ==
    ASSUME NEW h \in Mid, h.rcvd_close, h.rcvd_eof, h.sent_eof, h.chanreqs = <<>>, ~h.gone, ~h.halfopen
    PROVE  /\ CheckClose(h).gone /\ CheckClose(h).fault = "none"
           /\ CheckClose(h).packets = IF h.sent_close THEN h.packets
                                      ELSE Append(h.packets, Packet("close", "none"))
<1> DEFINE x == Packet("close", "none")
           q == Append(h.packets, x)
           g == [h EXCEPT !.packets = q, !.sent_eof = TRUE, !.sent_close = TRUE]
<1>1. h.fault = "none" /\ h.chan.vt # "sess" /\ h.rcvd_close = TRUE /\ h.gone = FALSE
  BY DEF Mid, Fwd, X11, Zombie
<1>2. Assert(h, TRUE, "none") = h
  BY <1>1 DEF Assert
<1>3. g = [Push(h, "close", "none") EXCEPT !.sent_eof = TRUE, !.sent_close = TRUE]
  BY DEF Push, Mid
<1> HIDE DEF q
<1>4. /\ g.gone = FALSE /\ g.fault = "none" /\ g.sent_close = TRUE /\ g.rcvd_close = TRUE
      /\ g.chanreqs = <<>> /\ g.packets = q
  BY <1>1 DEF Mid
<1> HIDE DEF g
<1>5. ASSUME NEW b \in {g, h}, b.gone = FALSE, b.fault = "none", b.chanreqs = <<>>
      PROVE  Destroy(b) = [b EXCEPT !.gone = TRUE]
  BY <1>5 DEF Destroy, Assert
<1>6. CASE h.sent_close
  <2>1. CheckClose(h) = Destroy(h)
    BY <1>1, <1>2, <1>6 DEF CheckClose, ReadyToClose, BothClosed
  <2>2. CheckClose(h) = [h EXCEPT !.gone = TRUE]
    BY <1>1, <1>5, <2>1
  <2> QED BY <1>1, <1>6, <2>2 DEF Mid
<1>7. CASE ~h.sent_close
  <2>1. ReadyToClose(h)
    BY <1>1, <1>7 DEF ReadyToClose, WantClose
  <2>2. CheckClose(h) = Destroy(g)
    BY <1>2, <1>3, <1>4, <2>1 DEF CheckClose, BothClosed
  <2>3. CheckClose(h) = [g EXCEPT !.gone = TRUE]
    BY <1>4, <1>5, <2>2
  <2>4. [g EXCEPT !.gone = TRUE].packets = q
    BY <1>4 DEF g, Mid
  <2>5. [g EXCEPT !.gone = TRUE].gone = TRUE /\ [g EXCEPT !.gone = TRUE].fault = "none"
    BY <1>1 DEF g, Mid
  <2> QED BY <1>7, <2>3, <2>4, <2>5 DEF q
<1> QED BY <1>6, <1>7

\* What CLOSE makes of an end: EOF and CLOSE are sent unless they were, and the end is freed.
LEMMA FinishCloseIs ==
    ASSUME NEW c \in Mid, Sound(c), Usable(c), ~c.halfopen
    PROVE  LET e == FinishClose(ImpliedEof(c, FALSE))
               x == Packet("eof", "none")
               y == Packet("close", "none")
           IN  /\ e.gone /\ e.fault = "none"
               /\ c.sent_close => e.packets = c.packets
               /\ c.sent_eof /\ ~c.sent_close => e.packets = Append(c.packets, y)
               /\ ~c.sent_eof => e.packets = Append(Append(c.packets, x), y)
<1> DEFINE d == [c EXCEPT !.rcvd_eof = TRUE, !.chanreqs = <<>>]
           e == FinishClose(ImpliedEof(c, FALSE))
           x == Packet("eof", "none")
           y == Packet("close", "none")
           q == Append(c.packets, x)
           r == Append(q, y)
<1>1. /\ c.chan.vt # "main" /\ c.chan.vt # "sess" /\ c.fault = "none" /\ <<>> \in Seq({"winadj"})
      /\ c.packets \in Seq(Item)
  BY DEF Mid, Fwd, X11, Zombie
<1>2. ForgetRequests(ImpliedEof(c, FALSE)) = d
  <2>1. CASE c.rcvd_eof
    BY <2>1 DEF ForgetRequests, ImpliedEof, Mid
  <2>2. CASE ~c.rcvd_eof
    <3> DEFINE b == [c EXCEPT !.rcvd_eof = TRUE]
    <3>1. b.chan.vt # "main" /\ ImpliedEof(c, FALSE) = ChanSendEof(b, FALSE)
      BY <2>2, <1>1 DEF ImpliedEof, Mid
    <3> HIDE DEF b
    <3>2. ImpliedEof(c, FALSE) = b
      BY <3>1 DEF ChanSendEof
    <3> QED BY <3>2 DEF ForgetRequests, b, Mid
  <2> QED BY <2>1, <2>2
<1>3. d \in Mid
  BY <1>1 DEF Mid
<1>4. /\ d.halfopen = FALSE /\ d.sent_eof = c.sent_eof /\ d.sent_close = c.sent_close /\ d.rcvd_eof = TRUE
      /\ d.rcvd_close = FALSE /\ d.chanreqs = <<>> /\ d.gone = FALSE /\ d.fault = "none"
      /\ d.packets = c.packets /\ d.chan = c.chan
  BY <1>1 DEF Mid, Usable
<1> HIDE DEF d
<1>5. CASE c.sent_eof
  <2> DEFINE h == [d EXCEPT !.rcvd_close = TRUE]
  <2>1. /\ h \in Mid /\ h.rcvd_close = TRUE /\ h.rcvd_eof = TRUE /\ h.sent_eof = TRUE /\ h.chanreqs = <<>>
        /\ h.gone = FALSE /\ h.halfopen = FALSE /\ h.packets = c.packets /\ h.sent_close = c.sent_close
    BY <1>3, <1>4, <1>5 DEF Mid
  <2>2. e = CheckClose(h)
    BY <1>2, <1>4, <1>5 DEF FinishClose
  <2> HIDE DEF h
  <2> QED BY <1>5, <2>1, <2>2, LastClose
<1>6. CASE ~c.sent_eof
  <2>1. ~c.sent_close
    BY <1>6 DEF Sound
  <2>2. x \in Item /\ y \in Item
    BY DEF Packet, Item, Plain
  <2> HIDE DEF x, y
  <2>3. q \in Seq(Item) /\ r \in Seq(Item)
    BY <1>1, <2>2
  <2> DEFINE f == [d EXCEPT !.outbuffer = 0]
             g == [f EXCEPT !.pending_eof = TRUE]
             s == [g EXCEPT !.packets = q, !.pending_eof = FALSE, !.sent_eof = TRUE]
             t == [s EXCEPT !.packets = r, !.sent_eof = TRUE, !.sent_close = TRUE]
             u == [t EXCEPT !.input_wanted = ~t.held /\ ~t.pending_eof /\ ~t.sent_eof]
             h == [u EXCEPT !.rcvd_close = TRUE]
  <2>4. f \in Mid /\ f.sent_eof = FALSE /\ f.fault = "none" /\ f.gone = FALSE /\ f.packets = c.packets
        /\ f.halfopen = FALSE /\ f.outbuffer = 0 /\ f.sent_close = FALSE /\ f.rcvd_eof = TRUE
        /\ f.rcvd_close = FALSE /\ f.chanreqs = <<>> /\ f.chan = c.chan
    BY <1>3, <1>4, <1>6, <2>1 DEF Mid
  <2>5. Flush(d) = f
    BY DEF Flush
  <2> HIDE DEF f
  <2>6. g \in Mid /\ g.sent_eof = FALSE /\ g.fault = "none" /\ g.gone = FALSE /\ g.packets = c.packets
        /\ g.halfopen = FALSE /\ g.outbuffer = 0 /\ g.sent_close = FALSE /\ g.rcvd_eof = TRUE
        /\ g.rcvd_close = FALSE /\ g.chanreqs = <<>> /\ g.chan = c.chan
    BY <2>4 DEF Mid
  <2>7. WriteEof(f) = TryEof(g)
    BY <2>4 DEF WriteEof, Assert
  <2> HIDE DEF g
  <2>8. TryEof(g) = CheckClose([Push(g, "eof", "none") EXCEPT !.pending_eof = FALSE, !.sent_eof = TRUE])
    BY <2>6 DEF TryEof
  <2>9. [Push(g, "eof", "none") EXCEPT !.pending_eof = FALSE, !.sent_eof = TRUE] = s
    BY <2>6 DEF Push, q, x, Mid
  <2> HIDE DEF q, r
  <2>10. s \in Mid /\ s.sent_eof = TRUE /\ s.fault = "none" /\ s.gone = FALSE /\ s.packets = q
         /\ s.halfopen = FALSE /\ s.sent_close = FALSE /\ s.rcvd_eof = TRUE
         /\ s.rcvd_close = FALSE /\ s.chanreqs = <<>> /\ s.chan = c.chan
    BY <2>3, <2>6 DEF Mid
  <2> HIDE DEF s
  <2>11. t \in Mid /\ t.sent_eof = TRUE /\ t.fault = "none" /\ t.gone = FALSE /\ t.packets = r
         /\ t.halfopen = FALSE /\ t.sent_close = TRUE /\ t.rcvd_eof = TRUE
         /\ t.rcvd_close = FALSE /\ t.chanreqs = <<>>
    BY <2>3, <2>10 DEF Mid
  <2>12. CheckClose(s) = t
    <3>1. Assert(s, TRUE, "none") = s
      BY <2>10 DEF Assert
    <3>2. ReadyToClose(s)
      BY <1>1, <2>10 DEF ReadyToClose, WantClose
    <3>3. t = [Push(s, "close", "none") EXCEPT !.sent_eof = TRUE, !.sent_close = TRUE]
      BY <2>10 DEF Push, r, y, Mid
    <3> HIDE DEF t
    <3> QED BY <2>10, <2>11, <3>1, <3>2, <3>3 DEF CheckClose, BothClosed
  <2> HIDE DEF t
  <2>13. CheckThrottle(t) = u
    BY <2>11 DEF CheckThrottle, Assert
  <2>14. (~t.held /\ ~t.pending_eof /\ ~t.sent_eof) = FALSE
    BY <2>11
  <2>15. u = [t EXCEPT !.input_wanted = FALSE]
    BY <2>14
  <2> HIDE DEF u
  <2>16. u \in Mid /\ u.sent_eof = TRUE /\ u.fault = "none" /\ u.gone = FALSE /\ u.packets = r
         /\ u.halfopen = FALSE /\ u.sent_close = TRUE /\ u.rcvd_eof = TRUE
         /\ u.rcvd_close = FALSE /\ u.chanreqs = <<>>
    BY <2>11, <2>15 DEF Mid
  <2>17. h \in Mid /\ h.sent_eof = TRUE /\ h.gone = FALSE /\ h.packets = r
         /\ h.halfopen = FALSE /\ h.sent_close = TRUE /\ h.rcvd_eof = TRUE
         /\ h.rcvd_close = TRUE /\ h.chanreqs = <<>>
    BY <2>16 DEF Mid
  <2>18. e = CheckClose(h)
    <3>1. CheckThrottle(WriteEof(Flush(d))) = u
      BY <2>5, <2>7, <2>8, <2>9, <2>12, <2>13
    <3> QED BY <1>2, <1>4, <1>6, <2>16, <3>1 DEF FinishClose
  <2> HIDE DEF h
  <2>19. e.gone /\ e.fault = "none" /\ e.packets = r
    BY <2>17, <2>18, LastClose
  <2> QED BY <1>6, <2>1, <2>19 DEF r, q, x, y
<1> QED BY <1>5, <1>6

\* An end that is to be freed has sent EOF and CLOSE by then, as far as the other peer can tell.
LEMMA GhostFits ==
    ASSUME NEW F, Fitting(F), NEW b \in F, b.gone, ~b.halfopen
    PROVE  \E g \in F :
               /\ g.gone /\ ~g.halfopen
               /\ b.sent_close => g.packets = b.packets
               /\ b.sent_eof /\ ~b.sent_close => g.packets = Append(b.packets, Packet("close", "none"))
               /\ ~b.sent_eof => g.packets = Append(Append(b.packets, Packet("eof", "none")), Packet("close", "none"))
<1> DEFINE x == Packet("eof", "none")
           y == Packet("close", "none")
<1>1. /\ b \in Mid /\ Sound(b) /\ b.packets \in Seq(Item) /\ b.gone = TRUE /\ b.halfopen = FALSE
  BY EndShape DEF Mid
<1>2. x \in Item /\ x.kind = "eof" /\ y \in Item /\ y.kind = "close"
  BY DEF Packet, Item, Plain
<1> HIDE DEF x, y
<1>3. ASSUME NEW c \in F, c.gone, ~c.halfopen, c.sent_eof, ~c.sent_close
      PROVE  \E g \in F : g.gone /\ ~g.halfopen /\ g.packets = Append(c.packets, y)
  <2> DEFINE q == Append(c.packets, y)
             d == [c EXCEPT !.packets = q, !.sent_close = TRUE]
  <2>1. c \in Mid /\ Sound(c) /\ c.packets \in Seq(Item)
    BY EndShape
  <2>2. q \in Seq(Item)
    BY <1>2, <2>1
  <2> HIDE DEF q
  <2>3. d \in Mid
    BY <2>1, <2>2 DEF Mid
  <2>4. /\ d.packets = q /\ d.sent_eof = c.sent_eof /\ d.sent_close = TRUE /\ d.pending_eof = c.pending_eof
        /\ d.chan = c.chan /\ d.halfopen = c.halfopen /\ d.remwindow = c.remwindow
        /\ d.locwindow = c.locwindow /\ d.chanreqs = c.chanreqs /\ d.gone = c.gone
        /\ d.input_wanted = c.input_wanted /\ d.held = c.held
    BY <2>1 DEF Mid
  <2> HIDE DEF d
  <2>5. Sound(d) /\ Speaks(c, d, "close")
    BY <1>3, <2>1, <2>4 DEF Sound, Speaks, One, Mid
  <2>6. d \in F
    BY <1>2, <1>3, <2>3, <2>4, <2>5, Said DEF q
  <2> QED BY <1>3, <2>4, <2>6 DEF q
<1>4. CASE b.sent_close
  <2>1. b.sent_eof
    BY <1>1, <1>4 DEF Sound
  <2> QED BY <1>1, <1>4, <2>1
<1>5. CASE b.sent_eof /\ ~b.sent_close
  <2>1. PICK g \in F : g.gone /\ ~g.halfopen /\ g.packets = Append(b.packets, y)
    BY <1>3, <1>5
  <2> QED BY <1>5, <2>1 DEF y
<1>6. CASE ~b.sent_eof
  <2> DEFINE q == Append(b.packets, x)
             d == [b EXCEPT !.packets = q, !.sent_eof = TRUE, !.pending_eof = FALSE]
  <2>1. q \in Seq(Item)
    BY <1>1, <1>2
  <2> HIDE DEF q
  <2>2. d \in Mid
    BY <1>1, <2>1 DEF Mid
  <2>3. /\ d.packets = q /\ d.sent_eof = TRUE /\ d.sent_close = b.sent_close /\ d.pending_eof = FALSE
        /\ d.chan = b.chan /\ d.halfopen = b.halfopen /\ d.remwindow = b.remwindow
        /\ d.locwindow = b.locwindow /\ d.chanreqs = b.chanreqs /\ d.gone = b.gone
        /\ d.input_wanted = b.input_wanted /\ d.held = b.held
    BY <1>1 DEF Mid
  <2> HIDE DEF d
  <2>4. ~b.sent_close
    BY <1>1, <1>6 DEF Sound
  <2>5. Sound(d) /\ Speaks(b, d, "eof")
    BY <1>1, <1>6, <2>3, <2>4 DEF Sound, Speaks, One, Mid
  <2>6. d \in F
    BY <1>2, <2>2, <2>3, <2>5, Said DEF q
  <2>7. PICK g \in F : g.gone /\ ~g.halfopen /\ g.packets = Append(d.packets, y)
    BY <1>1, <1>3, <2>3, <2>4, <2>6
  <2>8. g.packets = Append(Append(b.packets, x), y)
    BY <2>3, <2>7 DEF q
  <2> QED BY <1>6, <2>4, <2>7, <2>8 DEF x, y
<1> QED BY <1>4, <1>5, <1>6

\* A tree without one of its channels is a tree of channels that were in it.
LEMMA WithoutIs ==
    ASSUME NEW n, NEW p \in Sides, NEW i \in DOMAIN chans[p], Tree(chans[p], n)
    PROVE  /\ Tree(Without(p, i), n) /\ DOMAIN Without(p, i) = DOMAIN chans[p] \ {i}
           /\ \A j \in DOMAIN Without(p, i) : Without(p, i)[j] = chans[p][j]
  BY DEF Tree, Without

\* Fewer ends are steady if all are, and the one that goes does not stop the connection.
LEMMA SteadyFewer ==
    ASSUME NEW C, NEW B, DOMAIN B \subseteq DOMAIN C, \A j \in DOMAIN B : B[j] = C[j],
           NEW count, NEW held, NEW past, Steady(C, count, held, past)
    PROVE  Steady(B, count, held, past)
  BY DEF Steady

\* CHANNEL_CLOSE takes the channel out of the tree.
LEMMA CloseStep ==
    ASSUME IInv, NEW p \in Sides, wire[p] # <<>>, Citing(p),
           Handled(p, "close", FinishClose(ImpliedEof(chans[p][Cited(p)].end, FALSE)))
    PROVE  IInv'
<1> DEFINE i == Cited(p)
           C == chans[p]
           D == chans[Other(p)]
           V == wire[p]
           T == Tail(V)
           W == wire[Other(p)]
           c == C[i].end
           e == FinishClose(ImpliedEof(c, FALSE))
           b == [c EXCEPT !.gone = TRUE]
           F == Fits(C, D, T, W, opened, i)
           B == Without(p, i)
           x == Packet("eof", "none")
           y == Packet("close", "none")
           Y(z) == Posted(W, z, C[i].remoteid, i, C[i].inc)
<1>1. wire[p][1].kind = "close" /\ "close" \in Plain
  BY Reading DEF Plain, Handled, Arrives
<1>2. i \in DOMAIN C /\ ~c.halfopen /\ C[i].inc = V[1].inc
  BY <1>1, Reading
<1>3. /\ c \in Mid /\ Sound(c) /\ Usable(c) /\ c.packets = <<>> /\ Tree(C, opened)
      /\ Steady(C, throttle[p], throttled[p], thawed)
      /\ throttle \in [Sides -> 0..1] /\ written \in 0..MaxData
      /\ opened \in Nat /\ Agree(C, D, V, W, opened)
  BY <1>2, CallStart
<1>4. /\ e.gone /\ e.fault = "none"
      /\ c.sent_close => e.packets = c.packets
      /\ c.sent_eof /\ ~c.sent_close => e.packets = Append(c.packets, y)
      /\ ~c.sent_eof => e.packets = Append(Append(c.packets, x), y)
  BY <1>2, <1>3, FinishCloseIs
<1>5. /\ Effect(p, i, e, T) /\ opened' = opened /\ written' = written /\ throttle' = throttle
      /\ throttled' = throttled /\ thawed' = thawed /\ backlogs' = backlogs
  BY DEF Handled, backlog
<1>6. b \in Mid
  BY <1>3 DEF Mid
<1>7. /\ b.packets = c.packets /\ b.sent_eof = c.sent_eof /\ b.pending_eof = c.pending_eof
      /\ b.sent_close = c.sent_close
      /\ b.chan = c.chan /\ b.halfopen = c.halfopen /\ b.remwindow = c.remwindow
      /\ b.locwindow = c.locwindow /\ b.chanreqs = c.chanreqs /\ b.gone = TRUE
      /\ b.input_wanted = c.input_wanted /\ b.held = c.held
  BY <1>3 DEF Mid
<1> HIDE DEF b, e
<1>8. Sound(b) /\ Takes(c, b, "close")
  BY <1>3, <1>7 DEF Sound, Takes, One, Mid
<1>9. b \in F /\ Fitting(F)
  BY <1>1, <1>3, <1>6, <1>7, <1>8, TakeStart
<1> HIDE DEF F
<1>10. PICK g \in F : g.gone /\ ~g.halfopen /\ g.packets = e.packets
  <2>1. PICK g \in F :
               /\ g.gone /\ ~g.halfopen
               /\ b.sent_close => g.packets = b.packets
               /\ b.sent_eof /\ ~b.sent_close => g.packets = Append(b.packets, y)
               /\ ~b.sent_eof => g.packets = Append(Append(b.packets, x), y)
    BY <1>2, <1>7, <1>9, GhostFits
  <2> HIDE DEF x, y
  <2> QED BY <1>3, <1>4, <1>7, <2>1 DEF Sound
<1> DEFINE A == Left(C, i, g)
<1>11. g \in Mid /\ Agree(A, D, T, Y(g), opened)
  BY <1>10 DEF F, Fits
<1>12. Y(e) = Y(g)
  BY <1>10, PostedSame
<1>13. /\ DOMAIN A = DOMAIN C /\ A[i].inc = C[i].inc /\ A[i].end.halfopen = FALSE
       /\ \A j \in DOMAIN C : j # i => A[j] = C[j]
  <2>1. Settled(g).halfopen = FALSE
    BY <1>10, <1>11, SettledIs DEF Mid
  <2> QED BY <1>2, <1>3, <1>11, <2>1, LeftIs
<1>14. /\ Tree(B, opened) /\ DOMAIN B = DOMAIN C \ {i} /\ \A j \in DOMAIN B : B[j] = C[j]
  <2>1. i \in DOMAIN C /\ Tree(C, opened)
    BY <1>2, <1>3
  <2> HIDE DEF i
  <2> QED BY <2>1, WithoutIs
<1>15. Mail(V, opened) /\ Order(V) /\ Marks(D, V)
  BY <1>3 DEF Agree, Half
<1>16. /\ DOMAIN V = 1..Len(V) /\ Len(V) \in Nat /\ Len(V) >= 1
       /\ \A z \in DOMAIN T : z + 1 \in DOMAIN V /\ T[z] = V[z + 1]
       /\ DOMAIN T = 1..(Len(V) - 1)
  BY <1>15, TailFacts
<1>17. ASSUME NEW z \in DOMAIN T
       PROVE  T[z].inc # C[i].inc
  <2>1. z + 1 \in DOMAIN V /\ T[z] = V[z + 1] /\ 1 \in DOMAIN V /\ 1 < z + 1
    BY <1>16
  <2> QED BY <1>1, <1>2, <1>15, <2>1 DEF Order
<1>18. \A j \in DOMAIN D : D[j].inc = C[i].inc => D[j].end.sent_close
  <2>1. 1 \in DOMAIN V
    BY <1>16
  <2> QED BY <1>1, <1>2, <1>15, <2>1 DEF Marks
<1> HIDE DEF A, B, Y, T
<1>19. Agree(B, D, T, Y(e), opened)
  <2>1. i \in DOMAIN A /\ DOMAIN B = DOMAIN A \ {i} /\ \A j \in DOMAIN B : B[j] = A[j]
    BY <1>2, <1>13, <1>14
  <2>2. opened \in Nat /\ Tree(B, opened)
    BY <1>3, <1>14
  <2>3. \A z \in DOMAIN T : T[z].inc # A[i].inc
    BY <1>13, <1>17
  <2>4. \A j \in DOMAIN D : D[j].inc = A[i].inc => D[j].end.sent_close
    BY <1>13, <1>18
  <2> DEFINE X == Y(e)
  <2>5. Agree(A, D, T, X, opened)
    BY <1>11, <1>12
  <2>6. ~A[i].end.halfopen
    BY <1>13
  <2> HIDE DEF X, D, C, V, W, c, i
  <2>7. Agree(B, D, T, X, opened)
    BY <2>1, <2>2, <2>3, <2>4, <2>5, <2>6, RemoveAgrees
  <2> QED BY <2>7 DEF X
<1>20. Steady(B, throttle[p], throttled[p], thawed)
  BY <1>3, <1>14, SteadyFewer
<1>21. DOMAIN chans = Sides /\ DOMAIN wire = Sides /\ fault = "none"
  BY DEF IInv, Shape
<1>22. chans' = [q \in Sides |-> IF q = p THEN B ELSE chans[q]]
  <2>1. Updated(p, i, e) = B
    BY <1>4 DEF Updated, B
  <2> QED BY <1>5, <1>21, <2>1 DEF Effect
<1>23. wire' = [q \in Sides |-> IF q = p THEN T ELSE Y(e)]
  <2>1. W \o Addressed(p, i, e) = Y(e)
    BY DEF Addressed, Posted, Parcel, Y
  <2>2. wire' = [wire EXCEPT ![p] = T, ![Other(p)] = Y(e)]
    BY <1>5, <1>21, <2>1, Sided DEF Effect
  <2> QED BY <1>21, <2>2, Sided
<1>24. fault' = "none"
  BY <1>4, <1>5, <1>21 DEF Effect
<1>25. /\ throttled \in [Sides -> BOOLEAN] /\ opened \in 0..MaxOpens /\ backlogs \in 0..MaxBacklogs
       /\ thawed \subseteq 1..MaxOpens
  BY DEF IInv, Shape
<1> QED BY <1>3, <1>5, <1>19, <1>20, <1>22, <1>23, <1>24, <1>25, StepOf

\* A packet may be taken without changing any end, unless it is a confirmation.
LEMMA LetsPass ==
    ASSUME NEW n \in Nat, NEW C, NEW D, NEW V, NEW W, Agree(C, D, V, W, n), V # <<>>,
           V[1].kind # "confirmation"
    PROVE  Agree(C, D, Tail(V), W, n)
<1>1. Ends(C, n)
  BY DEF Agree, Half
<1>2. ASSUME NEW j \in DOMAIN C, NEW kind
      PROVE  /\ C[j].end.packets = <<>> /\ Sound(C[j].end)
             /\ Takes(C[j].end, C[j].end, kind)
  <2> DEFINE r == C[j].end.remwindow
             l == C[j].end.locwindow
             q == Len(C[j].end.chanreqs)
  <2>1. C[j].end.packets = <<>> /\ Sound(C[j].end)
    BY <1>1 DEF Ends
  <2>2. r \in 0..1 /\ l \in 0..1 /\ q \in Nat
    BY <1>1, EndTypes
  <2> HIDE DEF r, l, q
  <2>3. r <= r + One(kind, "adjust") /\ l + One(kind, "data") >= l /\ q + One(kind, "failure") >= q
    BY <2>2 DEF One
  <2> QED BY <2>1, <2>3 DEF Takes, r, l, q
<1>3. Taken(C, C, V[1], n)
  BY <1>1, <1>2 DEF Taken, Ends, Tree
<1> QED BY <1>3, DropAgrees

\* CHANNEL_OPEN_FAILURE takes the channel out of the tree again.
LEMMA OpenFailureStep ==
    ASSUME IInv, NEW p \in Sides, RecvFailure(p)
    PROVE  IInv'
<1> DEFINE i == Cited(p)
           C == chans[p]
           D == chans[Other(p)]
           V == wire[p]
           T == Tail(V)
           W == wire[Other(p)]
           B == Without(p, i)
<1>1. /\ V # <<>> /\ Head(V).kind = "open-failure" /\ i \in DOMAIN C
      /\ chans' = [chans EXCEPT ![p] = B] /\ wire' = [wire EXCEPT ![p] = T]
      /\ throttle' = throttle /\ opened' = opened /\ written' = written /\ fault' = fault
      /\ throttled' = throttled /\ thawed' = thawed /\ backlogs' = backlogs
  BY DEF RecvFailure, Arrives, Citing, backlog
<1>2. V[1].kind = "open-failure" /\ i = V[1].to
  BY <1>1, Reading DEF Cited
<1>3. /\ Steady(C, throttle[p], throttled[p], thawed) /\ Tree(C, opened)
      /\ throttle \in [Sides -> 0..1] /\ written \in 0..MaxData
      /\ opened \in Nat /\ Agree(C, D, V, W, opened)
  BY <1>1, CallStart
<1>4. Agree(C, D, T, W, opened)
  BY <1>1, <1>2, <1>3, LetsPass
<1>5. Mail(V, opened) /\ Answers(C, D, V, W)
  BY <1>3 DEF Agree, Half
<1>6. /\ DOMAIN V = 1..Len(V) /\ Len(V) \in Nat /\ Len(V) >= 1
      /\ \A z \in DOMAIN T : z + 1 \in DOMAIN V /\ T[z] = V[z + 1]
      /\ DOMAIN T = 1..(Len(V) - 1)
  BY <1>1, <1>5, TailFacts
<1>7. /\ C[i].inc = V[1].inc
      /\ \A z \in DOMAIN W : W[z].inc # V[1].inc
      /\ \A j \in DOMAIN D : D[j].inc # V[1].inc
      /\ \A z \in DOMAIN V : V[z].inc = V[1].inc => z = 1
  <2>1. 1 \in DOMAIN V
    BY <1>6
  <2> QED BY <1>2, <1>5, <2>1 DEF Answers, Answer
<1>8. /\ Tree(B, opened) /\ DOMAIN B = DOMAIN C \ {i} /\ \A j \in DOMAIN B : B[j] = C[j]
  <2>1. i \in DOMAIN C /\ Tree(C, opened)
    BY <1>1, <1>3
  <2> HIDE DEF i
  <2> QED BY <2>1, WithoutIs
<1>9. \A z \in DOMAIN T : T[z].inc # C[i].inc
  <2> SUFFICES ASSUME NEW z \in DOMAIN T
               PROVE  T[z].inc # C[i].inc
    OBVIOUS
  <2>1. z + 1 \in DOMAIN V /\ T[z] = V[z + 1] /\ z + 1 # 1
    BY <1>6
  <2> QED BY <1>7, <2>1
<1>10. \A j \in DOMAIN D : D[j].inc = C[i].inc => D[j].end.sent_close
  BY <1>7
<1>11. \A z \in DOMAIN W : W[z].inc # C[i].inc
  BY <1>7
<1>12. DOMAIN chans = Sides /\ DOMAIN wire = Sides /\ fault = "none"
  BY DEF IInv, Shape
<1>13. /\ chans' = [q \in Sides |-> IF q = p THEN B ELSE chans[q]]
       /\ wire' = [q \in Sides |-> IF q = p THEN T ELSE W]
  BY <1>1, <1>12, Sided
<1>14. Steady(B, throttle[p], throttled[p], thawed)
  BY <1>3, <1>8, SteadyFewer
<1>15. /\ throttled \in [Sides -> BOOLEAN] /\ opened \in 0..MaxOpens /\ backlogs \in 0..MaxBacklogs
       /\ thawed \subseteq 1..MaxOpens
  BY DEF IInv, Shape
<1> HIDE DEF B, T, i
<1>16. Agree(B, D, T, W, opened)
  <2> HIDE DEF C, D, V, W
  <2> QED BY <1>1, <1>3, <1>4, <1>8, <1>9, <1>10, <1>11, RemoveAgrees
<1>17. /\ throttle' = throttle /\ opened' = opened /\ written' = written /\ fault' = "none"
       /\ throttled' = throttled /\ thawed' = thawed /\ backlogs' = backlogs
  BY <1>1, <1>12
<1> HIDE DEF C, D, V, W
<1>18. Agree(B, chans[Other(p)], T, W, opened)
  BY <1>16 DEF D
<1> QED BY <1>3, <1>13, <1>14, <1>15, <1>17, <1>18, StepOf

--------------------------------------------------------------------------------
(* Opening. *)

\* Min is the least member of a set of numbers.
LEMMA Least ==
    ASSUME NEW S \in SUBSET Nat, S # {}
    PROVE  Min(S) \in S /\ \A y \in S : Min(S) <= y
<1> DEFINE R == OpToRel(<, Nat)
<1>0. R = {ss \in Nat \X Nat : ss[1] < ss[2]}
  BY Zenon DEF OpToRel
<1>1. IsWellFoundedOn(R, Nat)
  BY NatLessThanWellFounded
<1> HIDE DEF R
<1>2. \E x \in S : \A y \in S : <<y, x>> \notin R
  BY <1>1, WFMin
<1>3. \A x, y \in Nat : y < x => <<y, x>> \in R
  <2> SUFFICES ASSUME NEW x \in Nat, NEW y \in Nat, y < x
               PROVE  <<y, x>> \in R
    OBVIOUS
  <2>1. <<y, x>> \in Nat \X Nat /\ <<y, x>>[1] = y /\ <<y, x>>[2] = x
    OBVIOUS
  <2> QED BY <2>1, <1>0, Zenon
<1>4. \A x, y \in Nat : ~(y < x) => x <= y
  OBVIOUS
<1>5. PICK x \in S : \A y \in S : <<y, x>> \notin R
  BY <1>2
<1>6. \A y \in S : x <= y
  BY <1>3, <1>4, <1>5
<1> QED BY <1>6 DEF Min

\* There is a free id while there are fewer channels than OPENs: each has an OPEN of its own.
LEMMA FreeId ==
    ASSUME NEW p \in Sides, NEW n \in Nat, n <= MaxOpens, Ends(chans[p], n), NEW k \in 1..MaxOpens,
           \A i \in DOMAIN chans[p] : chans[p][i].inc # k
    PROVE  FirstFree(p) \in 1..MaxOpens /\ FirstFree(p) \notin DOMAIN chans[p]
<1> DEFINE I == DOMAIN chans[p]
           J == (1..MaxOpens) \ {k}
           f == [i \in I |-> chans[p][i].inc]
           S == {i \in 1..MaxOpens : i \notin I}
<1>1. MaxOpens \in Nat
  BY ForwardingAssumption
<1>2. /\ IsFiniteSet(1..MaxOpens) /\ Cardinality(1..MaxOpens) = MaxOpens
  BY <1>1, FS_Interval
<1>3. IsFiniteSet(J) /\ Cardinality(J) = MaxOpens - 1
  BY <1>2, FS_RemoveElement
<1>4. f \in [I -> J] /\ \A i, j \in I : f[i] = f[j] => i = j
  BY <1>1 DEF Ends
<1>5. I \subseteq 1..MaxOpens
  BY DEF Ends
<1> HIDE DEF I, J, f
<1>6. f \in Injection(I, J)
  BY <1>4, Fun_IsInj
<1>7. IsFiniteSet(I) /\ Cardinality(I) <= Cardinality(J)
  BY <1>3, <1>6, FS_Injection
<1>8. I # 1..MaxOpens
  BY <1>1, <1>2, <1>3, <1>7
<1>9. S # {} /\ S \in SUBSET Nat
  <2>1. S # {}
    BY <1>5, <1>8
  <2>2. \A i \in S : i \in Nat
    BY <1>1
  <2> QED BY <2>1, <2>2
<1>10. Min(S) \in S
  BY <1>9, Least
<1>11. FirstFree(p) = Min(S)
  BY DEF FirstFree, I
<1> QED BY <1>10, <1>11 DEF I

\* ssh2_channel_init: nothing has been said on a new channel.
LEMMA NewEndIs ==
    ASSUME NEW chan \in {Fwd, X11}, NEW half \in BOOLEAN
    PROVE  LET c == NewEnd(chan, half) IN
           /\ c \in Mid /\ c.packets = <<>> /\ c.halfopen = half
           /\ c.sent_eof = FALSE /\ c.sent_close = FALSE /\ c.rcvd_close = FALSE /\ c.gone = FALSE
           /\ c.pending_eof = FALSE /\ c.locwindow = 1 /\ (half => c.remwindow = 0)
           /\ c.chanreqs = <<>> /\ c.throttling_conn = FALSE /\ c.input_wanted = TRUE
<1> DEFINE r == IF half THEN 0 ELSE 1
           f == [chan |-> chan, halfopen |-> half,
                 sent_eof |-> FALSE, sent_close |-> FALSE, rcvd_eof |-> FALSE, rcvd_close |-> FALSE,
                 pending_eof |-> FALSE, outbuffer |-> 0, remwindow |-> r,
                 locwindow |-> 1, chanreqs |-> <<>>, throttling_conn |-> FALSE, input_wanted |-> TRUE,
                 held |-> FALSE, packets |-> <<>>, gone |-> FALSE, fault |-> "none"]
<1>1. /\ r \in 0..1 /\ (half => r = 0) /\ 1 \in 0..1 /\ 0 \in Nat /\ <<>> \in Seq(Item) /\ <<>> \in Seq({"winadj"})
      /\ chan \in {Fwd, X11, Zombie} /\ FALSE \in BOOLEAN
  OBVIOUS
<1>2. NewEnd(chan, half) = f
  BY DEF NewEnd
<1> HIDE DEF r
<1>3. f \in Mid
  BY <1>1 DEF Mid
<1>4. /\ f.packets = <<>> /\ f.halfopen = half /\ f.sent_eof = FALSE /\ f.sent_close = FALSE /\ f.gone = FALSE
      /\ f.locwindow = 1 /\ f.throttling_conn = FALSE /\ f.rcvd_close = FALSE /\ f.input_wanted = TRUE
      /\ f.remwindow = r /\ f.pending_eof = FALSE /\ f.chanreqs = <<>>
  OBVIOUS
<1> HIDE DEF f
<1> QED BY <1>1, <1>2, <1>3, <1>4

\* A tree with one more channel.
LEMMA WithIs ==
    ASSUME NEW n, NEW p \in Sides, Tree(chans[p], n), NEW i \in 1..MaxOpens, i \notin DOMAIN chans[p],
           NEW ch \in [end : Mid, remoteid : Nat, inc : 1..n]
    PROVE  /\ Tree(With(p, i, ch), n) /\ DOMAIN With(p, i, ch) = DOMAIN chans[p] \cup {i}
           /\ With(p, i, ch)[i] = ch /\ \A j \in DOMAIN chans[p] : With(p, i, ch)[j] = chans[p][j]
<1> DEFINE B == With(p, i, ch)
           Chan == [end : Mid, remoteid : Nat, inc : 1..n]
<1>1. DOMAIN B = DOMAIN chans[p] \cup {i} /\ B[i] = ch /\ \A j \in DOMAIN chans[p] : B[j] = chans[p][j]
  BY DEF With
<1>2. DOMAIN chans[p] \subseteq 1..MaxOpens /\ \A j \in DOMAIN chans[p] : chans[p][j] \in Chan
  BY DEF Tree
<1>3. \A j \in DOMAIN B : B[j] \in Chan
  BY <1>1, <1>2
<1>4. B = [j \in DOMAIN B |-> B[j]]
  BY DEF With
<1> HIDE DEF B, Chan
<1>5. B \in [DOMAIN B -> Chan]
  BY <1>3, <1>4
<1> QED BY <1>1, <1>2, <1>5 DEF Tree, B, Chan

\* One more end does not disturb the others.
LEMMA SteadyMore ==
    ASSUME NEW C, NEW count, NEW held, NEW past, Steady(C, count, held, past), NEW B, NEW i,
           DOMAIN B = DOMAIN C \cup {i}, \A j \in DOMAIN C : B[j] = C[j], i \notin DOMAIN C,
           Usable(B[i].end), B[i].end.held = held, ~B[i].end.throttling_conn, ~Hasty(B[i].end)
    PROVE  Steady(B, count, held, past)
  BY DEF Steady

\* A peer opens a channel.
LEMMA OpenStep ==
    ASSUME IInv, NEW p \in Sides, NEW kind \in Kinds, Open(p, kind)
    PROVE  IInv'
<1> DEFINE i == FirstFree(p)
           n == opened + 1
           C == chans[p]
           D == chans[Other(p)]
           V == wire[p]
           W == wire[Other(p)]
           c == SocketFrozen(p)
           ch == [end |-> c, remoteid |-> 0, inc |-> n]
           B == With(p, i, ch)
           m == [kind |-> "open", req |-> kind.vt, to |-> 0, from |-> i, inc |-> n]
<1>1. opened \in Nat /\ Agree(C, D, V, W, opened)
  BY AccordOf, ForwardingAssumption DEF IInv, Shape
<1>2. Ends(C, opened) /\ Ends(D, opened) /\ Mail(V, opened) /\ Mail(W, opened)
  BY <1>1 DEF Agree, Half
<1>3. /\ opened < MaxOpens /\ opened' = n
      /\ chans' = [chans EXCEPT ![p] = B] /\ wire' = [wire EXCEPT ![Other(p)] = Append(@, m)]
      /\ throttle' = throttle /\ written' = written /\ fault' = fault
      /\ throttled' = throttled /\ thawed' = thawed /\ backlogs' = backlogs
  BY DEF Open, backlog
<1>4. n \in 1..MaxOpens /\ n \in Nat /\ opened <= n /\ ~(n <= opened) /\ MaxOpens \in Nat /\ 0 \in Nat
  BY <1>1, <1>3, ForwardingAssumption
<1> HIDE DEF n
<1>5. /\ \A j \in DOMAIN C : C[j].inc # n
      /\ \A j \in DOMAIN D : D[j].inc # n
      /\ \A x \in DOMAIN V : V[x].inc # n
      /\ \A x \in DOMAIN W : W[x].inc # n
  BY <1>2, <1>4 DEF Ends, Mail
<1>6. i \in 1..MaxOpens /\ i \notin DOMAIN C /\ i \in Nat
  BY <1>1, <1>2, <1>3, <1>4, <1>5, FreeId
<1>7. throttled[p] \in BOOLEAN /\ Fwd \in {Fwd, X11} /\ TRUE \in BOOLEAN /\ FALSE \in BOOLEAN
  BY DEF IInv, Shape
<1>8. c = [NewEnd(Fwd, TRUE) EXCEPT !.input_wanted = FALSE, !.held = throttled[p]]
  BY DEF SocketFrozen
<1> HIDE DEF c, i
<1>9. /\ c \in Mid /\ Sound(c) /\ c.packets = <<>> /\ Usable(c) /\ c.halfopen = TRUE
      /\ ~c.sent_eof /\ ~c.sent_close /\ ~c.gone /\ c.locwindow = 1 /\ c.held = throttled[p]
      /\ ~c.throttling_conn /\ ~Hasty(c)
  <2> DEFINE f == NewEnd(Fwd, TRUE)
  <2>1. /\ f \in Mid /\ f.packets = <<>> /\ f.halfopen = TRUE
        /\ f.sent_eof = FALSE /\ f.sent_close = FALSE /\ f.rcvd_close = FALSE /\ f.gone = FALSE
        /\ f.pending_eof = FALSE /\ f.locwindow = 1 /\ f.remwindow = 0
        /\ f.throttling_conn = FALSE
    BY <1>7, NewEndIs
  <2> HIDE DEF f
  <2>2. c = [f EXCEPT !.input_wanted = FALSE, !.held = throttled[p]]
    BY <1>8 DEF f
  <2>3. c \in Mid
    BY <1>7, <2>1, <2>2 DEF Mid
  <2>4. /\ c.packets = <<>> /\ c.halfopen = TRUE
        /\ c.sent_eof = FALSE /\ c.sent_close = FALSE /\ c.rcvd_close = FALSE /\ c.gone = FALSE
        /\ c.pending_eof = FALSE /\ c.locwindow = 1 /\ c.remwindow = 0
        /\ c.throttling_conn = FALSE /\ c.input_wanted = FALSE /\ c.held = throttled[p]
    BY <2>1, <2>2 DEF Mid
  <2>5. Sound(c) /\ Usable(c) /\ ~Hasty(c)
    BY <2>4 DEF Sound, Usable, Hasty
  <2> QED BY <2>3, <2>4, <2>5
<1>10. Tree(C, n)
  <2>1. 1..opened \subseteq 1..n
    BY <1>1, <1>4
  <2> QED BY <1>2, <2>1 DEF Ends, Tree
<1>11. n \in 1..n
  BY <1>4
<1>12. ch \in [end : Mid, remoteid : Nat, inc : 1..n] /\ ch.end = c /\ ch.inc = n
  BY <1>4, <1>9, <1>11
<1> HIDE DEF ch
<1>13. /\ Tree(B, n) /\ DOMAIN B = DOMAIN C \cup {i} /\ B[i] = ch
       /\ \A j \in DOMAIN C : B[j] = C[j]
  BY <1>6, <1>10, <1>12, WithIs
<1> HIDE DEF B
<1>14. kind.vt \in {"fwd", "x11"} /\ kind.vt \in {k.vt : k \in Kinds}
  <2>1. kind \in {Fwd, X11}
    BY ForwardingAssumption
  <2>2. kind.vt \in {"fwd", "x11"}
    BY <2>1 DEF Fwd, X11
  <2> QED BY <2>2
<1>15. /\ m \in Letter /\ m.inc = n /\ m.kind = "open" /\ m.req = kind.vt /\ m.from = i
  BY <1>4, <1>6, <1>14 DEF Letter, Plain, Answer
<1> HIDE DEF m
<1>16. Introduces(B, C, D, m, n)
  <2>1. m.kind # "open-failure" /\ m.kind # "confirmation" /\ m.kind \notin Answer
    BY <1>15 DEF Answer
  <2> QED BY <1>5, <1>6, <1>9, <1>11, <1>12, <1>13, <1>14, <1>15, <2>1 DEF Introduces
<1>17. DOMAIN chans = Sides /\ DOMAIN wire = Sides /\ fault = "none"
  BY DEF IInv, Shape
<1>18. /\ chans' = [q \in Sides |-> IF q = p THEN B ELSE chans[q]]
       /\ wire' = [q \in Sides |-> IF q = p THEN V ELSE Append(W, m)]
  BY <1>3, <1>17, Sided
<1>19. Steady(B, throttle[p], throttled[p], thawed)
  <2>1. Steady(C, throttle[p], throttled[p], thawed)
    BY DEF IInv
  <2> QED BY <1>6, <1>9, <1>12, <1>13, <2>1, SteadyMore
<1>20. /\ throttled \in [Sides -> BOOLEAN] /\ backlogs \in 0..MaxBacklogs
       /\ thawed \subseteq 1..MaxOpens /\ throttle \in [Sides -> 0..1] /\ written \in 0..MaxData
       /\ n \in 0..MaxOpens
  BY <1>4 DEF IInv, Shape
<1>21. Agree(B, D, V, Append(W, m), n)
  <2> HIDE DEF C, D, V, W
  <2> QED BY <1>1, <1>4, <1>5, <1>15, <1>16, IntroduceAgrees
<1>22. /\ throttle' = throttle /\ opened' = n /\ written' = written /\ fault' = "none"
       /\ throttled' = throttled /\ thawed' = thawed /\ backlogs' = backlogs
  BY <1>3, <1>17
<1> HIDE DEF C, V, W, D
<1>23. Agree(B, chans[Other(p)], V, Append(W, m), n)
  BY <1>21 DEF D
<1> QED BY <1>18, <1>19, <1>20, <1>22, <1>23, StepOf

\* Once an OPEN is read nothing of its channel is known at this side or in transit.
LEMMA OpenHead ==
    ASSUME IInv, NEW p \in Sides, wire[p] # <<>>, NEW m, m = Head(wire[p]), m.kind = "open"
    PROVE  /\ opened \in Nat /\ Agree(chans[p], chans[Other(p)], Tail(wire[p]), wire[Other(p)], opened)
           /\ m \in Letter /\ m.inc \in 1..opened /\ m.req \in {k.vt : k \in Kinds}
           /\ m.from \in DOMAIN chans[Other(p)] /\ chans[Other(p)][m.from].inc = m.inc
           /\ chans[Other(p)][m.from].end.halfopen
           /\ \A j \in DOMAIN chans[p] : chans[p][j].inc # m.inc
           /\ \A x \in DOMAIN Tail(wire[p]) : Tail(wire[p])[x].inc # m.inc
           /\ \A x \in DOMAIN wire[Other(p)] : wire[Other(p)][x].inc # m.inc
<1> DEFINE C == chans[p]
           D == chans[Other(p)]
           V == wire[p]
           T == Tail(V)
           W == wire[Other(p)]
<1>1. opened \in Nat /\ Agree(C, D, V, W, opened)
  BY AccordOf, ForwardingAssumption DEF IInv, Shape
<1>2. Mail(V, opened) /\ Opens(C, D, V, W)
  BY <1>1 DEF Agree, Half
<1>3. m = V[1] /\ m \in Letter /\ m.inc \in 1..opened
  BY Reading
<1>4. /\ DOMAIN V = 1..Len(V) /\ Len(V) \in Nat /\ Len(V) >= 1
      /\ \A z \in DOMAIN T : z + 1 \in DOMAIN V /\ T[z] = V[z + 1]
      /\ DOMAIN T = 1..(Len(V) - 1)
  <2>1. V # <<>> /\ Mail(V, opened)
    BY <1>2
  <2> HIDE DEF V
  <2> QED BY <2>1, TailFacts
<1>5. /\ m.from \in DOMAIN D /\ D[m.from].inc = m.inc /\ D[m.from].end.halfopen
      /\ m.req \in {k.vt : k \in Kinds}
      /\ \A j \in DOMAIN C : C[j].inc # m.inc
      /\ \A x \in DOMAIN V : V[x].inc = m.inc => x = 1
      /\ \A x \in DOMAIN W : W[x].inc # m.inc
  <2>1. 1 \in DOMAIN V
    BY <1>4
  <2> HIDE DEF C, D, V, W
  <2> QED BY <1>2, <1>3, <2>1 DEF Opens
<1>6. ASSUME NEW x \in DOMAIN T
      PROVE  T[x].inc # m.inc
  <2>1. x + 1 \in DOMAIN V /\ T[x] = V[x + 1] /\ x + 1 # 1
    BY <1>4
  <2> QED BY <1>5, <2>1
<1>7. Agree(C, D, T, W, opened)
  BY <1>1, <1>3, LetsPass
<1> QED BY <1>1, <1>3, <1>5, <1>6, <1>7

\* A peer refuses a channel.
LEMMA RefuseStep ==
    ASSUME IInv, NEW p \in Sides, Refuse(p)
    PROVE  IInv'
<1> DEFINE C == chans[p]
           D == chans[Other(p)]
           V == wire[p]
           T == Tail(V)
           W == wire[Other(p)]
           m == Head(V)
           r == [kind |-> "open-failure", req |-> "none", to |-> m.from, from |-> 0, inc |-> m.inc]
<1>1. /\ V # <<>> /\ m.kind = "open"
      /\ wire' = [wire EXCEPT ![p] = Tail(@), ![Other(p)] = Append(@, r)]
      /\ chans' = chans /\ throttle' = throttle /\ opened' = opened /\ written' = written /\ fault' = fault
      /\ throttled' = throttled /\ thawed' = thawed /\ backlogs' = backlogs
  BY DEF Refuse, Arrives, backlog
<1>2. /\ opened \in Nat /\ Agree(C, D, T, W, opened)
      /\ m \in Letter /\ m.inc \in 1..opened
      /\ m.from \in DOMAIN D /\ D[m.from].inc = m.inc /\ D[m.from].end.halfopen
      /\ \A j \in DOMAIN C : C[j].inc # m.inc
      /\ \A x \in DOMAIN T : T[x].inc # m.inc
      /\ \A x \in DOMAIN W : W[x].inc # m.inc
  BY <1>1, OpenHead
<1>3. Tree(C, opened)
  BY <1>2 DEF Agree, Half, Ends, Tree
<1>4. DOMAIN chans = Sides /\ DOMAIN wire = Sides /\ fault = "none" /\ Steady(C, throttle[p], throttled[p], thawed)
  BY DEF IInv, Shape
<1>5. /\ chans' = [q \in Sides |-> IF q = p THEN C ELSE chans[q]]
      /\ wire' = [q \in Sides |-> IF q = p THEN T ELSE Append(W, r)]
  <2>1. chans = [q \in Sides |-> chans[q]]
    BY Zenon DEF IInv, Shape, Forest
  <2> HIDE DEF r
  <2> QED BY <1>1, <1>4, <2>1, Sided
<1> HIDE DEF m, C, D, T, V, W
<1>6. r \in Letter /\ r.kind = "open-failure" /\ r.to = m.from /\ r.inc = m.inc
  BY <1>2 DEF Letter, Answer, Plain
<1> HIDE DEF r
<1>7. Introduces(C, C, D, r, opened)
  BY <1>2, <1>3, <1>6 DEF Introduces, Answer
<1>8. Agree(C, D, T, Append(W, r), opened)
  <2>1. opened <= opened
    BY <1>2
  <2>2. /\ \A j \in DOMAIN C : C[j].inc # r.inc
        /\ \A x \in DOMAIN T : T[x].inc # r.inc
        /\ \A x \in DOMAIN W : W[x].inc # r.inc
    BY <1>2, <1>6
  <2> QED BY <1>2, <1>7, <2>1, <2>2, IntroduceAgrees
<1>9. /\ throttled \in [Sides -> BOOLEAN] /\ backlogs \in 0..MaxBacklogs
      /\ thawed \subseteq 1..MaxOpens /\ throttle \in [Sides -> 0..1] /\ written \in 0..MaxData
      /\ opened \in 0..MaxOpens
  BY DEF IInv, Shape
<1>10. /\ throttle' = throttle /\ opened' = opened /\ written' = written /\ fault' = "none"
       /\ throttled' = throttled /\ thawed' = thawed /\ backlogs' = backlogs
  BY <1>1, <1>4
<1>11. Agree(C, chans[Other(p)], T, Append(W, r), opened)
  BY <1>8 DEF D
<1> QED BY <1>4, <1>5, <1>9, <1>10, <1>11, StepOf

\* A peer accepts a channel.
LEMMA AcceptStep ==
    ASSUME IInv, NEW p \in Sides, Accept(p)
    PROVE  IInv'
<1> DEFINE i == FirstFree(p)
           C == chans[p]
           D == chans[Other(p)]
           V == wire[p]
           T == Tail(V)
           W == wire[Other(p)]
           m == Head(V)
           chan == CHOOSE k \in Kinds : k.vt = m.req
           c == [NewEnd(chan, FALSE) EXCEPT !.held = throttled[p]]
           ch == [end |-> c, remoteid |-> m.from, inc |-> m.inc]
           B == With(p, i, ch)
           r == [kind |-> "confirmation", req |-> "none", to |-> m.from, from |-> i, inc |-> m.inc]
<1>1. /\ V # <<>> /\ m.kind = "open"
      /\ wire' = [wire EXCEPT ![p] = Tail(@), ![Other(p)] = Append(@, r)]
      /\ chans' = [chans EXCEPT ![p] = B]
      /\ throttle' = throttle /\ opened' = opened /\ written' = written /\ fault' = fault
      /\ throttled' = throttled /\ thawed' = thawed /\ backlogs' = backlogs
  BY DEF Accept, Arrives, backlog
<1>2. /\ opened \in Nat /\ Agree(C, D, T, W, opened)
      /\ m \in Letter /\ m.inc \in 1..opened /\ m.req \in {k.vt : k \in Kinds}
      /\ m.from \in DOMAIN D /\ D[m.from].inc = m.inc /\ D[m.from].end.halfopen
      /\ \A j \in DOMAIN C : C[j].inc # m.inc
      /\ \A x \in DOMAIN T : T[x].inc # m.inc
      /\ \A x \in DOMAIN W : W[x].inc # m.inc
  BY <1>1, OpenHead
<1>3. Ends(C, opened) /\ Tree(C, opened)
  BY <1>2 DEF Agree, Half, Ends, Tree
<1>4. /\ DOMAIN chans = Sides /\ DOMAIN wire = Sides /\ fault = "none"
      /\ Steady(C, throttle[p], throttled[p], thawed)
      /\ throttled \in [Sides -> BOOLEAN] /\ backlogs \in 0..MaxBacklogs
      /\ thawed \subseteq 1..MaxOpens /\ throttle \in [Sides -> 0..1] /\ written \in 0..MaxData
      /\ opened \in 0..MaxOpens
  BY DEF IInv, Shape
<1>5. i \in 1..MaxOpens /\ i \notin DOMAIN C /\ i \in Nat
  <2>1. MaxOpens \in Nat
    BY ForwardingAssumption
  <2>2. m.inc \in 1..MaxOpens /\ opened <= MaxOpens
    BY <1>2, <1>4, <2>1
  <2> QED BY <1>2, <1>3, <2>1, <2>2, FreeId
<1>6. /\ chans' = [q \in Sides |-> IF q = p THEN B ELSE chans[q]]
      /\ wire' = [q \in Sides |-> IF q = p THEN T ELSE Append(W, r)]
  <2> HIDE DEF B, r
  <2> QED BY <1>1, <1>4, Sided
<1>7. chan \in {Fwd, X11}
  <2>1. \E k \in Kinds : k.vt = m.req
    BY <1>2
  <2>2. chan \in Kinds
    BY <2>1
  <2> QED BY <2>2, ForwardingAssumption
<1>8. throttled[p] \in BOOLEAN
  BY <1>4
<1> HIDE DEF chan, m, i
<1>9. /\ c \in Mid /\ Sound(c) /\ c.packets = <<>> /\ Usable(c) /\ c.halfopen = FALSE
      /\ ~c.sent_eof /\ ~c.sent_close /\ ~c.gone /\ c.locwindow = 1 /\ c.held = throttled[p]
      /\ ~c.throttling_conn /\ ~Hasty(c)
  <2> DEFINE f == NewEnd(chan, FALSE)
  <2>1. /\ f \in Mid /\ f.packets = <<>> /\ f.halfopen = FALSE
        /\ f.sent_eof = FALSE /\ f.sent_close = FALSE /\ f.rcvd_close = FALSE /\ f.gone = FALSE
        /\ f.pending_eof = FALSE /\ f.locwindow = 1 /\ f.chanreqs = <<>>
        /\ f.throttling_conn = FALSE /\ f.input_wanted = TRUE
    BY <1>7, NewEndIs
  <2> HIDE DEF f
  <2>2. c = [f EXCEPT !.held = throttled[p]]
    BY DEF f
  <2> HIDE DEF c
  <2>3. c \in Mid
    BY <1>8, <2>1, <2>2 DEF Mid
  <2>4. /\ c.packets = <<>> /\ c.halfopen = FALSE
        /\ c.sent_eof = FALSE /\ c.sent_close = FALSE /\ c.rcvd_close = FALSE /\ c.gone = FALSE
        /\ c.pending_eof = FALSE /\ c.locwindow = 1 /\ c.chanreqs = <<>>
        /\ c.throttling_conn = FALSE /\ c.input_wanted = TRUE /\ c.held = throttled[p]
    BY <2>1, <2>2 DEF Mid
  <2>5. Sound(c) /\ Usable(c) /\ ~Hasty(c)
    BY <2>4 DEF Sound, Usable, Hasty
  <2> QED BY <2>3, <2>4, <2>5
<1> HIDE DEF c
<1>10. m.from \in Nat
  BY <1>2 DEF Letter
<1>11. ch \in [end : Mid, remoteid : Nat, inc : 1..opened] /\ ch.end = c /\ ch.inc = m.inc /\ ch.remoteid = m.from
  BY <1>2, <1>9, <1>10
<1> HIDE DEF ch
<1>12. /\ Tree(B, opened) /\ DOMAIN B = DOMAIN C \cup {i} /\ B[i] = ch
       /\ \A j \in DOMAIN C : B[j] = C[j]
  BY <1>3, <1>5, <1>11, WithIs
<1>13. /\ r \in Letter /\ r.kind = "confirmation" /\ r.to = m.from /\ r.inc = m.inc /\ r.from = i
  BY <1>2, <1>5, <1>10 DEF Letter, Answer, Plain
<1> HIDE DEF B, C, D, T, V, W, r
<1>14. Introduces(B, C, D, r, opened)
  BY <1>2, <1>5, <1>9, <1>11, <1>12, <1>13 DEF Introduces, Answer
<1>15. Agree(B, D, T, Append(W, r), opened)
  <2>1. opened <= opened
    BY <1>2
  <2>2. /\ \A j \in DOMAIN C : C[j].inc # r.inc
        /\ \A x \in DOMAIN T : T[x].inc # r.inc
        /\ \A x \in DOMAIN W : W[x].inc # r.inc
    BY <1>2, <1>13
  <2> QED BY <1>2, <1>14, <2>1, <2>2, IntroduceAgrees
<1>16. Steady(B, throttle[p], throttled[p], thawed)
  BY <1>4, <1>5, <1>9, <1>11, <1>12, SteadyMore
<1>17. /\ throttle' = throttle /\ opened' = opened /\ written' = written /\ fault' = "none"
       /\ throttled' = throttled /\ thawed' = thawed /\ backlogs' = backlogs
  BY <1>1, <1>4
<1>18. Agree(B, chans[Other(p)], T, Append(W, r), opened)
  BY <1>15 DEF D
<1> QED BY <1>4, <1>6, <1>16, <1>17, <1>18, StepOf

\* An end is told that its channel is open.
LEMMA ConfirmedIs ==
    ASSUME NEW b \in Mid, Sound(b), Usable(b), b.halfopen, b.packets = <<>>
    PROVE  LET c == [Confirmed(b) EXCEPT !.input_wanted = TRUE] IN
           /\ c \in Mid /\ Sound(c) /\ Usable(c) /\ c.packets = <<>> /\ ~c.halfopen /\ ~c.sent_eof
           /\ ~c.sent_close /\ c.locwindow = b.locwindow /\ c.gone = b.gone /\ c.held = b.held
           /\ c.throttling_conn = b.throttling_conn /\ ~Hasty(c) /\ c.chanreqs = b.chanreqs
           /\ c.fault = "none"
<1> DEFINE c == [Confirmed(b) EXCEPT !.input_wanted = TRUE]
<1>1. /\ b.fault = "none" /\ b.gone = FALSE /\ b.sent_eof = FALSE /\ b.sent_close = FALSE
      /\ b.rcvd_close = FALSE
  BY DEF Mid, Usable, Sound
<1>2. Assert(b, b.halfopen, "confirmed twice") = b
  BY <1>1 DEF Assert
<1>3. c = [b EXCEPT !.halfopen = FALSE, !.remwindow = 1, !.input_wanted = TRUE]
  BY <1>2 DEF Confirmed
<1>4. 1 \in 0..1
  OBVIOUS
<1> HIDE DEF c
<1>5. c \in Mid
  BY <1>3, <1>4 DEF Mid
<1>6. /\ c.packets = <<>> /\ c.halfopen = FALSE /\ c.sent_eof = FALSE /\ c.sent_close = FALSE
      /\ c.locwindow = b.locwindow /\ c.gone = FALSE /\ c.held = b.held /\ c.rcvd_close = FALSE
      /\ c.throttling_conn = b.throttling_conn /\ c.chanreqs = b.chanreqs /\ c.fault = "none"
      /\ c.input_wanted = TRUE /\ c.pending_eof = b.pending_eof /\ c.chan = b.chan
  BY <1>1, <1>3 DEF Mid
<1>7. Sound(c) /\ Usable(c) /\ ~Hasty(c)
  BY <1>6 DEF Sound, Usable, Hasty
<1>8. /\ c \in Mid /\ Sound(c) /\ Usable(c) /\ c.packets = <<>> /\ ~c.halfopen /\ ~c.sent_eof
      /\ ~c.sent_close /\ c.locwindow = b.locwindow /\ c.gone = b.gone /\ c.held = b.held
      /\ c.throttling_conn = b.throttling_conn /\ ~Hasty(c) /\ c.chanreqs = b.chanreqs
      /\ c.fault = "none"
  BY <1>1, <1>5, <1>6, <1>7
<1> QED BY <1>8, Zenon DEF c

\* One end changes, and is steady still.
LEMMA SteadyOne ==
    ASSUME NEW C, NEW count, NEW held, NEW past, Steady(C, count, held, past), NEW B, NEW i \in DOMAIN C,
           DOMAIN B = DOMAIN C, \A j \in DOMAIN C : j # i => B[j] = C[j],
           Usable(B[i].end), B[i].end.held = C[i].end.held,
           B[i].end.throttling_conn = C[i].end.throttling_conn, ~Hasty(B[i].end)
    PROVE  Steady(B, count, held, past)
  BY DEF Steady

\* CHANNEL_OPEN_CONFIRMATION
LEMMA ConfirmationStep ==
    ASSUME IInv, NEW p \in Sides, NEW early \in BOOLEAN, RecvConfirmation(p, early)
    PROVE  IInv'
<1> DEFINE i == Cited(p)
           C == chans[p]
           D == chans[Other(p)]
           V == wire[p]
           T == Tail(V)
           W == wire[Other(p)]
           m == Head(V)
           b == C[i].end
           c == [Confirmed(b) EXCEPT !.input_wanted = TRUE]
           writes == early /\ c.chan = Fwd
           e == AfterConfirmation(IF writes THEN Write(c) ELSE c)
           ch == [end |-> c, remoteid |-> m.from, inc |-> C[i].inc]
           B == [C EXCEPT ![i] = ch]
           F == Fits(B, D, T, W, opened, i)
           X == Posted(W, e, m.from, i, C[i].inc)
<1>1. /\ V # <<>> /\ m.kind = "confirmation" /\ i \in DOMAIN C
      /\ wire' = [wire EXCEPT ![p] = Tail(@),
                              ![Other(p)] = @ \o [n \in DOMAIN e.packets |->
                                  [Addressed(p, i, e)[n] EXCEPT !.to = m.from]]]
      /\ chans' = [chans EXCEPT ![p][i].end = Settled(e), ![p][i].remoteid = m.from]
      /\ fault' = IF fault = "none" THEN e.fault ELSE fault
      /\ throttle' = throttle /\ opened' = opened
      /\ throttled' = throttled /\ thawed' = thawed /\ backlogs' = backlogs
  BY DEF RecvConfirmation, Arrives, Citing, backlog
<1>2. written' \in 0..MaxData
  <2>1. writes => early
    OBVIOUS
  <2>2. early => written < MaxData
    BY DEF RecvConfirmation
  <2>3. written' = IF writes THEN written + 1 ELSE written
    BY DEF RecvConfirmation
  <2>4. written \in 0..MaxData /\ MaxData \in Nat
    BY ForwardingAssumption DEF IInv, Shape
  <2> HIDE DEF writes
  <2> QED BY <2>1, <2>2, <2>3, <2>4
<1>3. m = V[1] /\ m \in Letter /\ i = m.to
  BY <1>1, Reading DEF Cited
<1>4. /\ opened \in Nat /\ Agree(C, D, V, W, opened)
      /\ b \in Mid /\ Sound(b) /\ Usable(b) /\ b.packets = <<>> /\ Tree(C, opened)
      /\ Steady(C, throttle[p], throttled[p], thawed)
  BY <1>1, CallStart
<1>5. b.halfopen
  <2>1. Answers(C, D, V, W) /\ Mail(V, opened)
    BY <1>4 DEF Agree, Half
  <2>2. 1 \in DOMAIN V
    <3>1. V # <<>>
      BY <1>1
    <3> HIDE DEF V, C, D, W
    <3>2. DOMAIN V = 1..Len(V) /\ Len(V) \in Nat /\ Len(V) >= 1
      BY <2>1, <3>1, TailFacts
    <3> QED BY <3>2
  <2> HIDE DEF V
  <2> QED BY <1>1, <1>3, <2>1, <2>2 DEF Answers, Answer
<1>6. /\ c \in Mid /\ Sound(c) /\ Usable(c) /\ c.packets = <<>> /\ ~c.halfopen /\ ~c.sent_eof
      /\ ~c.sent_close /\ c.locwindow = b.locwindow /\ c.gone = b.gone /\ c.held = b.held
      /\ c.throttling_conn = b.throttling_conn /\ ~Hasty(c) /\ c.chanreqs = b.chanreqs
  BY <1>4, <1>5, ConfirmedIs
<1> HIDE DEF c
<1>7. m.from \in Nat /\ C[i].inc \in 1..opened
  <2> HIDE DEF m
  <2> QED BY <1>1, <1>3, <1>4 DEF Letter, Tree
<1> HIDE DEF m
<1>8. /\ ch \in [end : Mid, remoteid : Nat, inc : 1..opened]
      /\ ch.end = c /\ ch.remoteid = m.from /\ ch.inc = C[i].inc
  BY <1>6, <1>7
<1> HIDE DEF ch
<1>9. /\ DOMAIN B = DOMAIN C /\ B[i] = ch /\ \A j \in DOMAIN C : j # i => B[j] = C[j]
      /\ Tree(B, opened)
  <2>1. C \in [DOMAIN C -> [end : Mid, remoteid : Nat, inc : 1..opened]]
    BY <1>4 DEF Tree
  <2> HIDE DEF C
  <2>2. DOMAIN B = DOMAIN C /\ B[i] = ch /\ \A j \in DOMAIN C : j # i => B[j] = C[j]
    BY <1>1, <2>1
  <2>3. B \in [DOMAIN C -> [end : Mid, remoteid : Nat, inc : 1..opened]]
    BY <1>1, <1>8, <2>1
  <2> HIDE DEF B
  <2> QED BY <1>4, <2>2, <2>3 DEF Tree
<1>10. Agree(B, D, T, W, opened)
  <2>1. /\ B[i].inc = C[i].inc /\ B[i].remoteid = V[1].from /\ B[i].end = c
    BY <1>3, <1>8, <1>9
  <2>2. c.locwindow >= b.locwindow /\ (~c.gone => ~b.gone /\ Len(c.chanreqs) >= Len(b.chanreqs))
    <3>1. b.locwindow \in 0..1 /\ Len(b.chanreqs) \in Nat
      <4>1. b.chanreqs \in Seq({"winadj"})
        BY <1>4 DEF Mid
      <4> QED BY <1>4, <4>1 DEF Mid
    <3> HIDE DEF b
    <3> QED BY <1>6, <3>1
  <2>3. V[1].kind = "confirmation" /\ i = V[1].to
    BY <1>1, <1>3
  <2> DEFINE g == B[i].end
  <2>4. /\ g.packets = <<>> /\ Sound(g) /\ ~g.halfopen /\ ~g.sent_eof /\ ~g.sent_close
        /\ g.locwindow >= C[i].end.locwindow
        /\ ~g.gone => ~C[i].end.gone /\ Len(g.chanreqs) >= Len(C[i].end.chanreqs)
    BY <1>6, <2>1, <2>2
  <2>5. V # <<>> /\ opened \in Nat /\ Agree(C, D, V, W, opened)
    BY <1>1, <1>4
  <2>6. /\ B[i].end.packets = <<>> /\ Sound(B[i].end) /\ ~B[i].end.halfopen /\ ~B[i].end.sent_eof
        /\ ~B[i].end.sent_close /\ B[i].end.locwindow >= C[i].end.locwindow
    BY <2>4
  <2>7. ~B[i].end.gone => ~C[i].end.gone /\ Len(B[i].end.chanreqs) >= Len(C[i].end.chanreqs)
    BY <2>4
  <2> HIDE DEF B, C, D, V, W, i, g, b
  <2> QED BY <1>9, <2>1, <2>3, <2>5, <2>6, <2>7, ConfirmAgrees
<1>11. /\ c \in F /\ Fitting(F)
  <2>1. B[i].end = c /\ i \in DOMAIN B
    BY <1>1, <1>8, <1>9
  <2> HIDE DEF B, D, T, W, i
  <2> QED BY <1>4, <1>10, <2>1, StartFits
<1>12. e \in F /\ Keeps(c, e)
  <2> HIDE DEF F
  <2> DEFINE d == IF writes THEN Write(c) ELSE c
  <2>1. Write(c) \in F /\ Keeps(c, Write(c)) /\ Keeps(c, c)
    BY <1>6, <1>11, WriteFits DEF Keeps
  <2>2. d \in F /\ Keeps(c, d)
    BY <1>11, <2>1
  <2> HIDE DEF d
  <2>3. Usable(d)
    BY <1>6, <2>2 DEF Usable, Keeps
  <2>4. AfterConfirmation(d) \in F /\ Keeps(d, AfterConfirmation(d))
    BY <1>11, <2>2, <2>3, AfterConfirmationFits
  <2>5. Keeps(c, AfterConfirmation(d))
    BY <2>2, <2>4, KeepsTransitive
  <2> QED BY <2>4, <2>5 DEF d
<1> HIDE DEF e
<1>13. e \in Mid /\ Agree(Left(B, i, e), D, T, X, opened)
  <2>1. B[i].remoteid = m.from /\ B[i].inc = C[i].inc
    BY <1>8, <1>9
  <2> HIDE DEF B, C, D, T, W, i
  <2> QED BY <1>12, <2>1 DEF F, Fits
<1>14. Steady(Left(B, i, e), throttle[p], throttled[p], thawed)
  <2>1. B[i].end = c /\ i \in DOMAIN B
    BY <1>1, <1>8, <1>9
  <2>2. Steady(B, throttle[p], throttled[p], thawed)
    <3> HIDE DEF B, C, c, i
    <3> QED BY <1>1, <1>4, <1>6, <1>9, <2>1, SteadyOne DEF b
  <2>3. Left(B, i, c) = B
    <3> HIDE DEF B, i
    <3> QED BY <1>6, <1>9, <2>1, LeftIs, SettledIs
  <2> HIDE DEF B, i
  <2> QED BY <1>6, <1>9, <1>12, <1>13, <2>1, <2>2, <2>3, SteadyCall
<1>15. DOMAIN chans = Sides /\ DOMAIN wire = Sides /\ fault = "none"
  BY DEF IInv, Shape
<1>16. chans' = [q \in Sides |-> IF q = p THEN Left(B, i, e) ELSE chans[q]]
  <2>1. C \in [DOMAIN C -> [end : Mid, remoteid : Nat, inc : 1..opened]]
    BY <1>4 DEF Tree
  <2>2. chans' = [chans EXCEPT ![p] = [C EXCEPT ![i].end = Settled(e), ![i].remoteid = m.from]]
    BY <1>1, <1>15
  <2>3. [C EXCEPT ![i].end = Settled(e), ![i].remoteid = m.from] = Left(B, i, e)
    <3>1. [C EXCEPT ![i].end = Settled(e), ![i].remoteid = m.from] =
             [C EXCEPT ![i] = [end |-> Settled(e), remoteid |-> m.from, inc |-> C[i].inc]]
      <4>1. C[i] \in [end : Mid, remoteid : Nat, inc : 1..opened]
        BY <1>1, <2>1
      <4> DEFINE r == C[i]
      <4>2. [r EXCEPT !.end = Settled(e), !.remoteid = m.from] =
               [end |-> Settled(e), remoteid |-> m.from, inc |-> r.inc]
        <5>1. r \in [end : Mid, remoteid : Nat, inc : 1..opened]
          BY <4>1
        <5> HIDE DEF r
        <5>2. [r EXCEPT !.end = Settled(e)] = [end |-> Settled(e), remoteid |-> r.remoteid, inc |-> r.inc]
          BY <5>1
        <5> DEFINE q == [r EXCEPT !.end = Settled(e)]
                   v == Settled(e)
        <5>3. v \in Mid /\ r.remoteid \in Nat /\ r.inc \in 1..opened
          BY <1>13, <5>1, SettledIs
        <5> HIDE DEF v
        <5>4. q \in [end : Mid, remoteid : Nat, inc : 1..opened] /\ q.end = v /\ q.inc = r.inc
          BY <5>2, <5>3 DEF v
        <5> HIDE DEF q
        <5>5. [q EXCEPT !.remoteid = m.from] = [end |-> q.end, remoteid |-> m.from, inc |-> q.inc]
          BY <5>4
        <5> QED BY <5>4, <5>5 DEF q, v
      <4> HIDE DEF C, i, r
      <4>3. [C EXCEPT ![i].end = Settled(e), ![i].remoteid = m.from] =
               [C EXCEPT ![i] = [r EXCEPT !.end = Settled(e), !.remoteid = m.from]]
        BY <1>1, <2>1 DEF r
      <4> QED BY <4>2, <4>3 DEF r
    <3>2. Left(B, i, e) = [B EXCEPT ![i] = [end |-> Settled(e), remoteid |-> m.from, inc |-> C[i].inc]]
      <4>1. [B EXCEPT ![i].end = Settled(e)] =
               [B EXCEPT ![i] = [end |-> Settled(e), remoteid |-> m.from, inc |-> C[i].inc]]
        <5>1. B[i].remoteid = m.from /\ B[i].inc = C[i].inc /\ i \in DOMAIN B
          BY <1>1, <1>8, <1>9
        <5>2. B \in [DOMAIN B -> [end : Mid, remoteid : Nat, inc : 1..opened]]
          BY <1>9 DEF Tree
        <5> DEFINE r == B[i]
        <5>3. r \in [end : Mid, remoteid : Nat, inc : 1..opened]
          BY <5>1, <5>2
        <5> HIDE DEF B, r
        <5>4. [r EXCEPT !.end = Settled(e)] = [end |-> Settled(e), remoteid |-> r.remoteid, inc |-> r.inc]
          BY <5>3
        <5>5. [B EXCEPT ![i].end = Settled(e)] = [B EXCEPT ![i] = [r EXCEPT !.end = Settled(e)]]
          BY <5>1, <5>2 DEF r
        <5> HIDE DEF C, i
        <5> QED BY <5>1, <5>4, <5>5 DEF r
      <4> QED BY <4>1 DEF Left
    <3>3. [B EXCEPT ![i] = [end |-> Settled(e), remoteid |-> m.from, inc |-> C[i].inc]]
             = [C EXCEPT ![i] = [end |-> Settled(e), remoteid |-> m.from, inc |-> C[i].inc]]
      <4> HIDE DEF C, i
      <4> QED BY <1>1, <2>1
    <3> QED BY <3>1, <3>2, <3>3
  <2> HIDE DEF B, C, i
  <2> QED BY <1>15, <2>2, <2>3
<1>17. wire' = [q \in Sides |-> IF q = p THEN T ELSE X]
  <2>1. [n \in DOMAIN e.packets |-> [Addressed(p, i, e)[n] EXCEPT !.to = m.from]]
           = [n \in DOMAIN e.packets |-> Parcel(e.packets[n], m.from, i, C[i].inc)]
    <3> HIDE DEF i, m, e
    <3>1. ASSUME NEW n \in DOMAIN e.packets
          PROVE  [Addressed(p, i, e)[n] EXCEPT !.to = m.from] = Parcel(e.packets[n], m.from, i, C[i].inc)
      BY DEF Addressed, Parcel
    <3> QED BY <3>1, Zenon
  <2>2. wire' = [wire EXCEPT ![p] = T, ![Other(p)] = X]
    BY <1>1, <2>1, <1>15, Sided DEF Posted
  <2> HIDE DEF X
  <2> QED BY <1>15, <2>2, Sided
<1>18. fault' = "none"
  BY <1>1, <1>13, <1>15 DEF Mid
<1>19. /\ throttled \in [Sides -> BOOLEAN] /\ opened \in 0..MaxOpens /\ backlogs \in 0..MaxBacklogs
       /\ thawed \subseteq 1..MaxOpens /\ throttle \in [Sides -> 0..1]
  BY DEF IInv, Shape
<1> HIDE DEF B, C, V, W, T, X, i
<1>20. Agree(Left(B, i, e), chans[Other(p)], T, X, opened)
  BY <1>13
<1> HIDE DEF D
<1>21. /\ throttle' = throttle /\ opened' = opened
       /\ throttled' = throttled /\ thawed' = thawed /\ backlogs' = backlogs
  BY <1>1
<1> QED BY <1>2, <1>14, <1>16, <1>17, <1>18, <1>19, <1>20, <1>21, StepOf

--------------------------------------------------------------------------------
(* Backlogs. *)

\* ssh_throttle_all, of one end
LEMMA ThrottledIs ==
    ASSUME NEW c \in Mid, Sound(c), Usable(c), c.packets = <<>>, NEW on \in BOOLEAN
    PROVE  LET d == CheckThrottle([c EXCEPT !.held = on]) IN
           /\ d \in Mid /\ Sound(d) /\ Usable(d) /\ d.packets = <<>> /\ Eases(c, d) /\ d.held = on
           /\ d.throttling_conn = c.throttling_conn /\ (Hasty(d) => ~on /\ c.halfopen)
<1> DEFINE b == [c EXCEPT !.held = on]
           wanted == ~b.held /\ ~b.pending_eof /\ ~b.sent_eof
           d == [b EXCEPT !.input_wanted = wanted]
<1>1. b \in Mid
  BY DEF Mid
<1>2. /\ b.packets = <<>> /\ b.halfopen = c.halfopen /\ b.sent_eof = c.sent_eof /\ b.sent_close = c.sent_close
      /\ b.pending_eof = c.pending_eof /\ b.chan = c.chan /\ b.remwindow = c.remwindow
      /\ b.locwindow = c.locwindow /\ b.chanreqs = c.chanreqs /\ b.gone = c.gone
      /\ b.rcvd_close = c.rcvd_close /\ b.held = on /\ b.throttling_conn = c.throttling_conn
      /\ b.fault = "none"
  BY DEF Mid
<1> HIDE DEF b
<1>3. Assert(b, TRUE, "none") = b
  BY <1>2 DEF Assert, Usable
<1>4. CheckThrottle(b) = d
  BY <1>3 DEF CheckThrottle
<1>5. wanted \in BOOLEAN /\ (wanted <=> ~on /\ ~c.pending_eof /\ ~c.sent_eof)
  BY <1>2
<1> HIDE DEF wanted
<1>6. d \in Mid
  BY <1>1, <1>5 DEF Mid
<1>7. /\ d.packets = <<>> /\ d.halfopen = c.halfopen /\ d.sent_eof = c.sent_eof /\ d.sent_close = c.sent_close
      /\ d.pending_eof = c.pending_eof /\ d.chan = c.chan /\ d.remwindow = c.remwindow
      /\ d.locwindow = c.locwindow /\ d.chanreqs = c.chanreqs /\ d.gone = c.gone
      /\ d.rcvd_close = c.rcvd_close /\ d.held = on /\ d.throttling_conn = c.throttling_conn
      /\ d.input_wanted = wanted
  BY <1>1, <1>2 DEF Mid
<1> HIDE DEF d
<1>8. Sound(d) /\ Usable(d) /\ (Hasty(d) => ~on /\ c.halfopen)
  BY <1>5, <1>7 DEF Sound, Usable, Hasty
<1>9. Eases(c, d)
  <2>1. c.remwindow \in 0..1 /\ c.locwindow \in 0..1 /\ c.chanreqs \in Seq({"winadj"})
    BY DEF Mid
  <2>2. Len(c.chanreqs) \in Nat
    BY <2>1
  <2> QED BY <1>7, <2>1, <2>2 DEF Eases
<1>10. /\ d \in Mid /\ Sound(d) /\ Usable(d) /\ d.packets = <<>> /\ Eases(c, d) /\ d.held = on
       /\ d.throttling_conn = c.throttling_conn /\ (Hasty(d) => ~on /\ c.halfopen)
  BY <1>6, <1>7, <1>8, <1>9
<1> QED BY <1>4, <1>10 DEF b

\* A backlog of what p sends comes or goes; a cleared one is remembered by the half-open channels.
LEMMA BacklogStep ==
    ASSUME IInv, NEW p \in Sides, NEW on \in BOOLEAN, ThrottleAll(p, on),
           wire' = wire, throttle' = throttle, opened' = opened, written' = written, fault' = fault,
           backlogs' \in 0..MaxBacklogs, thawed \subseteq thawed', thawed' \subseteq 1..MaxOpens,
           ~on => \A i \in DOMAIN chans[p] : chans[p][i].end.halfopen => chans[p][i].inc \in thawed'
    PROVE  IInv'
<1> DEFINE C == chans[p]
           D == chans[Other(p)]
           V == wire[p]
           W == wire[Other(p)]
           d(i) == CheckThrottle([C[i].end EXCEPT !.held = on])
           B == [i \in DOMAIN C |-> [C[i] EXCEPT !.end = d(i)]]
           Chan == [end : Mid, remoteid : Nat, inc : 1..opened]
<1>1. /\ throttled' = [throttled EXCEPT ![p] = on]
      /\ chans' = [chans EXCEPT ![p] = B]
  <2>1. throttled' = [throttled EXCEPT ![p] = on]
    BY Zenon DEF ThrottleAll
  <2>2. chans' = [chans EXCEPT ![p] = B]
    BY Zenon DEF ThrottleAll
  <2> QED BY <2>1, <2>2
<1>2. /\ DOMAIN chans = Sides /\ fault = "none" /\ Steady(C, throttle[p], throttled[p], thawed)
      /\ throttled \in [Sides -> BOOLEAN] /\ throttle \in [Sides -> 0..1] /\ written \in 0..MaxData
      /\ wire \in [Sides -> Seq(Letter)] /\ opened \in 0..MaxOpens
  BY DEF IInv, Shape
<1>3. opened \in Nat /\ Agree(C, D, V, W, opened)
  BY AccordOf, ForwardingAssumption DEF IInv, Shape
<1>4. Ends(C, opened)
  BY <1>3 DEF Agree, Half
<1>5. DOMAIN C \subseteq 1..MaxOpens /\ \A i \in DOMAIN C : C[i] \in Chan
  BY <1>4 DEF Ends
<1>6. ASSUME NEW i \in DOMAIN C
      PROVE  /\ d(i) \in Mid /\ Sound(d(i)) /\ Usable(d(i)) /\ d(i).packets = <<>> /\ Eases(C[i].end, d(i))
             /\ d(i).held = on /\ d(i).throttling_conn = C[i].end.throttling_conn
             /\ Hasty(d(i)) => ~on /\ C[i].end.halfopen
  <2>1. C[i].end \in Mid /\ Sound(C[i].end) /\ Usable(C[i].end) /\ C[i].end.packets = <<>>
    BY <1>2, <1>4 DEF Ends, Steady
  <2> HIDE DEF C
  <2> QED BY <2>1, ThrottledIs
<1> HIDE DEF d
<1>7. ASSUME NEW i \in DOMAIN C
      PROVE  B[i] \in Chan /\ B[i].end = d(i) /\ B[i].inc = C[i].inc /\ B[i].remoteid = C[i].remoteid
  <2>1. C[i] \in Chan /\ d(i) \in Mid
    BY <1>5, <1>6
  <2>2. B[i] = [C[i] EXCEPT !.end = d(i)]
    OBVIOUS
  <2> HIDE DEF B, C
  <2> QED BY <2>1, <2>2
<1>8. DOMAIN B = DOMAIN C /\ B \in [DOMAIN C -> Chan]
  <2>1. DOMAIN B = DOMAIN C /\ B = [i \in DOMAIN B |-> B[i]]
    OBVIOUS
  <2> HIDE DEF B, C, Chan
  <2> QED BY <1>7, <2>1
<1>9. Tree(B, opened)
  BY <1>5, <1>8 DEF Tree
<1> HIDE DEF B, Chan
<1>10. Agree(B, D, V, W, opened)
  <2>1. \A i \in DOMAIN C : /\ B[i].inc = C[i].inc /\ B[i].remoteid = C[i].remoteid
                            /\ B[i].end.packets = <<>> /\ Sound(B[i].end)
                            /\ Eases(C[i].end, B[i].end)
    BY <1>6, <1>7
  <2> HIDE DEF C, D, V, W
  <2> QED BY <1>3, <1>8, <1>9, <2>1, ChangeAgrees
<1>11. Steady(B, throttle'[p], throttled'[p], thawed')
  <2>1. throttle'[p] = throttle[p] /\ throttled'[p] = on
    BY <1>1, <1>2
  <2>2. ASSUME NEW i \in DOMAIN C
        PROVE  /\ Usable(B[i].end) /\ B[i].end.held = on
               /\ B[i].end.throttling_conn => throttle[p] = 1
               /\ Hasty(B[i].end) => B[i].inc \in thawed'
               /\ \A j \in DOMAIN C : B[i].end.throttling_conn /\ B[j].end.throttling_conn => i = j
    BY <1>2, <1>6, <1>7 DEF Steady
  <2> QED BY <1>8, <2>1, <2>2 DEF Steady
<1>12. /\ throttled' \in [Sides -> BOOLEAN] /\ throttled'[Other(p)] = throttled[Other(p)]
       /\ throttle' \in [Sides -> 0..1] /\ throttle'[Other(p)] = throttle[Other(p)]
       /\ fault' = "none" /\ opened' \in 0..MaxOpens /\ written' \in 0..MaxData
  BY <1>1, <1>2, Sided
<1>13. chans' = [q \in Sides |-> IF q = p THEN B ELSE chans[q]]
  BY <1>1, <1>2
<1>14. wire' = [q \in Sides |-> IF q = p THEN V ELSE W]
  <2>1. wire = [q \in Sides |-> wire[q]]
    BY <1>2
  <2> QED BY <2>1, Sided
<1>15. Agree(B, chans[Other(p)], V, W, opened')
  BY <1>10
<1> HIDE DEF C, D, V, W
<1> QED BY <1>11, <1>12, <1>13, <1>14, <1>15, StepOf

\* ssh_bpp_output_raw_data_callback and ssh_sent
LEMMA BacklogSteps ==
    ASSUME IInv, NEW p \in Sides, BacklogGrows(p) \/ BacklogClears(p)
    PROVE  IInv'
<1>1. /\ backlogs \in 0..MaxBacklogs /\ MaxBacklogs \in Nat /\ thawed \subseteq 1..MaxOpens
      /\ opened \in 0..MaxOpens /\ MaxOpens \in Nat
  BY ForwardingAssumption DEF IInv, Shape
<1>2. CASE BacklogGrows(p)
  <2>1. /\ ThrottleAll(p, TRUE) /\ backlogs < MaxBacklogs /\ backlogs' = backlogs + 1 /\ thawed' = thawed
        /\ wire' = wire /\ throttle' = throttle /\ opened' = opened /\ written' = written /\ fault' = fault
    BY <1>2 DEF BacklogGrows
  <2>2. backlogs' \in 0..MaxBacklogs
    BY <1>1, <2>1
  <2> QED BY <1>1, <2>1, <2>2, BacklogStep
<1>3. CASE BacklogClears(p)
  <2> DEFINE late == {chans[p][i].inc : i \in {j \in DOMAIN chans[p] : chans[p][j].end.halfopen}}
  <2>1. /\ ThrottleAll(p, FALSE) /\ backlogs' = backlogs /\ thawed' = thawed \cup late
        /\ wire' = wire /\ throttle' = throttle /\ opened' = opened /\ written' = written /\ fault' = fault
    BY <1>3 DEF BacklogClears
  <2>2. late \subseteq 1..MaxOpens
    <3>1. Agree(chans[p], chans[Other(p)], wire[p], wire[Other(p)], opened)
      BY AccordOf DEF IInv
    <3>2. \A i \in DOMAIN chans[p] : chans[p][i].inc \in 1..opened
      BY <3>1 DEF Agree, Half, Ends
    <3> QED BY <1>1, <3>2
  <2>3. \A i \in DOMAIN chans[p] : chans[p][i].end.halfopen => chans[p][i].inc \in late
    OBVIOUS
  <2> HIDE DEF late
  <2> QED BY <1>1, <2>1, <2>2, <2>3, BacklogStep
<1> QED BY <1>2, <1>3

--------------------------------------------------------------------------------
(* The theorems. *)

\* No channel is open, and nothing is in transit.
LEMMA InitIInv == Init => IInv
<1> SUFFICES ASSUME Init
             PROVE  IInv
  OBVIOUS
<1>1. MaxOpens \in Nat /\ MaxData \in Nat /\ MaxBacklogs \in Nat
  BY ForwardingAssumption
<1>2. /\ DOMAIN chans = Sides /\ \A p \in Sides : chans[p] = <<>> /\ wire[p] = <<>>
      /\ opened = 0 /\ written = 0 /\ backlogs = 0 /\ thawed = {} /\ fault = "none"
      /\ throttle \in [Sides -> 0..1] /\ throttled \in [Sides -> BOOLEAN]
      /\ wire \in [Sides -> Seq(Letter)]
  BY DEF Init
<1>3. Forest
  BY Zenon DEF Init, Forest
<1>4. Shape
  BY <1>1, <1>2, <1>3 DEF Shape
<1>5. DOMAIN <<>> = {} /\ <<>> \in [{} -> [end : Mid, remoteid : Nat, inc : 1..0]] /\ <<>> \in Seq(Letter)
  OBVIOUS
<1>7. Half(<<>>, <<>>, <<>>, <<>>, 0)
  BY <1>5 DEF Half, Ends, Mail, Opens, Answers, Plains, Order, Marks, Peers, Recorded, Credit
<1>8. Accord
  BY <1>2, <1>7 DEF Accord, Agree, Sides
<1>9. \A p \in Sides : Steady(chans[p], throttle[p], throttled[p], thawed)
  BY <1>2, <1>5 DEF Steady
<1> QED BY <1>2, <1>4, <1>8, <1>9 DEF IInv

\* Each of the packets that have one outcome
LEMMA OtherStep ==
    ASSUME IInv, NEW p \in Sides, RecvOther(p)
    PROVE  IInv'
<1> DEFINE c == chans[p][Cited(p)].end
<1>1. /\ wire[p] # <<>> /\ Citing(p)
      /\ \/ Handled(p, "adjust", RecvAdjust(c))
         \/ Handled(p, "request", RecvRequest(c, Head(wire[p]).req, TRUE, FALSE))
         \/ Handled(p, "failure", Answered(c))
         \/ Handled(p, "eof", RecvEof(c, FALSE))
         \/ Handled(p, "close", FinishClose(ImpliedEof(c, FALSE)))
  BY DEF RecvOther
<1> QED BY <1>1, AdjustStep, RequestStep, FailureStep, EofStep, CloseStep

\* Every action keeps the invariant.
LEMMA NextIInv == IInv /\ [Next]_vars => IInv'
<1> SUFFICES ASSUME IInv, [Next]_vars
             PROVE  IInv'
  OBVIOUS
<1>1. CASE UNCHANGED vars
  BY <1>1 DEF vars, backlog, IInv, Shape, Forest, Accord
<1>2. ASSUME NEW p \in Sides, NEW kind \in Kinds, Open(p, kind)
      PROVE  IInv'
  BY <1>2, OpenStep
<1>3. ASSUME NEW p \in Sides, NEW i \in DOMAIN chans[p], SocketData(p, i) \/ SocketEof(p, i) \/ SocketError(p, i)
      PROVE  IInv'
  BY <1>3, SocketStep
<1>4. ASSUME NEW p \in Sides, Drained(p)
      PROVE  IInv'
  BY <1>4, DrainStep DEF Drained
<1>5. ASSUME NEW p \in Sides, BacklogGrows(p) \/ BacklogClears(p)
      PROVE  IInv'
  BY <1>5, BacklogSteps
<1>6. ASSUME NEW p \in Sides, ReceiveOpening(p)
      PROVE  IInv'
  BY <1>6, AcceptStep, RefuseStep, OpenFailureStep DEF ReceiveOpening
<1>7. ASSUME NEW p \in Sides, ReceiveCiting(p)
      PROVE  IInv'
  BY <1>7, OtherStep, ConfirmationStep, DataStep DEF ReceiveCiting
<1> QED BY <1>1, <1>2, <1>3, <1>4, <1>5, <1>6, <1>7 DEF Next

\* The two peers agree in every state, and each is steady.
THEOREM InvariantHolds == Spec => []IInv
  BY InitIInv, NextIInv, PTL DEF Spec

\* What the invariant says of one peer.
LEMMA At ==
    ASSUME IInv, NEW p \in Sides
    PROVE  /\ Half(chans[p], chans[Other(p)], wire[p], wire[Other(p)], opened)
           /\ Steady(chans[p], throttle[p], throttled[p], thawed)
           /\ MaxOpens \in Nat /\ opened \in 0..MaxOpens
  BY AccordOf, ForwardingAssumption DEF IInv, Shape, Agree

\* An end between calls is an End.
LEMMA EndOf ==
    ASSUME NEW c \in Mid, c.packets = <<>>, ~c.gone
    PROVE  c \in End
<1>1. c.chanreqs \in Seq(Requests)
  BY DEF Mid, Requests
<1>2. c.chan \in Channels
  BY DEF Mid, Channels
<1> QED BY <1>1, <1>2 DEF Mid, End

\* Every channel end and packet has its type: no call leaves a freed channel in the tree or
\* packets unsent, ids stay within their bound, and the window and throttle counts in range.
THEOREM TypeCorrect == Spec => []TypeOK
<1>1. IInv => TypeOK
  <2> SUFFICES ASSUME IInv
               PROVE  TypeOK
    OBVIOUS
  <2>1. ASSUME NEW p \in Sides
        PROVE  DOMAIN chans[p] \subseteq 1..MaxOpens /\ chans[p] \in [DOMAIN chans[p] -> Channel]
    <3>1. /\ DOMAIN chans[p] \subseteq 1..MaxOpens
          /\ chans[p] \in [DOMAIN chans[p] -> [end : Mid, remoteid : Nat, inc : 1..opened]]
          /\ \A i \in DOMAIN chans[p] : chans[p][i].end.packets = <<>> /\ ~chans[p][i].end.gone
      BY At DEF Half, Ends, Steady, Usable
    <3>2. ASSUME NEW i \in DOMAIN chans[p]
          PROVE  chans[p][i] \in Channel
      <4>1. chans[p][i] \in [end : Mid, remoteid : Nat, inc : 1..opened]
        BY <3>1
      <4>2. chans[p][i].end \in End
        BY <3>1, <4>1, EndOf
      <4>3. chans[p][i].inc \in Nat
        BY <4>1, At
      <4> QED BY <4>1, <4>2, <4>3 DEF Channel
    <3> QED BY <3>1, <3>2
  <2>2. wire \in [Sides -> Seq(Message)]
    <3>1. Letter \subseteq Message
      BY DEF Letter, Message, Plain, Answer
    <3> QED BY <3>1 DEF IInv, Shape
  <2>3. throttle \in [Sides -> Nat]
    BY DEF IInv, Shape
  <2> QED BY <2>1, <2>2, <2>3 DEF TypeOK, IInv, Shape
<1> QED BY <1>1, InvariantHolds, PTL

\* No packet ends the connection: the channel a packet cites is there, half-open exactly if the
\* packet answers an OPEN and never a later user of its id, and a reply finds its request at the
\* head of the list, so that none of filter_queue's ssh_proto_error exits is taken.
THEOREM EveryPacketAccepted == Spec => []PacketsAccepted
<1>1. IInv => PacketsAccepted
  <2> SUFFICES ASSUME IInv, NEW p \in Sides, wire[p] # <<>>, Head(wire[p]).kind # "open",
                      NEW m, m = Head(wire[p])
               PROVE  /\ m.to \in DOMAIN chans[p]
                      /\ chans[p][m.to].inc = m.inc
                      /\ chans[p][m.to].end.halfopen <=> m.kind \in {"confirmation", "open-failure"}
                      /\ m.kind = "failure" => /\ chans[p][m.to].end.chanreqs # <<>>
                                             /\ Head(chans[p][m.to].end.chanreqs) = m.req
    BY DEF PacketsAccepted
  <2>1. m = wire[p][1] /\ m \in Letter /\ (m.kind = "failure" => m.req = "winadj")
    BY Reading
  <2>2. CASE m.kind \in Plain
    <3>1. m.to = Cited(p) /\ m.to \in DOMAIN chans[p] /\ chans[p][m.to].inc = m.inc /\ ~chans[p][m.to].end.halfopen
      BY <2>1, <2>2, Reading
    <3>2. chans[p][m.to].end \in Mid
      BY <3>1, At, EndTypes DEF Half
    <3>3. m.kind = "failure" => Len(chans[p][m.to].end.chanreqs) >= 1
      BY <2>1, <2>2, <3>1, Due
    <3>4. chans[p][m.to].end.chanreqs \in Seq({"winadj"})
      BY <3>2 DEF Mid
    <3>5. m.kind \notin {"confirmation", "open-failure"}
      BY <2>2 DEF Plain
    <3> QED BY <2>1, <3>1, <3>3, <3>4, <3>5
  <2>3. CASE m.kind \in Answer
    <3>1. wire[p] \in Seq(Letter) /\ Answers(chans[p], chans[Other(p)], wire[p], wire[Other(p)])
      BY At DEF Half, Mail
    <3>2. 1 \in DOMAIN wire[p]
      BY <3>1
    <3> QED BY <2>1, <2>3, <3>1, <3>2 DEF Answers, Answer
  <2> QED BY <2>1, <2>2, <2>3 DEF Letter
<1> QED BY <1>1, InvariantHolds, PTL

\* No assertion of connection2.c fails, and no function goes on with a channel that a function
\* it called has destroyed.
THEOREM NoAssertionFails == Spec => []NoFault
<1>1. IInv => NoFault
  BY DEF IInv, NoFault
<1> QED BY <1>1, InvariantHolds, PTL

\* On the wire CLOSE is the last packet of a channel end, and no data follows EOF.
THEOREM CloseComesLast == Spec => []WireOrder
<1>1. IInv => WireOrder
  <2> SUFFICES ASSUME IInv, NEW p \in Sides
               PROVE  \A m, n \in DOMAIN wire[p] :
                          m < n /\ wire[p][m].inc = wire[p][n].inc /\ wire[p][m].kind # "open" =>
                              /\ wire[p][m].kind # "close"
                              /\ wire[p][m].kind = "eof" => wire[p][n].kind \notin {"data", "eof"}
    BY DEF WireOrder
  <2>1. Order(wire[p])
    BY At DEF Half
  <2> QED BY <2>1 DEF Order
<1> QED BY <1>1, InvariantHolds, PTL

\* Neither peer forgets a channel that the other may still use.
THEOREM NoChannelForgotten == Spec => []PeerStillThere
<1>1. IInv => PeerStillThere
  <2> SUFFICES ASSUME IInv, NEW p \in Sides, NEW i \in DOMAIN chans[p],
                      ~chans[p][i].end.sent_close, ~chans[p][i].end.halfopen
               PROVE  \E j \in DOMAIN chans[Other(p)] : chans[Other(p)][j].inc = chans[p][i].inc
    BY DEF PeerStillThere
  <2> QED BY At DEF Half, Peers
<1> QED BY <1>1, InvariantHolds, PTL

\* What a backlog freezes is thawed when it clears, and no socket is read before its channel is
\* open unless a backlog cleared meanwhile.
THEOREM SocketsThawed == Spec => []SocketsReadInTime
<1>1. IInv => SocketsReadInTime
  <2> SUFFICES ASSUME IInv, NEW p \in Sides, NEW i \in DOMAIN chans[p], NEW c, c = chans[p][i].end,
                      c.chan # Zombie, ~c.pending_eof
               PROVE  IF c.halfopen THEN c.input_wanted => chans[p][i].inc \in thawed
                      ELSE ~throttled[p] /\ ~c.sent_eof => c.input_wanted
    BY DEF SocketsReadInTime, Live
  <2>1. Sound(c) /\ c \in Mid
    BY At, EndTypes DEF Half, Ends
  <2>2. c.held = throttled[p] /\ (Hasty(c) => chans[p][i].inc \in thawed)
    BY At DEF Steady
  <2>3. throttled[p] \in BOOLEAN
    BY DEF IInv, Shape
  <2> QED BY <2>1, <2>2, <2>3 DEF Sound, Hasty
<1> QED BY <1>1, InvariantHolds, PTL
====
