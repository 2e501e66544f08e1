--------------------------- MODULE SshForwardingAgree --------------------------
(***************************************************************************)
(* What the two peers of SshForwarding agree on, packet by packet.         *)
(*                                                                         *)
(* Agree(C, D, V, W, n) is about the channels C of one peer and D of the   *)
(* other, the packets V on their way to the first and W to the second,     *)
(* and the number n of OPENs sent so far.  The lemmas say that each thing  *)
(* a peer does with one packet or one channel end keeps it; what a whole   *)
(* handler does is put together from them in SshForwardingProofs.          *)
(***************************************************************************)
EXTENDS SshForwarding, FiniteSetTheorems, FunctionTheorems, TLAPS

\* The packets that cite a channel which is open at both ends
Plain == {"data", "adjust", "request", "failure", "eof", "close"}
Answer == {"confirmation", "open-failure"}

\* A channel end of this model in the middle of a call, its packets not yet sent
Item == [kind : Plain, req : {"none", "winadj"}]
Mid == [chan : {Fwd, X11, Zombie}, halfopen : BOOLEAN,
        sent_eof : BOOLEAN, sent_close : BOOLEAN, rcvd_eof : BOOLEAN, rcvd_close : BOOLEAN,
        pending_eof : BOOLEAN, outbuffer : Nat, remwindow : 0..1, locwindow : 0..1,
        chanreqs : Seq({"winadj"}), throttling_conn : BOOLEAN, input_wanted : BOOLEAN,
        held : BOOLEAN, packets : Seq(Item), gone : BOOLEAN, fault : {"none"}]

\* How the flags of one end go together.
Sound(c) ==
    /\ c.sent_close => c.sent_eof
    /\ c.sent_close /\ ~c.gone => c.chanreqs = <<>>
    /\ c.sent_eof \/ c.chan = Zombie => ~c.pending_eof
    /\ c.halfopen => ~c.sent_eof /\ c.remwindow = 0 /\ c.locwindow = 1
    /\ c.chan # Zombie /\ ~c.halfopen /\ ~c.pending_eof /\ ~c.sent_eof /\ ~c.held => c.input_wanted

Letter == [kind : Plain \cup Answer \cup {"open"}, req : Requests \cup {"none", "fwd", "x11"},
           to : Nat, from : Nat, inc : Nat]

\* The packets of channel k in w that are of a kind, and how many they are
Those(w, k, kind) == {x \in DOMAIN w : w[x].inc = k /\ w[x].kind = kind}
Num(w, k, kind) == Cardinality(Those(w, k, kind))

Ends(C, n) ==
    /\ DOMAIN C \subseteq 1..MaxOpens
    /\ C \in [DOMAIN C -> [end : Mid, remoteid : Nat, inc : 1..n]]
    /\ \A i \in DOMAIN C : C[i].end.packets = <<>> /\ Sound(C[i].end)
    /\ \A i, j \in DOMAIN C : C[i].inc = C[j].inc => i = j

Mail(V, n) ==
    /\ V \in Seq(Letter)
    /\ \A x \in DOMAIN V : /\ V[x].inc \in 1..n
                           /\ V[x].kind \in {"request", "failure"} => V[x].req = "winadj"

\* An OPEN comes from a half-open end, and is all there is of its channel otherwise.
Opens(C, D, V, W) ==
    \A x \in DOMAIN V : V[x].kind = "open" =>
        /\ V[x].from \in DOMAIN D /\ D[V[x].from].inc = V[x].inc /\ D[V[x].from].end.halfopen
        /\ V[x].req \in {k.vt : k \in Kinds}
        /\ \A i \in DOMAIN C : C[i].inc # V[x].inc
        /\ \A y \in DOMAIN V : V[y].inc = V[x].inc => y = x
        /\ \A y \in DOMAIN W : W[y].inc # V[x].inc

\* The answer finds that end, before anything else is said on the channel.
Answers(C, D, V, W) ==
    \A x \in DOMAIN V : V[x].kind \in Answer =>
        /\ V[x].to \in DOMAIN C /\ C[V[x].to].inc = V[x].inc /\ C[V[x].to].end.halfopen
        /\ \A y \in DOMAIN V : V[y].inc = V[x].inc => x <= y
        /\ \A y \in DOMAIN W : W[y].inc # V[x].inc
        /\ V[x].kind = "confirmation" =>
              V[x].from \in DOMAIN D /\ D[V[x].from].inc = V[x].inc /\ ~D[V[x].from].end.halfopen
        /\ V[x].kind = "open-failure" =>
              /\ \A j \in DOMAIN D : D[j].inc # V[x].inc
              /\ \A y \in DOMAIN V : V[y].inc = V[x].inc => y = x

Confirming(V, k, x) == \E y \in DOMAIN V : y < x /\ V[y].inc = k /\ V[y].kind = "confirmation"

\* Everything else finds its channel too, which is open by the time the packet is read.
Plains(C, V) ==
    \A x \in DOMAIN V : V[x].kind \in Plain =>
        /\ V[x].to \in DOMAIN C /\ C[V[x].to].inc = V[x].inc
        /\ C[V[x].to].end.halfopen => Confirming(V, V[x].inc, x)

Order(V) ==
    \A x, y \in DOMAIN V : x < y /\ V[x].inc = V[y].inc =>
        /\ V[x].kind # "close"
        /\ V[x].kind = "eof" => V[y].kind \notin {"data", "eof"}

\* Who has sent EOF or CLOSE knows it.
Marks(D, V) ==
    \A x \in DOMAIN V : \A j \in DOMAIN D : D[j].inc = V[x].inc =>
        /\ V[x].kind = "close" => D[j].end.sent_close
        /\ V[x].kind = "eof" => D[j].end.sent_eof

\* An end that may still send has a counterpart to send to.
Peers(C, D, W) ==
    \A i \in DOMAIN C :
        /\ ~C[i].end.halfopen /\ ~C[i].end.sent_close =>
              C[i].remoteid \in DOMAIN D /\ D[C[i].remoteid].inc = C[i].inc
        /\ C[i].end.halfopen => \A x \in DOMAIN W : W[x].inc = C[i].inc => W[x].kind = "open"
        /\ \A j \in DOMAIN D :
              ~C[i].end.halfopen /\ D[j].inc = C[i].inc /\ D[j].end.halfopen =>
                  Confirming(W, C[i].inc, Len(W) + 1)

\* Every request in transit, and every reply, is on the list.
Recorded(C, V, W) ==
    \A i \in DOMAIN C : ~C[i].end.gone =>
        Num(W, C[i].inc, "request") + Num(V, C[i].inc, "failure") <= Len(C[i].end.chanreqs)

\* There is at most one permission to send a packet of data to D, wherever it is.
Moving(V, W, k) == Num(W, k, "data") + (Num(V, k, "adjust") + Num(V, k, "confirmation"))
Credit(C, D, V, W) ==
    /\ \A i \in DOMAIN C : C[i].end.remwindow + Moving(V, W, C[i].inc) <= 1
    /\ \A j \in DOMAIN D : Moving(V, W, D[j].inc) <= D[j].end.locwindow
    /\ \A i \in DOMAIN C, j \in DOMAIN D : C[i].inc = D[j].inc =>
          C[i].end.remwindow + Moving(V, W, C[i].inc) <= D[j].end.locwindow

Half(C, D, V, W, n) ==
    /\ Ends(C, n) /\ Mail(V, n) /\ Opens(C, D, V, W) /\ Answers(C, D, V, W) /\ Plains(C, V)
    /\ Order(V) /\ Marks(D, V) /\ Peers(C, D, W) /\ Recorded(C, V, W) /\ Credit(C, D, V, W)

Agree(C, D, V, W, n) == Half(C, D, V, W, n) /\ Half(D, C, W, V, n)

--------------------------------------------------------------------------------
(* Counting packets. *)

\* The packets of a kind and a channel are finitely many.
LEMMA NumType ==
    ASSUME NEW w \in Seq(Letter), NEW k, NEW kind
    PROVE  /\ IsFiniteSet(Those(w, k, kind))
           /\ Num(w, k, kind) \in Nat
<1> DEFINE At == Those(w, k, kind)
<1>1. DOMAIN w = 1..Len(w) /\ Len(w) \in Nat
  OBVIOUS
<1>2. IsFiniteSet(1..Len(w))
  BY <1>1, FS_Interval
<1>3. IsFiniteSet(At)
  BY <1>1, <1>2, FS_Subset DEF Those
<1> QED BY <1>3, FS_CardinalityType DEF Num

\* There is one to count exactly if the count is not zero.
LEMMA NumZero ==
    ASSUME NEW w \in Seq(Letter), NEW k, NEW kind
    PROVE  Num(w, k, kind) = 0 <=> \A x \in DOMAIN w : ~(w[x].inc = k /\ w[x].kind = kind)
<1> DEFINE At == Those(w, k, kind)
<1>1. IsFiniteSet(At) /\ Num(w, k, kind) = Cardinality(At)
  BY NumType DEF Num
<1>2. Cardinality(At) = 0 <=> At = {}
  <2> HIDE DEF At
  <2> QED BY <1>1, FS_EmptySet
<1> QED BY <1>1, <1>2 DEF Those

\* A packet that is sent adds one to the count of its channel and kind.
LEMMA NumAppend ==
    ASSUME NEW w \in Seq(Letter), NEW m \in Letter, NEW k, NEW kind
    PROVE  Num(Append(w, m), k, kind) =
               Num(w, k, kind) + IF m.inc = k /\ m.kind = kind THEN 1 ELSE 0
<1> DEFINE r == Append(w, m)
           At(s) == Those(s, k, kind)
<1>1. /\ DOMAIN w = 1..Len(w) /\ Len(w) \in Nat
      /\ DOMAIN r = 1..(Len(w) + 1)
      /\ \A x \in 1..Len(w) : r[x] = w[x]
      /\ r[Len(w) + 1] = m
  OBVIOUS
<1>4. IsFiniteSet(At(w)) /\ Cardinality(At(w)) \in Nat
  BY NumType DEF Num
<1>2. CASE m.inc = k /\ m.kind = kind
  <2>1. At(r) = At(w) \cup {Len(w) + 1} /\ Len(w) + 1 \notin At(w)
    BY <1>1, <1>2 DEF Those
  <2>2. Cardinality(At(r)) = Cardinality(At(w)) + 1
    <3> HIDE DEF At, r
    <3> QED BY <2>1, <1>4, FS_AddElement
  <2> QED BY <1>2, <2>2 DEF Num
<1>3. CASE ~(m.inc = k /\ m.kind = kind)
  <2>1. At(r) = At(w)
    BY <1>1, <1>3 DEF Those
  <2>2. Cardinality(At(r)) = Cardinality(At(w)) + 0
    <3> HIDE DEF At, r
    <3> QED BY <2>1, <1>4
  <2> QED BY <1>3, <2>2 DEF Num
<1> QED BY <1>2, <1>3

\* A packet that is read takes one from the count of its channel and kind.
LEMMA NumTail ==
    ASSUME NEW w \in Seq(Letter), w # <<>>, NEW k, NEW kind
    PROVE  Num(w, k, kind) =
               Num(Tail(w), k, kind) + IF w[1].inc = k /\ w[1].kind = kind THEN 1 ELSE 0
<1> DEFINE r == Tail(w)
           At(s) == Those(s, k, kind)
           Later == At(w) \ {1}
           f == [x \in At(r) |-> x + 1]
<1>1. /\ DOMAIN w = 1..Len(w) /\ Len(w) \in Nat /\ Len(w) >= 1
      /\ r \in Seq(Letter) /\ DOMAIN r = 1..(Len(w) - 1)
      /\ \A x \in 1..(Len(w) - 1) : r[x] = w[x + 1]
  OBVIOUS
<1>2. IsFiniteSet(At(r)) /\ IsFiniteSet(At(w)) /\ Num(r, k, kind) \in Nat /\ Num(w, k, kind) \in Nat
  BY <1>1, NumType
<1>3. ExistsBijection(At(r), Later)
  <2>1. \A x \in At(r) : x \in 1..(Len(w) - 1) /\ x + 1 \in Later
    BY <1>1 DEF Those
  <2>2. f \in [At(r) -> Later]
    BY <2>1
  <2>3. \A x, y \in At(r) : f[x] = f[y] => x = y
    BY <2>1
  <2>4. \A y \in Later : y - 1 \in At(r) /\ f[y - 1] = y
    BY <1>1 DEF Those
  <2>5. f \in Injection(At(r), Later)
    BY <2>2, <2>3, Fun_IsInj
  <2>6. f \in Surjection(At(r), Later)
    BY <2>2, <2>4, Fun_IsSurj
  <2>7. f \in Bijection(At(r), Later)
    BY <2>5, <2>6 DEF Bijection
  <2> QED BY <2>7 DEF ExistsBijection
<1>4. Cardinality(Later) = Cardinality(At(r))
  BY <1>2, <1>3, FS_Bijection
<1>5. Cardinality(Later) = IF 1 \in At(w) THEN Cardinality(At(w)) - 1 ELSE Cardinality(At(w))
  BY <1>2, FS_RemoveElement
<1>6. 1 \in At(w) <=> w[1].inc = k /\ w[1].kind = kind
  BY <1>1 DEF Those
<1>7. Num(w, k, kind) = Cardinality(At(w)) /\ Num(r, k, kind) = Cardinality(At(r))
  BY DEF Num
<1> HIDE DEF At, Later, r
<1> QED BY <1>2, <1>4, <1>5, <1>6, <1>7 DEF r

--------------------------------------------------------------------------------
(* What a peer does with one packet or one end. *)

\* Ends of the right types, of no more than n channels
Tree(C, n) == DOMAIN C \subseteq 1..MaxOpens /\ C \in [DOMAIN C -> [end : Mid, remoteid : Nat, inc : 1..n]]

\* The fields of an end that are counted have their types.
LEMMA EndTypes ==
    ASSUME NEW n, NEW C, Ends(C, n), NEW i \in DOMAIN C
    PROVE  /\ C[i].end \in Mid /\ C[i].remoteid \in Nat /\ C[i].inc \in 1..n
           /\ C[i].end.remwindow \in 0..1 /\ C[i].end.locwindow \in 0..1
           /\ Len(C[i].end.chanreqs) \in Nat
<1>1. C[i].end \in Mid /\ C[i].remoteid \in Nat /\ C[i].inc \in 1..n
  BY DEF Ends
<1>2. C[i].end.chanreqs \in Seq({"winadj"})
  BY <1>1 DEF Mid
<1> QED BY <1>1, <1>2 DEF Mid

\* The counts of packets are numbers.
LEMMA MailCounts ==
    ASSUME NEW n, NEW V, NEW W, Mail(V, n), Mail(W, n), NEW k
    PROVE  /\ V \in Seq(Letter) /\ W \in Seq(Letter) /\ Moving(V, W, k) \in Nat
           /\ \A kind : Num(V, k, kind) \in Nat /\ Num(W, k, kind) \in Nat
  BY NumType DEF Mail, Moving

\* An end that promises no more than it did, and hides nothing that it sent
Eases(c, d) ==
    /\ d.halfopen = c.halfopen /\ d.sent_eof = c.sent_eof /\ d.sent_close = c.sent_close
    /\ d.remwindow <= c.remwindow /\ d.locwindow >= c.locwindow
    /\ ~d.gone => ~c.gone /\ Len(d.chanreqs) >= Len(c.chanreqs)

\* Ends may change in what the other peer does not count on.
LEMMA ChangeAgrees ==
    ASSUME NEW n \in Nat, NEW C, NEW D, NEW V, NEW W, Agree(C, D, V, W, n), NEW B, Tree(B, n),
           DOMAIN B = DOMAIN C,
           \A i \in DOMAIN C : /\ B[i].inc = C[i].inc /\ B[i].remoteid = C[i].remoteid
                               /\ B[i].end.packets = <<>> /\ Sound(B[i].end)
                               /\ Eases(C[i].end, B[i].end)
    PROVE  Agree(B, D, V, W, n)
<1>1. Half(C, D, V, W, n) /\ Half(D, C, W, V, n)
  BY DEF Agree
<1>2. Ends(C, n) /\ Mail(V, n) /\ Mail(W, n) /\ Ends(D, n)
  BY <1>1 DEF Half
<1>3. Ends(B, n)
  BY <1>2 DEF Ends, Tree
<1>4. \A i \in DOMAIN C : /\ B[i].end.halfopen = C[i].end.halfopen
                          /\ B[i].end.sent_eof = C[i].end.sent_eof
                          /\ B[i].end.sent_close = C[i].end.sent_close
  BY DEF Eases
<1>5. Opens(B, D, V, W) /\ Opens(D, B, W, V)
  BY <1>1, <1>4 DEF Half, Opens
<1>6. Answers(B, D, V, W) /\ Answers(D, B, W, V)
  BY <1>1, <1>4 DEF Half, Answers
<1>7. Plains(B, V) /\ Marks(B, W)
  BY <1>1, <1>4 DEF Half, Plains, Marks
<1>8. Peers(B, D, W) /\ Peers(D, B, V)
  BY <1>1, <1>4 DEF Half, Peers
<1>9. Recorded(B, V, W)
  <2> SUFFICES ASSUME NEW i \in DOMAIN C, ~B[i].end.gone
               PROVE  Num(W, C[i].inc, "request") + Num(V, C[i].inc, "failure") <= Len(B[i].end.chanreqs)
    BY DEF Recorded
  <2>1. Num(W, C[i].inc, "request") + Num(V, C[i].inc, "failure") <= Len(C[i].end.chanreqs)
    BY <1>1 DEF Half, Recorded, Eases
  <2>2. Num(W, C[i].inc, "request") \in Nat /\ Num(V, C[i].inc, "failure") \in Nat
    BY <1>2, MailCounts
  <2>3. Len(C[i].end.chanreqs) \in Nat /\ Len(B[i].end.chanreqs) \in Nat
    BY <1>2, <1>3, EndTypes
  <2>4. Len(B[i].end.chanreqs) >= Len(C[i].end.chanreqs)
    BY DEF Eases
  <2> QED BY <2>1, <2>2, <2>3, <2>4
<1>10. Credit(B, D, V, W) /\ Credit(D, B, W, V)
  <2>1. \A k : Moving(V, W, k) \in Nat /\ Moving(W, V, k) \in Nat
    BY <1>2, MailCounts
  <2>2. \A i \in DOMAIN C : /\ C[i].end.remwindow \in 0..1 /\ C[i].end.locwindow \in 0..1
                            /\ B[i].end.remwindow \in 0..1 /\ B[i].end.locwindow \in 0..1
                            /\ B[i].end.remwindow <= C[i].end.remwindow
                            /\ B[i].end.locwindow >= C[i].end.locwindow
    BY <1>2, <1>3, EndTypes DEF Eases
  <2>3. \A j \in DOMAIN D : D[j].end.remwindow \in 0..1 /\ D[j].end.locwindow \in 0..1
    BY <1>2, EndTypes
  <2>4. Credit(C, D, V, W) /\ Credit(D, C, W, V)
    BY <1>1 DEF Half
  <2>5. Credit(B, D, V, W)
    <3>1. \A i \in DOMAIN B : B[i].end.remwindow + Moving(V, W, B[i].inc) <= 1
      BY <2>1, <2>2, <2>4 DEF Credit
    <3>2. ASSUME NEW i \in DOMAIN B, NEW j \in DOMAIN D, B[i].inc = D[j].inc
          PROVE  B[i].end.remwindow + Moving(V, W, B[i].inc) <= D[j].end.locwindow
      <4>1. C[i].end.remwindow + Moving(V, W, C[i].inc) <= D[j].end.locwindow
        BY <2>4, <3>2 DEF Credit
      <4> QED BY <4>1, <2>1, <2>2, <2>3
    <3> QED BY <3>1, <3>2, <2>4 DEF Credit
  <2>6. Credit(D, B, W, V)
    <3>1. \A i \in DOMAIN B : Moving(W, V, B[i].inc) <= B[i].end.locwindow
      BY <2>1, <2>2, <2>4 DEF Credit
    <3>2. ASSUME NEW i \in DOMAIN B, NEW j \in DOMAIN D, D[j].inc = B[i].inc
          PROVE  D[j].end.remwindow + Moving(W, V, D[j].inc) <= B[i].end.locwindow
      <4>1. D[j].end.remwindow + Moving(W, V, D[j].inc) <= C[i].end.locwindow
        BY <2>4, <3>2 DEF Credit
      <4> QED BY <4>1, <2>1, <2>2, <2>3
    <3> QED BY <3>1, <3>2, <2>4 DEF Credit
  <2> QED BY <2>5, <2>6
<1> QED BY <1>1, <1>3, <1>5, <1>6, <1>7, <1>8, <1>9, <1>10 DEF Agree, Half

\* B is C with end i changed to one that is sound
Replaces(B, C, i, n) ==
    /\ Tree(B, n) /\ DOMAIN B = DOMAIN C /\ i \in DOMAIN C
    /\ \A j \in DOMAIN C : j # i => B[j] = C[j]
    /\ B[i].inc = C[i].inc /\ B[i].remoteid = C[i].remoteid
    /\ B[i].end.packets = <<>> /\ Sound(B[i].end)

\* Such a change leaves the ends in order, and no channel another's.
LEMMA ReplacesEnds ==
    ASSUME NEW n, NEW B, NEW C, NEW i, Replaces(B, C, i, n), Ends(C, n)
    PROVE  Ends(B, n) /\ \A j \in DOMAIN C : B[j].inc = C[j].inc /\ B[j].remoteid = C[j].remoteid
  BY DEF Replaces, Ends, Tree

\* What an end may do as it sends a packet of a kind
One(kind, which) == IF kind = which THEN 1 ELSE 0
Speaks(c, d, kind) ==
    /\ ~c.halfopen /\ ~c.sent_close /\ ~d.halfopen
    /\ kind \in {"data", "eof"} => ~c.sent_eof
    /\ c.sent_eof \/ kind = "eof" => d.sent_eof
    /\ kind = "close" => d.sent_close
    /\ d.remwindow + One(kind, "data") <= c.remwindow
    /\ d.locwindow >= c.locwindow + One(kind, "adjust")
    /\ ~d.gone => ~c.gone /\ Len(d.chanreqs) >= Len(c.chanreqs) + One(kind, "request")

\* An end sends a packet; it may send a reply if there is one to be sent.
LEMMA SayAgrees ==
    ASSUME NEW n \in Nat, NEW C, NEW D, NEW V, NEW W, Agree(C, D, V, W, n), NEW B, NEW i,
           Replaces(B, C, i, n), NEW m \in Letter, m.kind \in Plain,
           m.kind \in {"request", "failure"} => m.req = "winadj",
           m.to = C[i].remoteid, m.inc = C[i].inc, Speaks(C[i].end, B[i].end, m.kind),
           m.kind = "failure" =>
               \A j \in DOMAIN D : D[j].inc = C[i].inc /\ ~D[j].end.gone =>
                   Num(V, C[i].inc, "request") + Num(W, C[i].inc, "failure") + 1 <= Len(D[j].end.chanreqs)
    PROVE  Agree(B, D, V, Append(W, m), n)
<1> DEFINE k == C[i].inc
           X == Append(W, m)
<1>1. Half(C, D, V, W, n) /\ Half(D, C, W, V, n)
  BY DEF Agree
<1>2. Ends(C, n) /\ Mail(V, n) /\ Mail(W, n) /\ Ends(D, n)
  BY <1>1 DEF Half
<1>3. Ends(B, n) /\ \A j \in DOMAIN C : B[j].inc = C[j].inc /\ B[j].remoteid = C[j].remoteid
  BY <1>2, ReplacesEnds
<1>4. /\ i \in DOMAIN C /\ DOMAIN B = DOMAIN C
      /\ \A j \in DOMAIN C : j # i => B[j] = C[j]
      /\ \A j \in DOMAIN C : C[j].inc = k => j = i
  BY <1>2 DEF Replaces, Ends
<1>5. /\ W \in Seq(Letter) /\ X \in Seq(Letter) /\ Len(W) \in Nat
      /\ DOMAIN W = 1..Len(W) /\ DOMAIN X = 1..(Len(W) + 1) /\ Len(X) = Len(W) + 1
      /\ \A x \in DOMAIN W : X[x] = W[x]
      /\ X[Len(W) + 1] = m
  BY <1>2 DEF Mail
<1>6. m.inc = k /\ k \in 1..n
  BY <1>2, <1>4, EndTypes
<1>7. ~C[i].end.halfopen /\ ~B[i].end.halfopen /\ ~C[i].end.sent_close
  BY DEF Speaks
<1>8. /\ \A x \in DOMAIN W : W[x].kind = "open" => W[x].inc # k
      /\ \A x \in DOMAIN V : V[x].kind = "open" => V[x].inc # k
      /\ \A x \in DOMAIN V : V[x].kind \in Answer => V[x].inc # k
      /\ \A x \in DOMAIN W : W[x].kind = "open-failure" => W[x].inc # k
  BY <1>1, <1>4, <1>7 DEF Half, Opens, Answers, Answer
<1> HIDE DEF X, k
<1>9. Mail(X, n)
  BY <1>2, <1>5, <1>6 DEF Mail
<1>30. /\ \A y \in DOMAIN X : (y \in DOMAIN W /\ X[y] = W[y]) \/ (y = Len(W) + 1 /\ X[y].inc = k)
       /\ \A x \in DOMAIN W : x <= Len(W) + 1
  BY <1>5, <1>6
<1>10. Opens(B, D, V, X)
  <2>1. Opens(C, D, V, W)
    BY <1>1 DEF Half
  <2> QED BY <2>1, <1>3, <1>4, <1>8, <1>30 DEF Opens
<1>11. Opens(D, B, X, V)
  <2>1. m.kind # "open"
    BY DEF Plain
  <2>2. Opens(D, C, W, V)
    BY <1>1 DEF Half
  <2>3. ASSUME NEW x \in DOMAIN W, W[x].kind = "open"
        PROVE  /\ W[x].from \in DOMAIN B /\ B[W[x].from].inc = W[x].inc /\ B[W[x].from].end.halfopen
               /\ \A y \in DOMAIN X : X[y].inc = W[x].inc => y = x
    BY <2>2, <2>3, <1>3, <1>4, <1>7, <1>8, <1>30 DEF Opens
  <2> QED BY <2>1, <2>2, <2>3, <1>5 DEF Opens
<1>12. Answers(B, D, V, X)
  <2>1. Answers(C, D, V, W)
    BY <1>1 DEF Half
  <2>2. ASSUME NEW x \in DOMAIN V, V[x].kind \in Answer
        PROVE  /\ V[x].to \in DOMAIN B /\ B[V[x].to].inc = V[x].inc /\ B[V[x].to].end.halfopen
               /\ \A y \in DOMAIN X : X[y].inc # V[x].inc
    BY <2>1, <2>2, <1>3, <1>4, <1>7, <1>8, <1>30 DEF Answers
  <2> QED BY <2>1, <2>2 DEF Answers
<1>13. Answers(D, B, X, V)
  <2>1. m.kind \notin Answer
    BY DEF Plain, Answer
  <2>2. Answers(D, C, W, V)
    BY <1>1 DEF Half
  <2>3. ASSUME NEW x \in DOMAIN W, W[x].kind \in Answer
        PROVE  /\ \A y \in DOMAIN X : X[y].inc = W[x].inc => x <= y
               /\ W[x].kind = "confirmation" =>
                     W[x].from \in DOMAIN B /\ B[W[x].from].inc = W[x].inc /\ ~B[W[x].from].end.halfopen
               /\ W[x].kind = "open-failure" =>
                     /\ \A j \in DOMAIN B : B[j].inc # W[x].inc
                     /\ \A y \in DOMAIN X : X[y].inc = W[x].inc => y = x
    BY <2>2, <2>3, <1>3, <1>4, <1>7, <1>8, <1>30 DEF Answers
  <2> QED BY <2>1, <2>2, <2>3, <1>5 DEF Answers
<1>14. Plains(B, V)
  BY <1>1, <1>3, <1>4, <1>7 DEF Half, Plains
<1>15. Plains(D, X)
  <2>1. Plains(D, W) /\ Peers(C, D, W)
    BY <1>1 DEF Half
  <2>2. ASSUME NEW x \in DOMAIN W, Confirming(W, W[x].inc, x)
        PROVE  Confirming(X, W[x].inc, x)
    BY <2>2, <1>5 DEF Confirming
  <2>3. Confirming(W, k, Len(W) + 1) => Confirming(X, k, Len(W) + 1)
    BY <1>5 DEF Confirming
  <2>4. /\ m.to \in DOMAIN D /\ D[m.to].inc = k
        /\ D[m.to].end.halfopen => Confirming(W, k, Len(W) + 1)
    BY <2>1, <1>4, <1>6, <1>7 DEF Peers, k
  <2> QED BY <2>1, <2>2, <2>3, <2>4, <1>5, <1>6 DEF Plains
<1>16. Order(X)
  <2>1. Order(W) /\ Marks(C, W)
    BY <1>1 DEF Half
  <2>2. ASSUME NEW x \in DOMAIN W, W[x].inc = k
        PROVE  /\ W[x].kind # "close"
               /\ W[x].kind = "eof" => m.kind \notin {"data", "eof"}
    BY <2>1, <2>2, <1>4, <1>7 DEF Marks, Speaks, k
  <2> QED BY <2>1, <2>2, <1>5, <1>6 DEF Order
<1>17. Marks(B, X)
  <2>1. Marks(C, W)
    BY <1>1 DEF Half
  <2>2. /\ C[i].end.sent_eof => B[i].end.sent_eof
        /\ m.kind = "close" => B[i].end.sent_close
        /\ m.kind = "eof" => B[i].end.sent_eof
    BY DEF Speaks
  <2> QED BY <2>1, <2>2, <1>3, <1>4, <1>5, <1>6, <1>7 DEF Marks
<1>18. Peers(B, D, X)
  <2>1. Peers(C, D, W)
    BY <1>1 DEF Half
  <2>2. \A j : Confirming(W, j, Len(W) + 1) => Confirming(X, j, Len(X) + 1)
    BY <1>5 DEF Confirming
  <2>3. ASSUME NEW j \in DOMAIN C, B[j].end.halfopen
        PROVE  \A x \in DOMAIN X : X[x].inc = C[j].inc => X[x].kind = "open"
    <3>1. j # i /\ B[j] = C[j] /\ C[j].inc # k
      BY <2>3, <1>4, <1>7
    <3> QED BY <2>1, <2>3, <3>1, <1>5, <1>6 DEF Peers
  <2>4. ASSUME NEW j \in DOMAIN C, ~B[j].end.halfopen
        PROVE  /\ ~C[j].end.halfopen
               /\ ~B[j].end.sent_close => ~C[j].end.sent_close
    BY <2>4, <1>4, <1>7
  <2> QED BY <2>1, <2>2, <2>3, <2>4, <1>3, <1>4 DEF Peers
<1>19. Peers(D, B, V)
  BY <1>1, <1>3, <1>4, <1>7 DEF Half, Peers
<1>20. Recorded(B, V, X)
  <2> SUFFICES ASSUME NEW j \in DOMAIN C, ~B[j].end.gone
               PROVE  Num(X, C[j].inc, "request") + Num(V, C[j].inc, "failure") <= Len(B[j].end.chanreqs)
    BY <1>3, <1>4 DEF Recorded
  <2> DEFINE less == Len(C[j].end.chanreqs)
             more == Len(B[j].end.chanreqs)
  <2>5. less \in Nat /\ more \in Nat
    BY <1>2, <1>3, <1>4, EndTypes
  <2>1. /\ ~C[j].end.gone
        /\ less <= more
        /\ m.inc = C[j].inc /\ m.kind = "request" => less + 1 <= more
    <3>1. CASE j = i
      <4>1. ~B[i].end.gone
        BY <3>1
      <4>2. ~C[i].end.gone /\ Len(B[i].end.chanreqs) >= Len(C[i].end.chanreqs) + One(m.kind, "request")
        BY <4>1 DEF Speaks
      <4>3. more >= less + One(m.kind, "request")
        BY <3>1, <4>2
      <4> HIDE DEF less, more
      <4> QED BY <3>1, <4>2, <4>3, <2>5 DEF One
    <3>2. CASE j # i
      BY <3>2, <1>4, <1>6, <2>5
    <3> QED BY <3>1, <3>2
  <2>2. Num(W, C[j].inc, "request") + Num(V, C[j].inc, "failure") <= less
    BY <1>1, <2>1 DEF Half, Recorded
  <2>3. Num(X, C[j].inc, "request") = Num(W, C[j].inc, "request")
                            + IF m.inc = C[j].inc /\ m.kind = "request" THEN 1 ELSE 0
    BY <1>5, NumAppend DEF X
  <2>4. Num(W, C[j].inc, "request") \in Nat /\ Num(V, C[j].inc, "failure") \in Nat
    BY <1>2, MailCounts
  <2> HIDE DEF less, more
  <2>8. Num(X, C[j].inc, "request") + Num(V, C[j].inc, "failure") <= more
    BY <2>1, <2>2, <2>3, <2>4, <2>5
  <2> QED BY <2>8 DEF more
<1>21. Recorded(D, X, V)
  <2> SUFFICES ASSUME NEW j \in DOMAIN D, ~D[j].end.gone
               PROVE  Num(V, D[j].inc, "request") + Num(X, D[j].inc, "failure") <= Len(D[j].end.chanreqs)
    BY DEF Recorded
  <2>1. Num(X, D[j].inc, "failure") = Num(W, D[j].inc, "failure")
                            + IF m.inc = D[j].inc /\ m.kind = "failure" THEN 1 ELSE 0
    BY <1>5, NumAppend DEF X
  <2>2. Num(V, D[j].inc, "request") + Num(W, D[j].inc, "failure") <= Len(D[j].end.chanreqs)
    BY <1>1 DEF Half, Recorded
  <2>3. Num(V, D[j].inc, "request") \in Nat /\ Num(W, D[j].inc, "failure") \in Nat
    BY <1>2, MailCounts
  <2>4. Len(D[j].end.chanreqs) \in Nat
    BY <1>2, EndTypes
  <2>5. m.inc = D[j].inc /\ m.kind = "failure" =>
            Num(V, D[j].inc, "request") + Num(W, D[j].inc, "failure") + 1 <= Len(D[j].end.chanreqs)
    BY <1>6 DEF k
  <2> QED BY <2>1, <2>2, <2>3, <2>4, <2>5
<1>22. /\ \A j : Moving(V, W, j) \in Nat /\ Moving(W, V, j) \in Nat
       /\ \A j : Moving(V, X, j) = Moving(V, W, j) + IF m.inc = j /\ m.kind = "data" THEN 1 ELSE 0
       /\ \A j : Moving(X, V, j) = Moving(W, V, j) + IF m.inc = j /\ m.kind = "adjust" THEN 1 ELSE 0
  <2> SUFFICES ASSUME NEW j
               PROVE  /\ Moving(V, W, j) \in Nat /\ Moving(W, V, j) \in Nat
                      /\ Moving(V, X, j) = Moving(V, W, j) + IF m.inc = j /\ m.kind = "data" THEN 1 ELSE 0
                      /\ Moving(X, V, j) = Moving(W, V, j) + IF m.inc = j /\ m.kind = "adjust" THEN 1 ELSE 0
    OBVIOUS
  <2>1. Moving(V, W, j) \in Nat /\ Moving(W, V, j) \in Nat
    BY <1>2, MailCounts
  <2>3. m.kind # "confirmation"
    BY DEF Plain
  <2>2. \A kind : Num(W, j, kind) \in Nat /\ Num(V, j, kind) \in Nat
    BY <1>2, MailCounts
  <2>4. \A kind : Num(X, j, kind) = Num(W, j, kind) + IF m.inc = j /\ m.kind = kind THEN 1 ELSE 0
    BY <1>5, NumAppend DEF X
  <2>5. /\ Num(X, j, "data") = Num(W, j, "data") + IF m.inc = j /\ m.kind = "data" THEN 1 ELSE 0
        /\ Num(X, j, "adjust") = Num(W, j, "adjust") + IF m.inc = j /\ m.kind = "adjust" THEN 1 ELSE 0
        /\ Num(X, j, "confirmation") = Num(W, j, "confirmation")
    BY <2>2, <2>3, <2>4
  <2>6. /\ Num(W, j, "data") \in Nat /\ Num(W, j, "adjust") \in Nat /\ Num(W, j, "confirmation") \in Nat
        /\ Num(V, j, "data") \in Nat /\ Num(V, j, "adjust") \in Nat /\ Num(V, j, "confirmation") \in Nat
    BY <2>2
  <2> DEFINE data == IF m.inc = j /\ m.kind = "data" THEN 1 ELSE 0
             adjust == IF m.inc = j /\ m.kind = "adjust" THEN 1 ELSE 0
  <2>7. data \in Nat /\ adjust \in Nat
    OBVIOUS
  <2> HIDE DEF X, data, adjust
  <2>8. Num(X, j, "data") = Num(W, j, "data") + data /\ Num(X, j, "adjust") = Num(W, j, "adjust") + adjust
    BY <2>5 DEF data, adjust
  <2>9. Moving(V, X, j) = Moving(V, W, j) + data
    BY <2>6, <2>7, <2>8 DEF Moving
  <2>10. Moving(X, V, j) = Moving(W, V, j) + adjust
    BY <2>5, <2>6, <2>7, <2>8 DEF Moving
  <2> QED BY <2>1, <2>9, <2>10 DEF data, adjust
<1>23. \A j \in DOMAIN C :
           /\ B[j].end.remwindow + (IF m.inc = C[j].inc /\ m.kind = "data" THEN 1 ELSE 0) <= C[j].end.remwindow
           /\ B[j].end.locwindow >= C[j].end.locwindow + IF m.inc = C[j].inc /\ m.kind = "adjust" THEN 1 ELSE 0
           /\ C[j].end.remwindow \in 0..1 /\ C[j].end.locwindow \in 0..1
           /\ B[j].end.remwindow \in 0..1 /\ B[j].end.locwindow \in 0..1
  <2> SUFFICES ASSUME NEW j \in DOMAIN C
               PROVE  /\ B[j].end.remwindow + (IF m.inc = C[j].inc /\ m.kind = "data" THEN 1 ELSE 0)
                           <= C[j].end.remwindow
                      /\ B[j].end.locwindow >=
                           C[j].end.locwindow + IF m.inc = C[j].inc /\ m.kind = "adjust" THEN 1 ELSE 0
                      /\ C[j].end.remwindow \in 0..1 /\ C[j].end.locwindow \in 0..1
                      /\ B[j].end.remwindow \in 0..1 /\ B[j].end.locwindow \in 0..1
    OBVIOUS
  <2>1. /\ C[j].end.remwindow \in 0..1 /\ C[j].end.locwindow \in 0..1
        /\ B[j].end.remwindow \in 0..1 /\ B[j].end.locwindow \in 0..1
    BY <1>2, <1>3, <1>4, EndTypes
  <2>2. CASE j = i
    BY <2>1, <2>2, <1>6 DEF Speaks, One, k
  <2>3. CASE j # i
    <3>1. B[j] = C[j] /\ C[j].inc # k
      BY <2>3, <1>4
    <3> QED BY <2>1, <3>1, <1>6
  <2> QED BY <2>2, <2>3
<1>24. \A j \in DOMAIN D : D[j].end.remwindow \in 0..1 /\ D[j].end.locwindow \in 0..1
  BY <1>2, EndTypes
<1>25. Credit(B, D, V, X)
  <2>1. Credit(C, D, V, W)
    BY <1>1 DEF Half
  <2>2. ASSUME NEW j \in DOMAIN C
        PROVE  B[j].end.remwindow + Moving(V, X, C[j].inc) <= C[j].end.remwindow + Moving(V, W, C[j].inc)
    BY <1>22, <1>23
  <2>3. \A j \in DOMAIN C : B[j].end.remwindow + Moving(V, X, C[j].inc) \in Nat
                              /\ C[j].end.remwindow + Moving(V, W, C[j].inc) \in Nat
    BY <1>22, <1>23
  <2>4. ASSUME NEW j \in DOMAIN D
        PROVE  Moving(V, X, D[j].inc) <= D[j].end.locwindow
    <3>1. CASE D[j].inc = k
      <4>1. C[i].end.remwindow + Moving(V, W, k) <= D[j].end.locwindow
        BY <2>1, <3>1, <1>4 DEF Credit, k
      <4>2. B[i].end.remwindow + Moving(V, X, k) <= C[i].end.remwindow + Moving(V, W, k)
        BY <2>2, <1>4 DEF k
      <4> QED BY <4>1, <4>2, <3>1, <1>4, <1>22, <1>23, <1>24
    <3>2. CASE D[j].inc # k
      <4>1. Moving(V, X, D[j].inc) = Moving(V, W, D[j].inc) + 0
        BY <3>2, <1>6, <1>22
      <4>2. Moving(V, W, D[j].inc) <= D[j].end.locwindow
        BY <2>1 DEF Credit
      <4> QED BY <4>1, <4>2, <1>22
    <3> QED BY <3>1, <3>2
  <2>5. ASSUME NEW j \in DOMAIN C, NEW l \in DOMAIN D, C[j].inc = D[l].inc
        PROVE  B[j].end.remwindow + Moving(V, X, C[j].inc) <= D[l].end.locwindow
    <3>1. C[j].end.remwindow + Moving(V, W, C[j].inc) <= D[l].end.locwindow
      BY <2>1, <2>5 DEF Credit
    <3> QED BY <3>1, <2>2, <2>3, <1>24
  <2>6. ASSUME NEW j \in DOMAIN C
        PROVE  B[j].end.remwindow + Moving(V, X, C[j].inc) <= 1
    <3>1. C[j].end.remwindow + Moving(V, W, C[j].inc) <= 1
      BY <2>1 DEF Credit
    <3> QED BY <3>1, <2>2, <2>3
  <2> QED BY <2>4, <2>5, <2>6, <1>3, <1>4 DEF Credit
<1>26. Credit(D, B, X, V)
  <2>1. Credit(D, C, W, V)
    BY <1>1 DEF Half
  <2>2. ASSUME NEW j \in DOMAIN C, NEW r \in 0..1, r + Moving(W, V, C[j].inc) <= C[j].end.locwindow
        PROVE  r + Moving(X, V, C[j].inc) <= B[j].end.locwindow
    BY <2>2, <1>22, <1>23
  <2>3. ASSUME NEW j \in DOMAIN C
        PROVE  Moving(X, V, C[j].inc) <= B[j].end.locwindow
    <3>1. Moving(W, V, C[j].inc) <= C[j].end.locwindow
      BY <2>1 DEF Credit
    <3>2. 0 + Moving(W, V, C[j].inc) <= C[j].end.locwindow => 0 + Moving(X, V, C[j].inc) <= B[j].end.locwindow
      BY <2>2
    <3> QED BY <3>1, <3>2, <1>22, <1>23
  <2>4. ASSUME NEW j \in DOMAIN C, NEW l \in DOMAIN D, D[l].inc = C[j].inc
        PROVE  D[l].end.remwindow + Moving(X, V, C[j].inc) <= B[j].end.locwindow
    <3>1. D[l].end.remwindow + Moving(W, V, C[j].inc) <= C[j].end.locwindow
      BY <2>1, <2>4 DEF Credit
    <3> QED BY <3>1, <2>2, <1>24
  <2>5. ASSUME NEW l \in DOMAIN D
        PROVE  D[l].end.remwindow + Moving(X, V, D[l].inc) <= 1
    <3>1. D[l].end.remwindow + Moving(W, V, D[l].inc) <= 1
      BY <2>1 DEF Credit
    <3>2. CASE D[l].inc = k
      <4>1. D[l].end.remwindow + Moving(X, V, k) <= B[i].end.locwindow
        BY <2>4, <3>2, <1>4 DEF k
      <4> QED BY <4>1, <3>2, <1>4, <1>22, <1>23, <1>24
    <3>3. CASE D[l].inc # k
      BY <3>1, <3>3, <1>6, <1>22
    <3> QED BY <3>2, <3>3
  <2> QED BY <2>3, <2>4, <2>5, <1>3, <1>4 DEF Credit
<1>27. Order(V) /\ Marks(D, V)
  BY <1>1 DEF Half
<1> QED BY <1>2, <1>3, <1>9, <1>10, <1>11, <1>12, <1>13, <1>14, <1>15, <1>16, <1>17, <1>18, <1>19,
           <1>20, <1>21, <1>25, <1>26, <1>27 DEF Agree, Half, X

\* The packet at the head of the queue finds its end, and what it brings is due.
LEMMA HeadFacts ==
    ASSUME NEW n \in Nat, NEW C, NEW D, NEW V, NEW W, Agree(C, D, V, W, n), V # <<>>, V[1].kind \in Plain
    PROVE  /\ V[1].to \in DOMAIN C /\ C[V[1].to].inc = V[1].inc /\ ~C[V[1].to].end.halfopen
           /\ V[1].kind = "data" => C[V[1].to].end.locwindow = 1
           /\ V[1].kind = "adjust" => C[V[1].to].end.remwindow = 0
           /\ V[1].kind = "failure" /\ ~C[V[1].to].end.gone => Len(C[V[1].to].end.chanreqs) >= 1
<1> DEFINE i == V[1].to
           k == V[1].inc
<1>1. Half(C, D, V, W, n) /\ Half(D, C, W, V, n)
  BY DEF Agree
<1>2. Ends(C, n) /\ Mail(V, n) /\ Mail(W, n) /\ Ends(D, n) /\ 1 \in DOMAIN V
  BY <1>1 DEF Half, Mail
<1>3. i \in DOMAIN C /\ C[i].inc = k /\ ~C[i].end.halfopen
  BY <1>1, <1>2 DEF Half, Plains, Confirming, Mail
<1>4. /\ \A kind : Num(V, k, kind) \in Nat /\ Num(W, k, kind) \in Nat
      /\ Moving(V, W, k) \in Nat /\ Moving(W, V, k) \in Nat
  BY <1>2, MailCounts
<1>5. \A kind : V[1].kind = kind => Num(V, k, kind) >= 1
  <2> SUFFICES ASSUME NEW kind, V[1].kind = kind
               PROVE  Num(V, k, kind) # 0
    BY <1>4
  <2> QED BY <1>2, NumZero DEF Mail
<1>6. /\ C[i].end.locwindow \in 0..1 /\ C[i].end.remwindow \in 0..1 /\ Len(C[i].end.chanreqs) \in Nat
  BY <1>2, <1>3, EndTypes
<1>7. /\ Moving(W, V, k) <= C[i].end.locwindow
      /\ C[i].end.remwindow + Moving(V, W, k) <= 1
  BY <1>1, <1>3 DEF Half, Credit
<1>8. ~C[i].end.gone => Num(W, k, "request") + Num(V, k, "failure") <= Len(C[i].end.chanreqs)
  BY <1>1, <1>3 DEF Half, Recorded
<1>12. /\ Num(V, k, "data") + (Num(W, k, "adjust") + Num(W, k, "confirmation")) <= C[i].end.locwindow
       /\ C[i].end.remwindow + (Num(W, k, "data") + (Num(V, k, "adjust") + Num(V, k, "confirmation"))) <= 1
  BY <1>7 DEF Moving
<1>13. \A kind : Num(V, k, kind) \in Nat /\ Num(W, k, kind) \in Nat
  BY <1>4
<1> HIDE DEF i, k
<1>9. V[1].kind = "data" => C[i].end.locwindow = 1
  BY <1>13, <1>5, <1>6, <1>12
<1>10. V[1].kind = "adjust" => C[i].end.remwindow = 0
  BY <1>13, <1>5, <1>6, <1>12
<1>11. V[1].kind = "failure" /\ ~C[i].end.gone => Len(C[i].end.chanreqs) >= 1
  BY <1>4, <1>5, <1>6, <1>8
<1> QED BY <1>3, <1>9, <1>10, <1>11 DEF i, k

\* What is left of a queue when its head is taken.
LEMMA TailFacts ==
    ASSUME NEW n, NEW V, Mail(V, n), V # <<>>
    PROVE  /\ Mail(Tail(V), n) /\ Len(V) \in Nat /\ DOMAIN V = 1..Len(V) /\ Len(V) >= 1
           /\ DOMAIN Tail(V) = 1..(Len(V) - 1) /\ Len(Tail(V)) = Len(V) - 1
           /\ \A x \in DOMAIN Tail(V) : x + 1 \in DOMAIN V /\ Tail(V)[x] = V[x + 1]
           /\ \A x \in DOMAIN V : x # 1 => x - 1 \in DOMAIN Tail(V) /\ Tail(V)[x - 1] = V[x]
           /\ Order(V) => Order(Tail(V))
<1>1. /\ Tail(V) \in Seq(Letter) /\ Len(V) \in Nat /\ DOMAIN V = 1..Len(V) /\ Len(V) >= 1
      /\ DOMAIN Tail(V) = 1..(Len(V) - 1) /\ Len(Tail(V)) = Len(V) - 1
      /\ \A x \in DOMAIN Tail(V) : Tail(V)[x] = V[x + 1]
  BY DEF Mail
<1>2. /\ \A x \in DOMAIN Tail(V) : x + 1 \in DOMAIN V
      /\ \A x \in DOMAIN V : x # 1 => x - 1 \in DOMAIN Tail(V) /\ Tail(V)[x - 1] = V[x]
  BY <1>1
<1>3. Mail(Tail(V), n)
  BY <1>1, <1>2 DEF Mail
<1>4. Order(V) => Order(Tail(V))
  <2> SUFFICES ASSUME Order(V), NEW x \in DOMAIN Tail(V), NEW y \in DOMAIN Tail(V), x < y,
                      Tail(V)[x].inc = Tail(V)[y].inc
               PROVE  /\ Tail(V)[x].kind # "close"
                      /\ Tail(V)[x].kind = "eof" => Tail(V)[y].kind \notin {"data", "eof"}
    BY DEF Order
  <2>1. x + 1 < y + 1 /\ x + 1 \in DOMAIN V /\ y + 1 \in DOMAIN V
    BY <1>1, <1>2
  <2> QED BY <2>1, <1>1 DEF Order
<1> QED BY <1>1, <1>2, <1>3, <1>4

\* A confirmation that is still to be read is not the head that is taken.
LEMMA ConfirmingTail ==
    ASSUME NEW n, NEW V, Mail(V, n), V # <<>>, NEW k, NEW x \in Int, Confirming(V, k, x + 1),
           V[1].kind # "confirmation" \/ V[1].inc # k
    PROVE  Confirming(Tail(V), k, x)
<1>1. PICK y \in DOMAIN V : y < x + 1 /\ V[y].inc = k /\ V[y].kind = "confirmation"
  BY DEF Confirming
<1>2. y # 1
  BY <1>1
<1>6. /\ Len(V) \in Nat /\ DOMAIN V = 1..Len(V)
      /\ \A z \in DOMAIN V : z # 1 => z - 1 \in DOMAIN Tail(V) /\ Tail(V)[z - 1] = V[z]
  BY TailFacts
<1>3. y - 1 \in DOMAIN Tail(V) /\ Tail(V)[y - 1] = V[y]
  BY <1>2, <1>6
<1>5. y \in Int
  BY <1>6
<1>4. y - 1 < x
  BY <1>1, <1>5
<1> QED BY <1>1, <1>3, <1>4 DEF Confirming

\* What an end may do as it takes a packet of a kind
Takes(c, d, kind) ==
    /\ d.halfopen = c.halfopen /\ d.sent_eof = c.sent_eof /\ d.sent_close = c.sent_close
    /\ d.remwindow <= c.remwindow + One(kind, "adjust")
    /\ d.locwindow + One(kind, "data") >= c.locwindow
    /\ ~d.gone => ~c.gone /\ Len(d.chanreqs) + One(kind, "failure") >= Len(c.chanreqs)

\* The count of what is left when the head is taken.
LEMMA TailNums ==
    ASSUME NEW n, NEW V, NEW W, Mail(V, n), Mail(W, n), V # <<>>, NEW k, NEW kind
    PROVE  /\ Num(V, k, kind) \in Nat /\ Num(W, k, kind) \in Nat /\ Num(Tail(V), k, kind) \in Nat
           /\ V[1].inc = k /\ V[1].kind = kind => Num(V, k, kind) = Num(Tail(V), k, kind) + 1
           /\ ~(V[1].inc = k /\ V[1].kind = kind) => Num(V, k, kind) = Num(Tail(V), k, kind)
<1>1. V \in Seq(Letter) /\ W \in Seq(Letter) /\ Tail(V) \in Seq(Letter)
  BY TailFacts DEF Mail
<1>2. Num(V, k, kind) \in Nat /\ Num(W, k, kind) \in Nat /\ Num(Tail(V), k, kind) \in Nat
  BY <1>1, NumType
<1>3. Num(V, k, kind) = Num(Tail(V), k, kind) + IF V[1].inc = k /\ V[1].kind = kind THEN 1 ELSE 0
  BY <1>1, NumTail
<1> QED BY <1>2, <1>3

\* The permissions to send data that are left when the head is taken.
LEMMA TailMoving ==
    ASSUME NEW n, NEW V, NEW W, Mail(V, n), Mail(W, n), V # <<>>, NEW k
    PROVE  /\ Moving(V, W, k) \in Nat /\ Moving(W, V, k) \in Nat
           /\ Moving(Tail(V), W, k) \in Nat /\ Moving(W, Tail(V), k) \in Nat
           /\ Moving(Tail(V), W, k) <= Moving(V, W, k) /\ Moving(W, Tail(V), k) <= Moving(W, V, k)
           /\ V[1].inc = k /\ V[1].kind \in {"adjust", "confirmation"} =>
                 Moving(V, W, k) = Moving(Tail(V), W, k) + 1
           /\ V[1].inc = k /\ V[1].kind = "data" => Moving(W, V, k) = Moving(W, Tail(V), k) + 1
<1> DEFINE T == Tail(V)
<1>2. ASSUME NEW kind
      PROVE  /\ Num(V, k, kind) \in Nat /\ Num(W, k, kind) \in Nat /\ Num(T, k, kind) \in Nat
             /\ V[1].inc = k /\ V[1].kind = kind => Num(V, k, kind) = Num(T, k, kind) + 1
             /\ ~(V[1].inc = k /\ V[1].kind = kind) => Num(V, k, kind) = Num(T, k, kind)
  BY TailNums
<1> HIDE DEF T
<1>3. /\ Moving(V, W, k) \in Nat /\ Moving(W, V, k) \in Nat
      /\ Moving(T, W, k) \in Nat /\ Moving(W, T, k) \in Nat
  <2>1. Mail(T, n)
    BY TailFacts DEF T
  <2> QED BY <2>1, MailCounts
<1>4. \A kind : Num(T, k, kind) <= Num(V, k, kind)
  BY <1>2
<1>5. /\ Moving(T, W, k) <= Moving(V, W, k) /\ Moving(W, T, k) <= Moving(W, V, k)
  <2>1. /\ Num(T, k, "data") <= Num(V, k, "data") /\ Num(T, k, "adjust") <= Num(V, k, "adjust")
        /\ Num(T, k, "confirmation") <= Num(V, k, "confirmation")
    BY <1>4
  <2>2. \A kind : Num(V, k, kind) \in Nat /\ Num(W, k, kind) \in Nat /\ Num(T, k, kind) \in Nat
    BY <1>2
  <2> QED BY <2>1, <2>2 DEF Moving
<1>6. CASE V[1].inc = k /\ V[1].kind = "adjust"
  <2>1. /\ Num(V, k, "adjust") = Num(T, k, "adjust") + 1
        /\ Num(V, k, "confirmation") = Num(T, k, "confirmation")
    BY <1>2, <1>6
  <2>2. \A kind : Num(W, k, kind) \in Nat /\ Num(T, k, kind) \in Nat
    BY <1>2
  <2>3. Moving(V, W, k) = Moving(T, W, k) + 1
    BY <2>1, <2>2 DEF Moving
  <2> QED BY <1>2, <1>3, <1>5, <1>6, <2>3 DEF T
<1>7. CASE V[1].inc = k /\ V[1].kind = "confirmation"
  <2>1. /\ Num(V, k, "confirmation") = Num(T, k, "confirmation") + 1
        /\ Num(V, k, "adjust") = Num(T, k, "adjust")
    BY <1>2, <1>7
  <2>2. \A kind : Num(W, k, kind) \in Nat /\ Num(T, k, kind) \in Nat
    BY <1>2
  <2>3. Moving(V, W, k) = Moving(T, W, k) + 1
    BY <2>1, <2>2 DEF Moving
  <2> QED BY <1>2, <1>3, <1>5, <1>7, <2>3 DEF T
<1>8. CASE V[1].inc = k /\ V[1].kind = "data"
  <2>1. Num(V, k, "data") = Num(T, k, "data") + 1
    BY <1>2, <1>8
  <2>2. \A kind : Num(W, k, kind) \in Nat /\ Num(T, k, kind) \in Nat
    BY <1>2
  <2>3. Moving(W, V, k) = Moving(W, T, k) + 1
    BY <2>1, <2>2 DEF Moving
  <2> QED BY <1>2, <1>3, <1>5, <1>8, <2>3 DEF T
<1>9. CASE ~(V[1].inc = k /\ V[1].kind \in {"adjust", "confirmation", "data"})
  BY <1>2, <1>3, <1>5, <1>9 DEF T
<1> QED BY <1>6, <1>7, <1>8, <1>9

\* How ends may change as the packet m is taken
Taken(B, C, m, n) ==
    /\ Tree(B, n) /\ DOMAIN B = DOMAIN C
    /\ \A j \in DOMAIN C : /\ B[j].inc = C[j].inc /\ B[j].remoteid = C[j].remoteid
                           /\ B[j].end.packets = <<>> /\ Sound(B[j].end)
                           /\ Takes(C[j].end, B[j].end, IF C[j].inc = m.inc THEN m.kind ELSE "none")

\* A packet is taken, by the end that it cites if it cites one.
LEMMA DropAgrees ==
    ASSUME NEW n \in Nat, NEW C, NEW D, NEW V, NEW W, Agree(C, D, V, W, n), V # <<>>,
           V[1].kind # "confirmation", NEW B, Taken(B, C, V[1], n)
    PROVE  /\ Agree(B, D, Tail(V), W, n)
           /\ V[1].kind = "request" =>
               \A j \in DOMAIN D : D[j].inc = V[1].inc /\ ~D[j].end.gone =>
                   Num(Tail(V), V[1].inc, "request") + Num(W, V[1].inc, "failure") + 1 <= Len(D[j].end.chanreqs)
<1> DEFINE T == Tail(V)
           k == V[1].inc
<1>1. Half(C, D, V, W, n) /\ Half(D, C, W, V, n)
  BY DEF Agree
<1>2. Ends(C, n) /\ Mail(V, n) /\ Mail(W, n) /\ Ends(D, n)
  BY <1>1 DEF Half
<1>3. /\ DOMAIN B = DOMAIN C
      /\ \A j \in DOMAIN C : B[j].inc = C[j].inc /\ B[j].remoteid = C[j].remoteid
  BY DEF Taken
<1>4. Ends(B, n)
  BY <1>2 DEF Taken, Ends, Tree
<1>5. /\ Mail(T, n) /\ Len(V) \in Nat /\ DOMAIN V = 1..Len(V) /\ Len(V) >= 1
      /\ DOMAIN T = 1..(Len(V) - 1) /\ Len(T) = Len(V) - 1
      /\ \A x \in DOMAIN T : x + 1 \in DOMAIN V /\ T[x] = V[x + 1]
  BY <1>2, TailFacts
<1>30. Order(T)
  <2>1. Order(V)
    BY <1>1 DEF Half
  <2> QED BY <2>1, <1>2, TailFacts
<1>6. \A j \in DOMAIN C : /\ B[j].end.halfopen = C[j].end.halfopen
                          /\ B[j].end.sent_eof = C[j].end.sent_eof
                          /\ B[j].end.sent_close = C[j].end.sent_close
  BY DEF Takes, Taken
<1>7. ASSUME NEW j, NEW x \in Int, Confirming(V, j, x + 1)
      PROVE  Confirming(T, j, x)
  BY <1>2, <1>7, ConfirmingTail
<1> HIDE DEF T
<1>8. Opens(B, D, T, W)
  <2>1. Opens(C, D, V, W)
    BY <1>1 DEF Half
  <2> SUFFICES ASSUME NEW x \in DOMAIN T, T[x].kind = "open"
               PROVE  /\ T[x].from \in DOMAIN D /\ D[T[x].from].inc = T[x].inc /\ D[T[x].from].end.halfopen
                      /\ T[x].req \in {c.vt : c \in Kinds}
                      /\ \A j \in DOMAIN B : B[j].inc # T[x].inc
                      /\ \A y \in DOMAIN T : T[y].inc = T[x].inc => y = x
                      /\ \A y \in DOMAIN W : W[y].inc # T[x].inc
    BY DEF Opens
  <2>2. x + 1 \in DOMAIN V /\ T[x] = V[x + 1]
    BY <1>5
  <2>3. \A y \in DOMAIN T : T[y].inc = T[x].inc => y = x
    BY <2>1, <2>2, <1>5 DEF Opens
  <2> QED BY <2>1, <2>2, <2>3, <1>3, <1>4 DEF Opens
<1>9. Opens(D, B, W, T)
  BY <1>1, <1>3, <1>4, <1>5, <1>6 DEF Half, Opens
<1>10. Answers(B, D, T, W)
  <2>1. Answers(C, D, V, W)
    BY <1>1 DEF Half
  <2> SUFFICES ASSUME NEW x \in DOMAIN T, T[x].kind \in Answer
               PROVE  /\ T[x].to \in DOMAIN B /\ B[T[x].to].inc = T[x].inc /\ B[T[x].to].end.halfopen
                      /\ \A y \in DOMAIN T : T[y].inc = T[x].inc => x <= y
                      /\ \A y \in DOMAIN W : W[y].inc # T[x].inc
                      /\ T[x].kind = "confirmation" =>
                            T[x].from \in DOMAIN D /\ D[T[x].from].inc = T[x].inc /\ ~D[T[x].from].end.halfopen
                      /\ T[x].kind = "open-failure" =>
                            /\ \A j \in DOMAIN D : D[j].inc # T[x].inc
                            /\ \A y \in DOMAIN T : T[y].inc = T[x].inc => y = x
    BY DEF Answers
  <2>2. x + 1 \in DOMAIN V /\ T[x] = V[x + 1]
    BY <1>5
  <2>3. \A y \in DOMAIN T : T[y].inc = T[x].inc => x <= y
    BY <2>1, <2>2, <1>5 DEF Answers
  <2>4. T[x].kind = "open-failure" => \A y \in DOMAIN T : T[y].inc = T[x].inc => y = x
    BY <2>1, <2>2, <1>5 DEF Answers
  <2> QED BY <2>1, <2>2, <2>3, <2>4, <1>3, <1>4, <1>6 DEF Answers
<1>11. Answers(D, B, W, T)
  BY <1>1, <1>3, <1>4, <1>5, <1>6 DEF Half, Answers
<1>12. Plains(B, T)
  <2>1. Plains(C, V)
    BY <1>1 DEF Half
  <2> SUFFICES ASSUME NEW x \in DOMAIN T, T[x].kind \in Plain
               PROVE  /\ T[x].to \in DOMAIN B /\ B[T[x].to].inc = T[x].inc
                      /\ B[T[x].to].end.halfopen => Confirming(T, T[x].inc, x)
    BY DEF Plains
  <2>2. x + 1 \in DOMAIN V /\ T[x] = V[x + 1] /\ x \in Int
    BY <1>5
  <2>3. Confirming(V, T[x].inc, x + 1) => Confirming(T, T[x].inc, x)
    BY <2>2, <1>7
  <2> QED BY <2>1, <2>2, <2>3, <1>3, <1>4, <1>6 DEF Plains
<1>13. Plains(D, W)
  BY <1>1 DEF Half
<1>14. Order(W) /\ Marks(B, W) /\ Marks(D, T)
  BY <1>1, <1>3, <1>4, <1>5, <1>6 DEF Half, Marks
<1>15. Peers(B, D, W)
  BY <1>1, <1>3, <1>4, <1>6 DEF Half, Peers
<1>16. Peers(D, B, T)
  <2>1. Peers(D, C, V)
    BY <1>1 DEF Half
  <2>2. ASSUME NEW j \in DOMAIN D, Confirming(V, D[j].inc, Len(V) + 1)
        PROVE  Confirming(T, D[j].inc, Len(T) + 1)
    <3>1. Len(V) \in Int /\ Len(T) + 1 = Len(V)
      BY <1>5
    <3>2. Confirming(T, D[j].inc, Len(V))
      BY <2>2, <3>1, <1>7
    <3> QED BY <3>1, <3>2
  <2> QED BY <2>1, <2>2, <1>3, <1>4, <1>5, <1>6 DEF Peers
<1>17. ASSUME NEW j, NEW kind
       PROVE  /\ Num(V, j, kind) \in Nat /\ Num(W, j, kind) \in Nat /\ Num(T, j, kind) \in Nat
              /\ V[1].inc = j /\ V[1].kind = kind => Num(V, j, kind) = Num(T, j, kind) + 1
              /\ ~(V[1].inc = j /\ V[1].kind = kind) => Num(V, j, kind) = Num(T, j, kind)
  BY <1>2, TailNums DEF T
<1>31. ASSUME NEW j
       PROVE  /\ Moving(V, W, j) \in Nat /\ Moving(W, V, j) \in Nat
              /\ Moving(T, W, j) \in Nat /\ Moving(W, T, j) \in Nat
              /\ Moving(T, W, j) <= Moving(V, W, j) /\ Moving(W, T, j) <= Moving(W, V, j)
              /\ V[1].inc = j /\ V[1].kind \in {"adjust", "confirmation"} =>
                    Moving(V, W, j) = Moving(T, W, j) + 1
              /\ V[1].inc = j /\ V[1].kind = "data" => Moving(W, V, j) = Moving(W, T, j) + 1
  BY <1>2, TailMoving DEF T
<1>18. \A j \in DOMAIN C : /\ C[j].end.remwindow \in 0..1 /\ C[j].end.locwindow \in 0..1
                           /\ Len(C[j].end.chanreqs) \in Nat
                           /\ B[j].end.remwindow \in 0..1 /\ B[j].end.locwindow \in 0..1
                           /\ Len(B[j].end.chanreqs) \in Nat
  BY <1>2, <1>3, <1>4, EndTypes
<1>19. \A j \in DOMAIN D : /\ D[j].end.remwindow \in 0..1 /\ D[j].end.locwindow \in 0..1
                           /\ Len(D[j].end.chanreqs) \in Nat
  BY <1>2, EndTypes
<1>20. Recorded(B, T, W)
  <2> SUFFICES ASSUME NEW j \in DOMAIN C, ~B[j].end.gone
               PROVE  Num(W, C[j].inc, "request") + Num(T, C[j].inc, "failure") <= Len(B[j].end.chanreqs)
    BY <1>3, <1>4 DEF Recorded
  <2> DEFINE kind == IF C[j].inc = k THEN V[1].kind ELSE "none"
             less == Len(C[j].end.chanreqs)
             more == Len(B[j].end.chanreqs)
             one == One(kind, "failure")
  <2>1. ~C[j].end.gone /\ more + one >= less
    BY DEF Taken, Takes
  <2>2. Num(W, C[j].inc, "request") + Num(V, C[j].inc, "failure") <= less
    BY <1>1, <2>1 DEF Half, Recorded
  <2>3. Num(V, C[j].inc, "failure") = Num(T, C[j].inc, "failure") + one
    BY <1>17 DEF One
  <2>4. one \in Nat /\ less \in Nat /\ more \in Nat
    BY <1>18 DEF One
  <2>5. Num(W, C[j].inc, "request") \in Nat /\ Num(T, C[j].inc, "failure") \in Nat
    BY <1>17
  <2> HIDE DEF k, one, less, more
  <2>6. Num(W, C[j].inc, "request") + Num(T, C[j].inc, "failure") <= more
    BY <2>1, <2>2, <2>3, <2>4, <2>5
  <2> QED BY <2>6 DEF more
<1>21. ASSUME NEW j \in DOMAIN D, ~D[j].end.gone
       PROVE  Num(T, D[j].inc, "request") + Num(W, D[j].inc, "failure") +
                  (IF D[j].inc = k /\ V[1].kind = "request" THEN 1 ELSE 0) <= Len(D[j].end.chanreqs)
  <2>1. Num(V, D[j].inc, "request") + Num(W, D[j].inc, "failure") <= Len(D[j].end.chanreqs)
    BY <1>1, <1>21 DEF Half, Recorded
  <2>2. /\ Num(T, D[j].inc, "request") \in Nat /\ Num(W, D[j].inc, "failure") \in Nat
        /\ Num(V, D[j].inc, "request") \in Nat
    BY <1>17
  <2>3. CASE D[j].inc = k /\ V[1].kind = "request"
    <3>1. Num(V, D[j].inc, "request") = Num(T, D[j].inc, "request") + 1
      BY <2>3, <1>17
    <3> QED BY <2>1, <2>2, <2>3, <3>1, <1>19
  <2>4. CASE ~(D[j].inc = k /\ V[1].kind = "request")
    <3>1. Num(V, D[j].inc, "request") = Num(T, D[j].inc, "request")
      BY <2>4, <1>17
    <3> QED BY <2>1, <2>2, <2>4, <3>1, <1>19
  <2> QED BY <2>3, <2>4
<1>22. Recorded(D, W, T)
  <2> SUFFICES ASSUME NEW j \in DOMAIN D, ~D[j].end.gone
               PROVE  Num(T, D[j].inc, "request") + Num(W, D[j].inc, "failure") <= Len(D[j].end.chanreqs)
    BY DEF Recorded
  <2>1. /\ Num(T, D[j].inc, "request") \in Nat /\ Num(W, D[j].inc, "failure") \in Nat
    BY <1>17
  <2> QED BY <2>1, <1>19, <1>21
<1>23. ASSUME NEW j \in DOMAIN C
       PROVE  /\ B[j].end.remwindow + Moving(T, W, C[j].inc) <= C[j].end.remwindow + Moving(V, W, C[j].inc)
              /\ C[j].end.locwindow - Moving(W, V, C[j].inc) <= B[j].end.locwindow - Moving(W, T, C[j].inc)
  <2> DEFINE kind == IF C[j].inc = k THEN V[1].kind ELSE "none"
             one == One(kind, "adjust")
             two == One(kind, "data")
             r1 == C[j].end.remwindow
             r2 == B[j].end.remwindow
             l1 == C[j].end.locwindow
             l2 == B[j].end.locwindow
             t1 == Moving(T, W, C[j].inc)
             t2 == Moving(W, T, C[j].inc)
             v1 == Moving(V, W, C[j].inc)
             v2 == Moving(W, V, C[j].inc)
  <2>1. r2 <= r1 + one /\ l2 + two >= l1
    BY DEF Taken, Takes
  <2>2. t1 + one <= v1 /\ t2 + two <= v2
    BY <1>31 DEF One
  <2>3. one \in Nat /\ two \in Nat /\ r1 \in Nat /\ r2 \in Nat /\ l1 \in Nat /\ l2 \in Nat
    BY <1>18 DEF One
  <2>4. t1 \in Nat /\ t2 \in Nat /\ v1 \in Nat /\ v2 \in Nat
    BY <1>31
  <2> HIDE DEF k, one, two, r1, r2, l1, l2, t1, t2, v1, v2
  <2>5. r2 + t1 <= r1 + v1 /\ l1 - v2 <= l2 - t2
    BY <2>1, <2>2, <2>3, <2>4
  <2> QED BY <2>5 DEF r1, r2, l1, l2, t1, t2, v1, v2
<1>24. Credit(B, D, T, W)
  <2>1. Credit(C, D, V, W)
    BY <1>1 DEF Half
  <2>2. \A j \in DOMAIN C : B[j].end.remwindow + Moving(T, W, C[j].inc) \in Nat
                              /\ C[j].end.remwindow + Moving(V, W, C[j].inc) \in Nat
    BY <1>31, <1>18
  <2>3. \A j \in DOMAIN C : B[j].end.remwindow + Moving(T, W, C[j].inc) <= 1
    BY <2>1, <2>2, <1>23 DEF Credit
  <2>4. \A j \in DOMAIN D : Moving(T, W, D[j].inc) <= D[j].end.locwindow
    <3> SUFFICES ASSUME NEW j \in DOMAIN D
                 PROVE  Moving(T, W, D[j].inc) <= D[j].end.locwindow
      OBVIOUS
    <3>1. Moving(V, W, D[j].inc) <= D[j].end.locwindow
      BY <2>1 DEF Credit
    <3> QED BY <3>1, <1>31, <1>19
  <2>5. ASSUME NEW j \in DOMAIN C, NEW l \in DOMAIN D, C[j].inc = D[l].inc
        PROVE  B[j].end.remwindow + Moving(T, W, C[j].inc) <= D[l].end.locwindow
    <3>1. C[j].end.remwindow + Moving(V, W, C[j].inc) <= D[l].end.locwindow
      BY <2>1, <2>5 DEF Credit
    <3> QED BY <3>1, <2>2, <1>19, <1>23
  <2> QED BY <2>3, <2>4, <2>5, <1>3, <1>4 DEF Credit
<1>25. Credit(D, B, W, T)
  <2>1. Credit(D, C, W, V)
    BY <1>1 DEF Half
  <2>2. \A j \in DOMAIN D : D[j].end.remwindow + Moving(W, T, D[j].inc) <= 1
    <3> SUFFICES ASSUME NEW j \in DOMAIN D
                 PROVE  D[j].end.remwindow + Moving(W, T, D[j].inc) <= 1
      OBVIOUS
    <3>1. D[j].end.remwindow + Moving(W, V, D[j].inc) <= 1
      BY <2>1 DEF Credit
    <3> QED BY <3>1, <1>31, <1>19
  <2>3. \A j \in DOMAIN C : Moving(W, T, C[j].inc) <= B[j].end.locwindow
    <3> SUFFICES ASSUME NEW j \in DOMAIN C
                 PROVE  Moving(W, T, C[j].inc) <= B[j].end.locwindow
      OBVIOUS
    <3>1. Moving(W, V, C[j].inc) <= C[j].end.locwindow
      BY <2>1 DEF Credit
    <3>2. C[j].end.locwindow - Moving(W, V, C[j].inc) <= B[j].end.locwindow - Moving(W, T, C[j].inc)
      BY <1>23
    <3> QED BY <3>1, <3>2, <1>31, <1>18
  <2>4. ASSUME NEW j \in DOMAIN D, NEW l \in DOMAIN C, D[j].inc = C[l].inc
        PROVE  D[j].end.remwindow + Moving(W, T, D[j].inc) <= B[l].end.locwindow
    <3>1. D[j].end.remwindow + Moving(W, V, C[l].inc) <= C[l].end.locwindow
      BY <2>1, <2>4 DEF Credit
    <3>2. C[l].end.locwindow - Moving(W, V, C[l].inc) <= B[l].end.locwindow - Moving(W, T, C[l].inc)
      BY <1>23
    <3>3. D[j].end.remwindow + Moving(W, T, C[l].inc) <= B[l].end.locwindow
      BY <3>1, <3>2, <1>31, <1>18, <1>19
    <3> QED BY <3>3, <2>4
  <2> QED BY <2>2, <2>3, <2>4, <1>3, <1>4 DEF Credit
<1>26. Agree(B, D, T, W, n)
  BY <1>2, <1>4, <1>5, <1>8, <1>9, <1>10, <1>11, <1>12, <1>13, <1>14, <1>15, <1>16, <1>20, <1>22, <1>30,
     <1>24, <1>25 DEF Agree, Half
<1>27. V[1].kind = "request" =>
           \A j \in DOMAIN D : D[j].inc = k /\ ~D[j].end.gone =>
               Num(T, k, "request") + Num(W, k, "failure") + 1 <= Len(D[j].end.chanreqs)
  <2> SUFFICES ASSUME V[1].kind = "request", NEW j \in DOMAIN D, D[j].inc = k, ~D[j].end.gone
               PROVE  Num(T, k, "request") + Num(W, k, "failure") + 1 <= Len(D[j].end.chanreqs)
    OBVIOUS
  <2> QED BY <1>21
<1> QED BY <1>26, <1>27 DEF T

\* The permissions in transit when a packet is added.
LEMMA AppendMoving ==
    ASSUME NEW n, NEW V, NEW W, Mail(V, n), Mail(W, n), NEW m \in Letter, NEW k
    PROVE  /\ Moving(V, W, k) \in Nat /\ Moving(W, V, k) \in Nat
           /\ Moving(V, Append(W, m), k) =
                 Moving(V, W, k) + IF m.inc = k /\ m.kind = "data" THEN 1 ELSE 0
           /\ Moving(Append(W, m), V, k) =
                 Moving(W, V, k) + IF m.inc = k /\ m.kind \in {"adjust", "confirmation"} THEN 1 ELSE 0
<1> DEFINE X == Append(W, m)
<1>1. V \in Seq(Letter) /\ W \in Seq(Letter)
  BY DEF Mail
<1>2. ASSUME NEW kind
      PROVE  /\ Num(V, k, kind) \in Nat /\ Num(W, k, kind) \in Nat
             /\ Num(X, k, kind) = Num(W, k, kind) + IF m.inc = k /\ m.kind = kind THEN 1 ELSE 0
  BY <1>1, NumType, NumAppend
<1> HIDE DEF X
<1>3. Moving(V, W, k) \in Nat /\ Moving(W, V, k) \in Nat
  BY <1>2 DEF Moving
<1>4. Moving(V, X, k) = Moving(V, W, k) + IF m.inc = k /\ m.kind = "data" THEN 1 ELSE 0
  <2>1. /\ Num(X, k, "data") = Num(W, k, "data") + IF m.inc = k /\ m.kind = "data" THEN 1 ELSE 0
        /\ Num(W, k, "data") \in Nat /\ Num(V, k, "adjust") \in Nat /\ Num(V, k, "confirmation") \in Nat
    BY <1>2
  <2> QED BY <2>1 DEF Moving
<1>5. Moving(X, V, k) = Moving(W, V, k) + IF m.inc = k /\ m.kind \in {"adjust", "confirmation"} THEN 1 ELSE 0
  <2>1. /\ Num(X, k, "adjust") = Num(W, k, "adjust") + IF m.inc = k /\ m.kind = "adjust" THEN 1 ELSE 0
        /\ Num(X, k, "confirmation") =
              Num(W, k, "confirmation") + IF m.inc = k /\ m.kind = "confirmation" THEN 1 ELSE 0
        /\ Num(V, k, "data") \in Nat /\ Num(W, k, "adjust") \in Nat /\ Num(W, k, "confirmation") \in Nat
    BY <1>2
  <2> QED BY <2>1 DEF Moving
<1> QED BY <1>3, <1>4, <1>5 DEF X

\* Nothing in transit counts for a channel that nothing in transit is of.
LEMMA NothingMoving ==
    ASSUME NEW n, NEW V, NEW W, Mail(V, n), Mail(W, n), NEW k,
           \A x \in DOMAIN V : V[x].inc # k, \A x \in DOMAIN W : W[x].inc # k
    PROVE  /\ \A kind : Num(V, k, kind) = 0 /\ Num(W, k, kind) = 0
           /\ Moving(V, W, k) = 0 /\ Moving(W, V, k) = 0
<1>1. \A kind : Num(V, k, kind) = 0 /\ Num(W, k, kind) = 0
  BY NumZero DEF Mail
<1> QED BY <1>1 DEF Moving

\* The packet that opens, accepts or refuses channel k, of which nothing is known at this side
\* nor in transit, and the channels B that are left
Introduces(B, C, D, m, n) ==
    /\ Tree(B, n) /\ DOMAIN C \subseteq DOMAIN B /\ \A i \in DOMAIN C : B[i] = C[i]
    /\ m \in Letter /\ m.inc \in 1..n /\ m.kind \in Answer \cup {"open"}
    /\ m.kind = "open" => \A j \in DOMAIN D : D[j].inc # m.inc
    /\ m.kind = "open" => m.req \in {k.vt : k \in Kinds}
    /\ m.kind \in Answer => m.to \in DOMAIN D /\ D[m.to].inc = m.inc /\ D[m.to].end.halfopen
    /\ m.kind = "open-failure" => DOMAIN B = DOMAIN C
    /\ m.kind # "open-failure" =>
          /\ m.from \notin DOMAIN C /\ DOMAIN B = DOMAIN C \cup {m.from}
          /\ B[m.from].inc = m.inc /\ B[m.from].end.packets = <<>> /\ Sound(B[m.from].end)
          /\ ~B[m.from].end.sent_eof /\ ~B[m.from].end.sent_close /\ ~B[m.from].end.gone
          /\ B[m.from].end.locwindow = 1
          /\ m.kind = "open" <=> B[m.from].end.halfopen
          /\ m.kind = "confirmation" => B[m.from].remoteid = m.to

\* The first packet of a channel at this side keeps the agreement.
LEMMA IntroduceAgrees ==
    ASSUME NEW o \in Nat, NEW n \in Nat, o <= n, NEW C, NEW D, NEW V, NEW W, Agree(C, D, V, W, o),
           NEW B, NEW m, Introduces(B, C, D, m, n),
           \A i \in DOMAIN C : C[i].inc # m.inc, \A x \in DOMAIN V : V[x].inc # m.inc,
           \A x \in DOMAIN W : W[x].inc # m.inc
    PROVE  Agree(B, D, V, Append(W, m), n)
<1> DEFINE X == Append(W, m)
           k == m.inc
           i == m.from
<1>1. Half(C, D, V, W, o) /\ Half(D, C, W, V, o)
  BY DEF Agree
<1>2. Ends(C, o) /\ Mail(V, o) /\ Mail(W, o) /\ Ends(D, o)
  BY <1>1 DEF Half
<1>3. 1..o \subseteq 1..n
  OBVIOUS
<1>4. Ends(D, n) /\ Mail(V, n)
  BY <1>2, <1>3 DEF Ends, Mail
<1>5. /\ W \in Seq(Letter) /\ X \in Seq(Letter) /\ Len(W) \in Nat
      /\ DOMAIN W = 1..Len(W) /\ DOMAIN X = 1..(Len(W) + 1) /\ Len(X) = Len(W) + 1
      /\ \A x \in DOMAIN W : X[x] = W[x]
      /\ X[Len(W) + 1] = m
  BY <1>2 DEF Mail, Introduces
<1>6. /\ m \in Letter /\ k \in 1..n /\ m.kind \in {"open", "confirmation", "open-failure"}
      /\ m.kind \notin Plain
  BY DEF Introduces, Answer, Plain
<1>7. /\ \A j \in DOMAIN C : j \in DOMAIN B /\ B[j] = C[j] /\ C[j].inc # k
      /\ \A j \in DOMAIN B \ DOMAIN C : j = i /\ m.kind # "open-failure"
      /\ m.kind # "open-failure" =>
            /\ i \notin DOMAIN C /\ i \in DOMAIN B /\ B[i].inc = k /\ B[i].end.packets = <<>> /\ Sound(B[i].end)
            /\ ~B[i].end.sent_eof /\ ~B[i].end.sent_close /\ B[i].end.locwindow = 1 /\ ~B[i].end.gone
            /\ m.kind = "open" <=> B[i].end.halfopen
            /\ m.kind = "confirmation" => B[i].remoteid = m.to
  BY DEF Introduces
<1>8. /\ \A x \in DOMAIN V : V[x].inc # k
      /\ \A x \in DOMAIN W : W[x].inc # k
  OBVIOUS
<1>9. /\ m.kind = "open" => m.req \in {c.vt : c \in Kinds} /\ \A j \in DOMAIN D : D[j].inc # k
      /\ m.kind \in Answer => m.to \in DOMAIN D /\ D[m.to].inc = k /\ D[m.to].end.halfopen
      /\ m.kind \in Answer => \A j \in DOMAIN D : D[j].inc = k => j = m.to
  BY <1>2 DEF Introduces, Ends
<1> HIDE DEF X, k, i
<1>10. Ends(B, n)
  <2>1. Tree(B, n)
    BY DEF Introduces
  <2>2. \A j \in DOMAIN B : B[j].end.packets = <<>> /\ Sound(B[j].end)
    BY <1>2, <1>7 DEF Ends
  <2>3. \A j, l \in DOMAIN B : B[j].inc = B[l].inc => j = l
    BY <1>2, <1>7 DEF Ends
  <2> QED BY <2>1, <2>2, <2>3 DEF Ends, Tree
<1>11. Mail(X, n)
  <2>1. m.inc \in 1..n /\ m.kind \notin {"request", "failure"}
    BY <1>6 DEF k
  <2> QED BY <2>1, <1>2, <1>3, <1>5 DEF Mail
<1>12. m.inc = k /\ m.from = i
  BY DEF k, i
<1>13. Opens(B, D, V, X)
  <2>1. Opens(C, D, V, W)
    BY <1>1 DEF Half
  <2>2. ASSUME NEW x \in DOMAIN V, V[x].kind = "open"
        PROVE  (\A j \in DOMAIN B : B[j].inc # V[x].inc) /\ (\A y \in DOMAIN X : X[y].inc # V[x].inc)
    BY <2>1, <2>2, <1>5, <1>7, <1>8, <1>12 DEF Opens
  <2> QED BY <2>1, <2>2 DEF Opens
<1>14. Opens(D, B, X, V)
  <2>1. Opens(D, C, W, V)
    BY <1>1 DEF Half
  <2> SUFFICES ASSUME NEW x \in DOMAIN X, X[x].kind = "open"
               PROVE  /\ X[x].from \in DOMAIN B /\ B[X[x].from].inc = X[x].inc /\ B[X[x].from].end.halfopen
                      /\ X[x].req \in {c.vt : c \in Kinds}
                      /\ \A j \in DOMAIN D : D[j].inc # X[x].inc
                      /\ \A y \in DOMAIN X : X[y].inc = X[x].inc => y = x
                      /\ \A y \in DOMAIN V : V[y].inc # X[x].inc
    BY DEF Opens
  <2>2. CASE x \in DOMAIN W
    <3>1. /\ X[x].from \in DOMAIN B /\ B[X[x].from].inc = X[x].inc /\ B[X[x].from].end.halfopen
          /\ X[x].req \in {c.vt : c \in Kinds}
          /\ \A j \in DOMAIN D : D[j].inc # X[x].inc
          /\ \A y \in DOMAIN V : V[y].inc # X[x].inc
      BY <2>1, <2>2, <1>5, <1>7 DEF Opens
    <3>2. \A y \in DOMAIN X : X[y].inc = X[x].inc => y = x
      BY <2>1, <2>2, <1>5, <1>8, <1>12 DEF Opens
    <3> QED BY <3>1, <3>2
  <2>3. CASE x = Len(W) + 1
    <3>1. X[x] = m
      BY <2>3, <1>5
    <3>2. \A y \in DOMAIN X : X[y].inc = X[x].inc => y = x
      BY <2>3, <3>1, <1>5, <1>8, <1>12
    <3> QED BY <3>1, <3>2, <1>7, <1>8, <1>9, <1>12
  <2> QED BY <2>2, <2>3, <1>5
<1>15. Answers(B, D, V, X)
  <2>1. Answers(C, D, V, W)
    BY <1>1 DEF Half
  <2>2. ASSUME NEW x \in DOMAIN V, V[x].kind \in Answer
        PROVE  /\ V[x].to \in DOMAIN B /\ B[V[x].to].inc = V[x].inc /\ B[V[x].to].end.halfopen
               /\ \A y \in DOMAIN X : X[y].inc # V[x].inc
    BY <2>1, <2>2, <1>5, <1>7, <1>8, <1>12 DEF Answers
  <2> QED BY <2>1, <2>2 DEF Answers
<1>16. Answers(D, B, X, V)
  <2>1. Answers(D, C, W, V)
    BY <1>1 DEF Half
  <2> SUFFICES ASSUME NEW x \in DOMAIN X, X[x].kind \in Answer
               PROVE  /\ X[x].to \in DOMAIN D /\ D[X[x].to].inc = X[x].inc /\ D[X[x].to].end.halfopen
                      /\ \A y \in DOMAIN X : X[y].inc = X[x].inc => x <= y
                      /\ \A y \in DOMAIN V : V[y].inc # X[x].inc
                      /\ X[x].kind = "confirmation" =>
                            X[x].from \in DOMAIN B /\ B[X[x].from].inc = X[x].inc /\ ~B[X[x].from].end.halfopen
                      /\ X[x].kind = "open-failure" =>
                            /\ \A j \in DOMAIN B : B[j].inc # X[x].inc
                            /\ \A y \in DOMAIN X : X[y].inc = X[x].inc => y = x
    BY DEF Answers
  <2>2. CASE x \in DOMAIN W
    <3>1. X[x] = W[x] /\ W[x].inc # k
      BY <2>2, <1>5, <1>8
    <3>2. \A y \in DOMAIN X : X[y].inc = X[x].inc => y \in DOMAIN W /\ X[y] = W[y]
      BY <3>1, <1>5, <1>12
    <3>3. /\ X[x].to \in DOMAIN D /\ D[X[x].to].inc = X[x].inc /\ D[X[x].to].end.halfopen
          /\ \A y \in DOMAIN V : V[y].inc # X[x].inc
          /\ X[x].kind = "confirmation" =>
                X[x].from \in DOMAIN B /\ B[X[x].from].inc = X[x].inc /\ ~B[X[x].from].end.halfopen
      BY <2>1, <2>2, <3>1, <1>7 DEF Answers
    <3>4. \A y \in DOMAIN X : X[y].inc = X[x].inc => x <= y
      BY <2>1, <2>2, <3>1, <3>2 DEF Answers
    <3>5. X[x].kind = "open-failure" =>
            /\ \A j \in DOMAIN B : B[j].inc # X[x].inc
            /\ \A y \in DOMAIN X : X[y].inc = X[x].inc => y = x
      BY <2>1, <2>2, <3>1, <3>2, <1>7 DEF Answers
    <3> QED BY <3>3, <3>4, <3>5
  <2>3. CASE x = Len(W) + 1
    <3>1. X[x] = m
      BY <2>3, <1>5
    <3>2. \A y \in DOMAIN X : X[y].inc = X[x].inc => y = x
      BY <2>3, <3>1, <1>5, <1>8, <1>12
    <3>3. m.kind = "open-failure" => \A j \in DOMAIN B : B[j].inc # k
      BY <1>7
    <3>4. m.kind = "confirmation" => i \in DOMAIN B /\ B[i].inc = k /\ ~B[i].end.halfopen
      BY <1>7
    <3>5. \A y \in DOMAIN X : X[y].inc = X[x].inc => x <= y
      BY <3>2, <1>5
    <3> QED BY <3>1, <3>2, <3>3, <3>4, <3>5, <1>8, <1>9, <1>12
  <2> QED BY <2>2, <2>3, <1>5
<1>17. Plains(B, V)
  <2>1. Plains(C, V)
    BY <1>1 DEF Half
  <2> QED BY <2>1, <1>7 DEF Plains
<1>18. Plains(D, X)
  <2>1. Plains(D, W)
    BY <1>1 DEF Half
  <2>2. ASSUME NEW x \in DOMAIN W, Confirming(W, W[x].inc, x)
        PROVE  Confirming(X, W[x].inc, x)
    BY <2>2, <1>5 DEF Confirming
  <2> QED BY <2>1, <2>2, <1>5, <1>6 DEF Plains
<1>19. Order(X)
  <2>1. Order(W)
    BY <1>1 DEF Half
  <2> QED BY <2>1, <1>5, <1>8, <1>12 DEF Order
<1>20. Marks(B, X)
  <2>1. Marks(C, W)
    BY <1>1 DEF Half
  <2> QED BY <2>1, <1>5, <1>6, <1>7, <1>8, <1>12 DEF Marks
<1>21. Peers(B, D, X)
  <2>1. Peers(C, D, W)
    BY <1>1 DEF Half
  <2>2. \A j : Confirming(W, j, Len(W) + 1) => Confirming(X, j, Len(X) + 1)
    BY <1>5 DEF Confirming
  <2>3. m.kind = "confirmation" => Confirming(X, k, Len(X) + 1)
    BY <1>5, <1>12 DEF Confirming
  <2> SUFFICES ASSUME NEW j \in DOMAIN B
               PROVE  /\ ~B[j].end.halfopen /\ ~B[j].end.sent_close =>
                            B[j].remoteid \in DOMAIN D /\ D[B[j].remoteid].inc = B[j].inc
                      /\ B[j].end.halfopen => \A x \in DOMAIN X : X[x].inc = B[j].inc => X[x].kind = "open"
                      /\ \A l \in DOMAIN D :
                            ~B[j].end.halfopen /\ D[l].inc = B[j].inc /\ D[l].end.halfopen =>
                                Confirming(X, B[j].inc, Len(X) + 1)
    BY DEF Peers
  <2>4. CASE j \in DOMAIN C
    <3>1. B[j] = C[j] /\ C[j].inc # k
      BY <2>4, <1>7
    <3>2. \A x \in DOMAIN X : X[x].inc = C[j].inc => x \in DOMAIN W /\ X[x] = W[x]
      BY <3>1, <1>5, <1>12
    <3> QED BY <2>1, <2>2, <2>4, <3>1, <3>2 DEF Peers
  <2>5. CASE j \notin DOMAIN C
    <3>1. j = i /\ m.kind # "open-failure" /\ B[j].inc = k
      BY <2>5, <1>7
    <3>2. \A x \in DOMAIN X : X[x].inc = k => X[x] = m
      BY <1>5, <1>8
    <3>3. CASE m.kind = "open"
      BY <3>1, <3>2, <3>3, <1>7
    <3>4. CASE m.kind = "confirmation"
      <4>1. ~B[j].end.halfopen /\ B[j].remoteid = m.to
        BY <3>1, <3>4, <1>7
      <4>2. m.to \in DOMAIN D /\ D[m.to].inc = k
        BY <3>4, <1>9 DEF Answer
      <4> QED BY <3>1, <3>4, <4>1, <4>2, <2>3
    <3> QED BY <3>1, <3>3, <3>4, <1>6
  <2> QED BY <2>4, <2>5
<1>22. Peers(D, B, V)
  <2>1. Peers(D, C, V)
    BY <1>1 DEF Half
  <2>2. ASSUME NEW j \in DOMAIN D, NEW l \in DOMAIN B, ~D[j].end.halfopen, B[l].inc = D[j].inc, B[l].end.halfopen
        PROVE  l \in DOMAIN C
    BY <2>2, <1>6, <1>7, <1>9
  <2> QED BY <2>1, <2>2, <1>7 DEF Peers
<1>23. ASSUME NEW j, NEW kind
       PROVE  /\ Num(V, j, kind) \in Nat /\ Num(W, j, kind) \in Nat
              /\ kind \in Plain => Num(X, j, kind) = Num(W, j, kind)
              /\ Num(X, j, kind) \in Nat
  <2>1. /\ Num(V, j, kind) \in Nat /\ Num(W, j, kind) \in Nat
        /\ Num(X, j, kind) = Num(W, j, kind) + IF m.inc = j /\ m.kind = kind THEN 1 ELSE 0
    BY <1>2, <1>5, <1>6, NumType, NumAppend DEF X, Mail
  <2> QED BY <2>1, <1>6
<1>24. ASSUME NEW j
       PROVE  /\ Moving(V, W, j) \in Nat /\ Moving(W, V, j) \in Nat
              /\ Moving(V, X, j) = Moving(V, W, j)
              /\ Moving(X, V, j) = Moving(W, V, j) + IF m.inc = j /\ m.kind = "confirmation" THEN 1 ELSE 0
  <2>1. /\ Moving(V, W, j) \in Nat /\ Moving(W, V, j) \in Nat
        /\ Moving(V, X, j) = Moving(V, W, j) + IF m.inc = j /\ m.kind = "data" THEN 1 ELSE 0
        /\ Moving(X, V, j) =
              Moving(W, V, j) + IF m.inc = j /\ m.kind \in {"adjust", "confirmation"} THEN 1 ELSE 0
    BY <1>2, <1>6, AppendMoving DEF X
  <2> QED BY <2>1, <1>6
<1>25. /\ \A kind : Num(V, k, kind) = 0 /\ Num(W, k, kind) = 0
       /\ Moving(V, W, k) = 0 /\ Moving(W, V, k) = 0
  BY <1>2, <1>8, NothingMoving
<1>26. /\ \A j \in DOMAIN B : B[j].end.remwindow \in 0..1 /\ B[j].end.locwindow \in 0..1
                                /\ Len(B[j].end.chanreqs) \in Nat
       /\ \A j \in DOMAIN D : D[j].end.remwindow \in 0..1 /\ D[j].end.locwindow \in 0..1
                                /\ Len(D[j].end.chanreqs) \in Nat
  BY <1>4, <1>10, EndTypes
<1>27. Recorded(B, V, X)
  <2> SUFFICES ASSUME NEW j \in DOMAIN B, ~B[j].end.gone
               PROVE  Num(X, B[j].inc, "request") + Num(V, B[j].inc, "failure") <= Len(B[j].end.chanreqs)
    BY DEF Recorded
  <2>1. Num(X, B[j].inc, "request") = Num(W, B[j].inc, "request")
    BY <1>23 DEF Plain
  <2>2. CASE j \in DOMAIN C
    BY <2>1, <2>2, <1>1, <1>7 DEF Half, Recorded
  <2>3. CASE j \notin DOMAIN C
    <3>1. B[j].inc = k
      BY <2>3, <1>7
    <3> QED BY <2>1, <3>1, <1>25, <1>26
  <2> QED BY <2>2, <2>3
<1>28. Recorded(D, X, V)
  <2>1. \A j : Num(X, j, "failure") = Num(W, j, "failure")
    BY <1>23 DEF Plain
  <2> QED BY <2>1, <1>1 DEF Half, Recorded
<1>29. Credit(B, D, V, X)
  <2>1. Credit(C, D, V, W)
    BY <1>1 DEF Half
  <2>2. ASSUME NEW j \in DOMAIN B
        PROVE  B[j].end.remwindow + Moving(V, X, B[j].inc) <= 1
    <3>1. CASE j \in DOMAIN C
      BY <3>1, <2>1, <1>7, <1>24 DEF Credit
    <3>2. CASE j \notin DOMAIN C
      <4>1. Moving(V, X, B[j].inc) = 0
        BY <3>2, <1>7, <1>24, <1>25
      <4> QED BY <4>1, <1>26
    <3> QED BY <3>1, <3>2
  <2>3. \A j \in DOMAIN D : Moving(V, X, D[j].inc) <= D[j].end.locwindow
    BY <2>1, <1>24 DEF Credit
  <2>4. ASSUME NEW j \in DOMAIN B, NEW l \in DOMAIN D, B[j].inc = D[l].inc
        PROVE  B[j].end.remwindow + Moving(V, X, B[j].inc) <= D[l].end.locwindow
    <3>1. CASE j \in DOMAIN C
      BY <3>1, <2>1, <2>4, <1>7, <1>24 DEF Credit
    <3>2. CASE j \notin DOMAIN C
      <4>1. B[j].inc = k /\ m.kind = "confirmation" /\ l = m.to
        BY <3>2, <2>4, <1>6, <1>7, <1>9 DEF Answer
      <4>2. D[l].end.locwindow = 1
        BY <4>1, <1>2, <1>9 DEF Answer, Ends, Sound
      <4> QED BY <2>2, <4>2
    <3> QED BY <3>1, <3>2
  <2> QED BY <2>2, <2>3, <2>4 DEF Credit
<1>30. Credit(D, B, X, V)
  <2>1. Credit(D, C, W, V)
    BY <1>1 DEF Half
  <2>2. ASSUME NEW j \in DOMAIN D
        PROVE  D[j].end.remwindow + Moving(X, V, D[j].inc) <= 1
    <3>1. CASE D[j].inc # k
      <4>1. Moving(X, V, D[j].inc) = Moving(W, V, D[j].inc)
        BY <3>1, <1>12, <1>24
      <4> QED BY <4>1, <2>1 DEF Credit
    <3>2. CASE D[j].inc = k
      <4>1. D[j].end.halfopen
        BY <3>2, <1>6, <1>9 DEF Answer
      <4>2. D[j].end.remwindow = 0
        BY <4>1, <1>2 DEF Ends, Sound
      <4>3. Moving(X, V, k) \in 0..1
        BY <1>24, <1>25
      <4> QED BY <3>2, <4>2, <4>3
    <3> QED BY <3>1, <3>2
  <2>3. ASSUME NEW j \in DOMAIN B
        PROVE  Moving(X, V, B[j].inc) <= B[j].end.locwindow
    <3>1. CASE j \in DOMAIN C
      <4>1. B[j] = C[j] /\ Moving(X, V, C[j].inc) = Moving(W, V, C[j].inc)
        BY <3>1, <1>7, <1>12, <1>24
      <4> QED BY <4>1, <3>1, <2>1 DEF Credit
    <3>2. CASE j \notin DOMAIN C
      <4>1. B[j].inc = k /\ B[j].end.locwindow = 1
        BY <3>2, <1>7
      <4>2. Moving(X, V, k) \in 0..1
        BY <1>24, <1>25
      <4> QED BY <4>1, <4>2
    <3> QED BY <3>1, <3>2
  <2>4. ASSUME NEW j \in DOMAIN B, NEW l \in DOMAIN D, D[l].inc = B[j].inc
        PROVE  D[l].end.remwindow + Moving(X, V, D[l].inc) <= B[j].end.locwindow
    <3>1. CASE j \in DOMAIN C
      <4>1. B[j] = C[j] /\ Moving(X, V, D[l].inc) = Moving(W, V, D[l].inc)
        BY <3>1, <2>4, <1>7, <1>12, <1>24
      <4> QED BY <4>1, <3>1, <2>1, <2>4 DEF Credit
    <3>2. CASE j \notin DOMAIN C
      <4>1. B[j].end.locwindow = 1
        BY <3>2, <1>7
      <4> QED BY <4>1, <2>2
    <3> QED BY <3>1, <3>2
  <2> QED BY <2>2, <2>3, <2>4 DEF Credit
<1>31. Order(V) /\ Marks(D, V)
  BY <1>1 DEF Half
<1> QED BY <1>4, <1>10, <1>11, <1>13, <1>14, <1>15, <1>16, <1>17, <1>18, <1>19, <1>20, <1>21, <1>22,
           <1>27, <1>28, <1>29, <1>30, <1>31 DEF Agree, Half, X

\* An end is removed, of whose channel nothing more is to come and the other end has sent CLOSE.
LEMMA RemoveAgrees ==
    ASSUME NEW n \in Nat, NEW C, NEW D, NEW V, NEW W, Agree(C, D, V, W, n), NEW i \in DOMAIN C,
           NEW B, Tree(B, n), DOMAIN B = DOMAIN C \ {i}, \A j \in DOMAIN B : B[j] = C[j],
           \A x \in DOMAIN V : V[x].inc # C[i].inc,
           \A j \in DOMAIN D : D[j].inc = C[i].inc => D[j].end.sent_close,
           C[i].end.halfopen => \A x \in DOMAIN W : W[x].inc # C[i].inc
    PROVE  Agree(B, D, V, W, n)
<1> DEFINE k == C[i].inc
<1>1. Half(C, D, V, W, n) /\ Half(D, C, W, V, n)
  BY DEF Agree
<1>2. Ends(C, n) /\ Mail(V, n) /\ Mail(W, n) /\ Ends(D, n) /\ Order(V) /\ Order(W) /\ Plains(D, W)
      /\ Marks(D, V)
  BY <1>1 DEF Half
<1>3. /\ \A j \in DOMAIN B : j \in DOMAIN C /\ B[j] = C[j]
      /\ \A j \in DOMAIN C : j \notin DOMAIN B => j = i
      /\ \A j \in DOMAIN C : C[j].inc # k => j \in DOMAIN B
      /\ \A j \in DOMAIN D : D[j].inc = k => ~D[j].end.halfopen /\ D[j].end.sent_close
  BY <1>2 DEF Ends, Sound
<1>4. \A x \in DOMAIN V : V[x].inc # k
  OBVIOUS
<1>5. C[i].end.halfopen => \A x \in DOMAIN W : W[x].inc # k
  OBVIOUS
<1> HIDE DEF k
<1>6. Ends(B, n)
  BY <1>2, <1>3 DEF Ends, Tree
<1>7. Opens(B, D, V, W)
  BY <1>1, <1>3 DEF Half, Opens
<1>8. Opens(D, B, W, V)
  <2>1. Opens(D, C, W, V)
    BY <1>1 DEF Half
  <2>2. ASSUME NEW x \in DOMAIN W, W[x].kind = "open"
        PROVE  W[x].from \in DOMAIN B
    BY <2>1, <2>2, <1>3, <1>5 DEF Opens, k
  <2> QED BY <2>1, <2>2, <1>3 DEF Opens
<1>9. Answers(B, D, V, W)
  <2>1. Answers(C, D, V, W)
    BY <1>1 DEF Half
  <2> QED BY <2>1, <1>3, <1>4 DEF Answers
<1>10. Answers(D, B, W, V)
  <2>1. Answers(D, C, W, V)
    BY <1>1 DEF Half
  <2>2. ASSUME NEW x \in DOMAIN W, W[x].kind = "confirmation"
        PROVE  W[x].from \in DOMAIN B
    <3>1. /\ W[x].to \in DOMAIN D /\ D[W[x].to].inc = W[x].inc /\ D[W[x].to].end.halfopen
          /\ W[x].from \in DOMAIN C /\ C[W[x].from].inc = W[x].inc
      BY <2>1, <2>2 DEF Answers, Answer
    <3> QED BY <3>1, <1>3
  <2> QED BY <2>1, <2>2, <1>3 DEF Answers
<1>11. Plains(B, V)
  BY <1>1, <1>3, <1>4 DEF Half, Plains
<1>12. Marks(B, W)
  BY <1>1, <1>3 DEF Half, Marks
<1>13. Peers(B, D, W)
  BY <1>1, <1>3 DEF Half, Peers
<1>14. Peers(D, B, V)
  <2>1. Peers(D, C, V)
    BY <1>1 DEF Half
  <2>2. ASSUME NEW j \in DOMAIN D, ~D[j].end.halfopen, ~D[j].end.sent_close
        PROVE  D[j].remoteid \in DOMAIN B /\ B[D[j].remoteid].inc = D[j].inc
    <3>1. D[j].remoteid \in DOMAIN C /\ C[D[j].remoteid].inc = D[j].inc
      BY <2>1, <2>2 DEF Peers
    <3>2. D[j].inc # k
      BY <2>2, <1>3
    <3> QED BY <3>1, <3>2, <1>3
  <2> QED BY <2>1, <2>2, <1>3 DEF Peers
<1>15. Recorded(B, V, W) /\ Recorded(D, W, V)
  BY <1>1, <1>3 DEF Half, Recorded
<1>16. Credit(B, D, V, W) /\ Credit(D, B, W, V)
  BY <1>1, <1>3 DEF Half, Credit
<1> QED BY <1>2, <1>6, <1>7, <1>8, <1>9, <1>10, <1>11, <1>12, <1>13, <1>14, <1>15, <1>16 DEF Agree, Half

\* An end is told that its channel is open, and what to call it.
LEMMA ConfirmAgrees ==
    ASSUME NEW n \in Nat, NEW C, NEW D, NEW V, NEW W, Agree(C, D, V, W, n), V # <<>>,
           V[1].kind = "confirmation", NEW B, Tree(B, n), DOMAIN B = DOMAIN C,
           NEW i, i = V[1].to, \A j \in DOMAIN C : j # i => B[j] = C[j],
           B[i].inc = C[i].inc, B[i].remoteid = V[1].from, B[i].end.packets = <<>>, Sound(B[i].end),
           ~B[i].end.halfopen, ~B[i].end.sent_eof, ~B[i].end.sent_close,
           B[i].end.locwindow >= C[i].end.locwindow,
           ~B[i].end.gone => ~C[i].end.gone /\ Len(B[i].end.chanreqs) >= Len(C[i].end.chanreqs)
    PROVE  Agree(B, D, Tail(V), W, n)
<1> DEFINE T == Tail(V)
           k == V[1].inc
<1>1. Half(C, D, V, W, n) /\ Half(D, C, W, V, n)
  BY DEF Agree
<1>2. Ends(C, n) /\ Mail(V, n) /\ Mail(W, n) /\ Ends(D, n) /\ Order(V) /\ Order(W) /\ Plains(D, W)
  BY <1>1 DEF Half
<1>3. /\ Mail(T, n) /\ Len(V) \in Nat /\ DOMAIN V = 1..Len(V) /\ Len(V) >= 1
      /\ DOMAIN T = 1..(Len(V) - 1) /\ Len(T) = Len(V) - 1
      /\ \A x \in DOMAIN T : x + 1 \in DOMAIN V /\ T[x] = V[x + 1]
      /\ Order(T)
  BY <1>2, TailFacts
<1>4. /\ i \in DOMAIN C /\ C[i].inc = k /\ C[i].end.halfopen
      /\ \A y \in DOMAIN W : W[y].inc # k
      /\ V[1].from \in DOMAIN D /\ D[V[1].from].inc = k /\ ~D[V[1].from].end.halfopen
  <2>1. Answers(C, D, V, W) /\ 1 \in DOMAIN V
    BY <1>1, <1>3 DEF Half
  <2> QED BY <2>1 DEF Answers, Answer
<1>5. /\ \A j \in DOMAIN C : C[j].inc = k => j = i
      /\ \A j \in DOMAIN D : D[j].inc = k => ~D[j].end.halfopen
      /\ \A j \in DOMAIN C : j # i => B[j] = C[j] /\ C[j].inc # k
      /\ \A j \in DOMAIN C : B[j].inc = C[j].inc
  <2>1. /\ \A j, l \in DOMAIN C : C[j].inc = C[l].inc => j = l
        /\ \A j, l \in DOMAIN D : D[j].inc = D[l].inc => j = l
    BY <1>2 DEF Ends
  <2> HIDE DEF k
  <2> QED BY <1>4, <2>1
<1>6. B[i].inc = k /\ B[i].remoteid = V[1].from /\ ~B[i].end.halfopen /\ V[1].inc = k
  BY <1>4
<1>7. ASSUME NEW j, j # k, NEW x \in Int, Confirming(V, j, x + 1)
      PROVE  Confirming(T, j, x)
  BY <1>2, <1>7, ConfirmingTail
<1>8. ASSUME NEW x \in DOMAIN T, T[x].kind \in Answer \cup {"open"}
      PROVE  T[x].inc # k
  <2>1. x \in Nat /\ x + 1 \in DOMAIN V /\ T[x] = V[x + 1] /\ x + 1 > 1 /\ 1 \in DOMAIN V
    BY <1>3
  <2>2. Answers(C, D, V, W) /\ Opens(C, D, V, W)
    BY <1>1 DEF Half
  <2>3. V[1].inc = k
    BY <1>6
  <2> HIDE DEF T, k
  <2>4. CASE T[x].kind = "open"
    BY <2>1, <2>2, <2>3, <2>4 DEF Opens
  <2>5. CASE T[x].kind \in Answer
    BY <2>1, <2>2, <2>3, <2>5 DEF Answers
  <2> QED BY <1>8, <2>4, <2>5
<1> HIDE DEF T, k
<1>9. Ends(B, n)
  <2>1. Ends(C, n)
    BY <1>2
  <2>2. \A j \in DOMAIN B : B[j].end.packets = <<>> /\ Sound(B[j].end)
    BY <2>1, <1>5 DEF Ends
  <2>3. \A j, l \in DOMAIN B : B[j].inc = B[l].inc => j = l
    BY <2>1, <1>5 DEF Ends
  <2> QED BY <2>2, <2>3 DEF Ends, Tree
<1>10. Opens(B, D, T, W)
  <2>1. Opens(C, D, V, W)
    BY <1>1 DEF Half
  <2> SUFFICES ASSUME NEW x \in DOMAIN T, T[x].kind = "open"
               PROVE  /\ T[x].from \in DOMAIN D /\ D[T[x].from].inc = T[x].inc /\ D[T[x].from].end.halfopen
                      /\ T[x].req \in {c.vt : c \in Kinds}
                      /\ \A j \in DOMAIN B : B[j].inc # T[x].inc
                      /\ \A y \in DOMAIN T : T[y].inc = T[x].inc => y = x
                      /\ \A y \in DOMAIN W : W[y].inc # T[x].inc
    BY DEF Opens
  <2>2. x + 1 \in DOMAIN V /\ T[x] = V[x + 1]
    BY <1>3
  <2>3. \A y \in DOMAIN T : T[y].inc = T[x].inc => y = x
    BY <2>1, <2>2, <1>3 DEF Opens
  <2> QED BY <2>1, <2>2, <2>3, <1>5 DEF Opens
<1>11. Opens(D, B, W, T)
  <2>1. Opens(D, C, W, V)
    BY <1>1 DEF Half
  <2>2. ASSUME NEW x \in DOMAIN W, W[x].kind = "open"
        PROVE  /\ W[x].from \in DOMAIN C /\ W[x].from # i /\ C[W[x].from].inc = W[x].inc
               /\ C[W[x].from].end.halfopen
               /\ \A y \in DOMAIN T : T[y].inc # W[x].inc
    BY <2>1, <2>2, <1>3, <1>4 DEF Opens
  <2> QED BY <2>1, <2>2, <1>5 DEF Opens
<1>12. Answers(B, D, T, W)
  <2>1. Answers(C, D, V, W)
    BY <1>1 DEF Half
  <2> SUFFICES ASSUME NEW x \in DOMAIN T, T[x].kind \in Answer
               PROVE  /\ T[x].to \in DOMAIN B /\ B[T[x].to].inc = T[x].inc /\ B[T[x].to].end.halfopen
                      /\ \A y \in DOMAIN T : T[y].inc = T[x].inc => x <= y
                      /\ \A y \in DOMAIN W : W[y].inc # T[x].inc
                      /\ T[x].kind = "confirmation" =>
                            T[x].from \in DOMAIN D /\ D[T[x].from].inc = T[x].inc /\ ~D[T[x].from].end.halfopen
                      /\ T[x].kind = "open-failure" =>
                            /\ \A j \in DOMAIN D : D[j].inc # T[x].inc
                            /\ \A y \in DOMAIN T : T[y].inc = T[x].inc => y = x
    BY DEF Answers
  <2>2. x + 1 \in DOMAIN V /\ T[x] = V[x + 1] /\ T[x].inc # k
    BY <1>3, <1>8
  <2>3. \A y \in DOMAIN T : T[y].inc = T[x].inc => x <= y
    BY <2>1, <2>2, <1>3 DEF Answers
  <2>4. T[x].kind = "open-failure" => \A y \in DOMAIN T : T[y].inc = T[x].inc => y = x
    BY <2>1, <2>2, <1>3 DEF Answers
  <2>5. T[x].to \in DOMAIN C /\ C[T[x].to].inc = T[x].inc /\ C[T[x].to].end.halfopen
    BY <2>1, <2>2 DEF Answers
  <2>6. T[x].to # i
    BY <2>2, <2>5, <1>4
  <2> QED BY <2>1, <2>2, <2>3, <2>4, <2>5, <2>6, <1>5 DEF Answers
<1>13. Answers(D, B, W, T)
  <2>1. Answers(D, C, W, V)
    BY <1>1 DEF Half
  <2>2. ASSUME NEW x \in DOMAIN W, W[x].kind \in Answer
        PROVE  /\ \A y \in DOMAIN T : T[y].inc # W[x].inc
               /\ W[x].kind = "confirmation" =>
                     W[x].from \in DOMAIN B /\ B[W[x].from].inc = W[x].inc /\ ~B[W[x].from].end.halfopen
               /\ W[x].kind = "open-failure" => \A j \in DOMAIN B : B[j].inc # W[x].inc
    BY <2>1, <2>2, <1>3, <1>5, <1>6 DEF Answers
  <2> QED BY <2>1, <2>2 DEF Answers
<1>14. Plains(B, T)
  <2>1. Plains(C, V)
    BY <1>1 DEF Half
  <2> SUFFICES ASSUME NEW x \in DOMAIN T, T[x].kind \in Plain
               PROVE  /\ T[x].to \in DOMAIN B /\ B[T[x].to].inc = T[x].inc
                      /\ B[T[x].to].end.halfopen => Confirming(T, T[x].inc, x)
    BY DEF Plains
  <2>2. x + 1 \in DOMAIN V /\ T[x] = V[x + 1] /\ x \in Int
    BY <1>3
  <2>3. T[x].to \in DOMAIN C /\ C[T[x].to].inc = T[x].inc
    BY <2>1, <2>2 DEF Plains
  <2>4. CASE T[x].to = i
    BY <2>3, <2>4, <1>4, <1>6
  <2>5. CASE T[x].to # i
    <3>1. B[T[x].to] = C[T[x].to] /\ T[x].inc # k
      BY <2>3, <2>5, <1>5
    <3>2. Confirming(V, T[x].inc, x + 1) => Confirming(T, T[x].inc, x)
      BY <2>2, <3>1, <1>7
    <3> QED BY <2>1, <2>2, <2>3, <3>1, <3>2 DEF Plains
  <2> QED BY <2>4, <2>5
<1>15. Marks(B, W)
  <2>1. Marks(C, W)
    BY <1>1 DEF Half
  <2> QED BY <2>1, <1>4, <1>5, <1>6 DEF Marks
<1>16. Marks(D, T)
  <2>1. Marks(D, V)
    BY <1>1 DEF Half
  <2> QED BY <2>1, <1>3 DEF Marks
<1>17. Peers(B, D, W)
  <2>1. Peers(C, D, W)
    BY <1>1 DEF Half
  <2>2. /\ B[i].remoteid \in DOMAIN D /\ D[B[i].remoteid].inc = B[i].inc
        /\ \A j \in DOMAIN D : D[j].inc = B[i].inc => ~D[j].end.halfopen
    BY <1>4, <1>5, <1>6
  <2> QED BY <2>1, <2>2, <1>5, <1>6 DEF Peers
<1>18. Peers(D, B, T)
  <2>1. Peers(D, C, V)
    BY <1>1 DEF Half
  <2>2. ASSUME NEW j \in DOMAIN D, NEW l \in DOMAIN B, ~D[j].end.halfopen, B[l].inc = D[j].inc, B[l].end.halfopen
        PROVE  Confirming(T, D[j].inc, Len(T) + 1)
    <3>1. l # i /\ B[l] = C[l] /\ C[l].inc # k
      BY <2>2, <1>5, <1>6
    <3>2. Confirming(V, D[j].inc, Len(V) + 1)
      BY <2>1, <2>2, <3>1 DEF Peers
    <3>3. Len(V) \in Int /\ Len(T) + 1 = Len(V)
      BY <1>3
    <3>4. Confirming(T, D[j].inc, Len(V))
      BY <2>2, <3>1, <3>2, <3>3, <1>7
    <3> QED BY <3>3, <3>4
  <2>3. \A j \in DOMAIN D : ~D[j].end.halfopen /\ ~D[j].end.sent_close =>
            D[j].remoteid \in DOMAIN B /\ B[D[j].remoteid].inc = D[j].inc
    BY <2>1, <1>5 DEF Peers
  <2>4. \A j \in DOMAIN D : D[j].end.halfopen =>
            \A x \in DOMAIN T : T[x].inc = D[j].inc => T[x].kind = "open"
    BY <2>1, <1>3 DEF Peers
  <2> QED BY <2>2, <2>3, <2>4 DEF Peers
<1>19. ASSUME NEW j, NEW kind
       PROVE  /\ Num(V, j, kind) \in Nat /\ Num(W, j, kind) \in Nat /\ Num(T, j, kind) \in Nat
              /\ kind \in Plain => Num(V, j, kind) = Num(T, j, kind)
  <2>1. /\ Num(V, j, kind) \in Nat /\ Num(W, j, kind) \in Nat /\ Num(T, j, kind) \in Nat
        /\ ~(V[1].inc = j /\ V[1].kind = kind) => Num(V, j, kind) = Num(T, j, kind)
    BY <1>2, TailNums DEF T
  <2> QED BY <2>1 DEF Plain
<1>20. ASSUME NEW j
       PROVE  /\ Moving(V, W, j) \in Nat /\ Moving(W, V, j) \in Nat
              /\ Moving(T, W, j) \in Nat /\ Moving(W, T, j) \in Nat
              /\ Moving(T, W, j) <= Moving(V, W, j) /\ Moving(W, T, j) <= Moving(W, V, j)
              /\ j = k => Moving(V, W, j) = Moving(T, W, j) + 1
  BY <1>2, <1>6, TailMoving DEF T
<1>21. /\ \A j \in DOMAIN B : B[j].end.remwindow \in 0..1 /\ B[j].end.locwindow \in 0..1
                                /\ Len(B[j].end.chanreqs) \in Nat
       /\ \A j \in DOMAIN C : C[j].end.remwindow \in 0..1 /\ C[j].end.locwindow \in 0..1
                                /\ Len(C[j].end.chanreqs) \in Nat
       /\ \A j \in DOMAIN D : D[j].end.remwindow \in 0..1 /\ D[j].end.locwindow \in 0..1
                                /\ Len(D[j].end.chanreqs) \in Nat
  BY <1>2, <1>9, EndTypes
<1>22. Recorded(B, T, W)
  <2> SUFFICES ASSUME NEW j \in DOMAIN C, ~B[j].end.gone
               PROVE  Num(W, C[j].inc, "request") + Num(T, C[j].inc, "failure") <= Len(B[j].end.chanreqs)
    BY <1>5 DEF Recorded
  <2> DEFINE less == Len(C[j].end.chanreqs)
             more == Len(B[j].end.chanreqs)
  <2>0. less \in Nat /\ more \in Nat
    BY <1>21
  <2>1. ~C[j].end.gone /\ more >= less
    <3>1. CASE j = i
      BY <3>1
    <3>2. CASE j # i
      BY <3>2, <1>5, <2>0
    <3> QED BY <3>1, <3>2
  <2>2. Num(W, C[j].inc, "request") + Num(V, C[j].inc, "failure") <= less
    BY <1>1, <2>1 DEF Half, Recorded
  <2>3. /\ Num(V, C[j].inc, "failure") = Num(T, C[j].inc, "failure")
        /\ Num(W, C[j].inc, "request") \in Nat /\ Num(T, C[j].inc, "failure") \in Nat
    BY <1>19 DEF Plain
  <2> HIDE DEF less, more
  <2>4. Num(W, C[j].inc, "request") + Num(T, C[j].inc, "failure") <= more
    BY <2>0, <2>1, <2>2, <2>3
  <2> QED BY <2>4 DEF more
<1>23. Recorded(D, W, T)
  <2>1. \A j : Num(V, j, "request") = Num(T, j, "request")
    BY <1>19 DEF Plain
  <2> QED BY <2>1, <1>1 DEF Half, Recorded
<1>24. Credit(B, D, T, W)
  <2>1. Credit(C, D, V, W)
    BY <1>1 DEF Half
  <2>2. ASSUME NEW j \in DOMAIN C
        PROVE  B[j].end.remwindow + Moving(T, W, C[j].inc) <= C[j].end.remwindow + Moving(V, W, C[j].inc)
    <3>1. CASE j = i
      BY <3>1, <1>4, <1>20, <1>21
    <3>2. CASE j # i
      BY <3>2, <1>5, <1>20, <1>21
    <3> QED BY <3>1, <3>2
  <2>3. ASSUME NEW j \in DOMAIN C
        PROVE  /\ B[j].end.remwindow + Moving(T, W, C[j].inc) \in Nat
               /\ C[j].end.remwindow + Moving(V, W, C[j].inc) \in Nat
    <3>1. B[j].end.remwindow \in 0..1 /\ C[j].end.remwindow \in 0..1
      BY <1>21
    <3>2. Moving(T, W, C[j].inc) \in Nat /\ Moving(V, W, C[j].inc) \in Nat
      BY <1>20
    <3> QED BY <3>1, <3>2
  <2>4. \A j \in DOMAIN C : B[j].end.remwindow + Moving(T, W, C[j].inc) <= 1
    BY <2>1, <2>2, <2>3 DEF Credit
  <2>5. ASSUME NEW j \in DOMAIN D
        PROVE  Moving(T, W, D[j].inc) <= D[j].end.locwindow
    <3>1. Moving(V, W, D[j].inc) <= D[j].end.locwindow
      BY <2>1 DEF Credit
    <3> QED BY <3>1, <1>20, <1>21
  <2>6. ASSUME NEW j \in DOMAIN C, NEW l \in DOMAIN D, C[j].inc = D[l].inc
        PROVE  B[j].end.remwindow + Moving(T, W, C[j].inc) <= D[l].end.locwindow
    <3> DEFINE less == B[j].end.remwindow + Moving(T, W, C[j].inc)
               more == C[j].end.remwindow + Moving(V, W, C[j].inc)
               room == D[l].end.locwindow
    <3>1. more <= room
      BY <2>1, <2>6 DEF Credit
    <3>2. less <= more /\ less \in Nat /\ more \in Nat /\ room \in 0..1
      BY <2>2, <2>3, <1>21
    <3> HIDE DEF less, more, room
    <3>3. less <= room
      BY <3>1, <3>2
    <3> QED BY <3>3 DEF less, room
  <2> QED BY <2>4, <2>5, <2>6, <1>5 DEF Credit
<1>25. Credit(D, B, W, T)
  <2>1. Credit(D, C, W, V)
    BY <1>1 DEF Half
  <2>2. \A j \in DOMAIN C : B[j].end.locwindow >= C[j].end.locwindow
    <3> SUFFICES ASSUME NEW j \in DOMAIN C
                 PROVE  B[j].end.locwindow >= C[j].end.locwindow
      OBVIOUS
    <3>1. CASE j = i
      BY <3>1
    <3>2. CASE j # i
      BY <3>2, <1>5, <1>21
    <3> QED BY <3>1, <3>2
  <2>3. ASSUME NEW j \in DOMAIN D
        PROVE  D[j].end.remwindow + Moving(W, T, D[j].inc) <= 1
    <3>1. D[j].end.remwindow + Moving(W, V, D[j].inc) <= 1
      BY <2>1 DEF Credit
    <3>2. D[j].end.remwindow \in 0..1
      BY <1>21
    <3> QED BY <3>1, <3>2, <1>20
  <2>4. ASSUME NEW j \in DOMAIN C
        PROVE  Moving(W, T, C[j].inc) <= B[j].end.locwindow
    <3>1. Moving(W, V, C[j].inc) <= C[j].end.locwindow
      BY <2>1 DEF Credit
    <3>2. C[j].end.locwindow \in 0..1 /\ B[j].end.locwindow \in 0..1 /\ B[j].end.locwindow >= C[j].end.locwindow
      BY <2>2, <1>5, <1>21
    <3> QED BY <3>1, <3>2, <1>20
  <2>5. ASSUME NEW j \in DOMAIN C, NEW l \in DOMAIN D, D[l].inc = C[j].inc
        PROVE  D[l].end.remwindow + Moving(W, T, C[j].inc) <= B[j].end.locwindow
    <3> DEFINE has == D[l].end.remwindow
               less == Moving(W, T, C[j].inc)
               more == Moving(W, V, C[j].inc)
               old == C[j].end.locwindow
               new == B[j].end.locwindow
    <3>1. has + more <= old
      BY <2>1, <2>5 DEF Credit
    <3>2. has \in 0..1 /\ old \in 0..1 /\ new \in 0..1
      BY <1>21
    <3>3. less \in Nat /\ more \in Nat /\ less <= more
      BY <1>20
    <3>4. new >= old
      BY <2>2
    <3> HIDE DEF has, less, more, old, new
    <3>5. has + less <= new
      BY <3>1, <3>2, <3>3, <3>4
    <3> QED BY <3>5 DEF has, less, new
  <2> QED BY <2>3, <2>4, <2>5, <1>5 DEF Credit
<1> QED BY <1>2, <1>3, <1>9, <1>10, <1>11, <1>12, <1>13, <1>14, <1>15, <1>16, <1>17, <1>18, <1>22,
           <1>23, <1>24, <1>25 DEF Agree, Half, T
=====
