--------------------------- MODULE Ssh2TransportOrder ---------------------------
(***************************************************************************)
(* The layer above's data on the lines (`Streaming`), where KEXINIT,       *)
(* NEWKEYS and its packets may stand on them (`Calmness`), and why each    *)
(* exchange was begun (`Reasoned`). Theorems: NoPacketRejected,            *)
(* RekeysHaveReasons and KexIsQuiet. They hold up to a packet that cannot  *)
(* be decoded; that there is none is shown in Ssh2TransportKeys.           *)
(***************************************************************************)
EXTENDS Ssh2TransportProofs

--------------------------------------------------------------------------------
(* Data in a queue *)

\* The data packets of q are those numbered a + 1 to b, in order.
Carries(q, a, b) ==
    /\ \A i \in 1..Len(q) : q[i].type = "data" => q[i].n \in (a + 1)..b
    /\ \A n \in (a + 1)..b : \E i \in 1..Len(q) : q[i].type = "data" /\ q[i].n = n
    /\ \A i, j \in 1..Len(q) : q[i].type = "data" /\ q[j].type = "data" /\ i < j => q[i].n < q[j].n

\* An empty queue carries no data.
LEMMA CarriesNothing ==
    \A a \in Nat : Carries(<<>>, a, a)
  BY DEF Carries

\* The next data packet, or any other packet, may be added.
LEMMA CarriesAppend ==
    ASSUME NEW q \in Seq(Packets(Types)), NEW m \in Packets(Types), NEW a \in Nat, NEW b \in Nat, a <= b,
           Carries(q, a, b)
    PROVE  /\ m.type # "data" => Carries(Append(q, m), a, b)
           /\ m.type = "data" /\ m.n = b + 1 => Carries(Append(q, m), a, b + 1)
<1> DEFINE r == Append(q, m)
<1>1. /\ Len(q) \in Nat /\ Len(r) = Len(q) + 1 /\ r[Len(q) + 1] = m
      /\ \A i \in 1..Len(q) : r[i] = q[i]
  BY AppendProperties
<1> HIDE DEF r
<1>2. \A i \in 1..Len(r) : (i \in 1..Len(q) /\ r[i] = q[i]) \/ (i = Len(q) + 1 /\ r[i] = m)
  BY <1>1
<1>3. \A i \in 1..Len(q) : i \in 1..Len(r) /\ i < Len(q) + 1
  BY <1>1
<1>4. Len(q) + 1 \in 1..Len(r)
  BY <1>1
<1>5. ASSUME m.type # "data"
      PROVE  Carries(r, a, b)
  <2>1. \A i \in 1..Len(r) : r[i].type = "data" => i \in 1..Len(q) /\ r[i] = q[i]
    BY <1>2, <1>5
  <2>2. \A i \in 1..Len(r) : r[i].type = "data" => r[i].n \in (a + 1)..b
    BY <2>1 DEF Carries
  <2>3. \A n \in (a + 1)..b : \E i \in 1..Len(r) : r[i].type = "data" /\ r[i].n = n
    BY <1>1, <1>3 DEF Carries
  <2>4. \A i, j \in 1..Len(r) : r[i].type = "data" /\ r[j].type = "data" /\ i < j => r[i].n < r[j].n
    BY <2>1 DEF Carries
  <2> QED BY <2>2, <2>3, <2>4 DEF Carries
<1>6. ASSUME m.type = "data", m.n = b + 1
      PROVE  Carries(r, a, b + 1)
  <2>1. \A i \in 1..Len(r) : r[i].type = "data" => r[i].n \in (a + 1)..(b + 1)
    <3> SUFFICES ASSUME NEW i \in 1..Len(r), r[i].type = "data"
                 PROVE  r[i].n \in (a + 1)..(b + 1)
      OBVIOUS
    <3>1. CASE i \in 1..Len(q) /\ r[i] = q[i]
      <4>1. q[i].n \in (a + 1)..b
        BY <3>1 DEF Carries
      <4> QED BY <3>1, <4>1
    <3>2. CASE r[i] = m
      BY <1>6, <3>2
    <3> QED BY <1>2, <3>1, <3>2
  <2>2. ASSUME NEW n \in (a + 1)..(b + 1)
        PROVE  \E i \in 1..Len(r) : r[i].type = "data" /\ r[i].n = n
    <3>1. CASE n = b + 1
      BY <1>1, <1>4, <1>6, <3>1
    <3>2. CASE n # b + 1
      <4>1. n \in (a + 1)..b
        BY <3>2
      <4>2. PICK i \in 1..Len(q) : q[i].type = "data" /\ q[i].n = n
        BY <4>1 DEF Carries
      <4> QED BY <1>1, <1>3, <4>2
    <3> QED BY <3>1, <3>2
  <2>3. ASSUME NEW i \in 1..Len(r), NEW j \in 1..Len(r), r[i].type = "data", r[j].type = "data", i < j
        PROVE  r[i].n < r[j].n
    <3>1. i \in 1..Len(q) /\ r[i] = q[i]
      BY <1>1, <1>2, <2>3
    <3>2. q[i].n \in (a + 1)..b
      BY <2>3, <3>1 DEF Carries
    <3>3. CASE j \in 1..Len(q) /\ r[j] = q[j]
      BY <2>3, <3>1, <3>3 DEF Carries
    <3>4. CASE r[j] = m
      BY <1>6, <3>1, <3>2, <3>4
    <3> QED BY <1>2, <3>3, <3>4
  <2> QED BY <2>1, <2>2, <2>3 DEF Carries
<1> QED BY <1>5, <1>6 DEF r

\* The first data packet, or any other packet, may be taken.
LEMMA CarriesTail ==
    ASSUME NEW q \in Seq(Packets(Types)), NEW a \in Nat, NEW b \in Nat, a <= b, Carries(q, a, b), q # <<>>
    PROVE  /\ Head(q).type # "data" => Carries(Tail(q), a, b)
           /\ Head(q).type = "data" => Head(q).n = a + 1 /\ a + 1 <= b /\ Carries(Tail(q), a + 1, b)
<1> DEFINE r == Tail(q)
<1>1. /\ Len(q) \in Nat /\ Len(q) >= 1 /\ Len(r) = Len(q) - 1 /\ Head(q) = q[1]
      /\ \A i \in 1..Len(r) : r[i] = q[i + 1]
  BY HeadTailProperties, EmptySeq
<1> HIDE DEF r
<1>2. \A i \in 1..Len(r) : i + 1 \in 1..Len(q) /\ i + 1 > 1 /\ r[i] = q[i + 1]
  BY <1>1
<1>3. \A i \in 1..Len(q) : i # 1 => i - 1 \in 1..Len(r) /\ r[i - 1] = q[i] /\ i > 1
  BY <1>1
<1>4. 1 \in 1..Len(q)
  BY <1>1
<1>5. \A i, j \in 1..Len(r) : r[i].type = "data" /\ r[j].type = "data" /\ i < j => r[i].n < r[j].n
  <2> SUFFICES ASSUME NEW i \in 1..Len(r), NEW j \in 1..Len(r), r[i].type = "data", r[j].type = "data", i < j
               PROVE  r[i].n < r[j].n
    OBVIOUS
  <2>1. i + 1 \in 1..Len(q) /\ j + 1 \in 1..Len(q) /\ r[i] = q[i + 1] /\ r[j] = q[j + 1] /\ i + 1 < j + 1
    BY <1>2
  <2> QED BY SMTT(30), <2>1 DEF Carries
<1>6. ASSUME Head(q).type # "data"
      PROVE  Carries(r, a, b)
  <2>1. \A i \in 1..Len(r) : r[i].type = "data" => r[i].n \in (a + 1)..b
    BY <1>2 DEF Carries
  <2>2. ASSUME NEW n \in (a + 1)..b
        PROVE  \E i \in 1..Len(r) : r[i].type = "data" /\ r[i].n = n
    <3>1. PICK i \in 1..Len(q) : q[i].type = "data" /\ q[i].n = n
      BY DEF Carries
    <3>2. i # 1
      BY <1>1, <1>6, <3>1
    <3> QED BY <1>3, <3>1, <3>2
  <2> QED BY <1>5, <2>1, <2>2 DEF Carries
<1>7. ASSUME Head(q).type = "data"
      PROVE  Head(q).n = a + 1 /\ a + 1 <= b /\ Carries(r, a + 1, b)
  <2>1. q[1].type = "data" /\ q[1].n \in (a + 1)..b
    BY <1>1, <1>4, <1>7 DEF Carries
  <2>2. PICK k \in 1..Len(q) : q[k].type = "data" /\ q[k].n = a + 1
    <3>1. a + 1 \in (a + 1)..b
      BY <2>1
    <3> QED BY <3>1 DEF Carries
  <2>3. \A i \in 1..Len(q) : i # 1 /\ q[i].type = "data" => q[1].n < q[i].n
    BY <1>3, <1>4, <2>1 DEF Carries
  <2>4. q[1].n = a + 1
    <3>1. CASE k = 1
      BY <2>2, <3>1
    <3>2. CASE k # 1
      <4>1. q[1].n < a + 1
        BY <2>2, <2>3, <3>2
      <4> QED BY <2>1, <4>1
    <3> QED BY <3>1, <3>2
  <2>5. \A i \in 1..Len(r) : r[i].type = "data" => r[i].n \in (a + 1 + 1)..b
    <3> SUFFICES ASSUME NEW i \in 1..Len(r), r[i].type = "data"
                 PROVE  r[i].n \in (a + 1 + 1)..b
      OBVIOUS
    <3>1. i + 1 \in 1..Len(q) /\ i + 1 # 1 /\ r[i] = q[i + 1]
      BY <1>2
    <3>2. q[i + 1].n \in (a + 1)..b /\ q[1].n < q[i + 1].n
      BY <2>3, <3>1 DEF Carries
    <3> QED BY <2>4, <3>1, <3>2
  <2>6. ASSUME NEW n \in (a + 1 + 1)..b
        PROVE  \E i \in 1..Len(r) : r[i].type = "data" /\ r[i].n = n
    <3>1. n \in (a + 1)..b /\ n # a + 1
      OBVIOUS
    <3>2. PICK i \in 1..Len(q) : q[i].type = "data" /\ q[i].n = n
      BY <3>1 DEF Carries
    <3>3. i # 1
      BY <2>4, <3>1, <3>2
    <3> QED BY <1>3, <3>2, <3>3
  <2>7. Carries(r, a + 1, b)
    BY <1>5, <2>5, <2>6 DEF Carries
  <2> QED BY <1>1, <2>1, <2>4, <2>7
<1> QED BY <1>6, <1>7 DEF r

\* A queue may follow another whose data end where its own begin.
LEMMA CarriesJoin ==
    ASSUME NEW q \in Seq(Packets(Types)), NEW h \in Seq(Packets(Types)), NEW a \in Nat, NEW b \in Nat,
           NEW d \in Nat, a <= b, b <= d, Carries(q, a, b), Carries(h, b, d)
    PROVE  Carries(q \o h, a, d)
<1> DEFINE r == q \o h
<1>1. /\ Len(q) \in Nat /\ Len(h) \in Nat /\ Len(r) = Len(q) + Len(h)
      /\ \A i \in 1..Len(r) : r[i] = IF i <= Len(q) THEN q[i] ELSE h[i - Len(q)]
  BY ConcatProperties, EmptySeq
<1> HIDE DEF r
<1>2. \A i \in 1..Len(r) : \/ i \in 1..Len(q) /\ r[i] = q[i]
                           \/ i > Len(q) /\ i - Len(q) \in 1..Len(h) /\ r[i] = h[i - Len(q)]
  BY <1>1
<1>3. \A i \in 1..Len(q) : i \in 1..Len(r) /\ r[i] = q[i]
  BY <1>1
<1>4. \A i \in 1..Len(h) : i + Len(q) \in 1..Len(r) /\ r[i + Len(q)] = h[i]
  BY <1>1
<1>5. ASSUME NEW i \in 1..Len(r), r[i].type = "data"
      PROVE  r[i].n \in (a + 1)..d
  <2>1. CASE i \in 1..Len(q) /\ r[i] = q[i]
    <3>1. q[i].n \in (a + 1)..b
      BY <1>5, <2>1 DEF Carries
    <3> QED BY <2>1, <3>1
  <2>2. CASE i - Len(q) \in 1..Len(h) /\ r[i] = h[i - Len(q)]
    <3>1. r[i].n \in (b + 1)..d
      BY <1>5, <2>2 DEF Carries
    <3> QED BY <3>1
  <2> QED BY <1>2, <2>1, <2>2
<1>6. ASSUME NEW n \in (a + 1)..d
      PROVE  \E i \in 1..Len(r) : r[i].type = "data" /\ r[i].n = n
  <2>1. CASE n \in (a + 1)..b
    <3>1. PICK i \in 1..Len(q) : q[i].type = "data" /\ q[i].n = n
      BY <2>1 DEF Carries
    <3> QED BY <1>3, <3>1
  <2>2. CASE n \in (b + 1)..d
    <3>1. PICK i \in 1..Len(h) : h[i].type = "data" /\ h[i].n = n
      BY <2>2 DEF Carries
    <3> QED BY <1>4, <3>1
  <2> QED BY <2>1, <2>2
<1>7. ASSUME NEW i \in 1..Len(r), NEW j \in 1..Len(r), r[i].type = "data", r[j].type = "data", i < j
      PROVE  r[i].n < r[j].n
  <2>1. CASE i \in 1..Len(q) /\ r[i] = q[i] /\ j \in 1..Len(q) /\ r[j] = q[j]
    BY <1>7, <2>1 DEF Carries
  <2>2. CASE i \in 1..Len(q) /\ r[i] = q[i] /\ j - Len(q) \in 1..Len(h) /\ r[j] = h[j - Len(q)]
    <3>1. r[i].n \in (a + 1)..b
      BY <1>7, <2>2 DEF Carries
    <3>2. r[j].n \in (b + 1)..d
      BY <1>7, <2>2 DEF Carries
    <3> QED BY SMTT(30), <3>1, <3>2
  <2>3. CASE i - Len(q) \in 1..Len(h) /\ r[i] = h[i - Len(q)] /\ j - Len(q) \in 1..Len(h) /\ r[j] = h[j - Len(q)]
    <3>1. PICK x \in 1..Len(h), y \in 1..Len(h) : x = i - Len(q) /\ y = j - Len(q)
      BY <2>3
    <3>2. x < y /\ r[i] = h[x] /\ r[j] = h[y]
      BY <1>1, <1>7, <2>3, <3>1
    <3> QED BY <1>7, <3>2 DEF Carries
  <2>4. CASE i > Len(q) /\ j \in 1..Len(q)
    BY <1>1, <1>7, <2>4
  <2> QED BY <1>2, <2>1, <2>2, <2>3, <2>4
<1> QED BY <1>5, <1>6, <1>7 DEF Carries, r

--------------------------------------------------------------------------------
(* The data one end's layer above has sent and the other's has not seen *)

\* Of the packets numbered got + 1 to sent, the first ones are on the line q and
\* the others are held back in h.
Streams(q, h, got, sent) ==
    \E mid \in Nat : got <= mid /\ mid <= sent /\ Carries(q, got, mid) /\ Carries(h, mid, sent)

\* A packet that is no data joins the line.
LEMMA StreamsSent ==
    ASSUME NEW q \in Seq(Packets(Types)), NEW h \in Seq(Packets(Types)), NEW m \in Packets(Types),
           NEW got \in Nat, NEW sent \in Nat, Streams(q, h, got, sent), m.type # "data"
    PROVE  Streams(Append(q, m), h, got, sent)
<1>1. PICK mid \in Nat : got <= mid /\ mid <= sent /\ Carries(q, got, mid) /\ Carries(h, mid, sent)
  BY DEF Streams
<1>2. Carries(Append(q, m), got, mid)
  BY <1>1, CarriesAppend
<1> QED BY <1>1, <1>2 DEF Streams

\* What is held back joins the line.
LEMMA StreamsFlushed ==
    ASSUME NEW q \in Seq(Packets(Types)), NEW h \in Seq(Packets(Types)),
           NEW got \in Nat, NEW sent \in Nat, Streams(q, h, got, sent)
    PROVE  Streams(q \o h, <<>>, got, sent)
<1>1. PICK mid \in Nat : got <= mid /\ mid <= sent /\ Carries(q, got, mid) /\ Carries(h, mid, sent)
  BY DEF Streams
<1>2. Carries(q \o h, got, sent)
  BY <1>1, CarriesJoin
<1>3. Carries(<<>>, sent, sent)
  BY CarriesNothing
<1>4. got <= sent
  BY <1>1
<1> QED BY <1>2, <1>3, <1>4 DEF Streams

\* The first packet of the line is taken: if data, then the next that is due.
LEMMA StreamsTaken ==
    ASSUME NEW q \in Seq(Packets(Types)), NEW h, NEW got \in Nat, NEW sent \in Nat,
           Streams(q, h, got, sent), q # <<>>
    PROVE  /\ Head(q).type # "data" => Streams(Tail(q), h, got, sent)
           /\ Head(q).type = "data" => Head(q).n = got + 1 /\ Streams(Tail(q), h, got + 1, sent)
<1>1. PICK mid \in Nat : got <= mid /\ mid <= sent /\ Carries(q, got, mid) /\ Carries(h, mid, sent)
  BY DEF Streams
<1>2. ASSUME Head(q).type # "data"
      PROVE  Streams(Tail(q), h, got, sent)
  <2>1. Carries(Tail(q), got, mid)
    BY <1>1, <1>2, CarriesTail
  <2> QED BY <1>1, <2>1 DEF Streams
<1>3. ASSUME Head(q).type = "data"
      PROVE  Head(q).n = got + 1 /\ Streams(Tail(q), h, got + 1, sent)
  <2>1. Head(q).n = got + 1 /\ got + 1 <= mid /\ Carries(Tail(q), got + 1, mid)
    BY <1>1, <1>3, CarriesTail
  <2> QED BY <1>1, <2>1 DEF Streams
<1> QED BY <1>2, <1>3

\* The layer above queues the next data packet, or another packet.
LEMMA StreamsQueued ==
    ASSUME NEW q, NEW h \in Seq(Packets(Types)), NEW m \in Packets(Types),
           NEW got \in Nat, NEW sent \in Nat, Streams(q, h, got, sent)
    PROVE  /\ m.type # "data" => Streams(q, Append(h, m), got, sent)
           /\ m.type = "data" /\ m.n = sent + 1 => Streams(q, Append(h, m), got, sent + 1)
<1>1. PICK mid \in Nat : got <= mid /\ mid <= sent /\ Carries(q, got, mid) /\ Carries(h, mid, sent)
  BY DEF Streams
<1>2. ASSUME m.type # "data"
      PROVE  Streams(q, Append(h, m), got, sent)
  <2>1. Carries(Append(h, m), mid, sent)
    BY <1>1, <1>2, CarriesAppend
  <2> QED BY <1>1, <2>1 DEF Streams
<1>3. ASSUME m.type = "data", m.n = sent + 1
      PROVE  Streams(q, Append(h, m), got, sent + 1)
  <2>1. Carries(Append(h, m), mid, sent + 1)
    BY <1>1, <1>3, CarriesAppend
  <2>2. mid <= sent + 1
    BY <1>1
  <2> QED BY <1>1, <2>1, <2>2 DEF Streams
<1> QED BY <1>2, <1>3

Stream(p) == Streams(Line(p), held[p], up[Other(p)].got, up[p].sent)
Streaming == \A p \in Peers : Stream(p)

\* The streams of both ends, seen from one.
LEMMA StreamParts ==
    ASSUME TypeOK, Streaming, NEW p \in Peers
    PROVE  /\ Streams(Line(p), held[p], up[Other(p)].got, up[p].sent)
           /\ Streams(Line(Other(p)), held[Other(p)], up[p].got, up[Other(p)].sent)
           /\ up[p].got \in Nat /\ up[p].sent \in Nat
           /\ up[Other(p)].got \in Nat /\ up[Other(p)].sent \in Nat
           /\ Line(p) \in Seq(Packets(Types)) /\ Line(Other(p)) \in Seq(Packets(Types))
           /\ held[p] \in Seq(Packets(Types)) /\ held[Other(p)] \in Seq(Packets(Types))
<1>1. Other(p) \in Peers /\ Other(Other(p)) = p
  BY PeersAreTwo
<1>2. Stream(p) /\ Stream(Other(p))
  BY <1>1 DEF Streaming
<1>3. up[p] \in UpperState /\ up[Other(p)] \in UpperState
      /\ held[p] \in Seq(Packets(Types)) /\ held[Other(p)] \in Seq(Packets(Types))
  BY <1>1, TypesOfAnEnd
<1>4. Line(p) \in Seq(Packets(Types)) /\ Line(Other(p)) \in Seq(Packets(Types))
  BY <1>1, TypesOfLines
<1> QED BY <1>1, <1>2, <1>3, <1>4 DEF Stream, UpperState

\* A step of p leaves the stream of each end intact if it does so for p and for
\* the other.
LEMMA StreamStep ==
    ASSUME NEW p \in Peers, NEW l, NEW k, l = Line(p)', k = Line(Other(p))',
           Streams(l, held'[p], up'[Other(p)].got, up'[p].sent),
           Streams(k, held'[Other(p)], up'[p].got, up'[Other(p)].sent)
    PROVE  Streaming'
<1>1. Other(Other(p)) = p
  BY PeersAreTwo
<1>2. ASSUME NEW q \in Peers
      PROVE  Stream(q)'
  <2>1. q = p \/ q = Other(p)
    BY PeersAreTwo
  <2>2. CASE q = p
    BY <2>2 DEF Stream
  <2>3. CASE q = Other(p)
    BY <1>1, <2>3 DEF Stream
  <2> QED BY <2>1, <2>2, <2>3
<1> QED BY <1>2 DEF Streaming

\* The coroutine's steps other than to pass packets up
Handles(p) ==
    \/ Start(p) \/ RecvKexinit(p) \/ RecvKexreq(p) \/ RecvKexreply(p) \/ AcceptHostKey(p)
    \/ RecvNewkeys(p) \/ RecvService(p) \/ WaitForRekey(p)

\* What such a step, from pc to pd, may do to its own line l and held packets h ...
Moves(pc, pd, l, h, k, g) ==
    \E m, n \in Packets(Lower) :
        \/ k = l /\ g = h /\ (pc \notin OldKeyPCs \/ pd \in OldKeyPCs)
        \/ k = Append(l, m) /\ g = h /\ pd \in OldKeyPCs
        \/ k = Append(l, m) /\ g = h /\ pc \notin OldKeyPCs /\ m.type # "kexinit"
        \/ k = Append(l, m) \o h /\ g = <<>> /\ m.type = "newkeys"
        \/ k = Append(Append(l, m), n) \o h /\ g = <<>> /\ n.type = "newkeys"
        \/ k = l \o h /\ g = <<>> /\ pc \notin OldKeyPCs
        \/ k = Append(l \o h, m) /\ g = <<>> /\ pc \notin OldKeyPCs /\ pd \in OldKeyPCs

\* ... and to the line j it reads
Takes(j, i) == i = j \/ (j # <<>> /\ Head(j).type \in Lower /\ i = Tail(j))

\* Every step is of one of three kinds.
LEMMA KindsOfSteps ==
    ASSUME [Next]_vars
    PROVE  Aside \/ \E p \in Peers : PassUp(p) \/ Handles(p)
  BY DEF Next, Step, Coroutine, Aside, Handles

\* The transport layer's own packets are not the layer above's.
LEMMA LowerPackets ==
    /\ \A u \in Lower, n \in Nat : Packet(u, n) \in Packets(Lower)
    /\ \A m \in Packets(Lower) : m \in Packets(Types) /\ m.type \in Lower /\ m.type # "data"
                                  /\ m.type \notin Upper
  BY DEF Packets, Packet, Lower, Types, Upper, UserAuth

\* Where the coroutine waits before and after such a step
LEMMA HandlerPhases ==
    ASSUME TypeOK, NEW p \in Peers
    PROVE  /\ Start(p) => tr'[p].pc \in OldKeyPCs
           /\ RecvKexinit(p) => tr'[p].pc \in OldKeyPCs
           /\ RecvKexreply(p) => (tr[p].begun = 1 => tr'[p].pc \in OldKeyPCs)
           /\ RecvNewkeys(p) => tr[p].pc \notin OldKeyPCs /\ (tr[p].deferred => tr'[p].pc \in OldKeyPCs)
           /\ RecvService(p) => tr[p].pc \notin OldKeyPCs
           /\ WaitForRekey(p) =>
                tr[p].pc \notin OldKeyPCs /\ (tr'[p].pc = "kexinit" => tr'[p].pc \in OldKeyPCs)
           /\ Handles(p) => tr'[Other(p)] = tr[Other(p)]
<1>1. ASSUME Start(p)
      PROVE  tr'[p].pc \in OldKeyPCs
  <2>1. tr' = [tr EXCEPT ![p] = Begun(tr[p])]
    BY <1>1 DEF Start
  <2>2. Begun(tr[p]).pc = "kexinit"
    BY TypesOfAnEnd, BegunFacts
  <2> QED BY <2>1, <2>2 DEF TypeOK, OldKeyPCs, KexPCs
<1>2. ASSUME RecvKexinit(p)
      PROVE  tr'[p].pc \in OldKeyPCs
  BY <1>2 DEF RecvKexinit, Next1, TypeOK, TransportState, OldKeyPCs, KexPCs
<1>3. ASSUME RecvKexreply(p), tr[p].begun = 1
      PROVE  tr'[p].pc \in OldKeyPCs
  BY <1>3 DEF RecvKexreply, TypeOK, TransportState, OldKeyPCs, KexPCs
<1>4. ASSUME Handles(p)
      PROVE  tr'[Other(p)] = tr[Other(p)]
  <2>1. PICK x : tr' = [tr EXCEPT ![p] = x]
    BY <1>4 DEF Handles, Start, RecvKexinit, RecvKexreq, RecvKexreply, AcceptHostKey, RecvNewkeys,
                RecvService, WaitForRekey
  <2> QED BY <2>1, PeersAreTwo DEF TypeOK
<1>5. /\ RecvNewkeys(p) => tr[p].pc \notin OldKeyPCs /\ (tr[p].deferred => tr'[p].pc \in OldKeyPCs)
      /\ RecvService(p) => tr[p].pc \notin OldKeyPCs
      /\ WaitForRekey(p) =>
            tr[p].pc \notin OldKeyPCs /\ (tr'[p].pc = "kexinit" => tr'[p].pc \in OldKeyPCs)
  BY RecvNewkeysFacts, RecvServiceFacts, WaitForRekeyFacts DEF OldKeyPCs, KexPCs
<1> QED BY <1>1, <1>2, <1>3, <1>4, <1>5

\* What a handler does to its own line, to the other's and to what is held back.
LEMMA HandlerMoves ==
    ASSUME TypeOK, NEW p \in Peers, Handles(p)
    PROVE  /\ Moves(tr[p].pc, tr'[p].pc, Line(p), held[p], Line(p)', held'[p])
           /\ Takes(Line(Other(p)), Line(Other(p))')
           /\ held'[Other(p)] = held[Other(p)] /\ up' = up
<1>1. PICK l, k, j, i, pc, pd :
        /\ l = Line(p) /\ k = Line(p)' /\ j = Line(Other(p)) /\ i = Line(Other(p))'
        /\ pc = tr[p].pc /\ pd = tr'[p].pc
  OBVIOUS
<1>2. up' = up
  BY DEF Handles, Start, RecvKexinit, RecvKexreq, RecvKexreply, AcceptHostKey, RecvNewkeys, RecvService,
         WaitForRekey
<1>3. held' = held \/ held' = [held EXCEPT ![p] = <<>>]
  BY StartLines, RecvKexinitLines, RecvKexreqLines, RecvKexreplyLines, AcceptHostKeyLines,
     RecvNewkeysLines, RecvServiceLines, WaitForRekeyLines DEF Handles
<1>4. held'[Other(p)] = held[Other(p)]
  BY <1>3, PeersAreTwo DEF TypeOK
<1>5. PICK h, g : h = held[p] /\ g = held'[p]
  OBVIOUS
<1>6. /\ (held' = held => g = h)
      /\ (held' = [held EXCEPT ![p] = <<>>] => g = <<>>)
  BY <1>5 DEF TypeOK
<1>7. Takes(j, i)
  BY <1>1, StartLines, RecvKexinitLines, RecvKexreqLines, RecvKexreplyLines, AcceptHostKeyLines,
     RecvNewkeysLines, RecvServiceLines, WaitForRekeyLines DEF Handles, Takes, Lower
<1>8. tr[p].conf \in Nat /\ 0 \in Nat
  BY TypesOfAnEnd
<1>9. /\ Packet("kexinit", tr[p].conf) \in Packets(Lower) /\ Packet("kexreq", 0) \in Packets(Lower)
      /\ Packet("kexreply", 0) \in Packets(Lower) /\ Packet("newkeys", 0) \in Packets(Lower)
      /\ Packet("svcreq", 0) \in Packets(Lower) /\ Packet("svcack", 0) \in Packets(Lower)
      /\ Packet("newkeys", 0).type = "newkeys" /\ Packet("svcreq", 0).type # "kexinit"
      /\ Packet("svcack", 0).type # "kexinit"
  BY <1>8, LowerPackets DEF Lower, Packet
<1>10. ASSUME Start(p) \/ RecvKexinit(p) \/ RecvService(p) \/ RecvNewkeys(p)
       PROVE  Moves(pc, pd, l, h, k, g)
  <2>1. /\ Start(p) => k = Append(l, Packet("kexinit", tr[p].conf)) /\ pd \in OldKeyPCs
        /\ RecvKexinit(p) => (k = l \/ k = Append(l, Packet("kexreq", 0))) /\ pd \in OldKeyPCs
        /\ RecvService(p) => (k = l \/ k = Append(l, Packet("svcack", 0))) /\ pc \notin OldKeyPCs
        /\ RecvNewkeys(p) =>
            /\ pc \notin OldKeyPCs
            /\ \/ k = Append(l, Packet("kexinit", tr[p].conf)) /\ pd \in OldKeyPCs
               \/ k = l \/ k = Append(l, Packet("svcreq", 0))
        /\ g = h
    BY <1>1, <1>6, <1>10, HandlerPhases, StartLines, RecvKexinitLines, RecvServiceLines, RecvNewkeysLines
  <2> QED BY <1>9, <1>10, <2>1 DEF Moves
<1>11. ASSUME RecvKexreq(p) \/ RecvKexreply(p) \/ AcceptHostKey(p)
       PROVE  Moves(pc, pd, l, h, k, g)
  <2>1. \/ k = Append(Append(l, Packet("kexreply", 0)), Packet("newkeys", 0)) \o h /\ g = <<>>
        \/ k = Append(l, Packet("newkeys", 0)) \o h /\ g = <<>>
        \/ k = l /\ g = h /\ pd \in OldKeyPCs
    BY <1>1, <1>5, <1>6, <1>11, HandlerPhases, RecvKexreqLines, RecvKexreplyLines, AcceptHostKeyLines
  <2> QED BY <1>9, <2>1 DEF Moves
<1>12. ASSUME WaitForRekey(p)
       PROVE  Moves(pc, pd, l, h, k, g)
  <2>1. /\ pc \notin OldKeyPCs /\ g = <<>>
        /\ \/ k = l \o h
           \/ k = Append(l \o h, Packet("kexinit", tr[p].conf)) /\ pd \in OldKeyPCs
    BY <1>1, <1>5, <1>6, <1>12, HandlerPhases, WaitForRekeyLines
  <2> QED BY <1>9, <2>1 DEF Moves
<1>13. Moves(pc, pd, l, h, k, g)
  BY <1>10, <1>11, <1>12 DEF Handles
<1> QED BY <1>1, <1>2, <1>4, <1>5, <1>7, <1>13

\* The other end's stream when the first packet of its line, which is no data, is
\* taken or nothing is.
LEMMA StreamOfOther ==
    ASSUME TypeOK, Streaming, NEW p \in Peers, up' = up,
           NEW l, l = Line(Other(p)), NEW k, k = Line(Other(p))', held'[Other(p)] = held[Other(p)],
           \/ k = l
           \/ l # <<>> /\ Head(l).type # "data" /\ k = Tail(l)
    PROVE  Streams(k, held'[Other(p)], up'[p].got, up'[Other(p)].sent)
<1>1. PICK h, got, sent : h = held[Other(p)] /\ got = up[p].got /\ sent = up[Other(p)].sent
  OBVIOUS
<1>2. Streams(l, h, got, sent) /\ got \in Nat /\ sent \in Nat /\ l \in Seq(Packets(Types))
  BY <1>1, StreamParts
<1>3. Streams(k, h, got, sent)
  BY <1>2, StreamsTaken
<1> QED BY <1>1, <1>3

\* Packets that are no data, and what is held back, join the line.
LEMMA StreamOfSender ==
    ASSUME TypeOK, Streaming, NEW p \in Peers, up' = up, NEW l, l = Line(p), NEW k, k = Line(p)',
           NEW m \in Packets(Types), NEW n \in Packets(Types), m.type # "data", n.type # "data",
           \/ k = l /\ held'[p] = held[p]
           \/ k = Append(l, m) /\ held'[p] = held[p]
           \/ k = Append(l, m) \o held[p] /\ held'[p] = <<>>
           \/ k = Append(Append(l, m), n) \o held[p] /\ held'[p] = <<>>
           \/ k = l \o held[p] /\ held'[p] = <<>>
           \/ k = Append(l \o held[p], m) /\ held'[p] = <<>>
    PROVE  Streams(k, held'[p], up'[Other(p)].got, up'[p].sent)
<1>1. PICK h, got, sent : h = held[p] /\ got = up[Other(p)].got /\ sent = up[p].sent
  OBVIOUS
<1>2. /\ Streams(l, h, got, sent) /\ got \in Nat /\ sent \in Nat
      /\ l \in Seq(Packets(Types)) /\ h \in Seq(Packets(Types))
  BY <1>1, StreamParts
<1>3. Append(l, m) \in Seq(Packets(Types)) /\ Streams(Append(l, m), h, got, sent)
  BY <1>2, StreamsSent
<1>4. Append(Append(l, m), n) \in Seq(Packets(Types)) /\ Streams(Append(Append(l, m), n), h, got, sent)
  <2>1. PICK q : q = Append(l, m)
    OBVIOUS
  <2>2. q \in Seq(Packets(Types)) /\ Streams(q, h, got, sent)
    BY <1>3, <2>1
  <2>3. Append(q, n) \in Seq(Packets(Types)) /\ Streams(Append(q, n), h, got, sent)
    BY <1>2, <2>2, StreamsSent
  <2> QED BY <2>1, <2>3
<1>5. /\ Streams(Append(l, m) \o h, <<>>, got, sent)
      /\ Streams(Append(Append(l, m), n) \o h, <<>>, got, sent)
  BY <1>2, <1>3, <1>4, StreamsFlushed
<1>6. l \o h \in Seq(Packets(Types)) /\ Streams(l \o h, <<>>, got, sent)
  BY <1>2, StreamsFlushed, ConcatProperties
<1>7. Streams(Append(l \o h, m), <<>>, got, sent)
  <2>1. <<>> \in Seq(Packets(Types))
    BY EmptySeq
  <2> QED BY <1>2, <1>6, <2>1, StreamsSent
<1> QED BY <1>1, <1>2, <1>3, <1>5, <1>6, <1>7

\* A handler leaves both ends' streams as they are.
LEMMA HandlerStreams ==
    ASSUME TypeOK, Streaming, NEW p \in Peers, Handles(p)
    PROVE  Streaming'
<1>1. PICK l, k, j, i : l = Line(p) /\ k = Line(p)' /\ j = Line(Other(p)) /\ i = Line(Other(p))'
  OBVIOUS
<1>2. /\ Moves(tr[p].pc, tr'[p].pc, l, held[p], k, held'[p]) /\ Takes(j, i)
      /\ held'[Other(p)] = held[Other(p)] /\ up' = up
  BY <1>1, HandlerMoves
<1>3. PICK m, n \in Packets(Lower) :
        \/ k = l /\ held'[p] = held[p]
        \/ k = Append(l, m) /\ held'[p] = held[p]
        \/ k = Append(l, m) \o held[p] /\ held'[p] = <<>>
        \/ k = Append(Append(l, m), n) \o held[p] /\ held'[p] = <<>>
        \/ k = l \o held[p] /\ held'[p] = <<>>
        \/ k = Append(l \o held[p], m) /\ held'[p] = <<>>
  BY <1>2 DEF Moves
<1>4. m \in Packets(Types) /\ n \in Packets(Types) /\ m.type # "data" /\ n.type # "data"
  BY <1>3, LowerPackets
<1>5. i = j \/ (j # <<>> /\ Head(j).type # "data" /\ i = Tail(j))
  BY <1>2 DEF Takes, Lower
<1>6. Streams(k, held'[p], up'[Other(p)].got, up'[p].sent)
  BY <1>1, <1>2, <1>3, <1>4, StreamOfSender
<1>7. Streams(i, held'[Other(p)], up'[p].got, up'[Other(p)].sent)
  BY <1>1, <1>2, <1>5, StreamOfOther
<1> QED BY <1>1, <1>6, <1>7, StreamStep

\* What an end takes is the next data packet, if it is data at all.
LEMMA PassUpStreams ==
    ASSUME TypeOK, Streaming, NEW p \in Peers, PassUp(p), fault' = "none"
    PROVE  Streaming'
<1>1. PICK j, i, m : j = Line(Other(p)) /\ i = Line(Other(p))' /\ m = Head(inq[p])
  OBVIOUS
<1>2. /\ Line(p)' = Line(p) /\ held' = held /\ m.type \in Upper
      /\ j # <<>> /\ Head(j) = m /\ i = Tail(j) /\ up' = [up EXCEPT ![p] = Delivered(@, m)]
  BY <1>1, PassUpLines
<1>3. PICK h, got, sent : h = held[Other(p)] /\ got = up[p].got /\ sent = up[Other(p)].sent
  OBVIOUS
<1>4. /\ Streams(j, h, got, sent) /\ got \in Nat /\ sent \in Nat /\ j \in Seq(Packets(Types))
      /\ Streams(Line(p), held[p], up[Other(p)].got, up[p].sent)
  BY <1>1, <1>3, StreamParts
<1>5. /\ m.type = "data" => up'[p].got = got + 1
      /\ m.type # "data" => up'[p].got = got
      /\ up'[p].sent = up[p].sent /\ up'[Other(p)] = up[Other(p)]
  BY SMTT(30), <1>2, <1>3, PeersAreTwo DEF Delivered, TypeOK, UpperState
<1>6. Streams(i, h, up'[p].got, sent)
  BY <1>2, <1>4, <1>5, StreamsTaken
<1>7. PICK l, k : l = Line(p) /\ k = Line(p)'
  OBVIOUS
<1>8. Streams(k, held'[p], up'[Other(p)].got, up'[p].sent)
  BY <1>2, <1>4, <1>5, <1>7
<1>9. Streams(i, held'[Other(p)], up'[p].got, up'[Other(p)].sent)
  BY <1>2, <1>3, <1>5, <1>6
<1> QED BY <1>1, <1>7, <1>8, <1>9, StreamStep

\* Queueing the next data packet, or another packet, keeps the streams intact.
LEMMA QueueStreams ==
    ASSUME TypeOK, Streaming, NEW p \in Peers, NEW m \in Packets(Types),
           held' = [held EXCEPT ![p] = Append(@, m)], \A q \in Peers : Line(q)' = Line(q),
           \A q \in Peers : up'[q].got = up[q].got, up'[Other(p)].sent = up[Other(p)].sent,
           \/ m.type # "data" /\ up'[p].sent = up[p].sent
           \/ m.type = "data" /\ m.n = up[p].sent + 1 /\ up'[p].sent = up[p].sent + 1
    PROVE  Streaming'
<1>1. PICK l, j : l = Line(p) /\ j = Line(Other(p))
  OBVIOUS
<1>2. PICK h, got, sent : h = held[p] /\ got = up[Other(p)].got /\ sent = up[p].sent
  OBVIOUS
<1>3. /\ Streams(l, h, got, sent) /\ got \in Nat /\ sent \in Nat /\ h \in Seq(Packets(Types))
      /\ Streams(j, held[Other(p)], up[p].got, up[Other(p)].sent)
  BY <1>1, <1>2, StreamParts
<1>4. Streams(l, Append(h, m), got, up'[p].sent)
  BY <1>2, <1>3, StreamsQueued
<1>5. Other(p) \in Peers /\ held'[p] = Append(h, m) /\ held'[Other(p)] = held[Other(p)]
  BY <1>2, PeersAreTwo DEF TypeOK
<1>6. PICK k, i : k = Line(p)' /\ i = Line(Other(p))'
  OBVIOUS
<1>7. k = l /\ i = j
  BY <1>1, <1>5, <1>6
<1>8. Streams(k, held'[p], up'[Other(p)].got, up'[p].sent)
  BY <1>2, <1>4, <1>5, <1>7
<1>9. Streams(i, held'[Other(p)], up'[p].got, up'[Other(p)].sent)
  BY <1>3, <1>5, <1>7
<1> QED BY <1>6, <1>8, <1>9, StreamStep

\* A step that touches neither lines nor numbers keeps the streams intact.
LEMMA StreamsStay ==
    ASSUME Streaming, held' = held, \A q \in Peers : Line(q)' = Line(q),
           \A q \in Peers : up'[q].got = up[q].got /\ up'[q].sent = up[q].sent
    PROVE  Streaming'
<1>1. ASSUME NEW q \in Peers
      PROVE  Stream(q)'
  <2>1. Stream(q) /\ Other(q) \in Peers
    BY PeersAreTwo DEF Streaming
  <2>2. PICK l, k : l = Line(q) /\ k = Line(q)'
    OBVIOUS
  <2>3. k = l
    BY <2>2
  <2>4. Streams(k, held'[q], up'[Other(q)].got, up'[q].sent)
    BY <2>1, <2>2, <2>3 DEF Stream
  <2> QED BY <2>2, <2>4 DEF Stream
<1> QED BY <1>1 DEF Streaming

\* The steps aside keep the streams intact.
LEMMA AsideStreams ==
    ASSUME TypeOK, Streaming, Aside, fault' # "garbled"
    PROVE  Streaming'
<1>1. \A q \in Peers : Line(q)' = Line(q)
  BY AsideLines
<1>2. ASSUME NEW p \in Peers, Unexpected(p) \/ Block(p) \/ BppInput(p) \/ BppOutput(p) \/ RekeyTimer(p)
      PROVE  held' = held /\ up' = up
  BY <1>2 DEF Unexpected, Block, BppInput, BppOutput, RekeyTimer
<1>3. ASSUME UserRekey \/ Reconfigure \/ UNCHANGED vars
      PROVE  held' = held /\ up' = up
  BY <1>3 DEF UserRekey, Reconfigure, vars
<1>4. ASSUME NotifyAuthDone
      PROVE  held' = held /\ \A q \in Peers : up'[q].got = up[q].got /\ up'[q].sent = up[q].sent
  BY <1>4 DEF NotifyAuthDone, TypeOK, UpperState, Peers
<1>5. ASSUME held' = held, up' = up
      PROVE  Streaming'
  BY <1>1, <1>5, StreamsStay
<1>6. ASSUME NEW p \in Peers, SendData(p)
      PROVE  Streaming'
  <2>1. PICK m : m = Packet("data", up[p].sent + 1)
    OBVIOUS
  <2>2. up[p].sent \in Nat /\ "data" \in Types
    BY TypesOfAnEnd DEF UpperState, Types, Upper
  <2>3. m \in Packets(Types) /\ m.type = "data" /\ m.n = up[p].sent + 1
    BY <2>1, <2>2 DEF Packets, Packet
  <2>4. /\ held' = [held EXCEPT ![p] = Append(@, m)] /\ Other(p) \in Peers
        /\ \A q \in Peers : up'[q].got = up[q].got
        /\ up'[Other(p)].sent = up[Other(p)].sent /\ up'[p].sent = up[p].sent + 1
    BY SMTT(30), <1>6, <2>1, PeersAreTwo DEF SendData, Queue, TypeOK, UpperState
  <2> QED BY <1>1, <2>3, <2>4, QueueStreams
<1>7. ASSUME AskAuth
      PROVE  Streaming'
  <2>1. PICK m : m = Packet("authreq", 0)
    OBVIOUS
  <2>2. m \in Packets(Types) /\ m.type # "data"
    BY <2>1 DEF Packets, Packet, Types, Upper, UserAuth
  <2>3. /\ "client" \in Peers /\ held' = [held EXCEPT !["client"] = Append(@, m)]
        /\ \A q \in Peers : up'[q].got = up[q].got /\ up'[q].sent = up[q].sent
    BY <1>7, <2>1 DEF AskAuth, Queue, TypeOK, UpperState, Peers
  <2> QED BY <1>1, <2>2, <2>3, PeersAreTwo, QueueStreams
<1>8. ASSUME AnswerAuth
      PROVE  Streaming'
  <2>1. PICK m : m \in {Packet("authfail", 0), Packet("authok", 0)} /\ Queue("server", m)
    BY <1>8 DEF AnswerAuth
  <2>2. m \in Packets(Types) /\ m.type # "data"
    BY <2>1 DEF Packets, Packet, Types, Upper, UserAuth
  <2>3. "server" \in Peers /\ \A q \in Peers : up'[q].got = up[q].got /\ up'[q].sent = up[q].sent
    <3>1. CASE up' = [up EXCEPT !["server"].auth = "idle", !["server"].tries = @ + 1]
      BY ZenonT(30), <3>1 DEF TypeOK, UpperState, Peers
    <3>2. CASE up' = [up EXCEPT !["server"].auth = "done"]
      BY <3>2 DEF TypeOK, UpperState, Peers
    <3> QED BY <1>8, <3>1, <3>2 DEF AnswerAuth
  <2>4. held' = [held EXCEPT !["server"] = Append(@, m)]
    BY <2>1 DEF Queue
  <2> QED BY <1>1, <2>2, <2>3, <2>4, PeersAreTwo, QueueStreams
<1> QED BY <1>1, <1>2, <1>3, <1>4, <1>5, <1>6, <1>7, <1>8, StreamsStay DEF Aside

\* At first no data have been sent.
LEMMA InitStreams == Init => Streaming
<1> SUFFICES ASSUME Init
             PROVE  Streaming
  OBVIOUS
<1>1. ASSUME NEW p \in Peers
      PROVE  Stream(p)
  <2>1. /\ Other(p) \in Peers /\ held[p] = <<>> /\ up[Other(p)].got = 0 /\ up[p].sent = 0
        /\ inq[Other(p)] = <<>> /\ wire[Other(p)] = <<>> /\ outq[p] = <<>>
    BY PeersAreTwo DEF Init
  <2>2. Line(p) = <<>>
    BY <2>1 DEF Line, LineOf, Stripped
  <2>3. Carries(<<>>, 0, 0)
    BY CarriesNothing
  <2> QED BY <2>1, <2>2, <2>3 DEF Stream, Streams
<1> QED BY <1>1 DEF Streaming

\* Unless keys fall out of step, every step keeps every stream intact.
LEMMA StreamInvariance ==
    ASSUME TypeOK, Streaming, [Next]_vars, fault' # "garbled"
    PROVE  Streaming'
<1>1. CASE Aside
  BY <1>1, AsideStreams
<1>2. ASSUME NEW p \in Peers, PassUp(p)
      PROVE  Streaming'
  <2>1. CASE fault' = "none"
    BY <1>2, <2>1, PassUpStreams
  <2>2. CASE fault' # "none"
    <3>1. inq' = inq /\ wire' = wire /\ outq' = outq /\ held' = held /\ up' = up
      BY <1>2, <2>2 DEF PassUp, Running
    <3>2. \A q \in Peers : Line(q)' = Line(q)
      BY <3>1 DEF Line
    <3> QED BY <3>1, <3>2, StreamsStay
  <2> QED BY <2>1, <2>2
<1>3. ASSUME NEW p \in Peers, Handles(p)
      PROVE  Streaming'
  BY <1>3, HandlerStreams
<1> QED BY <1>1, <1>2, <1>3, KindsOfSteps

--------------------------------------------------------------------------------
(* StreamIntact *)

\* Two queues with the same packets, whatever else the one says of them
Alike(q, r) ==
    Len(q) = Len(r) /\ \A i \in 1..Len(q) : q[i].type = r[i].type /\ q[i].n = r[i].n

\* Queues that agree packet by packet stay so joined to others that do.
LEMMA AlikeJoined ==
    ASSUME NEW S, NEW T, NEW q \in Seq(S), NEW a \in Seq(S), NEW r \in Seq(T), NEW b \in Seq(T),
           Alike(q, r), Alike(a, b)
    PROVE  q \o a \in Seq(S) /\ r \o b \in Seq(T) /\ Alike(q \o a, r \o b)
<1>1. /\ q \o a \in Seq(S) /\ Len(q \o a) = Len(q) + Len(a) /\ Len(q) \in Nat /\ Len(a) \in Nat
      /\ \A i \in 1..Len(q) + Len(a) : (q \o a)[i] = IF i <= Len(q) THEN q[i] ELSE a[i - Len(q)]
  BY ConcatProperties
<1>2. /\ r \o b \in Seq(T) /\ Len(r \o b) = Len(r) + Len(b)
      /\ \A i \in 1..Len(r) + Len(b) : (r \o b)[i] = IF i <= Len(r) THEN r[i] ELSE b[i - Len(r)]
  BY ConcatProperties
<1>3. ASSUME NEW i \in 1..Len(q) + Len(a)
      PROVE  (q \o a)[i].type = (r \o b)[i].type /\ (q \o a)[i].n = (r \o b)[i].n
  <2>1. CASE i <= Len(q)
    <3>1. i \in 1..Len(q) /\ (q \o a)[i] = q[i] /\ (r \o b)[i] = r[i]
      BY <1>1, <1>2, <2>1 DEF Alike
    <3>2. q[i].type = r[i].type /\ q[i].n = r[i].n
      BY <3>1 DEF Alike
    <3> QED BY <3>1, <3>2
  <2>2. CASE i > Len(q)
    <3>1. i - Len(q) \in 1..Len(a) /\ (q \o a)[i] = a[i - Len(q)] /\ (r \o b)[i] = b[i - Len(q)]
      BY <1>1, <1>2, <2>2 DEF Alike
    <3>2. a[i - Len(q)].type = b[i - Len(q)].type /\ a[i - Len(q)].n = b[i - Len(q)].n
      BY <3>1 DEF Alike
    <3> QED BY <3>1, <3>2
  <2>3. Len(q) \in Nat /\ Len(a) \in Nat
    BY <1>1
  <2>4. i <= Len(q) \/ i > Len(q)
    BY <2>3
  <2> QED BY <2>1, <2>2, <2>4
<1> QED BY <1>1, <1>2, <1>3 DEF Alike

\* Queues that agree packet by packet carry the same data.
LEMMA CarriesAlike ==
    ASSUME NEW q, NEW r, NEW a, NEW b, Alike(q, r), Carries(r, a, b)
    PROVE  Carries(q, a, b)
<1>1. PICK D : D = 1..Len(q)
  OBVIOUS
<1>2. 1..Len(r) = D /\ \A i \in D : q[i].type = r[i].type /\ q[i].n = r[i].n
  BY <1>1 DEF Alike
<1>3. /\ \A i \in D : r[i].type = "data" => r[i].n \in (a + 1)..b
      /\ \A n \in (a + 1)..b : \E i \in D : r[i].type = "data" /\ r[i].n = n
      /\ \A i, j \in D : r[i].type = "data" /\ r[j].type = "data" /\ i < j => r[i].n < r[j].n
  BY <1>2 DEF Carries
<1> QED BY SMTT(30), <1>1, <1>2, <1>3 DEF Carries

\* What is in transit is the line and what is held back, packet by packet.
LEMMA InTransitIsLine ==
    ASSUME TypeOK, NEW p \in Peers
    PROVE  InTransit(p) \in Seq(Packets(Types) \cup Encodings) /\ Alike(InTransit(p), Line(p) \o held[p])
<1> DEFINE S == Packets(Types) \cup Encodings
           T == Packets(Types)
           i == inq[Other(p)]
           w == wire[Other(p)]
<1>1. /\ i \in Seq(T) /\ w \in Seq(Encodings) /\ outq[p] \in Seq(T) /\ held[p] \in Seq(T)
  BY PeersAreTwo, TypesOfAnEnd
<1>2. Stripped(w) \in Seq(T) /\ Alike(w, Stripped(w))
  <2>1. /\ Stripped(w) \in Seq(T) /\ Len(Stripped(w)) = Len(w)
        /\ \A k \in 1..Len(w) : Stripped(w)[k] = Packet(w[k].type, w[k].n)
    BY <1>1, StrippedType
  <2>2. \A k \in 1..Len(w) : Packet(w[k].type, w[k].n).type = w[k].type /\ Packet(w[k].type, w[k].n).n = w[k].n
    BY DEF Packet
  <2> QED BY <2>1, <2>2 DEF Alike
<1>3. i \in Seq(S) /\ w \in Seq(S) /\ outq[p] \in Seq(S) /\ held[p] \in Seq(S)
  BY <1>1
<1>4. \A q \in Seq(T) : Alike(q, q)
  BY DEF Alike
<1>5. Line(p) = (i \o Stripped(w)) \o outq[p] /\ InTransit(p) = ((i \o w) \o outq[p]) \o held[p]
  BY DEF Line, LineOf, InTransit
<1> HIDE DEF S, T, i, w
<1>6. i \o w \in Seq(S) /\ i \o Stripped(w) \in Seq(T) /\ Alike(i \o w, i \o Stripped(w))
  BY <1>1, <1>2, <1>3, <1>4, AlikeJoined
<1>7. /\ (i \o w) \o outq[p] \in Seq(S) /\ (i \o Stripped(w)) \o outq[p] \in Seq(T)
      /\ Alike((i \o w) \o outq[p], (i \o Stripped(w)) \o outq[p])
  BY <1>1, <1>3, <1>4, <1>6, AlikeJoined
<1>8. /\ ((i \o w) \o outq[p]) \o held[p] \in Seq(S)
      /\ Alike(((i \o w) \o outq[p]) \o held[p], ((i \o Stripped(w)) \o outq[p]) \o held[p])
  <2>1. PICK x, y : x = (i \o w) \o outq[p] /\ y = (i \o Stripped(w)) \o outq[p]
    OBVIOUS
  <2>2. x \in Seq(S) /\ y \in Seq(T) /\ Alike(x, y) /\ Alike(held[p], held[p])
    BY <1>1, <1>4, <1>7, <2>1
  <2>3. x \o held[p] \in Seq(S) /\ Alike(x \o held[p], y \o held[p])
    BY <1>1, <1>3, <2>2, AlikeJoined
  <2> QED BY <2>1, <2>3
<1> QED BY <1>5, <1>8 DEF S

\* The streams, as StreamIntact puts it.
LEMMA StreamsAreIntact ==
    TypeOK /\ Streaming => StreamIntact
<1> SUFFICES ASSUME TypeOK, Streaming, NEW p \in Peers, NEW q, q = InTransit(p)
             PROVE  /\ {q[i].n : i \in IsData(q)} = (up[Other(p)].got + 1)..up[p].sent
                    /\ \A i, j \in IsData(q) : i < j => q[i].n < q[j].n
  BY DEF StreamIntact
<1>1. PICK l, h, a, b : l = Line(p) /\ h = held[p] /\ a = up[Other(p)].got /\ b = up[p].sent
  OBVIOUS
<1>2. /\ Streams(l, h, a, b) /\ a \in Nat /\ b \in Nat
      /\ l \in Seq(Packets(Types)) /\ h \in Seq(Packets(Types))
  BY <1>1, StreamParts
<1>3. PICK mid \in Nat : a <= mid /\ mid <= b /\ Carries(l, a, mid) /\ Carries(h, mid, b)
  BY <1>2 DEF Streams
<1>4. Carries(l \o h, a, b)
  BY <1>2, <1>3, CarriesJoin
<1>5. PICK r : r = l \o h
  OBVIOUS
<1>6. Alike(q, r) /\ DOMAIN q = 1..Len(q)
  BY <1>1, <1>5, InTransitIsLine, LenProperties
<1>7. Carries(q, a, b)
  BY <1>4, <1>5, <1>6, CarriesAlike
<1>8. IsData(q) = {i \in 1..Len(q) : q[i].type = "data"}
  BY <1>6 DEF IsData
<1>9. ASSUME NEW n
      PROVE  n \in {q[i].n : i \in IsData(q)} <=> n \in (a + 1)..b
  BY <1>7, <1>8 DEF Carries
<1>10. \A i, j \in IsData(q) : i < j => q[i].n < q[j].n
  BY <1>7, <1>8 DEF Carries
<1> QED BY <1>1, <1>9, <1>10

--------------------------------------------------------------------------------
(* QuietDuringKex *)

\* After a KEXINIT in q nothing of the layer above follows until NEWKEYS does.
Settled(q) ==
    \A i, k \in 1..Len(q) :
        i < k /\ q[i].type = "kexinit" /\ q[k].type \in Upper
            => \E j \in 1..Len(q) : i <= j /\ j <= k /\ q[j].type = "newkeys"

\* NEWKEYS has followed every KEXINIT in q.
Closed(q) ==
    \A i \in 1..Len(q) : q[i].type = "kexinit" => \E j \in 1..Len(q) : i < j /\ q[j].type = "newkeys"

\* What a packet added at the end does to the order of NEWKEYS and the packets above.
LEMMA SettledAppend ==
    ASSUME NEW q \in Seq(Packets(Types)), NEW m \in Packets(Types), m.type \in Lower, Settled(q)
    PROVE  /\ Append(q, m) \in Seq(Packets(Types)) /\ Settled(Append(q, m))
           /\ m.type = "newkeys" => Closed(Append(q, m))
           /\ m.type # "kexinit" /\ Closed(q) => Closed(Append(q, m))
<1>1. PICK r : r = Append(q, m)
  OBVIOUS
<1>2. /\ r \in Seq(Packets(Types)) /\ Len(q) \in Nat /\ Len(r) = Len(q) + 1 /\ r[Len(q) + 1] = m
      /\ \A i \in 1..Len(q) : r[i] = q[i]
  BY <1>1, AppendProperties
<1>3. /\ \A i \in 1..Len(r) : (i \in 1..Len(q) /\ r[i] = q[i]) \/ (i = Len(q) + 1 /\ r[i] = m)
      /\ \A i \in 1..Len(q) : i \in 1..Len(r) /\ i < Len(q) + 1
      /\ Len(q) + 1 \in 1..Len(r)
  BY <1>2
<1>4. m.type \notin Upper
  BY DEF Lower, Upper, UserAuth
<1>5. Settled(r)
  <2> SUFFICES ASSUME NEW i \in 1..Len(r), NEW k \in 1..Len(r), i < k, r[i].type = "kexinit", r[k].type \in Upper
               PROVE  \E j \in 1..Len(r) : i <= j /\ j <= k /\ r[j].type = "newkeys"
    BY DEF Settled
  <2>1. k \in 1..Len(q) /\ r[k] = q[k]
    BY <1>3, <1>4
  <2>2. i \in 1..Len(q) /\ r[i] = q[i]
    BY <1>2, <1>3, <2>1
  <2>3. PICK j \in 1..Len(q) : i <= j /\ j <= k /\ q[j].type = "newkeys"
    BY <2>1, <2>2 DEF Settled
  <2> QED BY <1>2, <1>3, <2>3
<1>6. ASSUME m.type = "newkeys"
      PROVE  Closed(r)
  <2> SUFFICES ASSUME NEW i \in 1..Len(r), r[i].type = "kexinit"
               PROVE  \E j \in 1..Len(r) : i < j /\ r[j].type = "newkeys"
    BY DEF Closed
  <2>1. i < Len(q) + 1
    BY <1>3, <1>6
  <2> QED BY <1>2, <1>3, <1>6, <2>1
<1>7. ASSUME m.type # "kexinit", Closed(q)
      PROVE  Closed(r)
  <2> SUFFICES ASSUME NEW i \in 1..Len(r), r[i].type = "kexinit"
               PROVE  \E j \in 1..Len(r) : i < j /\ r[j].type = "newkeys"
    BY DEF Closed
  <2>1. i \in 1..Len(q) /\ r[i] = q[i]
    BY <1>3, <1>7
  <2>2. PICK j \in 1..Len(q) : i < j /\ q[j].type = "newkeys"
    BY <1>7, <2>1 DEF Closed
  <2> QED BY <1>2, <1>3, <2>2
<1> QED BY <1>1, <1>2, <1>5, <1>6, <1>7

\* Packets of the layer above may follow a closed queue.
LEMMA SettledJoin ==
    ASSUME NEW q \in Seq(Packets(Types)), NEW h \in Seq(Packets(Upper)), Settled(q), Closed(q)
    PROVE  q \o h \in Seq(Packets(Types)) /\ Settled(q \o h) /\ Closed(q \o h)
<1>1. PICK r : r = q \o h
  OBVIOUS
<1>2. h \in Seq(Packets(Types)) /\ \A i \in 1..Len(h) : h[i].type \in Upper
  <2>1. \A i \in 1..Len(h) : h[i] \in Packets(Upper)
    OBVIOUS
  <2>2. \A i \in 1..Len(h) : h[i].type \in Upper
    BY <2>1 DEF Packets
  <2> QED BY <2>2, HeldArePackets
<1>3. /\ r \in Seq(Packets(Types)) /\ Len(q) \in Nat /\ Len(h) \in Nat /\ Len(r) = Len(q) + Len(h)
      /\ \A i \in 1..Len(r) : r[i] = IF i <= Len(q) THEN q[i] ELSE h[i - Len(q)]
  BY <1>1, <1>2, ConcatProperties
<1>4. /\ \A i \in 1..Len(r) : \/ i \in 1..Len(q) /\ r[i] = q[i]
                              \/ i > Len(q) /\ i - Len(q) \in 1..Len(h) /\ r[i] = h[i - Len(q)]
      /\ \A i \in 1..Len(q) : i \in 1..Len(r) /\ r[i] = q[i]
  BY <1>3
<1>5. \A i \in 1..Len(r) : r[i].type = "kexinit" => i \in 1..Len(q) /\ r[i] = q[i]
  BY <1>2, <1>4 DEF Upper, UserAuth
<1>6. Closed(r)
  <2> SUFFICES ASSUME NEW i \in 1..Len(r), r[i].type = "kexinit"
               PROVE  \E j \in 1..Len(r) : i < j /\ r[j].type = "newkeys"
    BY DEF Closed
  <2>1. PICK j \in 1..Len(q) : i < j /\ q[j].type = "newkeys"
    BY <1>5 DEF Closed
  <2> QED BY <1>4, <2>1
<1>7. Settled(r)
  <2> SUFFICES ASSUME NEW i \in 1..Len(r), NEW k \in 1..Len(r), i < k, r[i].type = "kexinit", r[k].type \in Upper
               PROVE  \E j \in 1..Len(r) : i <= j /\ j <= k /\ r[j].type = "newkeys"
    BY DEF Settled
  <2>1. i \in 1..Len(q) /\ r[i] = q[i]
    BY <1>5
  <2>2. CASE k \in 1..Len(q) /\ r[k] = q[k]
    <3>1. PICK j \in 1..Len(q) : i <= j /\ j <= k /\ q[j].type = "newkeys"
      BY <2>1, <2>2 DEF Settled
    <3> QED BY <1>4, <3>1
  <2>3. CASE k > Len(q)
    <3>1. PICK j \in 1..Len(q) : i < j /\ q[j].type = "newkeys"
      BY <2>1 DEF Closed
    <3>2. j \in 1..Len(r) /\ r[j] = q[j] /\ i <= j /\ j <= k
      BY <1>3, <1>4, <2>3, <3>1
    <3> QED BY <3>1, <3>2
  <2> QED BY <1>4, <2>2, <2>3
<1> QED BY <1>1, <1>3, <1>6, <1>7

\* Taking the first packet keeps a queue settled.
LEMMA SettledTail ==
    ASSUME NEW q \in Seq(Packets(Types)), q # <<>>, Settled(q)
    PROVE  Settled(Tail(q)) /\ (Closed(q) => Closed(Tail(q)))
<1>1. PICK r : r = Tail(q)
  OBVIOUS
<1>2. /\ Len(q) \in Nat /\ Len(q) >= 1 /\ Len(r) = Len(q) - 1
      /\ \A i \in 1..Len(r) : r[i] = q[i + 1]
  BY <1>1, HeadTailProperties, EmptySeq
<1>3. /\ \A i \in 1..Len(r) : i + 1 \in 1..Len(q) /\ r[i] = q[i + 1]
      /\ \A j \in 1..Len(q) : j > 1 => j - 1 \in 1..Len(r) /\ r[j - 1] = q[j]
  BY <1>2
<1>4. Settled(r)
  <2> SUFFICES ASSUME NEW i \in 1..Len(r), NEW k \in 1..Len(r), i < k, r[i].type = "kexinit", r[k].type \in Upper
               PROVE  \E j \in 1..Len(r) : i <= j /\ j <= k /\ r[j].type = "newkeys"
    BY DEF Settled
  <2>1. i + 1 \in 1..Len(q) /\ r[i] = q[i + 1] /\ k + 1 \in 1..Len(q) /\ r[k] = q[k + 1] /\ i + 1 < k + 1
    BY <1>3
  <2>2. PICK j \in 1..Len(q) : i + 1 <= j /\ j <= k + 1 /\ q[j].type = "newkeys"
    BY <2>1 DEF Settled
  <2>3. j > 1 /\ i <= j - 1 /\ j - 1 <= k
    BY <2>2
  <2> QED BY <1>3, <2>2, <2>3
<1>5. ASSUME Closed(q)
      PROVE  Closed(r)
  <2> SUFFICES ASSUME NEW i \in 1..Len(r), r[i].type = "kexinit"
               PROVE  \E j \in 1..Len(r) : i < j /\ r[j].type = "newkeys"
    BY DEF Closed
  <2>1. i + 1 \in 1..Len(q) /\ r[i] = q[i + 1]
    BY <1>3
  <2>2. PICK j \in 1..Len(q) : i + 1 < j /\ q[j].type = "newkeys"
    BY <1>5, <2>1 DEF Closed
  <2>3. j > 1 /\ i < j - 1
    BY <2>2
  <2> QED BY <1>3, <2>2, <2>3
<1> QED BY <1>1, <1>4, <1>5

\* An end whose new keys are in use has sent NEWKEYS after its last KEXINIT.
Calm(p) == Settled(Line(p)) /\ (tr[p].pc \notin OldKeyPCs => Closed(Line(p)))
Calmness == \A p \in Peers : Calm(p)

\* A step of p keeps both directions calm if it does so for each.
LEMMA CalmStep ==
    ASSUME NEW p \in Peers, NEW k, NEW i, k = Line(p)', i = Line(Other(p))', Settled(k),
           tr'[p].pc \notin OldKeyPCs => Closed(k), tr'[Other(p)].pc = tr[Other(p)].pc,
           Settled(i), tr[Other(p)].pc \notin OldKeyPCs => Closed(i)
    PROVE  Calmness'
<1>1. ASSUME NEW q \in Peers
      PROVE  Calm(q)'
  <2>1. q = p \/ q = Other(p)
    BY PeersAreTwo
  <2>2. CASE q = p
    BY <2>2 DEF Calm
  <2>3. CASE q = Other(p)
    BY <2>3 DEF Calm
  <2> QED BY <2>1, <2>2, <2>3
<1> QED BY <1>1 DEF Calmness

\* A step of p keeps the other end's line calm.
LEMMA CalmOfOther ==
    ASSUME TypeOK, Calmness, NEW p \in Peers, NEW j, j = Line(Other(p)), NEW i,
           i = j \/ (j # <<>> /\ i = Tail(j))
    PROVE  Settled(i) /\ (tr[Other(p)].pc \notin OldKeyPCs => Closed(i))
<1>1. Other(p) \in Peers
  BY PeersAreTwo
<1>2. j \in Seq(Packets(Types)) /\ Settled(j) /\ (tr[Other(p)].pc \notin OldKeyPCs => Closed(j))
  BY <1>1, TypesOfLines DEF Calmness, Calm
<1> QED BY <1>2, SettledTail

\* What p may do to its line without disturbing the order
LEMMA CalmOfSender ==
    ASSUME TypeOK, Calmness, NEW p \in Peers, NEW l, l = Line(p), NEW k, NEW pc,
           NEW m \in Packets(Types), NEW n \in Packets(Types), m.type \in Lower, n.type \in Lower,
           \/ k = l /\ (tr[p].pc \notin OldKeyPCs \/ pc \in OldKeyPCs)
           \/ k = Append(l, m) /\ pc \in OldKeyPCs
           \/ k = Append(l, m) /\ tr[p].pc \notin OldKeyPCs /\ m.type # "kexinit"
           \/ k = Append(l, m) \o held[p] /\ m.type = "newkeys"
           \/ k = Append(Append(l, m), n) \o held[p] /\ n.type = "newkeys"
           \/ k = l \o held[p] /\ tr[p].pc \notin OldKeyPCs
           \/ k = Append(l \o held[p], m) /\ tr[p].pc \notin OldKeyPCs /\ pc \in OldKeyPCs
    PROVE  Settled(k) /\ (pc \notin OldKeyPCs => Closed(k))
<1>1. PICK h, a : h = held[p] /\ a = Append(l, m)
  OBVIOUS
<1>2. /\ l \in Seq(Packets(Types)) /\ h \in Seq(Packets(Upper)) /\ Settled(l)
      /\ tr[p].pc \notin OldKeyPCs => Closed(l)
  BY <1>1, TypesOfLines, TypesOfAnEnd DEF Calmness, Calm
<1>3. /\ a \in Seq(Packets(Types)) /\ Settled(a) /\ (m.type = "newkeys" => Closed(a))
      /\ m.type # "kexinit" /\ Closed(l) => Closed(a)
  BY <1>1, <1>2, SettledAppend
<1>4. PICK b : b = Append(a, n)
  OBVIOUS
<1>5. b \in Seq(Packets(Types)) /\ Settled(b) /\ (n.type = "newkeys" => Closed(b))
  BY <1>3, <1>4, SettledAppend
<1>6. /\ Closed(a) => Settled(a \o h) /\ Closed(a \o h)
      /\ Closed(b) => Settled(b \o h) /\ Closed(b \o h)
      /\ Closed(l) => l \o h \in Seq(Packets(Types)) /\ Settled(l \o h) /\ Closed(l \o h)
  BY <1>2, <1>3, <1>5, SettledJoin
<1>7. PICK c : c = l \o h
  OBVIOUS
<1>8. Closed(l) => Settled(Append(c, m))
  BY <1>6, <1>7, SettledAppend
<1> QED BY <1>1, <1>2, <1>3, <1>4, <1>5, <1>6, <1>7, <1>8

\* A handler leaves the lines in order.
LEMMA HandlerCalm ==
    ASSUME TypeOK, Calmness, NEW p \in Peers, Handles(p)
    PROVE  Calmness'
<1>1. PICK l, k, j, i, pd : /\ l = Line(p) /\ k = Line(p)' /\ j = Line(Other(p)) /\ i = Line(Other(p))'
                            /\ pd = tr'[p].pc
  OBVIOUS
<1>2. Moves(tr[p].pc, pd, l, held[p], k, held'[p]) /\ Takes(j, i) /\ tr'[Other(p)] = tr[Other(p)]
  BY <1>1, HandlerMoves, HandlerPhases
<1>3. PICK m, n \in Packets(Lower) :
        \/ k = l /\ (tr[p].pc \notin OldKeyPCs \/ pd \in OldKeyPCs)
        \/ k = Append(l, m) /\ pd \in OldKeyPCs
        \/ k = Append(l, m) /\ tr[p].pc \notin OldKeyPCs /\ m.type # "kexinit"
        \/ k = Append(l, m) \o held[p] /\ m.type = "newkeys"
        \/ k = Append(Append(l, m), n) \o held[p] /\ n.type = "newkeys"
        \/ k = l \o held[p] /\ tr[p].pc \notin OldKeyPCs
        \/ k = Append(l \o held[p], m) /\ tr[p].pc \notin OldKeyPCs /\ pd \in OldKeyPCs
  BY <1>2 DEF Moves
<1>4. m \in Packets(Types) /\ n \in Packets(Types) /\ m.type \in Lower /\ n.type \in Lower
  BY <1>3, LowerPackets
<1>5. Settled(k) /\ (pd \notin OldKeyPCs => Closed(k))
  <2>1. l = Line(p)
    BY <1>1
  <2> QED BY <1>3, <1>4, <2>1, CalmOfSender
<1>6. Settled(i) /\ (tr[Other(p)].pc \notin OldKeyPCs => Closed(i))
  BY <1>1, <1>2, CalmOfOther DEF Takes
<1> QED BY <1>1, <1>2, <1>5, <1>6, CalmStep

\* A step that touches neither lines nor coroutines keeps both directions calm.
LEMMA CalmStays ==
    ASSUME Calmness, \A q \in Peers : tr'[q].pc = tr[q].pc /\ Line(q)' = Line(q)
    PROVE  Calmness'
<1>1. ASSUME NEW q \in Peers
      PROVE  Calm(q)'
  <2>1. PICK l, k : l = Line(q) /\ k = Line(q)'
    OBVIOUS
  <2>2. k = l /\ Settled(l) /\ (tr'[q].pc \notin OldKeyPCs => Closed(l))
    BY <2>1 DEF Calmness, Calm
  <2>3. Settled(k) /\ (tr'[q].pc \notin OldKeyPCs => Closed(k))
    BY <2>2
  <2> QED BY <2>1, <2>3 DEF Calm
<1> QED BY <1>1 DEF Calmness

\* Passing a packet up keeps both directions calm.
LEMMA PassUpCalm ==
    ASSUME TypeOK, Calmness, NEW p \in Peers, PassUp(p)
    PROVE  Calmness'
<1>1. CASE fault' = "none"
  <2>1. PICK l, k, j, i : l = Line(p) /\ k = Line(p)' /\ j = Line(Other(p)) /\ i = Line(Other(p))'
    OBVIOUS
  <2>2. k = l /\ j # <<>> /\ i = Tail(j)
    BY <1>1, <2>1, PassUpLines
  <2>3. tr' = tr
    BY DEF PassUp
  <2>4. Settled(i) /\ (tr[Other(p)].pc \notin OldKeyPCs => Closed(i))
    BY <2>1, <2>2, CalmOfOther
  <2>5. Settled(k) /\ (tr'[p].pc \notin OldKeyPCs => Closed(k))
    BY <2>1, <2>2, <2>3 DEF Calmness, Calm
  <2>6. tr'[Other(p)].pc = tr[Other(p)].pc
    BY <2>3
  <2> QED BY <2>1, <2>4, <2>5, <2>6, CalmStep
<1>2. CASE fault' # "none"
  <2>1. inq' = inq /\ wire' = wire /\ outq' = outq /\ tr' = tr
    BY <1>2 DEF PassUp, Running
  <2>2. \A q \in Peers : tr'[q].pc = tr[q].pc /\ Line(q)' = Line(q)
    BY <2>1 DEF Line
  <2> QED BY <2>2, CalmStays
<1> QED BY <1>1, <1>2

\* Every step keeps both directions calm.
LEMMA CalmInvariance ==
    ASSUME TypeOK, Calmness, [Next]_vars, fault' # "garbled"
    PROVE  Calmness'
<1>1. CASE Aside
  <2>1. \A q \in Peers : tr'[q].pc = tr[q].pc
    BY <1>1, AsideSame DEF Same
  <2> QED BY <1>1, <2>1, AsideLines, CalmStays
<1>2. ASSUME NEW p \in Peers, PassUp(p) \/ Handles(p)
      PROVE  Calmness'
  BY <1>2, PassUpCalm, HandlerCalm
<1> QED BY <1>1, <1>2, KindsOfSteps

\* At first nothing is on its way.
LEMMA InitCalm == Init => Calmness
<1> SUFFICES ASSUME Init, NEW p \in Peers
             PROVE  Calm(p)
  BY DEF Calmness
<1>1. inq[Other(p)] = <<>> /\ wire[Other(p)] = <<>> /\ outq[p] = <<>>
  BY PeersAreTwo DEF Init
<1>2. Line(p) = <<>>
  BY <1>1 DEF Line, LineOf, Stripped
<1> QED BY <1>2 DEF Calm, Settled, Closed

\* Where the packets in a wire are on the line
LaidOut(l, i, w, o) ==
    /\ Len(i) \in Nat /\ Len(w) \in Nat /\ Len(o) \in Nat /\ Len(l) = Len(i) + Len(w) + Len(o)
    /\ \A k \in 1..Len(w) : Len(i) + k \in 1..Len(l) /\ l[Len(i) + k].type = w[k].type
    /\ \A k \in 1..Len(i) : k \in 1..Len(l) /\ l[k] = i[k]
    /\ \A k \in 1..Len(o) : Len(i) + Len(w) + k \in 1..Len(l) /\ l[Len(i) + Len(w) + k] = o[k]

\* A line is made of what is decoded, what is encoded and what is queued.
LEMMA LineOfWire ==
    ASSUME NEW i \in Seq(Packets(Types)), NEW w \in Seq(Encodings), NEW o \in Seq(Packets(Types)),
           NEW l, l = LineOf(i, w, o)
    PROVE  LaidOut(l, i, w, o)
<1>1. PICK s, a : s = Stripped(w) /\ a = i \o s
  OBVIOUS
<1>2. /\ s \in Seq(Packets(Types)) /\ Len(s) = Len(w) /\ Len(i) \in Nat /\ Len(w) \in Nat /\ Len(o) \in Nat
  BY <1>1, StrippedType
<1>3. \A k \in 1..Len(w) : s[k].type = w[k].type
  <2>1. \A k \in 1..Len(w) : s[k] = Packet(w[k].type, w[k].n)
    BY <1>1, StrippedType
  <2>2. \A k \in 1..Len(w) : Packet(w[k].type, w[k].n).type = w[k].type
    BY DEF Packet
  <2> QED BY <2>1, <2>2
<1>4. /\ a \in Seq(Packets(Types)) /\ Len(a) = Len(i) + Len(w)
      /\ \A k \in 1..Len(i) + Len(w) : a[k] = IF k <= Len(i) THEN i[k] ELSE s[k - Len(i)]
  <2>1. /\ i \o s \in Seq(Packets(Types)) /\ Len(i \o s) = Len(i) + Len(s)
        /\ \A k \in 1..Len(i) + Len(s) : (i \o s)[k] = IF k <= Len(i) THEN i[k] ELSE s[k - Len(i)]
    BY <1>2, ConcatProperties
  <2>2. /\ a \in Seq(Packets(Types)) /\ Len(a) = Len(i) + Len(s)
        /\ \A k \in 1..Len(i) + Len(s) : a[k] = IF k <= Len(i) THEN i[k] ELSE s[k - Len(i)]
    BY <1>1, <2>1, Zenon
  <2> QED BY <1>2, <2>2
<1>5. l = a \o o
  BY <1>1 DEF LineOf
<1>6. /\ Len(l) = Len(i) + Len(w) + Len(o)
      /\ \A k \in 1..Len(i) + Len(w) + Len(o) :
            l[k] = IF k <= Len(i) + Len(w) THEN a[k] ELSE o[k - (Len(i) + Len(w))]
  <2>1. a \in Seq(Packets(Types))
    BY <1>4
  <2>2. /\ Len(a \o o) = Len(a) + Len(o)
        /\ \A k \in 1..Len(a) + Len(o) : (a \o o)[k] = IF k <= Len(a) THEN a[k] ELSE o[k - Len(a)]
    BY <2>1, ConcatProperties
  <2>3. /\ Len(l) = Len(a) + Len(o)
        /\ \A k \in 1..Len(a) + Len(o) : l[k] = IF k <= Len(a) THEN a[k] ELSE o[k - Len(a)]
    BY <1>5, <2>2, Zenon
  <2> QED BY <1>4, <2>3
<1>7. ASSUME NEW k \in 1..Len(w)
      PROVE  Len(i) + k \in 1..Len(l) /\ l[Len(i) + k].type = w[k].type
  <2>1. Len(i) + k \in 1..Len(i) + Len(w) /\ ~(Len(i) + k <= Len(i)) /\ (Len(i) + k) - Len(i) = k
    BY <1>2
  <2>2. a[Len(i) + k] = s[k]
    BY <1>4, <2>1
  <2>3. Len(i) + k \in 1..Len(l) /\ l[Len(i) + k] = a[Len(i) + k]
    BY <1>2, <1>6, <2>1
  <2> QED BY <1>3, <2>2, <2>3
<1>8. ASSUME NEW k \in 1..Len(i)
      PROVE  k \in 1..Len(l) /\ l[k] = i[k]
  BY <1>2, <1>4, <1>6
<1>9. ASSUME NEW k \in 1..Len(o)
      PROVE  Len(i) + Len(w) + k \in 1..Len(l) /\ l[Len(i) + Len(w) + k] = o[k]
  BY SMTT(30), <1>2, <1>6
<1> QED BY <1>2, <1>6, <1>7, <1>8, <1>9 DEF LaidOut

\* A calm line has nothing of the layer above between KEXINIT and NEWKEYS on the wire.
LEMMA CalmIsQuiet ==
    TypeOK /\ Calmness => QuietDuringKex
<1> SUFFICES ASSUME TypeOK, Calmness, NEW p \in Peers, NEW w, w = wire[p],
                    NEW i \in DOMAIN w, NEW k \in DOMAIN w,
                    i < k, w[i].type = "kexinit", w[k].type \in Upper
             PROVE  \E j \in i..k : w[j].type = "newkeys"
  BY DEF QuietDuringKex
<1>1. PICK a, o, l : a = inq[p] /\ o = outq[Other(p)] /\ l = Line(Other(p))
  OBVIOUS
<1>2. /\ a \in Seq(Packets(Types)) /\ o \in Seq(Packets(Types)) /\ w \in Seq(Encodings)
      /\ l = LineOf(a, w, o) /\ Settled(l)
  BY <1>1, PeersAreTwo, TypesOfAnEnd DEF Line, Calmness, Calm
<1>3. DOMAIN w = 1..Len(w) /\ i \in 1..Len(w) /\ k \in 1..Len(w)
  BY <1>2, LenProperties
<1>4. /\ Len(a) \in Nat /\ Len(w) \in Nat
      /\ \A x \in 1..Len(w) : Len(a) + x \in 1..Len(l) /\ l[Len(a) + x].type = w[x].type
  <2>1. a \in Seq(Packets(Types)) /\ o \in Seq(Packets(Types)) /\ w \in Seq(Encodings)
    BY <1>2
  <2>2. l = LineOf(a, w, o)
    BY <1>2
  <2>3. LaidOut(l, a, w, o)
    BY <2>1, <2>2, LineOfWire
  <2> QED BY <2>3 DEF LaidOut
<1>5. PICK j \in 1..Len(l) : Len(a) + i <= j /\ j <= Len(a) + k /\ l[j].type = "newkeys"
  <2>1. /\ Len(a) + i \in 1..Len(l) /\ l[Len(a) + i].type = "kexinit" /\ Len(a) + k \in 1..Len(l)
        /\ l[Len(a) + k].type \in Upper /\ Len(a) + i < Len(a) + k
    BY SMTT(30), <1>3, <1>4
  <2>2. PICK x, y : x = Len(a) + i /\ y = Len(a) + k
    OBVIOUS
  <2>3. \E j \in 1..Len(l) : x <= j /\ j <= y /\ l[j].type = "newkeys"
    BY SMTT(30), <1>2, <2>1, <2>2 DEF Settled
  <2> QED BY <2>2, <2>3
<1>6. j - Len(a) \in i..k /\ j - Len(a) \in 1..Len(w) /\ Len(a) + (j - Len(a)) = j
  BY <1>3, <1>4, <1>5
<1>7. w[j - Len(a)].type = "newkeys"
  BY <1>4, <1>5, <1>6
<1> QED BY <1>6, <1>7

--------------------------------------------------------------------------------
\* A connection that has failed takes no more steps.
LEMMA Stopped ==
    ASSUME [Next]_vars, fault # "none"
    PROVE  UNCHANGED vars
<1>1. ASSUME NEW p \in Peers
      PROVE  ~Step(p)
  BY DEF Step, Coroutine, Start, RecvKexinit, RecvKexreq, RecvKexreply, RecvNewkeys, RecvService,
         WaitForRekey, PassUp, Unexpected, Block, AcceptHostKey, BppInput, BppOutput, RekeyTimer, SendData,
         Next1, Running, CanRead, CanSend, Queue
<1>2. ~UserRekey /\ ~Reconfigure /\ ~NotifyAuthDone /\ ~AskAuth /\ ~AnswerAuth
  BY DEF UserRekey, Reconfigure, NotifyAuthDone, AskAuth, AnswerAuth, Queue
<1> QED BY <1>1, <1>2 DEF Next

--------------------------------------------------------------------------------
(* NoEndlessRekey *)

\* The exchanges an end will still begin for a reason it has been given
Pending(t) == One(t.class = "normal" /\ ~t.kex) + One(t.deferred)

Budget == 1 + asks + tr["client"].conf
Spent(x) == x + Pending(tr["client"]) + Pending(tr["server"]) <= Budget

\* The exchanges begun and the ones still to begin have a reason each.
Reasoned == Spent(1) /\ \A p \in Peers : Spent(tr[p].begun)

\* The exchanges to begin are a number.
LEMMA PendingIsNumber ==
    \A t : Pending(t) \in Nat
  BY DEF Pending, One

\* One end begins an exchange only if the other has, or for a reason of its own.
LEMMA ReasonStep ==
    ASSUME TypeOK, TypeOK', Reasoned, NEW p \in Peers, NEW t, t = tr[p], NEW r, r = tr'[p],
           tr'[Other(p)] = tr[Other(p)], NEW d \in Nat,
           asks' + tr'["client"].conf = asks + tr["client"].conf + d,
           Pending(r) <= Pending(t) + d,
           \/ r.begun \in {1, t.begun, tr[Other(p)].begun}
           \/ r.begun = t.begun + 1 /\ Pending(r) + 1 <= Pending(t) + d
    PROVE  Reasoned'
<1>1. PICK u, x, y, z : u = tr[Other(p)] /\ x = Pending(t) /\ y = Pending(u) /\ z = Pending(r)
  OBVIOUS
<1>2. x \in Nat /\ y \in Nat /\ z \in Nat
  BY <1>1, PendingIsNumber
<1>3. /\ Pending(tr["client"]) + Pending(tr["server"]) = x + y
      /\ Pending(tr'["client"]) + Pending(tr'["server"]) = z + y
  <2>1. CASE p = "client"
    BY <1>1, <2>1 DEF Other
  <2>2. CASE p = "server"
    <3>1. Pending(tr["server"]) = x /\ Pending(tr["client"]) = y
          /\ Pending(tr'["server"]) = z /\ Pending(tr'["client"]) = y
      BY <1>1, <2>2 DEF Other
    <3> QED BY <1>2, <3>1
  <2> QED BY <2>1, <2>2 DEF Peers
<1>4. /\ asks \in Nat /\ asks' \in Nat /\ tr["client"].conf \in Nat /\ tr'["client"].conf \in Nat
      /\ t.begun \in Nat /\ r.begun \in Nat /\ u.begun \in Nat
  <2>1. "client" \in Peers /\ Other(p) \in Peers
    BY PeersAreTwo DEF Peers
  <2>2. /\ tr["client"] \in TransportState /\ tr'["client"] \in TransportState /\ asks \in Nat /\ asks' \in Nat
        /\ t \in TransportState /\ r \in TransportState /\ u \in TransportState
    BY <1>1, <2>1 DEF TypeOK
  <2> QED BY <2>2 DEF TransportState
<1>5. PICK b, c : b = 1 + asks + tr["client"].conf /\ c = 1 + asks' + tr'["client"].conf
  OBVIOUS
<1>6. b \in Nat /\ c = b + d
  BY <1>4, <1>5
<1>7. 1 + x + y <= b /\ t.begun + x + y <= b /\ u.begun + x + y <= b
  <2>1. \A n \in Nat : Spent(n) => n + x + y <= b
    <3> SUFFICES ASSUME NEW n \in Nat, Spent(n)
                 PROVE  n + x + y <= b
      OBVIOUS
    <3>1. Pending(tr["client"]) \in Nat /\ Pending(tr["server"]) \in Nat
      BY PendingIsNumber
    <3>2. n + (Pending(tr["client"]) + Pending(tr["server"])) <= b
      BY <1>5, <3>1 DEF Spent, Budget
    <3> QED BY <1>2, <1>3, <3>2
  <2>2. Spent(1) /\ Spent(t.begun) /\ Spent(u.begun)
    BY <1>1, PeersAreTwo DEF Reasoned
  <2> QED BY <1>4, <2>1, <2>2
<1>8. 1 + z + y <= c /\ r.begun + z + y <= c /\ u.begun + z + y <= c
  <2>1. z <= x + d
    BY <1>1
  <2>2. r.begun = 1 \/ r.begun = t.begun \/ r.begun = u.begun \/ (r.begun = t.begun + 1 /\ z + 1 <= x + d)
    BY <1>1
  <2> QED BY <1>2, <1>4, <1>6, <1>7, <2>1, <2>2
<1>9. \A n \in Nat : n + z + y <= c => Spent(n)'
  <2> SUFFICES ASSUME NEW n \in Nat, n + z + y <= c
               PROVE  Spent(n)'
    OBVIOUS
  <2>1. Pending(tr'["client"]) \in Nat /\ Pending(tr'["server"]) \in Nat
    BY PendingIsNumber
  <2>2. n + (Pending(tr'["client"]) + Pending(tr'["server"])) <= c
    BY <1>2, <1>3
  <2>3. n + Pending(tr'["client"]) + Pending(tr'["server"]) <= 1 + asks' + tr'["client"].conf
    BY <1>5, <2>1, <2>2
  <2> QED BY <2>3 DEF Spent, Budget
<1>10. Spent(1)' /\ Spent(r.begun)' /\ Spent(u.begun)'
  BY <1>4, <1>8, <1>9
<1>11. \A q \in Peers : tr'[q] = r \/ tr'[q] = u
  BY <1>1, PeersAreTwo
<1>12. ASSUME NEW q \in Peers
       PROVE  Spent(tr[q].begun)'
  <2>1. PICK n : n = tr'[q].begun
    OBVIOUS
  <2>2. n = r.begun \/ n = u.begun
    BY <1>11, <2>1
  <2>3. Spent(n)'
    BY <1>10, <2>2
  <2> QED BY <2>1, <2>3 DEF Spent
<1> QED BY <1>10, <1>12 DEF Reasoned

\* A step that asks for nothing and begins nothing of its own.
LEMMA ReasonsKept ==
    ASSUME TypeOK, TypeOK', Reasoned, NEW p \in Peers, NEW t, t = tr[p], NEW r, r = tr'[p],
           tr'[Other(p)] = tr[Other(p)], asks' = asks, r.conf = t.conf,
           Pending(r) <= Pending(t), r.begun \in {1, t.begun, tr[Other(p)].begun}
    PROVE  Reasoned'
<1>1. tr'["client"].conf = tr["client"].conf
  <2>1. "client" = p \/ "client" = Other(p)
    BY DEF Peers, Other
  <2> QED BY <2>1
<1>2. asks \in Nat /\ tr["client"].conf \in Nat
  BY TypesOfAnEnd DEF TypeOK, Peers
<1>3. PICK d \in Nat : d = 0
  OBVIOUS
<1>4. asks' + tr'["client"].conf = asks + tr["client"].conf + d
  BY <1>1, <1>2, <1>3
<1>5. Pending(r) <= Pending(t) + d
  BY <1>3, PendingIsNumber
<1> QED BY <1>4, <1>5, ReasonStep

\* A step that makes no request adds no exchange to begin.
LEMMA PendingKept ==
    ASSUME NEW t \in TransportState, NEW r \in TransportState,
           r.class = t.class \/ r.class # "normal" \/ r.kex, r.kex <=> t.kex, r.deferred <=> t.deferred
    PROVE  Pending(r) <= Pending(t)
<1>1. One(r.deferred) = One(t.deferred)
  BY DEF One
<1>2. One(r.class = "normal" /\ ~r.kex) <= One(t.class = "normal" /\ ~t.kex)
  BY DEF One
<1>3. /\ One(r.deferred) \in Nat /\ One(t.deferred) \in Nat
      /\ One(r.class = "normal" /\ ~r.kex) \in Nat /\ One(t.class = "normal" /\ ~t.kex) \in Nat
  BY DEF One
<1> QED BY <1>1, <1>2, <1>3 DEF Pending

\* Steps that change nothing but where the coroutine waits and whether it is to run
LEMMA ReasonsUntouched ==
    ASSUME TypeOK, TypeOK', Reasoned, NEW p \in Peers, asks' = asks, NEW pc, NEW ic,
           tr' = [tr EXCEPT ![p] = [tr[p] EXCEPT !.pc = pc, !.ic = ic]]
    PROVE  Reasoned'
<1>1. PICK t, r : t = tr[p] /\ r = tr'[p]
  OBVIOUS
<1>2. r = [t EXCEPT !.pc = pc, !.ic = ic] /\ tr'[Other(p)] = tr[Other(p)]
  BY <1>1, PeersAreTwo DEF TypeOK
<1>3. t \in TransportState /\ r \in TransportState
  BY <1>1 DEF TypeOK
<1>4. /\ r.class = t.class /\ (r.kex <=> t.kex) /\ (r.deferred <=> t.deferred)
      /\ r.conf = t.conf /\ r.begun = t.begun
  BY <1>2, <1>3 DEF TransportState
<1>5. Pending(r) <= Pending(t)
  BY <1>3, <1>4, PendingKept
<1> QED BY <1>1, <1>2, <1>4, <1>5, ReasonsKept

\* A step that touches neither coroutine nor requests.
LEMMA ReasonsIdle ==
    ASSUME Reasoned, asks' = asks, tr' = tr
    PROVE  Reasoned'
  BY DEF Reasoned, Spent, Budget

\* The exchanges that the step to begin the first key exchange begins have their reasons.
LEMMA StartReasons ==
    ASSUME TypeOK, TypeOK', Locals, Reasoned, NEW p \in Peers, Start(p)
    PROVE  Reasoned'
<1>1. PICK t, r : t = tr[p] /\ r = tr'[p]
  OBVIOUS
<1>2. /\ r = Begun(t) /\ tr'[Other(p)] = tr[Other(p)] /\ asks' = asks /\ t.pc = "start"
      /\ t \in TransportState /\ r \in TransportState
  BY <1>1, PeersAreTwo DEF Start, TypeOK
<1>3. t.begun = 0
  BY <1>1, <1>2, PhaseOf DEF Phases
<1>4. /\ r.kex /\ r.class = t.class /\ (r.deferred <=> t.deferred) /\ r.conf = t.conf /\ r.begun = 1
  BY <1>2, <1>3, BegunFacts
<1>5. Pending(r) <= Pending(t)
  <2>1. One(r.deferred) = One(t.deferred) /\ One(r.class = "normal" /\ ~r.kex) = 0
    BY <1>4 DEF One
  <2> QED BY <2>1 DEF Pending, One
<1> QED BY <1>1, <1>2, <1>4, <1>5, ReasonsKept

\* The exchanges that the step to take NEWKEYS begins have their reasons.
LEMMA RecvNewkeysReasons ==
    ASSUME TypeOK, TypeOK', Locals, Reasoned, NEW p \in Peers, RecvNewkeys(p)
    PROVE  Reasoned'
<1>1. PICK t, r : t = tr[p] /\ r = tr'[p]
  OBVIOUS
<1>2. t \in TransportState /\ r \in TransportState /\ asks' = asks
  BY <1>1 DEF TypeOK, RecvNewkeys
<1>3. /\ tr'[Other(p)] = tr[Other(p)] /\ r.conf = t.conf /\ t.pc = "newkeys"
      /\ t.deferred => r.kex /\ ~r.deferred /\ r.begun = t.begun + 1
      /\ ~t.deferred => /\ ~r.kex /\ ~r.deferred /\ r.begun = t.begun
                        /\ r.class = (IF t.ok THEN "none" ELSE t.class)
  BY <1>1, RecvNewkeysFacts
<1>4. t.kex /\ (~t.ok => t.class # "normal")
  BY <1>1, <1>3 DEF Locals, Local, Phases, Settings, KexPCs
<1>5. CASE t.deferred
  <2>1. Pending(t) = 1 /\ Pending(r) = 0
    BY <1>3, <1>4, <1>5 DEF Pending, One
  <2>2. PICK d \in Nat : d = 0
    OBVIOUS
  <2>3. tr'["client"].conf = tr["client"].conf
    BY <1>1, <1>3, PeersAreTwo DEF Peers
  <2>4. asks \in Nat /\ tr["client"].conf \in Nat
    BY TypesOfAnEnd DEF TypeOK, Peers
  <2>5. asks' + tr'["client"].conf = asks + tr["client"].conf + d
    BY <1>2, <2>2, <2>3, <2>4
  <2>6. Pending(r) <= Pending(t) + d /\ Pending(r) + 1 <= Pending(t) + d
    BY <2>1, <2>2
  <2> QED BY <1>1, <1>3, <1>5, <2>5, <2>6, ReasonStep
<1>6. CASE ~t.deferred
  <2>1. Pending(t) = 0 /\ Pending(r) = 0
    BY <1>3, <1>4, <1>6 DEF Pending, One
  <2> QED BY <1>1, <1>2, <1>3, <1>6, <2>1, ReasonsKept
<1> QED BY <1>5, <1>6

\* The exchanges that the step to agree on the service begins have their reasons.
LEMMA RecvServiceReasons ==
    ASSUME TypeOK, TypeOK', Reasoned, NEW p \in Peers, RecvService(p)
    PROVE  Reasoned'
<1>1. PICK t, r : t = tr[p] /\ r = tr'[p]
  OBVIOUS
<1>2. t \in TransportState /\ r \in TransportState /\ asks' = asks
  BY <1>1 DEF TypeOK, RecvService
<1>3. /\ tr'[Other(p)] = tr[Other(p)] /\ r.class = "none" /\ (r.kex <=> t.kex)
      /\ (r.deferred <=> t.deferred) /\ r.conf = t.conf /\ r.begun = t.begun
  BY <1>1, RecvServiceFacts
<1>4. Pending(r) <= Pending(t)
  BY <1>2, <1>3, PendingKept
<1> QED BY <1>1, <1>2, <1>3, <1>4, ReasonsKept

\* A KEXINIT at the front of the queue is the start of an exchange this end has
\* not begun.
LEMMA KexinitAhead ==
    ASSUME TypeOK, Flowing, NEW p \in Peers, inq[p] # <<>>, Head(inq[p]).type = "kexinit", tr[p].pc = "idle"
    PROVE  tr[Other(p)].begun = tr[p].begun + 1
<1>1. PICK o, t, u : o = Other(p) /\ t = tr[p] /\ u = tr[o]
  OBVIOUS
<1>2. o \in Peers /\ Other(o) = p /\ t \in TransportState /\ u \in TransportState
  BY <1>1, PeersAreTwo, TypesOfAnEnd
<1>3. Line(o) # <<>> /\ Head(Line(o)).type = "kexinit"
  <2>1. inq[p] \in Seq(Packets(Types)) /\ wire[p] \in Seq(Encodings) /\ outq[o] \in Seq(Packets(Types))
    BY <1>2, TypesOfAnEnd
  <2>2. Line(o) = LineOf(inq[p], wire[p], outq[o])
    BY <1>2 DEF Line
  <2> QED BY <2>1, <2>2, LineTaken
<1>4. Sent(o, u)["kexinit"] = Taken(p, t)["kexinit"] + 1
  <2>1. "kexinit" \in Lower
    BY DEF Lower
  <2> QED BY <1>1, <1>3, <2>1, FlowTakes
<1>5. Sent(o, u)["kexinit"] = u.begun /\ Taken(p, t)["kexinit"] = Rounds(t, {"kexinit"})
  BY DEF Sent, Taken, Lower
<1>6. Rounds(t, {"kexinit"}) = t.begun /\ t.begun \in Nat
  BY <1>1, <1>2 DEF Rounds, One, TransportState
<1> QED BY <1>1, <1>4, <1>5, <1>6

\* The exchanges that the step to wait for a reason to rekey begins have their reasons.
LEMMA WaitForRekeyReasons ==
    ASSUME TypeOK, TypeOK', Locals, Flowing, Reasoned, NEW p \in Peers, WaitForRekey(p)
    PROVE  Reasoned'
<1>1. PICK t, r : t = tr[p] /\ r = tr'[p]
  OBVIOUS
<1>2. t \in TransportState /\ r \in TransportState /\ asks \in Nat /\ tr["client"].conf \in Nat
  BY <1>1, TypesOfAnEnd DEF TypeOK, Peers
<1>3. /\ tr'[Other(p)] = tr[Other(p)] /\ t.pc = "idle" /\ r.conf = t.conf
      /\ (r.deferred <=> t.deferred) /\ r.class \in {"none", "normal", "server"}
      /\ \/ /\ r.class = "none" /\ (r.kex <=> t.kex) /\ r.begun = t.begun /\ asks' = asks
         \/ /\ r.kex /\ r.class # "none" /\ r.begun = t.begun + 1
            /\ r.class = "server" => inq[p] # <<>> /\ asks' = asks
            /\ asks' \in {asks, asks + 1}
            /\ r.class = "normal" => t.class = "normal" \/ asks' = asks + 1
  BY <1>1, WaitForRekeyFacts
<1>4. ~t.kex
  BY <1>1, <1>3, PhaseOf DEF Phases, KexPCs
<1>5. tr'["client"].conf = tr["client"].conf
  BY <1>1, <1>3, PeersAreTwo DEF Peers
<1>6. CASE r.class = "none"
  <2>1. Pending(r) <= Pending(t)
    BY <1>2, <1>3, <1>6, PendingKept
  <2> QED BY <1>1, <1>3, <1>6, <2>1, ReasonsKept
<1>7. CASE r.class = "server"
  <2>1. r.kex /\ r.begun = t.begun + 1 /\ inq[p] # <<>> /\ asks' = asks
    BY <1>3, <1>7
  <2>2. Head(inq[p]).type = "kexinit"
    BY <2>1 DEF WaitForRekey
  <2>3. tr[Other(p)].begun = r.begun
    BY <1>1, <1>3, <2>1, <2>2, KexinitAhead
  <2>4. Pending(r) <= Pending(t)
    <3>1. One(r.deferred) = One(t.deferred) /\ One(r.class = "normal" /\ ~r.kex) = 0
      BY <1>3, <2>1 DEF One
    <3> QED BY <3>1 DEF Pending, One
  <2> QED BY <1>1, <1>3, <2>1, <2>3, <2>4, ReasonsKept
<1>8. CASE r.class = "normal"
  <2>1. r.kex /\ r.begun = t.begun + 1 /\ asks' \in {asks, asks + 1}
        /\ (t.class = "normal" \/ asks' = asks + 1)
    BY <1>3, <1>8
  <2>2. PICK d \in {0, 1} : asks' = asks + d
    BY <1>2, <2>1
  <2>3. asks' + tr'["client"].conf = asks + tr["client"].conf + d
    BY <1>2, <1>5, <2>1, <2>2
  <2>4. One(r.deferred) = One(t.deferred) /\ One(r.class = "normal" /\ ~r.kex) = 0 /\ One(t.deferred) \in Nat
    BY <1>3, <2>1 DEF One
  <2>5. Pending(r) + 1 <= Pending(t) + d
    <3>1. CASE t.class = "normal"
      <4>1. One(t.class = "normal" /\ ~t.kex) = 1
        BY <1>4, <3>1 DEF One
      <4> QED BY <2>4, <4>1 DEF Pending
    <3>2. CASE asks' = asks + 1
      <4>1. d = 1 /\ One(t.class = "normal" /\ ~t.kex) \in Nat
        BY <1>2, <2>2, <3>2 DEF One
      <4> QED BY <2>4, <4>1 DEF Pending
    <3> QED BY <2>1, <3>1, <3>2
  <2>6. Pending(r) <= Pending(t) + d /\ d \in Nat
    BY <2>5, PendingIsNumber
  <2> QED BY <1>1, <1>3, <2>1, <2>3, <2>5, <2>6, ReasonStep
<1> QED BY <1>3, <1>6, <1>7, <1>8

\* A request adds at most one pending exchange and one reason.
LEMMA RequestReasons ==
    ASSUME TypeOK, TypeOK', Reasoned, NEW p \in Peers, NEW t, t = tr[p], NEW r, r = tr'[p],
           tr'[Other(p)] = tr[Other(p)], r.begun = t.begun, r.kex <=> t.kex,
           \/ r.deferred <=> t.deferred
           \/ r.class = t.class,
           asks' + tr'["client"].conf = asks + tr["client"].conf + 1
    PROVE  Reasoned'
<1>1. PICK d \in Nat : d = 1
  OBVIOUS
<1>2. Pending(r) <= Pending(t) + d
  <2>1. /\ One(r.deferred) \in {0, 1} /\ One(t.deferred) \in {0, 1}
        /\ One(r.class = "normal" /\ ~r.kex) \in {0, 1} /\ One(t.class = "normal" /\ ~t.kex) \in {0, 1}
    BY DEF One
  <2>2. \/ One(r.deferred) = One(t.deferred)
        \/ One(r.class = "normal" /\ ~r.kex) = One(t.class = "normal" /\ ~t.kex)
    BY DEF One
  <2> QED BY <1>1, <2>1, <2>2 DEF Pending
<1>3. asks' + tr'["client"].conf = asks + tr["client"].conf + d
  BY <1>1
<1> QED BY <1>2, <1>3, ReasonStep

\* Each request is a reason of its own.
LEMMA AskReasons ==
    ASSUME TypeOK, TypeOK', Reasoned,
           (\E p \in Peers : RekeyTimer(p)) \/ UserRekey \/ Reconfigure
    PROVE  Reasoned'
<1>1. asks \in Nat /\ tr["client"].conf \in Nat /\ "client" \in Peers
  BY TypesOfAnEnd DEF TypeOK, Peers
<1>2. ASSUME NEW p \in Peers, RekeyTimer(p)
      PROVE  Reasoned'
  <2>1. PICK t, r : t = tr[p] /\ r = tr'[p]
    OBVIOUS
  <2>2. /\ r = IF t.kex THEN [t EXCEPT !.timer = FALSE]
               ELSE [t EXCEPT !.timer = FALSE, !.class = "normal", !.ic = TRUE]
        /\ tr'[Other(p)] = tr[Other(p)] /\ asks' = asks + 1 /\ t \in TransportState
    BY <1>2, <2>1, PeersAreTwo DEF RekeyTimer, TypeOK
  <2>3. r.begun = t.begun /\ (r.kex <=> t.kex) /\ (r.deferred <=> t.deferred) /\ r.conf = t.conf
    BY <2>2 DEF TransportState
  <2>4. tr'["client"].conf = tr["client"].conf
    BY <1>1, <2>1, <2>2, <2>3, PeersAreTwo
  <2>5. asks' + tr'["client"].conf = asks + tr["client"].conf + 1
    BY <1>1, <2>2, <2>4
  <2> QED BY <2>1, <2>2, <2>3, <2>5, RequestReasons
<1>3. PICK t, r : t = tr["client"] /\ r = tr'["client"]
  OBVIOUS
<1>4. ASSUME UserRekey
      PROVE  Reasoned'
  <2>1. /\ r = [t EXCEPT !.class = "normal", !.ic = TRUE] /\ t \in TransportState
        /\ tr'[Other("client")] = tr[Other("client")] /\ asks' = asks + 1
    BY <1>1, <1>3, <1>4, PeersAreTwo DEF UserRekey, TypeOK
  <2>2. r.begun = t.begun /\ (r.kex <=> t.kex) /\ (r.deferred <=> t.deferred) /\ r.conf = t.conf
    BY <2>1 DEF TransportState
  <2>3. asks' + tr'["client"].conf = asks + tr["client"].conf + 1
    BY <1>1, <1>3, <2>1, <2>2
  <2> QED BY <1>1, <1>3, <2>1, <2>2, <2>3, RequestReasons
<1>5. ASSUME Reconfigure
      PROVE  Reasoned'
  <2>1. /\ tr'["server"] = tr["server"] /\ (r.kex <=> t.kex) /\ r.begun = t.begun /\ r.conf = t.conf + 1
        /\ \/ r.deferred <=> t.deferred
           \/ r.class = t.class
    BY <1>3, <1>5, ReconfigureFacts
  <2>2. asks' = asks /\ Other("client") = "server"
    BY <1>5 DEF Reconfigure, Other
  <2>3. asks' + tr'["client"].conf = asks + tr["client"].conf + 1
    BY <1>1, <1>3, <2>1, <2>2
  <2> QED BY <1>1, <1>3, <2>1, <2>2, <2>3, RequestReasons
<1> QED BY <1>2, <1>4, <1>5

\* The exchanges that the step to end authentication begins have their reasons.
LEMMA NotifyAuthDoneReasons ==
    ASSUME TypeOK, TypeOK', Reasoned, NotifyAuthDone
    PROVE  Reasoned'
<1>1. PICK t, r : t = tr["client"] /\ r = tr'["client"]
  OBVIOUS
<1>2. /\ r = [t EXCEPT !.class = "post-userauth", !.ic = TRUE] /\ "client" \in Peers /\ asks' = asks
      /\ tr'[Other("client")] = tr[Other("client")] /\ t \in TransportState /\ r \in TransportState
  BY <1>1, PeersAreTwo DEF NotifyAuthDone, TypeOK, Peers
<1>3. /\ r.class = "post-userauth" /\ (r.kex <=> t.kex) /\ (r.deferred <=> t.deferred)
      /\ r.conf = t.conf /\ r.begun = t.begun
  BY <1>2 DEF TransportState
<1>4. Pending(r) <= Pending(t)
  BY <1>2, <1>3, PendingKept
<1> QED BY <1>1, <1>2, <1>3, <1>4, ReasonsKept

\* Every exchange that a step begins has its reason.
LEMMA ReasonsInvariance ==
    ASSUME TypeOK, Locals, fault # "garbled" => Flowing, Reasoned, [Next]_vars
    PROVE  Reasoned'
<1>1. TypeOK'
  BY TypeInvariance
<1>2. ASSUME fault = "garbled"
      PROVE  Reasoned'
  BY <1>2, Stopped, ReasonsIdle DEF vars
<1>3. ASSUME NEW p \in Peers, RecvKexinit(p) \/ RecvKexreq(p) \/ RecvKexreply(p) \/ AcceptHostKey(p)
      PROVE  Reasoned'
  <2>1. asks' = asks
    BY <1>3 DEF RecvKexinit, RecvKexreq, RecvKexreply, AcceptHostKey
  <2>2. PICK pc, ic : tr' = [tr EXCEPT ![p] = [tr[p] EXCEPT !.pc = pc, !.ic = ic]]
    <3>1. PICK pc : tr' = [tr EXCEPT ![p].pc = pc] \/ tr' = [tr EXCEPT ![p].pc = pc, ![p].ic = TRUE]
      BY <1>3 DEF RecvKexinit, RecvKexreq, RecvKexreply, AcceptHostKey
    <3>2. \/ tr' = [tr EXCEPT ![p] = [tr[p] EXCEPT !.pc = pc, !.ic = tr[p].ic]]
          \/ tr' = [tr EXCEPT ![p] = [tr[p] EXCEPT !.pc = pc, !.ic = TRUE]]
      BY <3>1 DEF TypeOK, TransportState
    <3> QED BY <3>2
  <2> QED BY <1>1, <2>1, <2>2, ReasonsUntouched
<1>4. ASSUME NEW p \in Peers, NEW ic, tr' = tr \/ tr' = [tr EXCEPT ![p].ic = ic], asks' = asks
      PROVE  Reasoned'
  <2>1. CASE tr' = tr
    BY <1>4, <2>1, ReasonsIdle
  <2>2. CASE tr' = [tr EXCEPT ![p].ic = ic]
    <3>1. tr' = [tr EXCEPT ![p] = [tr[p] EXCEPT !.pc = tr[p].pc, !.ic = ic]]
      BY <2>2 DEF TypeOK, TransportState
    <3> QED BY <1>1, <1>4, <3>1, ReasonsUntouched
  <2> QED BY <1>4, <2>1, <2>2
<1>5. ASSUME NEW p \in Peers, \/ PassUp(p) \/ Unexpected(p) \/ Block(p) \/ BppInput(p) \/ BppOutput(p)
                              \/ SendData(p)
      PROVE  Reasoned'
  <2>1. asks' = asks
    BY <1>5 DEF PassUp, Unexpected, Block, BppInput, BppOutput, SendData, Queue
  <2>2. PICK ic : tr' = tr \/ tr' = [tr EXCEPT ![p].ic = ic]
    BY <1>5 DEF PassUp, Unexpected, Block, BppInput, BppOutput, SendData, Queue
  <2> QED BY <1>4, <2>1, <2>2
<1>6. ASSUME AskAuth \/ AnswerAuth
      PROVE  Reasoned'
  <2>1. asks' = asks
    BY <1>6 DEF AskAuth, AnswerAuth, Queue
  <2>2. PICK p \in Peers : \E ic : tr' = tr \/ tr' = [tr EXCEPT ![p].ic = ic]
    BY <1>6 DEF AskAuth, AnswerAuth, Queue, Peers
  <2>3. PICK ic : tr' = tr \/ tr' = [tr EXCEPT ![p].ic = ic]
    BY <2>2
  <2> QED BY <1>4, <2>1, <2>3
<1>7. ASSUME UNCHANGED vars
      PROVE  Reasoned'
  BY <1>7, ReasonsIdle DEF vars
<1>8. ASSUME fault # "garbled", NEW p \in Peers, WaitForRekey(p)
      PROVE  Reasoned'
  BY <1>1, <1>8, WaitForRekeyReasons
<1>9. ASSUME NEW p \in Peers, Start(p) \/ RecvNewkeys(p) \/ RecvService(p) \/ RekeyTimer(p)
      PROVE  Reasoned'
  BY <1>1, <1>9, StartReasons, RecvNewkeysReasons, RecvServiceReasons, AskReasons
<1>10. ASSUME UserRekey \/ Reconfigure \/ NotifyAuthDone
       PROVE  Reasoned'
  BY <1>1, <1>10, AskReasons, NotifyAuthDoneReasons
<1> QED BY <1>2, <1>3, <1>5, <1>6, <1>7, <1>8, <1>9, <1>10 DEF Next, Step, Coroutine

\* At first each end has its one exchange to begin.
LEMMA InitReasons == Init => Reasoned
<1> SUFFICES ASSUME Init
             PROVE  Reasoned
  OBVIOUS
<1>1. \A p \in Peers : Pending(tr[p]) = 0 /\ tr[p].begun = 0
  BY DEF Init, Pending, One
<1>2. Pending(tr["client"]) = 0 /\ Pending(tr["server"]) = 0 /\ asks = 0 /\ tr["client"].conf = 0
  BY <1>1 DEF Init, Peers
<1> QED BY <1>1, <1>2 DEF Reasoned, Spent, Budget

\* Exchanges that have a reason each are as many as the reasons.
LEMMA ReasonedIsFinite ==
    TypeOK /\ Reasoned => NoEndlessRekey
<1> SUFFICES ASSUME TypeOK, Reasoned, NEW p \in Peers
             PROVE  tr[p].begun <= 1 + asks + tr["client"].conf
  BY DEF NoEndlessRekey
<1>1. PICK x, y : x = Pending(tr["client"]) /\ y = Pending(tr["server"])
  OBVIOUS
<1>2. x \in Nat /\ y \in Nat /\ tr[p].begun \in Nat /\ asks \in Nat /\ tr["client"].conf \in Nat
  BY <1>1, PendingIsNumber, TypesOfAnEnd DEF TypeOK, Peers
<1>3. tr[p].begun + x + y <= 1 + asks + tr["client"].conf
  BY <1>1 DEF Reasoned, Spent, Budget
<1> QED BY <1>2, <1>3

--------------------------------------------------------------------------------
(* NoProtocolError *)

\* Only three steps end a connection.
LEMMA FaultsOfSteps ==
    ASSUME [Next]_vars
    PROVE  \/ fault' = fault
           \/ \E p \in Peers : PassUp(p) \/ Unexpected(p) \/ BppInput(p)
<1>1. ASSUME NEW p \in Peers, Step(p)
      PROVE  fault' = fault \/ PassUp(p) \/ Unexpected(p) \/ BppInput(p)
  BY <1>1 DEF Step, Coroutine, Start, RecvKexinit, RecvKexreq, RecvKexreply, RecvNewkeys, RecvService,
              WaitForRekey, Block, AcceptHostKey, BppOutput, RekeyTimer, SendData, Queue
<1>2. ASSUME UserRekey \/ Reconfigure \/ NotifyAuthDone \/ AskAuth \/ AnswerAuth
      PROVE  fault' = fault
  BY <1>2 DEF UserRekey, Reconfigure, NotifyAuthDone, AskAuth, AnswerAuth, Queue
<1> QED BY <1>1, <1>2 DEF Next, vars

\* The layer above is given nothing before it is ready, and nothing out of order.
LEMMA PassUpAccepts ==
    ASSUME TypeOK, Flowing, UpperAfter, Streaming, NEW p \in Peers, PassUp(p)
    PROVE  fault' = fault
<1>1. PICK j, m : j = Line(Other(p)) /\ m = Head(inq[p])
  OBVIOUS
<1>2. inq[p] # <<>> /\ m.type \in Upper /\ Other(p) \in Peers /\ Other(Other(p)) = p
  BY <1>1, PeersAreTwo DEF PassUp
<1>3. j # <<>> /\ Head(j) = m /\ j \in Seq(Packets(Types))
  <2>1. inq[p] \in Seq(Packets(Types)) /\ wire[p] \in Seq(Encodings) /\ outq[Other(p)] \in Seq(Packets(Types))
    BY <1>2, TypesOfAnEnd
  <2>2. j = LineOf(inq[p], wire[p], outq[Other(p)])
    BY <1>1, <1>2 DEF Line
  <2>3. j \in Seq(Packets(Types))
    BY <1>1, <1>2, TypesOfLines
  <2> QED BY <1>1, <1>2, <2>1, <2>2, <2>3, LineTaken
<1>4. tr[p].ok
  <2>1. HasUpper(j)
    BY <1>2, <1>3, UpperInQueues
  <2>2. tr["client"].ok
    BY <1>1, <1>2, <2>1 DEF UpperAfter, Engaged
  <2>3. tr["server"].ok
    BY <2>2, CountsAgree DEF Agree
  <2> QED BY <2>2, <2>3 DEF Peers
<1>5. m.type = "data" => m.n = up[p].got + 1
  <2>1. PICK h, got, sent : h = held[Other(p)] /\ got = up[p].got /\ sent = up[Other(p)].sent
    OBVIOUS
  <2>2. Streams(j, h, got, sent) /\ got \in Nat /\ sent \in Nat
    BY <1>1, <2>1, StreamParts
  <2> QED BY <1>3, <2>1, <2>2, StreamsTaken
<1> QED BY <1>1, <1>4, <1>5 DEF PassUp

\* What is known of a connection whose keys have not fallen out of step
Ordered == Flowing /\ UpperAfter /\ Streaming /\ Calmness
OrderInv ==
    /\ TypeOK /\ Locals /\ Reasoned /\ NoProtocolError
    /\ fault # "garbled" => Ordered

\* The order of packets survives every step that decodes what it reads.
LEMMA OrderedInvariance ==
    ASSUME TypeOK, Locals, fault # "garbled" => Ordered, [Next]_vars
    PROVE  fault' # "garbled" => Ordered'
<1>1. CASE fault = "garbled"
  <2>1. fault' = fault
    BY <1>1, Stopped DEF vars
  <2> QED BY <1>1, <2>1
<1>2. CASE fault # "garbled"
  BY <1>2, FlowInvariance, UpperAfterInvariance, StreamInvariance, CalmInvariance DEF Ordered
<1> QED BY <1>1, <1>2

\* No step rejects a packet, but for the one case.
LEMMA NoErrorInvariance ==
    ASSUME OrderInv, [Next]_vars
    PROVE  NoProtocolError'
<1>1. CASE fault # "none"
  <2>1. fault' = fault /\ tr' = tr
    BY <1>1, Stopped DEF vars
  <2> QED BY <2>1 DEF OrderInv, NoProtocolError
<1>2. CASE fault = "none" /\ fault' = fault
  BY <1>2 DEF NoProtocolError
<1>3. ASSUME fault = "none", NEW p \in Peers, BppInput(p)
      PROVE  NoProtocolError'
  BY <1>3 DEF BppInput, NoProtocolError
<1>4. ASSUME fault = "none", NEW p \in Peers, PassUp(p)
      PROVE  NoProtocolError'
  <2>1. fault' = fault
    BY <1>4, PassUpAccepts DEF OrderInv, Ordered
  <2> QED BY <1>4, <2>1 DEF NoProtocolError
<1>5. ASSUME fault = "none", NEW p \in Peers, Unexpected(p)
      PROVE  NoProtocolError'
  <2>1. /\ tr[p].pc # "start" /\ inq[p] # <<>> /\ fault' = tr[p].pc /\ tr' = tr
        /\ Head(inq[p]).type \notin Upper /\ Head(inq[p]).type \notin Expected(p)
    BY <1>5 DEF Unexpected
  <2>2. tr[p].pc = "service" /\ ~tr["server"].ok /\ tr["client"].used > 0
    BY <1>5, <2>1, FrontIsExpected DEF OrderInv, Ordered
  <2> QED BY <2>1, <2>2 DEF NoProtocolError
<1> QED BY <1>1, <1>2, <1>3, <1>4, <1>5, FaultsOfSteps

\* The initial state is in order.
LEMMA InitOrdered == Init => OrderInv
<1> SUFFICES ASSUME Init
             PROVE  OrderInv
  OBVIOUS
<1>1. TypeOK /\ Locals /\ Flowing /\ Streaming /\ Calmness
  BY InitType, InitLocal, InitFlow, InitStreams, InitCalm
<1>2. UpperAfter
  <2>1. ASSUME NEW p \in Peers
        PROVE  ~Engaged(p)
    <3>1. /\ held[p] = <<>> /\ up[p].auth = "idle" /\ inq[Other(p)] = <<>> /\ wire[Other(p)] = <<>>
          /\ outq[p] = <<>>
      BY PeersAreTwo DEF Init
    <3>2. Line(p) = <<>>
      BY <3>1 DEF Line, LineOf, Stripped
    <3> QED BY <3>1, <3>2 DEF Engaged, HasUpper, Has
  <2> QED BY <2>1 DEF UpperAfter
<1>3. NoProtocolError
  BY DEF Init, NoProtocolError
<1>4. Reasoned
  BY InitReasons
<1> QED BY <1>1, <1>2, <1>3, <1>4 DEF OrderInv, Ordered

\* The invariant is inductive.
LEMMA OrderInvariance ==
    ASSUME OrderInv, [Next]_vars
    PROVE  OrderInv'
<1>1. TypeOK /\ Locals /\ Reasoned /\ (fault # "garbled" => Ordered) /\ (fault # "garbled" => Flowing)
  BY DEF OrderInv, Ordered
<1>2. TypeOK' /\ Locals'
  BY <1>1, TypeInvariance, LocalInvariance
<1>3. fault' # "garbled" => Ordered'
  BY <1>1, OrderedInvariance
<1>4. Reasoned'
  BY <1>1, ReasonsInvariance
<1>5. NoProtocolError'
  BY NoErrorInvariance
<1> QED BY <1>2, <1>3, <1>4, <1>5 DEF OrderInv

\* The invariant holds of every behaviour.
LEMMA OrderCorrect == Spec => []OrderInv
<1>1. Init => OrderInv
  BY InitOrdered
<1>2. OrderInv /\ [Next]_vars => OrderInv'
  BY OrderInvariance
<1> QED BY <1>1, <1>2, PTL DEF Spec

\* However exchanges, requests and answers cross, no end finds a packet it does not expect
\* at the front of its queue (the ssh_proto_error calls of ssh2_transport_process_queue and
\* of the kex2 files), but for the second KEXINIT that overtakes the SERVICE_REQUEST.
THEOREM NoPacketRejected == Spec => []NoProtocolError
<1>1. OrderInv => NoProtocolError
  BY DEF OrderInv
<1> QED BY <1>1, OrderCorrect, PTL

\* An end begins no more exchanges than there are reasons for: the first one, the timers,
\* the user and the byte counts, and changes of the client's settings (rekey_class).
THEOREM RekeysHaveReasons == Spec => []NoEndlessRekey
<1>1. OrderInv => NoEndlessRekey
  BY ReasonedIsFinite DEF OrderInv
<1> QED BY <1>1, OrderCorrect, PTL

--------------------------------------------------------------------------------
(* QuietDuringKex *)

\* QuietDuringKex of one direction
QuietWire(w) ==
    \A i, k \in DOMAIN w :
        i < k /\ w[i].type = "kexinit" /\ w[k].type \in Upper
            => \E j \in i..k : w[j].type = "newkeys"

\* QuietDuringKex, one direction at a time.
LEMMA QuietOfWires == QuietDuringKex <=> \A p \in Peers : QuietWire(wire[p])
BY DEF QuietDuringKex, QuietWire

\* Reading a packet leaves the wire quiet.
LEMMA QuietTail ==
    ASSUME NEW w \in Seq(Encodings), w # <<>>, QuietWire(w)
    PROVE  QuietWire(Tail(w))
<1>1. ASSUME NEW i \in DOMAIN Tail(w), NEW k \in DOMAIN Tail(w), i < k,
             Tail(w)[i].type = "kexinit", Tail(w)[k].type \in Upper
      PROVE  \E j \in i..k : Tail(w)[j].type = "newkeys"
  <2>1. /\ i \in Nat /\ k \in Nat /\ i + 1 \in DOMAIN w /\ k + 1 \in DOMAIN w
        /\ Tail(w)[i] = w[i + 1] /\ Tail(w)[k] = w[k + 1]
    OBVIOUS
  <2>2. i + 1 < k + 1
    BY <1>1, <2>1
  <2>3. PICK j \in (i + 1)..(k + 1) : w[j].type = "newkeys"
    BY <1>1, <2>1, <2>2 DEF QuietWire
  <2>4. j - 1 \in i..k /\ j - 1 + 1 = j
    BY <2>1
  <2>5. j - 1 \in DOMAIN Tail(w)
    BY <1>1, <2>1, <2>4
  <2>6. Tail(w)[j - 1] = w[j]
    BY <2>1, <2>4, <2>5
  <2> QED BY <2>3, <2>4, <2>6
<1> QED BY <1>1 DEF QuietWire

\* Reading a packet leaves both wires quiet.
LEMMA QuietReading ==
    ASSUME TypeOK, QuietDuringKex, NEW p \in Peers, wire[p] # <<>>,
           wire' = [wire EXCEPT ![p] = Tail(wire[p])]
    PROVE  QuietDuringKex'
<1>1. \A x \in Peers : wire'[x] = wire[x] \/ (x = p /\ wire'[x] = Tail(wire[x]))
  BY DEF TypeOK
<1>2. ASSUME NEW x \in Peers
      PROVE  QuietWire(wire'[x])
  <2>1. QuietWire(wire[x]) /\ wire[x] \in Seq(Encodings)
    BY QuietOfWires, TypesOfAnEnd
  <2>2. CASE wire'[x] = wire[x]
    BY <2>1, <2>2
  <2>3. CASE x = p /\ wire'[x] = Tail(wire[x])
    <3>1. QuietWire(Tail(wire[x]))
      BY <2>1, <2>3, QuietTail
    <3> QED BY <2>3, <3>1
  <2> QED BY <1>1, <2>2, <2>3
<1> QED BY <1>2 DEF QuietDuringKex, QuietWire

\* The step that fails to decode a packet leaves the wires quiet.
LEMMA GarbledIsQuiet ==
    ASSUME OrderInv, fault = "garbled" => QuietDuringKex, [Next]_vars
    PROVE  fault' = "garbled" => QuietDuringKex'
<1>1. TypeOK
  BY DEF OrderInv
<1>2. QuietDuringKex
  BY CalmIsQuiet DEF OrderInv, Ordered
<1>3. CASE fault # "none" \/ UNCHANGED vars
  <2>1. wire' = wire
    BY <1>3, Stopped DEF vars
  <2> QED BY <1>2, <2>1 DEF QuietDuringKex
<1>4. CASE fault = "none" /\ fault' # fault
  <2>1. PICK p \in Peers : PassUp(p) \/ Unexpected(p) \/ BppInput(p)
    BY <1>4, FaultsOfSteps
  <2>2. CASE PassUp(p) \/ Unexpected(p)
    <3>1. wire' = wire
      BY <2>2 DEF PassUp, Unexpected
    <3> QED BY <1>2, <3>1 DEF QuietDuringKex
  <2>3. CASE BppInput(p)
    <3>1. wire[p] # <<>> /\ wire' = [wire EXCEPT ![p] = Tail(wire[p])]
      BY <2>3 DEF BppInput, CanRead
    <3> QED BY <1>1, <1>2, <3>1, QuietReading
  <2> QED BY <2>1, <2>2, <2>3
<1>5. CASE fault = "none" /\ fault' = fault
  BY <1>5
<1> QED BY <1>3, <1>4, <1>5

\* Nothing of the layer above leaves an end between its KEXINIT and its NEWKEYS, because
\* pq_out_higher is held back until the new keys are in use.
THEOREM KexIsQuiet == Spec => []QuietDuringKex
<1> DEFINE J == fault = "garbled" => QuietDuringKex
<1>1. Init => J
  BY DEF Init
<1>2. OrderInv /\ J /\ [Next]_vars => J'
  BY GarbledIsQuiet
<1>3. OrderInv /\ J => QuietDuringKex
  BY CalmIsQuiet DEF OrderInv, Ordered
<1> QED BY <1>1, <1>2, <1>3, OrderCorrect, PTL DEF Spec

\* Whatever the layer above has sent and the other has not seen is on its way, once and in
\* order, through every key exchange, until a packet cannot be decoded (pq_out_higher is
\* held back and released whole).
THEOREM StreamSurvives == Spec => []StreamIntact
<1>1. OrderInv => StreamIntact
  BY StreamsAreIntact DEF OrderInv, Ordered, StreamIntact
<1> QED BY <1>1, OrderCorrect, PTL
================================================================================
