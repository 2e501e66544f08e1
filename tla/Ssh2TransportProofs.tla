-------------------------- MODULE Ssh2TransportProofs --------------------------
(***************************************************************************)
(* Types, what each end knows by itself, and what is on the way between    *)
(* them. Theorems: TypeCorrect, SettingsTakeForce and TimerStaysArmed.     *)
(*                                                                         *)
(* `Locals` holds in every reachable state, whatever arrives: the proof of *)
(* a step looks at one end only. It has the phases of an end's coroutine,  *)
(* how many keys it has changed, what its compression waits for, and which *)
(* requests for a re-exchange are still open or have been lost.            *)
(*                                                                         *)
(* The packets one end has queued, sent and had decoded, and the other has *)
(* not yet taken, are its line: reading and sending leave it as it was, a  *)
(* handler adds at its end, and the other end's handler takes its first.   *)
(* `Flowing` says that for each type of the transport layer's own packets  *)
(* the line holds one if one more was sent than taken, and none otherwise; *)
(* and which types may overtake no other. Both counts follow from where the*)
(* coroutines wait. `UpperAfter` says that the layers above send nothing   *)
(* before the service is agreed.                                           *)
(***************************************************************************)
EXTENDS Ssh2Transport, TLAPS, WellFoundedInduction, SequenceTheorems

Less == {ss \in Nat \X Nat : ss[1] < ss[2]}

\* A set of numbers that is not empty has a least element.
LEMMA LeastNumber ==
    ASSUME NEW S \in SUBSET Nat, S # {}
    PROVE  \E m \in S : \A k \in S : m <= k
<1>1. IsWellFoundedOn(Less, Nat)
  BY NatLessThanWellFounded DEF OpToRel, Less
<1>2. PICK m \in S : \A k \in S : <<k, m>> \notin Less
  BY <1>1, WFMin
<1>3. \A k \in S : ~(k < m)
  BY <1>2 DEF Less
<1> QED BY <1>3

\* A bounded one that is not empty has a greatest element, which Max returns.
LEMMA MaxInSet ==
    ASSUME NEW n \in Nat, NEW S \in SUBSET (1..n), S # {}
    PROVE  Max(S) \in S /\ \A k \in S : k <= Max(S)
<1> DEFINE Above == {b \in Nat : \A k \in S : k <= b}
<1>1. n \in Above
  OBVIOUS
<1>2. PICK m \in Above : \A b \in Above : m <= b
  <2> HIDE DEF Above
  <2>1. Above \in SUBSET Nat
    BY DEF Above
  <2> QED BY <1>1, <2>1, LeastNumber
<1>3. m \in S
  <2>1. SUFFICES ASSUME m \notin S PROVE FALSE
    OBVIOUS
  <2>2. PICK e \in S : TRUE
    OBVIOUS
  <2>3. m \in Nat /\ e <= m /\ e >= 1 /\ \A k \in S : k <= m
    BY <1>2
  <2>4. m - 1 \in Above
    BY <2>1, <2>3
  <2>5. m <= m - 1
    BY <1>2, <2>4
  <2> QED BY <2>3, <2>5
<1>4. \E x \in S : \A y \in S : x >= y
  BY <1>2, <1>3
<1>5. Max(S) \in S /\ \A y \in S : Max(S) >= y
  BY <1>4, Zenon DEF Max
<1> QED BY <1>5

\* Each end has the other for its Other, and there are no more.
LEMMA PeersAreTwo ==
    /\ \A p \in Peers : Other(p) \in Peers /\ Other(p) # p /\ Other(Other(p)) = p
    /\ \A p, q \in Peers : q = p \/ q = Other(p)
  BY DEF Peers, Other

\* A run of handle_output sends a first part of the queue and leaves the rest.
LEMMA SendableInRange ==
    ASSUME NEW p \in Peers, NEW q \in Seq(Packets(Types))
    PROVE  /\ Sendable(p, q) \in 0..Len(q)
           /\ Unsent(p, q) \in Seq(Packets(Types))
<1>1. Len(q) \in Nat /\ DOMAIN q = 1..Len(q)
  OBVIOUS
<1>2. UserAuths(q) # {} => Max(UserAuths(q)) \in 1..Len(q)
  <2>1. UserAuths(q) \in SUBSET (1..Len(q))
    BY <1>1 DEF UserAuths
  <2> QED BY <1>1, <2>1, MaxInSet
<1>3. \/ Sendable(p, q) = 0
      \/ q # <<>> /\ UserAuths(q) = {} /\ Sendable(p, q) = 1
      \/ UserAuths(q) # {} /\ Sendable(p, q) = Max(UserAuths(q))
      \/ Sendable(p, q) = Len(q)
  BY DEF Sendable
<1>4. Sendable(p, q) \in 0..Len(q)
  BY <1>1, <1>2, <1>3
<1>5. Unsent(p, q) \in Seq(Packets(Types))
  BY <1>1, <1>4 DEF Unsent
<1> QED BY <1>4, <1>5

--------------------------------------------------------------------------------
(* Types *)

\* Packets are made of a type and a number.
LEMMA PacketTypes ==
    /\ \A t \in Types, n \in Nat : Packet(t, n) \in Packets(Types) /\ Packet(t, n).type = t
    /\ \A t \in Upper, n \in Nat : Packet(t, n) \in Packets(Upper)
    /\ Packets(Upper) \subseteq Packets(Types)
    /\ \A m \in Packets(Types) : m.type \in Types /\ m.n \in Nat /\ m = Packet(m.type, m.n)
  BY DEF Packet, Packets, Types

\* The packets the transport layer itself sends.
LEMMA OwnPacketTypes ==
    \A t \in {"kexinit", "kexreq", "kexreply", "newkeys", "svcreq", "svcack"}, n \in Nat :
        Packet(t, n) \in Packets(Types) /\ Packet(t, n).type = t
  BY PacketTypes DEF Types

\* What the layer above has queued can follow on the line.
LEMMA HeldArePackets ==
    ASSUME NEW q \in Seq(Packets(Upper))
    PROVE  q \in Seq(Packets(Types))
  BY PacketTypes

\* What is sent are encoded packets.
LEMMA EncodedType ==
    ASSUME TypeOK, NEW p \in Peers, NEW q \in Seq(Packets(Types))
    PROVE  /\ Encoded(p, q) \in Seq(Encodings)
           /\ Len(Encoded(p, q)) = Sendable(p, q)
           /\ \A i \in 1..Sendable(p, q) :
                Encoded(p, q)[i] = [type |-> q[i].type, n |-> q[i].n, key |-> bpp[p].outKey,
                                    comp |-> Compressed(p, q, i)]
<1>1. Sendable(p, q) \in 0..Len(q) /\ Len(q) \in Nat
  BY SendableInRange
<1>2. bpp[p].outKey \in Nat /\ bpp[p].outComp \in BOOLEAN
  BY DEF TypeOK, BppState
<1>3. \A i \in 1..Sendable(p, q) :
        [type |-> q[i].type, n |-> q[i].n, key |-> bpp[p].outKey,
         comp |-> Compressed(p, q, i)] \in Encodings
  <2> SUFFICES ASSUME NEW i \in 1..Sendable(p, q)
               PROVE  [type |-> q[i].type, n |-> q[i].n, key |-> bpp[p].outKey,
                       comp |-> Compressed(p, q, i)] \in Encodings
    OBVIOUS
  <2>1. q[i] \in Packets(Types)
    BY <1>1
  <2>3. q[i].type \in Types /\ q[i].n \in Nat
    BY <2>1 DEF Packets
  <2>2. Compressed(p, q, i) \in BOOLEAN
    BY <1>2 DEF Compressed
  <2> QED BY <2>3, <2>2, <1>2 DEF Encodings
<1> QED BY <1>1, <1>3 DEF Encoded

\* The changes of keys and compression keep the type of the BPP's state.
LEMMA BppOperatorsType ==
    ASSUME delayed \in BOOLEAN, NEW b \in BppState
    PROVE  /\ EnablePending(b) \in BppState
           /\ NewOutgoingCrypto(b) \in BppState
           /\ NewIncomingCrypto(b) \in BppState
<1>1. /\ b.outKey + 1 \in Nat /\ b.inKey + 1 \in Nat /\ b.seen \in BOOLEAN
      /\ b.inComp \in BOOLEAN /\ b.inPend \in BOOLEAN /\ b.outComp \in BOOLEAN /\ b.outPend \in BOOLEAN
  BY DEF BppState
<1>2. \A x, y, z, w \in BOOLEAN :
        [b EXCEPT !.inComp = x, !.outComp = y, !.inPend = z, !.outPend = w] \in BppState
  BY DEF BppState
<1>3. \A n \in Nat, x, y \in BOOLEAN :
        [b EXCEPT !.outKey = n, !.outPend = x, !.outComp = y] \in BppState
  BY DEF BppState
<1>4. \A n \in Nat, x, y, z \in BOOLEAN :
        [b EXCEPT !.inKey = n, !.inPend = x, !.inComp = y, !.newkeys = z] \in BppState
  BY DEF BppState
<1>5. EnablePending(b) \in BppState
  BY <1>1, <1>2, Zenon DEF EnablePending
<1>6. NewOutgoingCrypto(b) \in BppState
  BY <1>1, <1>3, Zenon DEF NewOutgoingCrypto
<1>7. NewIncomingCrypto(b) \in BppState
  BY <1>1, <1>4, Zenon DEF NewIncomingCrypto
<1> QED BY <1>5, <1>6, <1>7

\* Sending keeps the type of the BPP's state.
LEMMA AfterSendingType ==
    ASSUME TypeOK, NEW p \in Peers, NEW q \in Seq(Packets(Types))
    PROVE  AfterSending(p, q) \in BppState
<1>1. bpp[p] \in BppState /\ delayed \in BOOLEAN
  BY DEF TypeOK
<1>2. EnablePending(bpp[p]) \in BppState
  BY <1>1, BppOperatorsType
<1>3. \A b \in BppState, x \in BOOLEAN : [b EXCEPT !.blocked = @ \/ x] \in BppState
  BY DEF BppState
<1> QED BY <1>1, <1>2, <1>3 DEF AfterSending

\* Reading keeps the type of the BPP's state.
LEMMA AfterReadingType ==
    ASSUME TypeOK, NEW p \in Peers, NEW type \in Types
    PROVE  AfterReading(p, type) \in BppState
<1>1. bpp[p] \in BppState /\ delayed \in BOOLEAN
  BY DEF TypeOK
<1>2. EnablePending(bpp[p]) \in BppState
  BY <1>1, BppOperatorsType
<1>3. [EnablePending(bpp[p]) EXCEPT !.seen = TRUE] \in BppState
  BY <1>2 DEF BppState
<1>4. \A b \in BppState, x, y \in BOOLEAN :
        [b EXCEPT !.newkeys = @ \/ x, !.blocked = @ /\ y] \in BppState
  BY DEF BppState
<1> QED BY <1>1, <1>3, <1>4 DEF AfterReading

\* Assignments to single fields keep the type of the coroutine's state.
LEMMA TransportUpdatesType ==
    ASSUME NEW t \in TransportState
    PROVE  /\ \A pc \in PCs, ic \in BOOLEAN : [t EXCEPT !.pc = pc, !.ic = ic] \in TransportState
           /\ \A pc \in PCs : [t EXCEPT !.pc = pc] \in TransportState
           /\ \A ic \in BOOLEAN : [t EXCEPT !.ic = ic] \in TransportState
           /\ \A x \in BOOLEAN : [t EXCEPT !.timer = x] \in TransportState
           /\ \A x \in BOOLEAN : [t EXCEPT !.deferred = x] \in TransportState
           /\ \A x \in BOOLEAN : [t EXCEPT !.ok = x, !.ic = FALSE] \in TransportState
           /\ \A x \in Classes, ic \in BOOLEAN : [t EXCEPT !.class = x, !.ic = ic] \in TransportState
           /\ \A x \in Classes : [t EXCEPT !.class = x] \in TransportState
           /\ \A n \in Nat : [t EXCEPT !.conf = n, !.timer = TRUE] \in TransportState
  BY DEF TransportState

\* Beginning, finishing and resting keep the type of the coroutine's state.
LEMMA TransportOperatorsType ==
    ASSUME NEW t \in TransportState
    PROVE  Begun(t) \in TransportState /\ Idle(t) \in TransportState /\ Finished(t) \in TransportState
<1>1. t.conf \in Nat /\ t.begun + 1 \in Nat
  BY DEF TransportState
<1>2. \A u, n \in Nat :
        [t EXCEPT !.pc = "kexinit", !.kex = TRUE, !.used = u, !.begun = n] \in TransportState
  BY DEF TransportState, PCs
<1>3. Begun(t) \in TransportState
  BY <1>1, <1>2, Zenon DEF Begun
<1>4. Idle(t) \in TransportState /\ Finished(t) \in TransportState
  BY DEF Idle, Finished, TransportState, PCs, Classes
<1> QED BY <1>3, <1>4

\* The queues and states are of their types one end at a time.
LEMMA TypesOfAnEnd ==
    ASSUME TypeOK, NEW p \in Peers
    PROVE  /\ tr[p] \in TransportState /\ bpp[p] \in BppState /\ up[p] \in UpperState
           /\ inq[p] \in Seq(Packets(Types)) /\ outq[p] \in Seq(Packets(Types))
           /\ held[p] \in Seq(Packets(Upper)) /\ held[p] \in Seq(Packets(Types))
           /\ wire[p] \in Seq(Encodings)
           /\ tr[p].pc \in PCs /\ tr[p].conf \in Nat /\ tr[p].begun \in Nat
  BY HeldArePackets DEF TypeOK, TransportState

\* Taking a packet keeps the types of the queues.
LEMMA TookType ==
    ASSUME TypeOK, NEW p \in Peers, NEW type, inq[p] # <<>>, Took(p, type)
    PROVE  inq' \in [Peers -> Seq(Packets(Types))]
  BY DEF Took, TypeOK

\* Sending NEWKEYS keeps the types of the queues and of the BPP.
LEMMA SendNewkeysType ==
    ASSUME TypeOK, NEW p \in Peers, NEW q \in Seq(Packets(Types)), SendNewkeys(p, q)
    PROVE  /\ wire' \in [Peers -> Seq(Encodings)]
           /\ bpp' \in [Peers -> BppState]
           /\ outq' \in [Peers -> Seq(Packets(Types))]
           /\ held' \in [Peers -> Seq(Packets(Upper))]
<1> DEFINE all == q \o <<Packet("newkeys", 0)>>
<1>1. all \in Seq(Packets(Types))
  BY OwnPacketTypes
<1> HIDE DEF all
<1>2. Encoded(p, all) \in Seq(Encodings) /\ Unsent(p, all) \in Seq(Packets(Types))
  BY <1>1, EncodedType, SendableInRange
<1>3. NewOutgoingCrypto(AfterSending(p, all)) \in BppState
  BY <1>1, AfterSendingType, BppOperatorsType DEF TypeOK
<1>4. /\ wire' = [wire EXCEPT ![Other(p)] = @ \o Encoded(p, all)]
      /\ bpp' = [bpp EXCEPT ![p] = NewOutgoingCrypto(AfterSending(p, all))]
      /\ outq' = [outq EXCEPT ![p] = Unsent(p, all) \o held[p]]
      /\ held' = [held EXCEPT ![p] = <<>>]
  BY DEF SendNewkeys, all
<1>5. wire[Other(p)] \o Encoded(p, all) \in Seq(Encodings)
  BY <1>2, PeersAreTwo, TypesOfAnEnd
<1>6. Unsent(p, all) \o held[p] \in Seq(Packets(Types))
  BY <1>2, TypesOfAnEnd
<1>7. wire' \in [Peers -> Seq(Encodings)]
  BY <1>4, <1>5 DEF TypeOK
<1>8. bpp' \in [Peers -> BppState]
  BY <1>4, <1>3 DEF TypeOK
<1>9. outq' \in [Peers -> Seq(Packets(Types))] /\ held' \in [Peers -> Seq(Packets(Upper))]
  BY <1>4, <1>6 DEF TypeOK
<1> QED BY <1>7, <1>8, <1>9

\* What begin_key_exchange leaves is of the right types, whatever class is recorded.
LEMMA BeginType ==
    ASSUME TypeOK, NEW p \in Peers, BeginNotes(p)
    PROVE  /\ early' \in BOOLEAN /\ lost' \in [Peers -> SUBSET {"service", "userauth", "inadvisable"}]
           /\ Packet("kexinit", tr[p].conf) \in Packets(Types)
<1>1. early' \in BOOLEAN /\ lost' \in [Peers -> SUBSET {"service", "userauth", "inadvisable"}]
  BY DEF TypeOK, BeginNotes
<1>2. Packet("kexinit", tr[p].conf) \in Packets(Types)
  BY TypesOfAnEnd, OwnPacketTypes
<1> QED BY <1>1, <1>2

\* The step to begin the first key exchange keeps the types.
LEMMA StartType ==
    ASSUME TypeOK, NEW p \in Peers, Start(p)
    PROVE  TypeOK'
<1>1. Begun(tr[p]) \in TransportState
  BY TypesOfAnEnd, TransportOperatorsType
<1>2. tr' \in [Peers -> TransportState]
  BY <1>1 DEF TypeOK, Start
<1>3. outq' \in [Peers -> Seq(Packets(Types))]
  BY BeginType DEF TypeOK, Start
<1> QED BY <1>2, <1>3, BeginType DEF TypeOK, Start

\* The step to take the other end's KEXINIT keeps the types.
LEMMA RecvKexinitType ==
    ASSUME TypeOK, NEW p \in Peers, RecvKexinit(p)
    PROVE  TypeOK'
<1>1. Packet("kexreq", 0) \in Packets(Types)
  BY OwnPacketTypes
<1>2. outq' \in [Peers -> Seq(Packets(Types))]
  BY <1>1 DEF TypeOK, RecvKexinit
<1>3. tr' \in [Peers -> TransportState]
  <2> DEFINE pc == IF p = "client" THEN "kexreply" ELSE "kexreq"
  <2>1. pc \in PCs
    BY DEF PCs
  <2>2. tr' = [tr EXCEPT ![p] = [tr[p] EXCEPT !.pc = pc]]
    BY DEF RecvKexinit
  <2> HIDE DEF pc
  <2> QED BY <2>1, <2>2, TypesOfAnEnd, TransportUpdatesType DEF TypeOK
<1>4. inq' \in [Peers -> Seq(Packets(Types))]
  BY TookType DEF RecvKexinit, Next1
<1> QED BY <1>2, <1>3, <1>4 DEF TypeOK, RecvKexinit

\* The step to take KEXREQ keeps the types.
LEMMA RecvKexreqType ==
    ASSUME TypeOK, NEW p \in Peers, RecvKexreq(p)
    PROVE  TypeOK'
<1>1. Append(outq[p], Packet("kexreply", 0)) \in Seq(Packets(Types))
  BY OwnPacketTypes, TypesOfAnEnd
<1>2. tr' \in [Peers -> TransportState]
  <2> DEFINE pc == "newkeys"
  <2>1. pc \in PCs
    BY DEF PCs
  <2>2. tr' = [tr EXCEPT ![p] = [tr[p] EXCEPT !.pc = pc]]
    BY DEF RecvKexreq
  <2> HIDE DEF pc
  <2> QED BY <2>1, <2>2, TypesOfAnEnd, TransportUpdatesType DEF TypeOK
<1>3. inq' \in [Peers -> Seq(Packets(Types))]
  BY TookType DEF RecvKexreq, Next1
<1>4. SendNewkeys(p, Append(outq[p], Packet("kexreply", 0)))
  BY DEF RecvKexreq
<1> QED BY <1>1, <1>2, <1>3, <1>4, SendNewkeysType DEF TypeOK, RecvKexreq

\* The step to take KEXREPLY keeps the types.
LEMMA RecvKexreplyType ==
    ASSUME TypeOK, NEW p \in Peers, RecvKexreply(p)
    PROVE  TypeOK'
<1>1. tr' \in [Peers -> TransportState]
  <2>1. PICK pc \in PCs : tr' = [tr EXCEPT ![p] = [tr[p] EXCEPT !.pc = pc]]
    BY DEF RecvKexreply, PCs
  <2> QED BY <2>1, TypesOfAnEnd, TransportUpdatesType DEF TypeOK
<1>2. inq' \in [Peers -> Seq(Packets(Types))]
  BY TookType DEF RecvKexreply, Next1
<1>3. CASE tr[p].begun = 1
  BY <1>1, <1>2, <1>3 DEF TypeOK, RecvKexreply
<1>4. CASE tr[p].begun # 1
  <2>1. SendNewkeys(p, outq[p])
    BY <1>4 DEF RecvKexreply
  <2> QED BY <1>1, <1>2, <2>1, TypesOfAnEnd, SendNewkeysType DEF TypeOK, RecvKexreply
<1> QED BY <1>3, <1>4

\* The step to accept the host key keeps the types.
LEMMA AcceptHostKeyType ==
    ASSUME TypeOK, NEW p \in Peers, AcceptHostKey(p)
    PROVE  TypeOK'
<1>1. tr' \in [Peers -> TransportState]
  <2>1. tr' = [tr EXCEPT ![p] = [tr[p] EXCEPT !.pc = "newkeys", !.ic = TRUE]]
    BY DEF AcceptHostKey, TypeOK
  <2>2. "newkeys" \in PCs
    BY DEF PCs
  <2> QED BY <2>1, <2>2, TypesOfAnEnd, TransportUpdatesType DEF TypeOK
<1>2. SendNewkeys(p, outq[p])
  BY DEF AcceptHostKey
<1> QED BY <1>1, <1>2, TypesOfAnEnd, SendNewkeysType DEF TypeOK, AcceptHostKey

\* Requests are lost in one of the three named ways.
LEMMA OverwrittenType ==
    ASSUME TypeOK, NEW p \in Peers, NEW by \in {"service", "userauth", "inadvisable"}, Overwritten(p, by)
    PROVE  lost' \in [Peers -> SUBSET {"service", "userauth", "inadvisable"}]
<1>1. lost[p] \cup {by} \in SUBSET {"service", "userauth", "inadvisable"}
  BY DEF TypeOK
<1> QED BY <1>1 DEF TypeOK, Overwritten

\* Queueing a packet, or none, keeps the types of the queues.
LEMMA AppendType ==
    ASSUME TypeOK, NEW p \in Peers, NEW m \in Packets(Types), NEW b \in BOOLEAN,
           outq' = [outq EXCEPT ![p] = IF b THEN Append(@, m) ELSE @]
    PROVE  outq' \in [Peers -> Seq(Packets(Types))]
  BY DEF TypeOK

\* The step to take NEWKEYS keeps the types.
LEMMA RecvNewkeysType ==
    ASSUME TypeOK, NEW p \in Peers, RecvNewkeys(p)
    PROVE  TypeOK'
<1>1. inq' \in [Peers -> Seq(Packets(Types))]
  BY TookType DEF RecvNewkeys, Next1
<1>2. bpp' \in [Peers -> BppState]
  <2>1. NewIncomingCrypto(bpp[p]) \in BppState
    BY TypesOfAnEnd, BppOperatorsType DEF TypeOK
  <2> QED BY <2>1 DEF RecvNewkeys, TypeOK
<1>3. /\ Begun(tr[p]) \in TransportState /\ Finished(tr[p]) \in TransportState
      /\ Idle(Finished(tr[p])) \in TransportState
  BY TypesOfAnEnd, TransportOperatorsType
<1>4. /\ tr' \in [Peers -> TransportState] /\ outq' \in [Peers -> Seq(Packets(Types))]
      /\ lost' \in [Peers -> SUBSET {"service", "userauth", "inadvisable"}] /\ early' \in BOOLEAN
  <2>1. CASE tr[p].deferred
    <3>1. [Begun(tr[p]) EXCEPT !.deferred = FALSE] \in TransportState
      BY <1>3, TransportUpdatesType
    <3>2. tr' = [tr EXCEPT ![p] = [Begun(tr[p]) EXCEPT !.deferred = FALSE]]
      BY <2>1, Zenon DEF RecvNewkeys
    <3>3. tr' \in [Peers -> TransportState]
      BY <3>1, <3>2 DEF TypeOK
    <3>4. /\ BeginNotes(p)
          /\ outq' = [outq EXCEPT ![p] = Append(@, Packet("kexinit", tr[p].conf))]
      BY <2>1, Zenon DEF RecvNewkeys
    <3>5. outq' \in [Peers -> Seq(Packets(Types))]
      BY <3>4, BeginType DEF TypeOK
    <3> QED BY <3>3, <3>4, <3>5, BeginType
  <2>2. CASE ~tr[p].deferred
    <3> DEFINE t == Finished(tr[p])
    <3> DEFINE u == IF t.ok THEN [Idle(t) EXCEPT !.ic = FALSE] ELSE [t EXCEPT !.pc = "service"]
    <3>1. u \in TransportState
      BY <1>3, TransportUpdatesType DEF PCs
    <3>2. tr' = [tr EXCEPT ![p] = u]
      BY <2>2 DEF RecvNewkeys
    <3>3. tr' \in [Peers -> TransportState]
      <4> HIDE DEF u
      <4> QED BY <3>1, <3>2 DEF TypeOK
    <3>4. outq' \in [Peers -> Seq(Packets(Types))]
      <4> DEFINE b == p = "client" /\ ~t.ok
      <4>1. outq' = [outq EXCEPT ![p] = IF b THEN Append(@, Packet("svcreq", 0)) ELSE @]
        BY <2>2 DEF RecvNewkeys
      <4>2. b \in BOOLEAN
        OBVIOUS
      <4> HIDE DEF b
      <4> QED BY <4>1, <4>2, OwnPacketTypes, AppendType
    <3>5. lost' \in [Peers -> SUBSET {"service", "userauth", "inadvisable"}]
      <4>1. Overwritten(p, "service") \/ lost' = lost
        BY <2>2 DEF RecvNewkeys
      <4> QED BY <4>1, OverwrittenType DEF TypeOK
    <3>6. early' \in BOOLEAN
      BY <2>2 DEF RecvNewkeys, TypeOK
    <3> QED BY <3>3, <3>4, <3>5, <3>6
  <2> QED BY <2>1, <2>2
<1> QED BY <1>1, <1>2, <1>4 DEF TypeOK, RecvNewkeys

\* The step to agree on the service keeps the types.
LEMMA RecvServiceType ==
    ASSUME TypeOK, NEW p \in Peers, RecvService(p)
    PROVE  TypeOK'
<1>1. inq' \in [Peers -> Seq(Packets(Types))]
  BY TookType DEF RecvService, Next1
<1>2. Idle(tr[p]) \in TransportState
  BY TypesOfAnEnd, TransportOperatorsType
<1>3. [Idle(tr[p]) EXCEPT !.ok = TRUE, !.ic = FALSE] \in TransportState
  BY <1>2, TransportUpdatesType
<1>4. tr' \in [Peers -> TransportState]
  BY <1>3 DEF RecvService, TypeOK
<1>5. outq' \in [Peers -> Seq(Packets(Types))]
  <2> DEFINE b == p = "server"
  <2>1. outq' = [outq EXCEPT ![p] = IF b THEN Append(@, Packet("svcack", 0)) ELSE @]
    BY DEF RecvService
  <2>2. b \in BOOLEAN
    OBVIOUS
  <2> HIDE DEF b
  <2> QED BY <2>1, <2>2, OwnPacketTypes, AppendType
<1>6. lost' \in [Peers -> SUBSET {"service", "userauth", "inadvisable"}]
  BY OverwrittenType DEF RecvService
<1> QED BY <1>1, <1>4, <1>5, <1>6 DEF TypeOK, RecvService

\* The step to wait for a reason to rekey keeps the types.
LEMMA WaitForRekeyType ==
    ASSUME TypeOK, NEW p \in Peers, WaitForRekey(p)
    PROVE  TypeOK'
<1>1. PICK limit \in BOOLEAN :
        /\ asks' = asks + (IF limit THEN 1 ELSE 0)
        /\ IF Reason(p, limit) = "none"
           THEN /\ tr' = [tr EXCEPT ![p].class = "none", ![p].ic = FALSE]
                /\ outq' = [outq EXCEPT ![p] = Passed(p)]
                /\ UNCHANGED <<early, lost>>
           ELSE /\ tr' = [tr EXCEPT ![p] = [Begun(@) EXCEPT !.class = Reason(p, limit)]]
                /\ outq' = [outq EXCEPT ![p] = Append(Passed(p), Packet("kexinit", tr[p].conf))]
                /\ BeginNotes(p)
  BY Zenon DEF WaitForRekey
<1>2. Passed(p) \in Seq(Packets(Types))
  BY TypesOfAnEnd DEF Passed
<1>3. Reason(p, limit) \in Classes
  BY DEF Reason, Classes
<1>4. asks' \in Nat
  BY <1>1 DEF TypeOK
<1>5. held' \in [Peers -> Seq(Packets(Upper))]
  BY DEF WaitForRekey, TypeOK
<1>6. CASE Reason(p, limit) = "none"
  <2>1. [tr[p] EXCEPT !.class = "none", !.ic = FALSE] \in TransportState
    BY TypesOfAnEnd, TransportUpdatesType DEF Classes
  <2>2. tr' = [tr EXCEPT ![p] = [tr[p] EXCEPT !.class = "none", !.ic = FALSE]]
    BY <1>1, <1>6 DEF TypeOK
  <2>3. tr' \in [Peers -> TransportState]
    BY <2>1, <2>2 DEF TypeOK
  <2>4. outq' \in [Peers -> Seq(Packets(Types))]
    BY <1>1, <1>6, <1>2 DEF TypeOK
  <2> QED BY <1>1, <1>4, <1>5, <1>6, <2>3, <2>4 DEF TypeOK, WaitForRekey
<1>7. CASE Reason(p, limit) # "none"
  <2>1. BeginNotes(p) /\ tr' = [tr EXCEPT ![p] = [Begun(tr[p]) EXCEPT !.class = Reason(p, limit)]]
        /\ outq' = [outq EXCEPT ![p] = Append(Passed(p), Packet("kexinit", tr[p].conf))]
    BY <1>1, <1>7, Zenon
  <2>2. [Begun(tr[p]) EXCEPT !.class = Reason(p, limit)] \in TransportState
    BY <1>3, TypesOfAnEnd, TransportOperatorsType, TransportUpdatesType
  <2>3. tr' \in [Peers -> TransportState]
    BY <2>1, <2>2 DEF TypeOK
  <2>4. Append(Passed(p), Packet("kexinit", tr[p].conf)) \in Seq(Packets(Types))
    BY <1>2, <2>1, BeginType
  <2>5. outq' \in [Peers -> Seq(Packets(Types))]
    BY <2>1, <2>4 DEF TypeOK
  <2> QED BY <2>1, <1>4, <1>5, <2>3, <2>5, BeginType DEF TypeOK, WaitForRekey
<1> QED BY <1>6, <1>7

\* A packet passed up keeps the type of the layer above's state.
LEMMA DeliveredType ==
    ASSUME NEW u \in UpperState, NEW m, m.type \in Upper
    PROVE  Delivered(u, m) \in UpperState
<1>1. u.got + 1 \in Nat
  BY DEF UpperState
<1>2. m.type # "data" => Verdict[m.type] \in {"idle", "asked", "granted", "done"}
  BY DEF Verdict, Upper, UserAuth
<1>3. /\ \A a \in {"idle", "asked", "granted", "done"} : [u EXCEPT !.auth = a] \in UpperState
      /\ \A n \in Nat : [u EXCEPT !.got = n] \in UpperState
  BY DEF UpperState
<1> QED BY <1>1, <1>2, <1>3 DEF Delivered

\* The step to pass a packet up keeps the types.
LEMMA PassUpType ==
    ASSUME TypeOK, NEW p \in Peers, PassUp(p)
    PROVE  TypeOK'
<1> DEFINE m == Head(inq[p])
<1>1. CASE ~tr[p].ok \/ (m.type = "data" /\ m.n # up[p].got + 1)
  BY <1>1 DEF PassUp, TypeOK, PCs
<1>2. CASE ~(~tr[p].ok \/ (m.type = "data" /\ m.n # up[p].got + 1))
  <2>1. inq' \in [Peers -> Seq(Packets(Types))]
    <3>1. inq[p] # <<>> /\ inq' = [inq EXCEPT ![p] = Tail(@)]
      BY <1>2 DEF PassUp
    <3> QED BY <3>1 DEF TypeOK
  <2>2. m.type \in Upper
    BY DEF PassUp
  <2>3. up' = [up EXCEPT ![p] = Delivered(up[p], m)]
    BY <1>2 DEF PassUp
  <2>4. Delivered(up[p], m) \in UpperState
    BY <2>2, TypesOfAnEnd, DeliveredType
  <2> HIDE DEF m
  <2>6. up' \in [Peers -> UpperState]
    BY <2>3, <2>4 DEF TypeOK
  <2> QED BY <1>2, <2>1, <2>6 DEF PassUp, TypeOK
<1> QED BY <1>1, <1>2

\* The step to reject a packet keeps the types.
LEMMA UnexpectedType ==
    ASSUME TypeOK, NEW p \in Peers, Unexpected(p)
    PROVE  TypeOK'
<1>1. tr[p].pc \in PCs
  BY TypesOfAnEnd
<1> QED BY <1>1 DEF Unexpected, TypeOK

\* The step to wait for packets keeps the types.
LEMMA BlockType ==
    ASSUME TypeOK, NEW p \in Peers, Block(p)
    PROVE  TypeOK'
<1>1. tr' = [tr EXCEPT ![p] = [tr[p] EXCEPT !.ic = FALSE]]
  BY DEF Block
<1>2. tr' \in [Peers -> TransportState]
  BY <1>1, TypesOfAnEnd, TransportUpdatesType DEF TypeOK
<1> QED BY <1>2 DEF Block, TypeOK

\* The step to decode a packet keeps the types.
LEMMA BppInputType ==
    ASSUME TypeOK, NEW p \in Peers, BppInput(p)
    PROVE  TypeOK'
<1> DEFINE m == Head(wire[p])
<1>1. wire[p] # <<>> /\ wire' = [wire EXCEPT ![p] = Tail(wire[p])]
  BY DEF BppInput, CanRead
<1>2. wire' \in [Peers -> Seq(Encodings)] /\ m \in Encodings
  BY <1>1, TypesOfAnEnd DEF TypeOK
<1>3. CASE m.key # bpp[p].inKey \/ m.comp # bpp[p].inComp
  BY <1>2, <1>3 DEF BppInput, TypeOK
<1>4. CASE ~(m.key # bpp[p].inKey \/ m.comp # bpp[p].inComp)
  <2>1. m.type \in Types /\ m.n \in Nat
    BY <1>2 DEF Encodings
  <2>2. AfterReading(p, m.type) \in BppState /\ Packet(m.type, m.n) \in Packets(Types)
    BY <2>1, AfterReadingType, PacketTypes
  <2>3. /\ inq' = [inq EXCEPT ![p] = Append(@, Packet(m.type, m.n))]
        /\ bpp' = [bpp EXCEPT ![p] = AfterReading(p, m.type)]
        /\ tr' = [tr EXCEPT ![p] = [tr[p] EXCEPT !.ic = TRUE]]
        /\ fault' = fault
    BY <1>4 DEF BppInput
  <2> HIDE DEF m
  <2>4. inq' \in [Peers -> Seq(Packets(Types))] /\ bpp' \in [Peers -> BppState]
    BY <2>2, <2>3 DEF TypeOK
  <2>5. tr' \in [Peers -> TransportState]
    BY <2>3, TypesOfAnEnd, TransportUpdatesType DEF TypeOK
  <2> QED BY <1>2, <2>3, <2>4, <2>5 DEF BppInput, TypeOK
<1> QED BY <1>3, <1>4

\* The step to send what can be sent keeps the types.
LEMMA BppOutputType ==
    ASSUME TypeOK, NEW p \in Peers, BppOutput(p)
    PROVE  TypeOK'
<1>1. /\ Encoded(p, outq[p]) \in Seq(Encodings) /\ Unsent(p, outq[p]) \in Seq(Packets(Types))
      /\ AfterSending(p, outq[p]) \in BppState
  BY TypesOfAnEnd, EncodedType, SendableInRange, AfterSendingType
<1>2. wire[Other(p)] \o Encoded(p, outq[p]) \in Seq(Encodings)
  BY <1>1, PeersAreTwo, TypesOfAnEnd
<1>3. wire' \in [Peers -> Seq(Encodings)] /\ outq' \in [Peers -> Seq(Packets(Types))]
  BY <1>1, <1>2 DEF BppOutput, TypeOK
<1>4. bpp' \in [Peers -> BppState]
  BY <1>1 DEF BppOutput, TypeOK
<1> QED BY <1>3, <1>4 DEF BppOutput, TypeOK

\* The step to rekey by the timer keeps the types.
LEMMA RekeyTimerType ==
    ASSUME TypeOK, NEW p \in Peers, RekeyTimer(p)
    PROVE  TypeOK'
<1>1. \A t \in TransportState : /\ [t EXCEPT !.timer = FALSE] \in TransportState
                                /\ [t EXCEPT !.timer = FALSE, !.class = "normal", !.ic = TRUE] \in TransportState
  BY DEF TransportState, Classes
<1>2. tr' \in [Peers -> TransportState]
  BY <1>1, TypesOfAnEnd DEF RekeyTimer, TypeOK
<1> QED BY <1>2 DEF RekeyTimer, TypeOK

\* The step to rekey by the user keeps the types.
LEMMA UserRekeyType ==
    ASSUME TypeOK, UserRekey
    PROVE  TypeOK'
<1>1. [tr["client"] EXCEPT !.class = "normal", !.ic = TRUE] \in TransportState
  BY TypesOfAnEnd, TransportUpdatesType DEF Peers, Classes
<1>2. tr' = [tr EXCEPT !["client"] = [tr["client"] EXCEPT !.class = "normal", !.ic = TRUE]]
  BY DEF UserRekey, TypeOK, Peers
<1>3. tr' \in [Peers -> TransportState]
  BY <1>1, <1>2 DEF TypeOK
<1> QED BY <1>3 DEF UserRekey, TypeOK

\* The step to change the settings keeps the types.
LEMMA ReconfigureType ==
    ASSUME TypeOK, Reconfigure
    PROVE  TypeOK'
<1> DEFINE t == [tr["client"] EXCEPT !.conf = @ + 1, !.timer = TRUE]
<1>1. t \in TransportState
  <2>1. tr["client"] \in TransportState /\ tr["client"].conf + 1 \in Nat
    BY SMTT(30), TypesOfAnEnd DEF Peers
  <2> QED BY <2>1, TransportUpdatesType
<1>2. /\ [t EXCEPT !.class = "normal", !.ic = TRUE] \in TransportState
      /\ [t EXCEPT !.deferred = TRUE] \in TransportState
  BY <1>1, TransportUpdatesType DEF Classes
<1>3. PICK u : tr' = [tr EXCEPT !["client"] = u] /\
        (u = [t EXCEPT !.class = "normal", !.ic = TRUE] \/ u = [t EXCEPT !.deferred = TRUE])
  BY Zenon DEF Reconfigure
<1>4. u \in TransportState
  BY <1>2, <1>3
<1>5. tr' \in [Peers -> TransportState]
  BY <1>3, <1>4 DEF TypeOK
<1>6. lost' \in [Peers -> SUBSET {"service", "userauth", "inadvisable"}]
  BY DEF Reconfigure, TypeOK
<1> QED BY <1>5, <1>6 DEF Reconfigure, TypeOK

\* The step to end authentication keeps the types.
LEMMA NotifyAuthDoneType ==
    ASSUME TypeOK, NotifyAuthDone
    PROVE  TypeOK'
<1>1. [tr["client"] EXCEPT !.class = "post-userauth", !.ic = TRUE] \in TransportState
  BY TypesOfAnEnd, TransportUpdatesType DEF Peers, Classes
<1>2. tr' = [tr EXCEPT !["client"] = [tr["client"] EXCEPT !.class = "post-userauth", !.ic = TRUE]]
  BY DEF NotifyAuthDone, TypeOK, Peers
<1>3. tr' \in [Peers -> TransportState]
  BY <1>1, <1>2 DEF TypeOK
<1>4. up' \in [Peers -> UpperState]
  BY DEF NotifyAuthDone, TypeOK, UpperState
<1>5. lost' \in [Peers -> SUBSET {"service", "userauth", "inadvisable"}]
  BY OverwrittenType DEF NotifyAuthDone, Peers
<1> QED BY <1>3, <1>4, <1>5 DEF NotifyAuthDone, TypeOK

\* Queueing a packet of the layer above.
LEMMA QueueType ==
    ASSUME TypeOK, NEW p \in Peers, NEW m \in Packets(Upper), Queue(p, m), up' \in [Peers -> UpperState]
    PROVE  TypeOK'
<1>1. tr' = [tr EXCEPT ![p] = [tr[p] EXCEPT !.ic = TRUE]]
  BY DEF Queue
<1>2. tr' \in [Peers -> TransportState]
  BY <1>1, TypesOfAnEnd, TransportUpdatesType DEF TypeOK
<1>3. held' \in [Peers -> Seq(Packets(Upper))]
  BY DEF Queue, TypeOK
<1> QED BY <1>2, <1>3 DEF Queue, TypeOK

\* The step to ask for authentication keeps the types.
LEMMA AskAuthType ==
    ASSUME TypeOK, AskAuth
    PROVE  TypeOK'
<1>1. Packet("authreq", 0) \in Packets(Upper)
  BY PacketTypes DEF Upper, UserAuth
<1>2. up' \in [Peers -> UpperState]
  <2>1. up' = [up EXCEPT !["client"] = [up["client"] EXCEPT !.auth = "asked"]]
    BY DEF AskAuth
  <2>2. [up["client"] EXCEPT !.auth = "asked"] \in UpperState
    BY TypesOfAnEnd DEF UpperState, Peers
  <2> QED BY <2>1, <2>2 DEF TypeOK
<1> QED BY <1>1, <1>2, QueueType DEF AskAuth, Peers

\* The step to answer a request keeps the types.
LEMMA AnswerAuthType ==
    ASSUME TypeOK, AnswerAuth
    PROVE  TypeOK'
<1>1. Packet("authfail", 0) \in Packets(Upper) /\ Packet("authok", 0) \in Packets(Upper)
  BY PacketTypes DEF Upper, UserAuth
<1>2. up' \in [Peers -> UpperState]
  <2>0. up["server"] \in UpperState
    BY TypesOfAnEnd DEF Peers
  <2>1. up["server"] \in UpperState /\ up["server"].tries + 1 \in Nat
    BY <2>0 DEF UpperState
  <2>2. \A n \in Nat : [up["server"] EXCEPT !.auth = "idle", !.tries = n] \in UpperState
    BY <2>1 DEF UpperState
  <2>3. [up["server"] EXCEPT !.auth = "done"] \in UpperState
    BY <2>1 DEF UpperState
  <2>4. \/ up' = [up EXCEPT !["server"] = [up["server"] EXCEPT !.auth = "done"]]
        \/ up' = [up EXCEPT !["server"] = [up["server"] EXCEPT !.auth = "idle",
                                                               !.tries = up["server"].tries + 1]]
    BY DEF AnswerAuth, TypeOK, Peers
  <2> QED BY <2>1, <2>2, <2>3, <2>4 DEF TypeOK
<1> QED BY <1>1, <1>2, QueueType DEF AnswerAuth, Peers

\* The step to send data keeps the types.
LEMMA SendDataType ==
    ASSUME TypeOK, NEW p \in Peers, SendData(p)
    PROVE  TypeOK'
<1>1. up[p].sent + 1 \in Nat
  BY TypesOfAnEnd DEF UpperState
<1>2. Packet("data", up[p].sent + 1) \in Packets(Upper)
  BY <1>1, PacketTypes DEF Upper
<1>3. up' \in [Peers -> UpperState]
  <2>1. up' = [up EXCEPT ![p] = [up[p] EXCEPT !.sent = up[p].sent + 1]]
    BY DEF SendData
  <2>2. \A n \in Nat : [up[p] EXCEPT !.sent = n] \in UpperState
    BY TypesOfAnEnd DEF UpperState
  <2> QED BY <1>1, <2>1, <2>2 DEF TypeOK
<1> QED BY <1>2, <1>3, QueueType DEF SendData

\* The initial state is of the declared types.
LEMMA InitType == Init => TypeOK
<1> SUFFICES ASSUME Init
             PROVE  TypeOK
  OBVIOUS
<1>1. tr \in [Peers -> TransportState] /\ bpp \in [Peers -> BppState] /\ up \in [Peers -> UpperState]
  BY DEF Init, TransportState, PCs, Classes, BppState, UpperState
<1>2. /\ inq \in [Peers -> Seq(Packets(Types))] /\ outq \in [Peers -> Seq(Packets(Types))]
      /\ held \in [Peers -> Seq(Packets(Upper))] /\ wire \in [Peers -> Seq(Encodings)]
  BY DEF Init
<1> QED BY <1>1, <1>2 DEF Init, TypeOK

\* Every step keeps the types.
LEMMA TypeInvariance == TypeOK /\ [Next]_vars => TypeOK'
<1> SUFFICES ASSUME TypeOK, [Next]_vars
             PROVE  TypeOK'
  OBVIOUS
<1>1. ASSUME NEW p \in Peers, Coroutine(p)
      PROVE  TypeOK'
  BY <1>1, StartType, RecvKexinitType, RecvKexreqType, RecvKexreplyType, RecvNewkeysType,
     RecvServiceType, WaitForRekeyType, PassUpType, UnexpectedType, BlockType DEF Coroutine
<1>2. ASSUME NEW p \in Peers, Step(p)
      PROVE  TypeOK'
  BY <1>1, <1>2, AcceptHostKeyType, BppInputType, BppOutputType, RekeyTimerType, SendDataType
     DEF Step
<1>3. CASE UNCHANGED vars
  BY <1>3 DEF vars, TypeOK
<1> QED
  BY <1>2, <1>3, UserRekeyType, ReconfigureType, NotifyAuthDoneType, AskAuthType, AnswerAuthType
     DEF Next

\* Every field keeps its type through every step of both ends, whatever arrives.
THEOREM TypeCorrect == Spec => []TypeOK
<1> QED BY InitType, TypeInvariance, PTL DEF Spec

--------------------------------------------------------------------------------
(* What the operators on an end's state return *)

\* What Begun changes and what it does not.
LEMMA BegunFacts ==
    ASSUME NEW t \in TransportState, NEW r, r = Begun(t)
    PROVE  /\ r.pc = "kexinit" /\ r.kex /\ r.class = t.class /\ (r.deferred <=> t.deferred)
           /\ (r.ok <=> t.ok) /\ (r.timer <=> t.timer) /\ (r.ic <=> t.ic)
           /\ r.conf = t.conf /\ r.used = t.conf /\ r.begun = t.begun + 1
  BY DEF Begun, TransportState

\* What Idle changes and what it does not.
LEMMA IdleFacts ==
    ASSUME NEW t \in TransportState, NEW r, r = Idle(t)
    PROVE  /\ r.pc = "idle" /\ (r.kex <=> t.kex) /\ r.class = "none" /\ (r.deferred <=> t.deferred)
           /\ (r.ok <=> t.ok) /\ (r.timer <=> t.timer) /\ (r.ic <=> t.ic)
           /\ r.conf = t.conf /\ r.used = t.used /\ r.begun = t.begun
  BY DEF Idle, TransportState

\* What Finished changes and what it does not.
LEMMA FinishedFacts ==
    ASSUME NEW t \in TransportState, NEW r, r = Finished(t)
    PROVE  /\ r.pc = t.pc /\ ~r.kex /\ r.class = t.class /\ (r.deferred <=> t.deferred)
           /\ (r.ok <=> t.ok) /\ r.timer /\ (r.ic <=> t.ic)
           /\ r.conf = t.conf /\ r.used = t.used /\ r.begun = t.begun
  BY DEF Finished, TransportState

\* Whether sending from q grants the client's authentication
Grants(p, q) == p = "server" /\ \E i \in 1..Sendable(p, q) : q[i].type = "authok"

\* What ssh2_bpp_enable_pending_compression changes and what it does not.
LEMMA EnablePendingFacts ==
    ASSUME NEW b \in BppState, NEW r, r = EnablePending(b)
    PROVE  /\ r.outKey = b.outKey /\ r.inKey = b.inKey
           /\ (r.outComp <=> b.outComp \/ b.outPend) /\ ~r.outPend
           /\ (r.inComp <=> b.inComp \/ b.inPend) /\ ~r.inPend
           /\ (r.newkeys <=> b.newkeys) /\ (r.blocked <=> b.blocked) /\ (r.seen <=> b.seen)
  BY DEF EnablePending, BppState

\* The state of a client's BPP b once it has read a packet that grants authentication
Granted(b) == [EnablePending(b) EXCEPT !.seen = TRUE]

\* What the end of authentication changes and what it does not.
LEMMA GrantedFacts ==
    ASSUME NEW b \in BppState, delayed \in BOOLEAN, NEW r, r = Granted(b)
    PROVE  /\ r \in BppState
           /\ r.outKey = b.outKey /\ r.inKey = b.inKey
           /\ (r.outComp <=> b.outComp \/ b.outPend) /\ ~r.outPend
           /\ (r.inComp <=> b.inComp \/ b.inPend) /\ ~r.inPend
           /\ (r.newkeys <=> b.newkeys) /\ (r.blocked <=> b.blocked) /\ r.seen
<1> DEFINE e == EnablePending(b)
<1>1. e \in BppState
  BY BppOperatorsType
<1>2. r = [e EXCEPT !.seen = TRUE]
  BY DEF Granted
<1>3. /\ e.outKey = b.outKey /\ e.inKey = b.inKey
      /\ (e.outComp <=> b.outComp \/ b.outPend) /\ ~e.outPend
      /\ (e.inComp <=> b.inComp \/ b.inPend) /\ ~e.inPend
      /\ (e.newkeys <=> b.newkeys) /\ (e.blocked <=> b.blocked)
  BY EnablePendingFacts
<1> HIDE DEF e
<1>4. /\ r \in BppState /\ r.outKey = e.outKey /\ r.inKey = e.inKey /\ (r.outComp <=> e.outComp)
      /\ (r.outPend <=> e.outPend) /\ (r.inComp <=> e.inComp) /\ (r.inPend <=> e.inPend)
      /\ (r.newkeys <=> e.newkeys) /\ (r.blocked <=> e.blocked) /\ r.seen
  BY <1>1, <1>2 DEF BppState
<1> QED BY <1>3, <1>4

\* What sending changes in the BPP and what it does not.
LEMMA AfterSendingFacts ==
    ASSUME TypeOK, NEW p \in Peers, NEW q \in Seq(Packets(Types)), NEW r, r = AfterSending(p, q)
    PROVE  /\ r.outKey = bpp[p].outKey /\ r.inKey = bpp[p].inKey /\ (r.newkeys <=> bpp[p].newkeys)
           /\ (r.seen <=> bpp[p].seen)
           /\ (r.outComp <=> bpp[p].outComp \/ (Grants(p, q) /\ bpp[p].outPend))
           /\ (r.inComp <=> bpp[p].inComp \/ (Grants(p, q) /\ bpp[p].inPend))
           /\ (r.outPend <=> bpp[p].outPend /\ ~Grants(p, q))
           /\ (r.inPend <=> bpp[p].inPend /\ ~Grants(p, q))
           /\ (r.blocked <=> bpp[p].blocked
                                \/ (Sendable(p, q) > 0 /\ p = "client" /\ bpp[p].outPend))
<1> DEFINE b == IF Grants(p, q) THEN EnablePending(bpp[p]) ELSE bpp[p]
<1>1. bpp[p] \in BppState /\ delayed \in BOOLEAN
  BY DEF TypeOK
<1>2. b \in BppState
  BY <1>1, BppOperatorsType
<1>3. r = [b EXCEPT !.blocked = @ \/ (Sendable(p, q) > 0 /\ p = "client" /\ b.outPend)]
  BY DEF AfterSending, Grants
<1>4. /\ b.outKey = bpp[p].outKey /\ b.inKey = bpp[p].inKey /\ (b.newkeys <=> bpp[p].newkeys)
      /\ (b.seen <=> bpp[p].seen)
      /\ (b.outComp <=> bpp[p].outComp \/ (Grants(p, q) /\ bpp[p].outPend))
      /\ (b.inComp <=> bpp[p].inComp \/ (Grants(p, q) /\ bpp[p].inPend))
      /\ (b.outPend <=> bpp[p].outPend /\ ~Grants(p, q))
      /\ (b.inPend <=> bpp[p].inPend /\ ~Grants(p, q))
      /\ (b.blocked <=> bpp[p].blocked)
  BY <1>1, EnablePendingFacts
<1> HIDE DEF b
<1>5. /\ r.outKey = b.outKey /\ r.inKey = b.inKey /\ (r.newkeys <=> b.newkeys) /\ (r.seen <=> b.seen)
      /\ (r.outComp <=> b.outComp) /\ (r.inComp <=> b.inComp) /\ (r.outPend <=> b.outPend)
      /\ (r.inPend <=> b.inPend)
      /\ (r.blocked <=> b.blocked \/ (Sendable(p, q) > 0 /\ p = "client" /\ b.outPend))
  BY <1>2, <1>3 DEF BppState
<1>6. p = "client" => ~Grants(p, q)
  BY DEF Grants
<1> QED BY <1>4, <1>5, <1>6

\* What ssh2_bpp_new_outgoing_crypto changes and what it does not.
LEMMA NewOutgoingFacts ==
    ASSUME NEW b \in BppState, delayed \in BOOLEAN, NEW r, r = NewOutgoingCrypto(b)
    PROVE  /\ r.outKey = b.outKey + 1 /\ r.inKey = b.inKey
           /\ (r.outComp <=> delayed /\ b.seen) /\ (r.outPend <=> delayed /\ ~b.seen)
           /\ (r.inComp <=> b.inComp) /\ (r.inPend <=> b.inPend)
           /\ (r.newkeys <=> b.newkeys) /\ (r.blocked <=> b.blocked) /\ (r.seen <=> b.seen)
  BY DEF NewOutgoingCrypto, BppState

\* What ssh2_bpp_new_incoming_crypto changes and what it does not.
LEMMA NewIncomingFacts ==
    ASSUME NEW b \in BppState, delayed \in BOOLEAN, NEW r, r = NewIncomingCrypto(b)
    PROVE  /\ r.inKey = b.inKey + 1 /\ r.outKey = b.outKey
           /\ (r.inComp <=> delayed /\ b.seen) /\ (r.inPend <=> delayed /\ ~b.seen)
           /\ (r.outComp <=> b.outComp) /\ (r.outPend <=> b.outPend)
           /\ ~r.newkeys /\ (r.blocked <=> b.blocked) /\ (r.seen <=> b.seen)
  BY DEF NewIncomingCrypto, BppState

\* What reading changes in the BPP and what it does not.
LEMMA AfterReadingFacts ==
    ASSUME TypeOK, NEW p \in Peers, NEW type \in Types, NEW r, r = AfterReading(p, type),
           NEW grants, grants = (p = "client" /\ type = "authok")
    PROVE  /\ r.outKey = bpp[p].outKey /\ r.inKey = bpp[p].inKey
           /\ (r.newkeys <=> bpp[p].newkeys \/ type = "newkeys")
           /\ (r.seen <=> bpp[p].seen \/ grants)
           /\ (r.outComp <=> bpp[p].outComp \/ (grants /\ bpp[p].outPend))
           /\ (r.inComp <=> bpp[p].inComp \/ (grants /\ bpp[p].inPend))
           /\ (r.outPend <=> bpp[p].outPend /\ ~grants)
           /\ (r.inPend <=> bpp[p].inPend /\ ~grants)
           /\ (r.blocked <=> bpp[p].blocked /\ type \notin UserAuth)
<1> DEFINE b == IF type = "authok" /\ p = "client" THEN Granted(bpp[p]) ELSE bpp[p]
<1>1. bpp[p] \in BppState /\ delayed \in BOOLEAN
  BY DEF TypeOK
<1>2. b \in BppState
  BY <1>1, GrantedFacts
<1>3. r = [b EXCEPT !.newkeys = @ \/ type = "newkeys", !.blocked = @ /\ type \notin UserAuth]
  BY DEF AfterReading, Granted
<1>4. /\ b.outKey = bpp[p].outKey /\ b.inKey = bpp[p].inKey /\ (b.newkeys <=> bpp[p].newkeys)
      /\ (b.seen <=> bpp[p].seen \/ grants)
      /\ (b.outComp <=> bpp[p].outComp \/ (grants /\ bpp[p].outPend))
      /\ (b.inComp <=> bpp[p].inComp \/ (grants /\ bpp[p].inPend))
      /\ (b.outPend <=> bpp[p].outPend /\ ~grants)
      /\ (b.inPend <=> bpp[p].inPend /\ ~grants)
      /\ (b.blocked <=> bpp[p].blocked)
  BY <1>1, GrantedFacts
<1> HIDE DEF b
<1>5. /\ r.outKey = b.outKey /\ r.inKey = b.inKey /\ (r.newkeys <=> b.newkeys \/ type = "newkeys")
      /\ (r.seen <=> b.seen) /\ (r.outComp <=> b.outComp) /\ (r.inComp <=> b.inComp)
      /\ (r.outPend <=> b.outPend) /\ (r.inPend <=> b.inPend)
      /\ (r.blocked <=> b.blocked /\ type \notin UserAuth)
  BY <1>2, <1>3 DEF BppState
<1> QED BY <1>4, <1>5

--------------------------------------------------------------------------------
(* One end by itself *)

\* The phases of a key exchange, and those before the end's own NEWKEYS
KexPCs == {"kexinit", "kexreq", "kexreply", "hostkey", "newkeys"}
OldKeyPCs == KexPCs \ {"newkeys"}
One(b) == IF b THEN 1 ELSE 0

Phases(p, t) ==
    /\ t.kex <=> t.pc \in KexPCs
    /\ t.begun = 0 <=> t.pc = "start"
    /\ t.pc # (IF p = "client" THEN "kexreq" ELSE "kexreply")
    /\ t.pc = "hostkey" => p = "client" /\ t.begun = 1
    /\ t.pc \in {"start", "service"} => ~t.ok
    /\ t.pc = "idle" => t.ok
    /\ p = "server" /\ ~t.ok => t.begun <= 1
    /\ t.pc \in KexPCs /\ t.begun = 1 => ~t.ok

Settings(p, t, l) ==
    /\ ~t.ok /\ t.pc # "service" => t.class # "normal"
    /\ p = "server" \/ t.pc = "start" => t.conf = 0 /\ t.used = 0 /\ ~t.deferred
    /\ t.pc = "start" => ~t.timer
    /\ t.deferred => t.conf > 0
    /\ ~t.ok /\ t.begun > 1 => t.used > 0
    /\ t.kex /\ ~t.deferred => t.used = t.conf
    /\ t.pc \in {"service", "idle"} =>
        /\ t.used = t.conf \/ t.class = "normal" \/ l # {}
        /\ t.timer \/ t.class = "normal" \/ l # {}

KeysCounted(t, b) ==
    /\ b.outKey + One(t.pc \in OldKeyPCs) = t.begun
    /\ b.inKey + One(t.pc \in KexPCs) = t.begun

\* What is compressed, and what waits, for an end that knows or not whether the
\* client is authenticated
Compressing(b, knows) ==
    /\ b.outComp <=> delayed /\ knows /\ b.outKey > 0
    /\ b.outPend <=> delayed /\ ~knows /\ b.outKey > 0
    /\ b.inComp <=> delayed /\ knows /\ b.inKey > 0
    /\ b.inPend <=> delayed /\ ~knows /\ b.inKey > 0

\* The client remembers that it is authenticated, the server does not.
Compression(p, b) ==
    /\ p = "client" => Compressing(b, b.seen)
    /\ p = "server" => ~b.seen
    /\ b.outPend => delayed
    /\ b.blocked => p = "client" /\ b.outPend

Local(p) ==
    /\ Phases(p, tr[p]) /\ Settings(p, tr[p], lost[p])
    /\ KeysCounted(tr[p], bpp[p]) /\ Compression(p, bpp[p])
Locals == \A p \in Peers : Local(p)

\* A step of one end leaves what the other knows of itself as it was.
LEMMA LocalStep ==
    ASSUME TypeOK, Locals, NEW p \in Peers, delayed' = delayed,
           tr'[Other(p)] = tr[Other(p)], bpp'[Other(p)] = bpp[Other(p)],
           lost'[Other(p)] = lost[Other(p)],
           Phases(p, tr'[p]), Settings(p, tr'[p], lost'[p]), KeysCounted(tr'[p], bpp'[p]),
           Compression(p, bpp'[p])
    PROVE  Locals'
<1>1. Local(p)'
  BY DEF Local, Compression, Compressing
<1>2. Local(Other(p))'
  BY PeersAreTwo DEF Locals, Local, Compression, Compressing
<1> QED BY <1>1, <1>2, PeersAreTwo DEF Locals

\* The step to begin the first key exchange leaves its end in order.
LEMMA StartLocal ==
    ASSUME TypeOK, Locals, NEW p \in Peers, Start(p)
    PROVE  Locals'
<1>1. /\ tr'[p] = Begun(tr[p]) /\ bpp' = bpp /\ lost'[p] = {} /\ delayed' = delayed
      /\ tr'[Other(p)] = tr[Other(p)] /\ lost'[Other(p)] = lost[Other(p)] /\ tr[p].pc = "start"
  BY PeersAreTwo DEF TypeOK, Start, BeginNotes
<1>2. tr[p] \in TransportState /\ bpp[p] \in BppState
  BY DEF TypeOK
<1>3. Phases(p, tr'[p]) /\ Settings(p, tr'[p], lost'[p])
  BY <1>1, <1>2, BegunFacts DEF Locals, Local, Phases, Settings, KexPCs, OldKeyPCs
<1>4. KeysCounted(tr'[p], bpp'[p]) /\ Compression(p, bpp'[p])
  BY <1>1, <1>2, BegunFacts
     DEF Locals, Local, KeysCounted, Compression, Compressing, KexPCs, OldKeyPCs, One, BppState, TransportState
<1> QED BY <1>1, <1>3, <1>4, LocalStep

\* The step of an end that leaves its BPP alone and goes on within the exchange.
LEMMA RecvKexinitLocal ==
    ASSUME TypeOK, Locals, NEW p \in Peers, RecvKexinit(p)
    PROVE  Locals'
<1> DEFINE pc == IF p = "client" THEN "kexreply" ELSE "kexreq"
<1>1. /\ tr'[p] = [tr[p] EXCEPT !.pc = pc] /\ bpp' = bpp /\ lost' = lost /\ delayed' = delayed
      /\ tr'[Other(p)] = tr[Other(p)] /\ tr[p].pc = "kexinit"
  BY PeersAreTwo DEF TypeOK, RecvKexinit, Next1
<1>2. tr[p] \in TransportState /\ bpp[p] \in BppState
  BY DEF TypeOK
<1>3. Phases(p, tr'[p]) /\ Settings(p, tr'[p], lost'[p])
  BY <1>1, <1>2 DEF Locals, Local, Phases, Settings, KexPCs, OldKeyPCs, TransportState, Peers
<1>4. KeysCounted(tr'[p], bpp'[p]) /\ Compression(p, bpp'[p])
  BY <1>1, <1>2 DEF Locals, Local, KeysCounted, Compression, Compressing, KexPCs, OldKeyPCs, One, BppState, TransportState
<1> QED BY <1>1, <1>3, <1>4, LocalStep

\* What leaves, or waits, with p's NEWKEYS
WithNewkeys(q) == q \o <<Packet("newkeys", 0)>>

\* NEWKEYS can be added to a queue.
LEMMA WithNewkeysType ==
    ASSUME NEW q \in Seq(Packets(Types))
    PROVE  WithNewkeys(q) \in Seq(Packets(Types))
  BY OwnPacketTypes DEF WithNewkeys

\* What the BPP knows after p's NEWKEYS.
LEMMA SendNewkeysFacts ==
    ASSUME TypeOK, NEW p \in Peers, NEW q \in Seq(Packets(Types)), SendNewkeys(p, q),
           NEW b, b = bpp[p], NEW r, r = bpp'[p], NEW g \in BOOLEAN, g <=> Grants(p, WithNewkeys(q))
    PROVE  /\ bpp'[Other(p)] = bpp[Other(p)]
           /\ r.outKey = b.outKey + 1 /\ r.inKey = b.inKey /\ (r.newkeys <=> b.newkeys)
           /\ (r.seen <=> b.seen)
           /\ (r.outComp <=> delayed /\ r.seen) /\ (r.outPend <=> delayed /\ ~r.seen)
           /\ (r.inComp <=> b.inComp \/ (g /\ b.inPend))
           /\ (r.inPend <=> b.inPend /\ ~g)
           /\ (r.blocked <=> b.blocked \/ (Sendable(p, WithNewkeys(q)) > 0 /\ p = "client" /\ b.outPend))
<1>1. WithNewkeys(q) \in Seq(Packets(Types))
  BY WithNewkeysType
<1>2. PICK a : a = AfterSending(p, WithNewkeys(q))
  OBVIOUS
<1>3. a \in BppState /\ delayed \in BOOLEAN
  BY <1>1, <1>2, AfterSendingType DEF TypeOK
<1>4. bpp' = [bpp EXCEPT ![p] = NewOutgoingCrypto(a)]
  BY <1>2 DEF SendNewkeys, WithNewkeys
<1>5. bpp'[p] = NewOutgoingCrypto(a) /\ bpp'[Other(p)] = bpp[Other(p)]
  BY <1>4, PeersAreTwo DEF TypeOK
<1>6. /\ a.outKey = b.outKey /\ a.inKey = b.inKey /\ (a.newkeys <=> b.newkeys)
      /\ (a.seen <=> b.seen)
      /\ (a.inComp <=> b.inComp \/ (g /\ b.inPend)) /\ (a.inPend <=> b.inPend /\ ~g)
      /\ (a.blocked <=> b.blocked \/ (Sendable(p, WithNewkeys(q)) > 0 /\ p = "client" /\ b.outPend))
  BY <1>1, <1>2, AfterSendingFacts
<1>7. r = NewOutgoingCrypto(a)
  BY <1>5
<1> QED BY <1>3, <1>5, <1>6, <1>7, NewOutgoingFacts

\* The end of the exchange proper, whatever took the coroutine there.
LEMMA SendNewkeysLocal ==
    ASSUME TypeOK, Locals, NEW p \in Peers, NEW q \in Seq(Packets(Types)), SendNewkeys(p, q),
           tr[p].pc \in {"kexreq", "kexreply", "hostkey"}, lost' = lost, delayed' = delayed,
           NEW ic \in BOOLEAN,
           tr' = [tr EXCEPT ![p] = [tr[p] EXCEPT !.pc = "newkeys", !.ic = ic]]
    PROVE  Locals'
<1>2. tr[p] \in TransportState /\ bpp[p] \in BppState /\ delayed \in BOOLEAN
  BY DEF TypeOK
<1>3. tr'[p] = [tr[p] EXCEPT !.pc = "newkeys", !.ic = ic] /\ tr'[Other(p)] = tr[Other(p)]
  BY PeersAreTwo DEF TypeOK
<1>4. Phases(p, tr'[p]) /\ Settings(p, tr'[p], lost'[p])
  BY <1>2, <1>3 DEF Locals, Local, Phases, Settings, KexPCs, OldKeyPCs, TransportState
<1>5. PICK g \in BOOLEAN, r \in {bpp'[p]} : (g <=> Grants(p, WithNewkeys(q))) /\ r = bpp'[p]
  OBVIOUS
<1>6. p = "client" => ~g
  BY <1>5 DEF Grants
<1>7. KeysCounted(tr'[p], r)
  <2>1. r.outKey = bpp[p].outKey + 1 /\ r.inKey = bpp[p].inKey
    BY <1>5, SendNewkeysFacts
  <2>2. \A t \in TransportState : \A r1 : r1 = [t EXCEPT !.pc = "newkeys", !.ic = ic]
                                            => r1.pc = "newkeys" /\ r1.begun = t.begun
    BY DEF TransportState
  <2>3. tr'[p].pc = "newkeys" /\ tr'[p].begun = tr[p].begun
    BY <1>2, <1>3, <2>2
  <2> QED BY <1>2, <2>1, <2>3
          DEF Locals, Local, KeysCounted, KexPCs, OldKeyPCs, One, BppState, TransportState
<1>8. Compression(p, r)
  BY <1>2, <1>5, <1>6, SendNewkeysFacts
     DEF Locals, Local, Compression, Compressing, BppState
<1>9. bpp'[Other(p)] = bpp[Other(p)]
  BY <1>5, SendNewkeysFacts
<1> QED BY <1>3, <1>4, <1>5, <1>7, <1>8, <1>9, LocalStep

\* The step to take KEXREQ leaves its end in order.
LEMMA RecvKexreqLocal ==
    ASSUME TypeOK, Locals, NEW p \in Peers, RecvKexreq(p)
    PROVE  Locals'
<1>1. Append(outq[p], Packet("kexreply", 0)) \in Seq(Packets(Types))
  BY OwnPacketTypes, TypesOfAnEnd
<1>2. tr' = [tr EXCEPT ![p] = [tr[p] EXCEPT !.pc = "newkeys", !.ic = tr[p].ic]] /\ tr[p].ic \in BOOLEAN
  BY DEF RecvKexreq, TypeOK, TransportState
<1> QED BY <1>1, <1>2, SendNewkeysLocal DEF RecvKexreq, Next1

\* The step to take KEXREPLY leaves its end in order.
LEMMA RecvKexreplyLocal ==
    ASSUME TypeOK, Locals, NEW p \in Peers, RecvKexreply(p)
    PROVE  Locals'
<1>1. CASE tr[p].begun = 1
  <2>1. /\ tr'[p] = [tr[p] EXCEPT !.pc = "hostkey"] /\ bpp' = bpp /\ lost' = lost /\ delayed' = delayed
        /\ tr'[Other(p)] = tr[Other(p)] /\ tr[p].pc = "kexreply"
    BY <1>1, PeersAreTwo DEF TypeOK, RecvKexreply, Next1
  <2>2. tr[p] \in TransportState /\ bpp[p] \in BppState
    BY DEF TypeOK
  <2>3. Phases(p, tr'[p]) /\ Settings(p, tr'[p], lost'[p])
    BY <1>1, <2>1, <2>2 DEF Locals, Local, Phases, Settings, KexPCs, OldKeyPCs, TransportState, Peers
  <2>4. KeysCounted(tr'[p], bpp'[p]) /\ Compression(p, bpp'[p])
    BY <2>1, <2>2 DEF Locals, Local, KeysCounted, Compression, Compressing, KexPCs, OldKeyPCs, One, BppState, TransportState
  <2> QED BY <2>1, <2>3, <2>4, LocalStep
<1>2. CASE tr[p].begun # 1
  <2>1. tr' = [tr EXCEPT ![p] = [tr[p] EXCEPT !.pc = "newkeys", !.ic = tr[p].ic]] /\ tr[p].ic \in BOOLEAN
    BY <1>2 DEF RecvKexreply, TypeOK, TransportState
  <2> QED BY <1>2, <2>1, TypesOfAnEnd, SendNewkeysLocal DEF RecvKexreply, Next1
<1> QED BY <1>1, <1>2

\* The step to accept the host key leaves its end in order.
LEMMA AcceptHostKeyLocal ==
    ASSUME TypeOK, Locals, NEW p \in Peers, AcceptHostKey(p)
    PROVE  Locals'
<1>1. tr' = [tr EXCEPT ![p] = [tr[p] EXCEPT !.pc = "newkeys", !.ic = TRUE]]
  BY DEF AcceptHostKey, TypeOK
<1> QED BY <1>1, TypesOfAnEnd, SendNewkeysLocal DEF AcceptHostKey

\* What RecvNewkeys makes of the coroutine's state
LEMMA RecvNewkeysFacts ==
    ASSUME TypeOK, NEW p \in Peers, RecvNewkeys(p), NEW t, t = tr[p], NEW r, r = tr'[p]
    PROVE  /\ tr'[Other(p)] = tr[Other(p)] /\ bpp'[Other(p)] = bpp[Other(p)]
           /\ lost'[Other(p)] = lost[Other(p)]
           /\ bpp'[p] = NewIncomingCrypto(bpp[p]) /\ t.pc = "newkeys"
           /\ r.conf = t.conf /\ (r.ok <=> t.ok)
           /\ t.deferred => /\ r.pc = "kexinit" /\ r.kex /\ r.class = t.class /\ ~r.deferred
                            /\ (r.timer <=> t.timer) /\ r.used = t.conf /\ r.begun = t.begun + 1
                            /\ lost'[p] = {}
           /\ ~t.deferred => /\ ~r.kex /\ r.timer /\ ~r.deferred /\ r.used = t.used /\ r.begun = t.begun
                             /\ r.pc = (IF t.ok THEN "idle" ELSE "service")
                             /\ r.class = (IF t.ok THEN "none" ELSE t.class) /\ lost' = lost
<1>1. /\ bpp'[Other(p)] = bpp[Other(p)] /\ bpp'[p] = NewIncomingCrypto(bpp[p]) /\ t.pc = "newkeys"
      /\ t \in TransportState
  BY PeersAreTwo DEF RecvNewkeys, TypeOK, Next1
<1>2. CASE t.deferred
  <2>1. PICK u : u = Begun(t)
    OBVIOUS
  <2>2. tr' = [tr EXCEPT ![p] = [u EXCEPT !.deferred = FALSE]] /\ lost' = [lost EXCEPT ![p] = {}]
    BY <1>2, <2>1, Zenon DEF RecvNewkeys, BeginNotes
  <2>3. u \in TransportState
    BY <1>1, <2>1, TransportOperatorsType
  <2>4. r = [u EXCEPT !.deferred = FALSE] /\ tr'[Other(p)] = tr[Other(p)]
    BY <2>2, PeersAreTwo DEF TypeOK
  <2>5. /\ r.pc = u.pc /\ (r.kex <=> u.kex) /\ r.class = u.class /\ ~r.deferred /\ (r.ok <=> u.ok)
        /\ (r.timer <=> u.timer) /\ r.conf = u.conf /\ r.used = u.used /\ r.begun = u.begun
    BY <2>3, <2>4 DEF TransportState
  <2>6. lost'[Other(p)] = lost[Other(p)] /\ lost'[p] = {}
    BY <2>2, PeersAreTwo DEF TypeOK
  <2> QED BY <1>1, <1>2, <2>1, <2>4, <2>5, <2>6, BegunFacts
<1>3. CASE ~t.deferred
  <2>1. PICK u : u = Finished(t)
    OBVIOUS
  <2>2. PICK v : v = Idle(u)
    OBVIOUS
  <2>3. u \in TransportState /\ v \in TransportState
    BY <1>1, <2>1, <2>2, TransportOperatorsType
  <2>4. tr' = [tr EXCEPT ![p] = IF u.ok THEN [v EXCEPT !.ic = FALSE] ELSE [u EXCEPT !.pc = "service"]]
    BY <1>3, <2>1, <2>2, Zenon DEF RecvNewkeys
  <2>5. r = (IF u.ok THEN [v EXCEPT !.ic = FALSE] ELSE [u EXCEPT !.pc = "service"])
        /\ tr'[Other(p)] = tr[Other(p)]
    BY <2>4, PeersAreTwo DEF TypeOK
  <2>6. lost' = lost
    BY <1>3 DEF RecvNewkeys
  <2>7. CASE u.ok
    <3>1. /\ r.pc = v.pc /\ (r.kex <=> v.kex) /\ r.class = v.class /\ (r.deferred <=> v.deferred)
          /\ (r.ok <=> v.ok) /\ (r.timer <=> v.timer) /\ r.conf = v.conf /\ r.used = v.used
          /\ r.begun = v.begun
      BY <2>3, <2>5, <2>7 DEF TransportState
    <3> QED BY <1>1, <1>3, <2>1, <2>2, <2>3, <2>5, <2>6, <2>7, <3>1, IdleFacts, FinishedFacts
  <2>8. CASE ~u.ok
    <3>1. /\ r.pc = "service" /\ (r.kex <=> u.kex) /\ r.class = u.class /\ (r.deferred <=> u.deferred)
          /\ (r.ok <=> u.ok) /\ (r.timer <=> u.timer) /\ r.conf = u.conf /\ r.used = u.used
          /\ r.begun = u.begun
      BY <2>3, <2>5, <2>8 DEF TransportState
    <3> QED BY <1>1, <1>3, <2>1, <2>3, <2>5, <2>6, <2>8, <3>1, FinishedFacts
  <2> QED BY <2>7, <2>8
<1> QED BY <1>2, <1>3

\* The step to take NEWKEYS leaves its end in order.
LEMMA RecvNewkeysLocal ==
    ASSUME TypeOK, Locals, NEW p \in Peers, RecvNewkeys(p)
    PROVE  Locals'
<1>1. PICK t : t = tr[p]
  OBVIOUS
<1>2. PICK r : r = tr'[p]
  OBVIOUS
<1>3. t \in TransportState /\ bpp[p] \in BppState /\ delayed \in BOOLEAN /\ delayed' = delayed
  BY <1>1 DEF TypeOK, RecvNewkeys
<1>4. Phases(p, r) /\ Settings(p, r, lost'[p])
  BY <1>1, <1>2, <1>3, RecvNewkeysFacts DEF Locals, Local, Phases, Settings, KexPCs, OldKeyPCs, TransportState
<1>5. KeysCounted(r, bpp'[p]) /\ Compression(p, bpp'[p])
  BY <1>1, <1>2, <1>3, RecvNewkeysFacts, NewIncomingFacts
     DEF Locals, Local, KeysCounted, Compression, Compressing, KexPCs, OldKeyPCs, One, BppState, TransportState
<1> QED BY <1>1, <1>2, <1>3, <1>4, <1>5, RecvNewkeysFacts, LocalStep

\* A request that is overwritten is noted as lost.
LEMMA OverwrittenFacts ==
    ASSUME TypeOK, NEW p \in Peers, NEW by, Overwritten(p, by)
    PROVE  /\ lost'[Other(p)] = lost[Other(p)]
           /\ lost'[p] = IF tr[p].class = "normal" /\ ~tr[p].kex THEN lost[p] \cup {by} ELSE lost[p]
           /\ lost[p] # {} \/ (tr[p].class = "normal" /\ ~tr[p].kex) => lost'[p] # {}
  BY PeersAreTwo DEF Overwritten, TypeOK

\* What RecvService makes of the coroutine's state
LEMMA RecvServiceFacts ==
    ASSUME TypeOK, NEW p \in Peers, RecvService(p), NEW t, t = tr[p], NEW r, r = tr'[p]
    PROVE  /\ tr'[Other(p)] = tr[Other(p)] /\ bpp' = bpp /\ t.pc = "service"
           /\ r.pc = "idle" /\ r.class = "none" /\ r.ok /\ (r.kex <=> t.kex)
           /\ (r.deferred <=> t.deferred) /\ (r.timer <=> t.timer)
           /\ r.conf = t.conf /\ r.used = t.used /\ r.begun = t.begun
<1>1. PICK u : u = Idle(t)
  OBVIOUS
<1>2. t \in TransportState /\ u \in TransportState /\ t.pc = "service" /\ bpp' = bpp
  BY <1>1, TypesOfAnEnd, TransportOperatorsType DEF RecvService, Next1
<1>3. tr' = [tr EXCEPT ![p] = [u EXCEPT !.ok = TRUE, !.ic = FALSE]]
  BY <1>1, Zenon DEF RecvService
<1>4. r = [u EXCEPT !.ok = TRUE, !.ic = FALSE] /\ tr'[Other(p)] = tr[Other(p)]
  BY <1>3, PeersAreTwo DEF TypeOK
<1>5. /\ r.pc = u.pc /\ (r.kex <=> u.kex) /\ r.class = u.class /\ (r.deferred <=> u.deferred)
      /\ r.ok /\ (r.timer <=> u.timer) /\ r.conf = u.conf /\ r.used = u.used /\ r.begun = u.begun
  BY <1>2, <1>4 DEF TransportState
<1> QED BY <1>1, <1>2, <1>4, <1>5, IdleFacts

\* The step to agree on the service leaves its end in order.
LEMMA RecvServiceLocal ==
    ASSUME TypeOK, Locals, NEW p \in Peers, RecvService(p)
    PROVE  Locals'
<1>1. PICK t : t = tr[p]
  OBVIOUS
<1>2. PICK r : r = tr'[p]
  OBVIOUS
<1>3. t \in TransportState /\ bpp[p] \in BppState /\ delayed' = delayed
  BY <1>1 DEF TypeOK, RecvService
<1>4. Overwritten(p, "service")
  BY DEF RecvService
<1>5. Phases(p, r) /\ Settings(p, r, lost'[p])
  <2>1. lost[p] # {} \/ (t.class = "normal" /\ ~t.kex) => lost'[p] # {}
    BY <1>1, <1>4, OverwrittenFacts
  <2> QED BY <1>1, <1>2, <1>3, <2>1, RecvServiceFacts
          DEF Locals, Local, Phases, Settings, KexPCs, OldKeyPCs, TransportState
<1>6. KeysCounted(r, bpp'[p]) /\ Compression(p, bpp'[p])
  BY <1>1, <1>2, <1>3, RecvServiceFacts
     DEF Locals, Local, KeysCounted, Compression, Compressing, KexPCs, OldKeyPCs, One, BppState, TransportState
<1> QED BY <1>1, <1>2, <1>3, <1>4, <1>5, <1>6, RecvServiceFacts, OverwrittenFacts, LocalStep

\* What WaitForRekey makes of the coroutine's state
LEMMA WaitForRekeyFacts ==
    ASSUME TypeOK, NEW p \in Peers, WaitForRekey(p), NEW t, t = tr[p], NEW r, r = tr'[p]
    PROVE  /\ tr'[Other(p)] = tr[Other(p)] /\ bpp' = bpp /\ t.pc = "idle"
           /\ lost'[Other(p)] = lost[Other(p)]
           /\ r.conf = t.conf /\ (r.ok <=> t.ok) /\ (r.deferred <=> t.deferred)
           /\ (r.timer <=> t.timer) /\ r.class \in {"none", "normal", "server"}
           /\ \/ /\ r.pc = "idle" /\ r.class = "none" /\ t.class # "normal" /\ (r.kex <=> t.kex)
                 /\ r.used = t.used /\ r.begun = t.begun /\ lost' = lost
                 /\ asks' = asks /\ inq[p] = <<>>
                 /\ outq' = [outq EXCEPT ![p] = Passed(p)]
              \/ /\ r.pc = "kexinit" /\ r.kex /\ r.class # "none" /\ r.used = t.conf
                 /\ r.begun = t.begun + 1 /\ lost'[p] = {}
                 /\ r.class = "server" => inq[p] # <<>> /\ asks' = asks
                 /\ asks' \in {asks, asks + 1}
                 /\ r.class = "normal" => t.class = "normal" \/ asks' = asks + 1
                 /\ outq' = [outq EXCEPT ![p] = Append(Passed(p), Packet("kexinit", t.conf))]
<1>1. t \in TransportState /\ t.pc = "idle" /\ bpp' = bpp
  BY TypesOfAnEnd DEF WaitForRekey
<1>2. PICK limit \in BOOLEAN :
        /\ limit => asks < MaxAsks /\ Reason(p, FALSE) = "none"
        /\ asks' = asks + (IF limit THEN 1 ELSE 0)
        /\ IF Reason(p, limit) = "none"
           THEN /\ tr' = [tr EXCEPT ![p].class = "none", ![p].ic = FALSE]
                /\ outq' = [outq EXCEPT ![p] = Passed(p)]
                /\ UNCHANGED <<early, lost>>
           ELSE /\ tr' = [tr EXCEPT ![p] = [Begun(@) EXCEPT !.class = Reason(p, limit)]]
                /\ outq' = [outq EXCEPT ![p] = Append(Passed(p), Packet("kexinit", tr[p].conf))]
                /\ BeginNotes(p)
  BY Zenon DEF WaitForRekey
<1>3. PICK reason : reason = Reason(p, limit)
  OBVIOUS
<1>4. /\ inq[p] # <<>> => Head(inq[p]).type = "kexinit"
      /\ asks \in Nat
  BY DEF WaitForRekey, TypeOK
<1>5. /\ reason \in {"none", "normal", "server"}
      /\ reason = "server" => inq[p] # <<>> /\ ~limit
      /\ reason = "normal" => t.class = "normal" \/ limit
      /\ reason = "none" => t.class # "normal" /\ ~limit /\ inq[p] = <<>>
  BY <1>2, <1>3, <1>4, Zenon DEF Reason
<1>6. CASE reason = "none"
  <2>1. /\ tr' = [tr EXCEPT ![p] = [t EXCEPT !.class = "none", !.ic = FALSE]]
        /\ outq' = [outq EXCEPT ![p] = Passed(p)] /\ lost' = lost
    BY <1>2, <1>3, <1>6 DEF TypeOK
  <2>2. r = [t EXCEPT !.class = "none", !.ic = FALSE] /\ tr'[Other(p)] = tr[Other(p)]
    BY <2>1, PeersAreTwo DEF TypeOK
  <2>3. /\ r.pc = t.pc /\ (r.kex <=> t.kex) /\ r.class = "none" /\ (r.deferred <=> t.deferred)
        /\ (r.ok <=> t.ok) /\ (r.timer <=> t.timer) /\ r.conf = t.conf /\ r.used = t.used /\ r.begun = t.begun
    BY <1>1, <2>2 DEF TransportState
  <2>4. asks' = asks
    BY <1>2, <1>4, <1>5, <1>6
  <2> QED BY <1>1, <1>5, <1>6, <2>1, <2>2, <2>3, <2>4
<1>7. CASE reason # "none"
  <2>1. PICK u : u = Begun(t)
    OBVIOUS
  <2>2. /\ tr' = [tr EXCEPT ![p] = [u EXCEPT !.class = reason]]
        /\ outq' = [outq EXCEPT ![p] = Append(Passed(p), Packet("kexinit", t.conf))]
        /\ lost' = [lost EXCEPT ![p] = {}]
    BY <1>2, <1>3, <1>7, <2>1, Zenon DEF BeginNotes
  <2>3. u \in TransportState
    BY <1>1, <2>1, TransportOperatorsType
  <2>4. r = [u EXCEPT !.class = reason] /\ tr'[Other(p)] = tr[Other(p)]
    BY <2>2, PeersAreTwo DEF TypeOK
  <2>5. /\ r.pc = u.pc /\ (r.kex <=> u.kex) /\ r.class = reason /\ (r.deferred <=> u.deferred)
        /\ (r.ok <=> u.ok) /\ (r.timer <=> u.timer) /\ r.conf = u.conf /\ r.used = u.used /\ r.begun = u.begun
    BY <2>3, <2>4 DEF TransportState
  <2>6. lost'[Other(p)] = lost[Other(p)] /\ lost'[p] = {}
    BY <2>2, PeersAreTwo DEF TypeOK
  <2>7. asks' = IF limit THEN asks + 1 ELSE asks
    BY <1>2, <1>4
  <2>8. u.pc = "kexinit" /\ u.kex /\ (u.deferred <=> t.deferred) /\ (u.ok <=> t.ok) /\ (u.timer <=> t.timer)
        /\ u.conf = t.conf /\ u.used = t.conf /\ u.begun = t.begun + 1
    BY <1>1, <2>1, BegunFacts
  <2> HIDE <1>2
  <2> QED BY <1>1, <1>5, <1>7, <2>2, <2>4, <2>5, <2>6, <2>7, <2>8
<1> QED BY <1>6, <1>7

\* The step to wait for a reason to rekey leaves its end in order.
LEMMA WaitForRekeyLocal ==
    ASSUME TypeOK, Locals, NEW p \in Peers, WaitForRekey(p)
    PROVE  Locals'
<1>1. PICK t : t = tr[p]
  OBVIOUS
<1>2. PICK r : r = tr'[p]
  OBVIOUS
<1>3. t \in TransportState /\ bpp[p] \in BppState /\ delayed' = delayed
  BY <1>1 DEF TypeOK, WaitForRekey
<1>4. Phases(p, r) /\ Settings(p, r, lost'[p])
  BY <1>1, <1>2, <1>3, WaitForRekeyFacts
     DEF Locals, Local, Phases, Settings, KexPCs, OldKeyPCs, TransportState
<1>5. KeysCounted(r, bpp'[p]) /\ Compression(p, bpp'[p])
  BY <1>1, <1>2, <1>3, WaitForRekeyFacts
     DEF Locals, Local, KeysCounted, Compression, Compressing, KexPCs, OldKeyPCs, One, BppState, TransportState
<1> QED BY <1>1, <1>2, <1>3, <1>4, <1>5, WaitForRekeyFacts, LocalStep

\* Steps that change of the coroutine's state at most whether it is queued.
LEMMA LocalUnchanged ==
    ASSUME TypeOK, Locals, NEW p \in Peers, NEW ic \in BOOLEAN, delayed' = delayed, lost' = lost, bpp' = bpp,
           tr' = [tr EXCEPT ![p] = [tr[p] EXCEPT !.ic = ic]]
    PROVE  Locals'
<1>1. PICK r : r = tr'[p]
  OBVIOUS
<1>2. tr[p] \in TransportState /\ r = [tr[p] EXCEPT !.ic = ic] /\ tr'[Other(p)] = tr[Other(p)]
  BY <1>1, PeersAreTwo DEF TypeOK
<1>3. Phases(p, r) /\ Settings(p, r, lost'[p])
  BY <1>2 DEF Locals, Local, Phases, Settings, TransportState
<1>4. KeysCounted(r, bpp'[p]) /\ Compression(p, bpp'[p])
  BY <1>2 DEF Locals, Local, KeysCounted, Compression, Compressing, TransportState
<1> QED BY <1>1, <1>2, <1>3, <1>4, LocalStep

\* A step that touches neither state leaves both as they were.
LEMMA NothingLocal ==
    ASSUME TypeOK, Locals, delayed' = delayed, lost' = lost, bpp' = bpp, tr' = tr
    PROVE  Locals'
  BY DEF Locals, Local, Compression, Compressing

\* The step to wait for packets leaves its end in order.
LEMMA BlockLocal ==
    ASSUME TypeOK, Locals, NEW p \in Peers, Block(p)
    PROVE  Locals'
<1>1. tr' = [tr EXCEPT ![p] = [tr[p] EXCEPT !.ic = FALSE]]
  BY DEF Block, TypeOK
<1> QED BY <1>1, LocalUnchanged DEF Block

\* Queueing for the layer above leaves keys and settings alone.
LEMMA QueueLocal ==
    ASSUME TypeOK, Locals, NEW p \in Peers, NEW m, Queue(p, m)
    PROVE  Locals'
<1>1. tr' = [tr EXCEPT ![p] = [tr[p] EXCEPT !.ic = TRUE]]
  BY DEF Queue, TypeOK
<1> QED BY <1>1, LocalUnchanged DEF Queue

\* The step to send what can be sent leaves its end in order.
LEMMA BppOutputLocal ==
    ASSUME TypeOK, Locals, NEW p \in Peers, BppOutput(p)
    PROVE  Locals'
<1>1. PICK g \in BOOLEAN, b \in {bpp[p]}, r \in {bpp'[p]} : (g <=> Grants(p, outq[p])) /\ b = bpp[p] /\ r = bpp'[p]
  OBVIOUS
<1>2. /\ r = AfterSending(p, outq[p]) /\ bpp'[Other(p)] = bpp[Other(p)]
      /\ tr' = tr /\ lost' = lost /\ delayed' = delayed
  BY <1>1, PeersAreTwo DEF BppOutput, TypeOK
<1>3. outq[p] \in Seq(Packets(Types)) /\ b \in BppState /\ tr[p] \in TransportState
  BY <1>1, TypesOfAnEnd
<1>4. Phases(p, tr'[p]) /\ Settings(p, tr'[p], lost'[p])
  BY <1>2 DEF Locals, Local
<1>5. p = "client" => ~g
  BY <1>1 DEF Grants
<1>6. /\ r.outKey = b.outKey /\ r.inKey = b.inKey
      /\ (r.seen <=> b.seen)
      /\ (r.outComp <=> b.outComp \/ (g /\ b.outPend)) /\ (r.outPend <=> b.outPend /\ ~g)
      /\ (r.inComp <=> b.inComp \/ (g /\ b.inPend)) /\ (r.inPend <=> b.inPend /\ ~g)
      /\ (r.blocked => b.blocked \/ (p = "client" /\ b.outPend))
  BY <1>1, <1>2, <1>3, AfterSendingFacts
<1>7. KeysCounted(tr'[p], r) /\ Compression(p, r)
  BY <1>1, <1>2, <1>3, <1>5, <1>6 DEF Locals, Local, KeysCounted, Compression, Compressing, BppState
<1> QED BY <1>1, <1>2, <1>4, <1>7, LocalStep

\* The step to decode a packet leaves its end in order.
LEMMA BppInputLocal ==
    ASSUME TypeOK, Locals, NEW p \in Peers, BppInput(p)
    PROVE  Locals'
<1>1. PICK m : m = Head(wire[p])
  OBVIOUS
<1>2. CASE m.key # bpp[p].inKey \/ m.comp # bpp[p].inComp
  BY <1>1, <1>2, NothingLocal DEF BppInput
<1>3. CASE ~(m.key # bpp[p].inKey \/ m.comp # bpp[p].inComp)
  <2>1. /\ bpp' = [bpp EXCEPT ![p] = AfterReading(p, m.type)] /\ lost' = lost /\ delayed' = delayed
        /\ tr' = [tr EXCEPT ![p] = [tr[p] EXCEPT !.ic = TRUE]]
    BY <1>1, <1>3, Zenon DEF BppInput
  <2>2. m.type \in Types
    <3>1. wire[p] \in Seq(Encodings) /\ wire[p] # <<>>
      BY TypesOfAnEnd DEF BppInput, CanRead
    <3>2. m \in Encodings
      BY <1>1, <3>1
    <3> QED BY <3>2 DEF Encodings
  <2>3. PICK r, t, b : r = bpp'[p] /\ t = tr'[p] /\ b = bpp[p]
    OBVIOUS
  <2>4. /\ r = AfterReading(p, m.type) /\ bpp'[Other(p)] = bpp[Other(p)]
        /\ t = [tr[p] EXCEPT !.ic = TRUE] /\ tr'[Other(p)] = tr[Other(p)]
    BY <2>1, <2>3, PeersAreTwo DEF TypeOK
  <2>5. tr[p] \in TransportState /\ b \in BppState
    BY <2>3, TypesOfAnEnd
  <2>6. Phases(p, t) /\ Settings(p, t, lost'[p])
    BY <2>1, <2>4, <2>5 DEF Locals, Local, Phases, Settings, TransportState
  <2>7. PICK g \in BOOLEAN : g <=> p = "client" /\ m.type = "authok"
    OBVIOUS
  <2>8. t.pc = tr[p].pc /\ t.begun = tr[p].begun
    BY <2>4, <2>5 DEF TransportState
  <2>9. /\ r.outKey = b.outKey /\ r.inKey = b.inKey
        /\ (r.seen <=> b.seen \/ g)
        /\ (r.outComp <=> b.outComp \/ (g /\ b.outPend)) /\ (r.outPend <=> b.outPend /\ ~g)
        /\ (r.inComp <=> b.inComp \/ (g /\ b.inPend)) /\ (r.inPend <=> b.inPend /\ ~g)
        /\ (r.blocked <=> b.blocked /\ m.type \notin UserAuth)
    BY <2>2, <2>3, <2>4, <2>7, AfterReadingFacts
  <2>10. KeysCounted(t, r) /\ Compression(p, r)
    BY <2>3, <2>5, <2>7, <2>8, <2>9
       DEF Locals, Local, KeysCounted, Compression, Compressing, BppState, UserAuth
  <2> QED BY <2>1, <2>3, <2>4, <2>6, <2>10, LocalStep
<1> QED BY <1>2, <1>3

\* The step that changes only when the next exchange is due.
LEMMA AskLocal ==
    ASSUME TypeOK, Locals, NEW p \in Peers, delayed' = delayed, bpp' = bpp,
           tr'[Other(p)] = tr[Other(p)], lost'[Other(p)] = lost[Other(p)],
           NEW t, t = tr[p], NEW r, r = tr'[p],
           r.pc = t.pc, r.kex <=> t.kex, r.ok <=> t.ok, r.begun = t.begun,
           Settings(p, r, lost'[p])
    PROVE  Locals'
<1>1. Phases(p, r) /\ KeysCounted(r, bpp'[p]) /\ Compression(p, bpp'[p])
  BY DEF Locals, Local, Phases, KeysCounted, Compression, Compressing
<1> QED BY <1>1, LocalStep

\* The step to rekey by the timer leaves its end in order.
LEMMA RekeyTimerLocal ==
    ASSUME TypeOK, Locals, NEW p \in Peers, RekeyTimer(p)
    PROVE  Locals'
<1>1. PICK t, r : t = tr[p] /\ r = tr'[p]
  OBVIOUS
<1>2. /\ t \in TransportState /\ tr'[Other(p)] = tr[Other(p)] /\ t.timer
      /\ delayed' = delayed /\ bpp' = bpp /\ lost' = lost
      /\ r = IF t.kex THEN [t EXCEPT !.timer = FALSE]
             ELSE [t EXCEPT !.timer = FALSE, !.class = "normal", !.ic = TRUE]
  BY <1>1, PeersAreTwo DEF RekeyTimer, TypeOK
<1>3. /\ r.pc = t.pc /\ (r.kex <=> t.kex) /\ (r.ok <=> t.ok) /\ r.begun = t.begun /\ r.conf = t.conf
      /\ r.used = t.used /\ (r.deferred <=> t.deferred) /\ ~r.timer
      /\ t.kex => r.class = t.class
      /\ ~t.kex => r.class = "normal"
  BY <1>2 DEF TransportState
<1>4. Phases(p, t) /\ Settings(p, t, lost[p])
  BY <1>1 DEF Locals, Local
<1>5. Settings(p, r, lost'[p])
  BY <1>2, <1>3, <1>4 DEF Phases, Settings, KexPCs, OldKeyPCs, TransportState, PCs
<1> QED BY <1>1, <1>2, <1>3, <1>5, AskLocal

\* The step to rekey by the user leaves its end in order.
LEMMA UserRekeyLocal ==
    ASSUME TypeOK, Locals, UserRekey
    PROVE  Locals'
<1> DEFINE p == "client"
<1>1. PICK t, r : t = tr[p] /\ r = tr'[p]
  OBVIOUS
<1>2. /\ t \in TransportState /\ tr'[Other(p)] = tr[Other(p)] /\ t.pc # "start" /\ ~t.kex
      /\ delayed' = delayed /\ bpp' = bpp /\ lost' = lost /\ p \in Peers
      /\ r = [t EXCEPT !.class = "normal", !.ic = TRUE]
  BY <1>1, PeersAreTwo DEF UserRekey, TypeOK, Peers
<1> HIDE DEF p
<1>3. /\ r.pc = t.pc /\ (r.kex <=> t.kex) /\ (r.ok <=> t.ok) /\ r.begun = t.begun /\ r.conf = t.conf
      /\ r.used = t.used /\ (r.deferred <=> t.deferred) /\ (r.timer <=> t.timer) /\ r.class = "normal"
  BY <1>2 DEF TransportState
<1>4. Phases(p, t) /\ Settings(p, t, lost[p])
  BY <1>1, <1>2 DEF Locals, Local
<1>5. Settings(p, r, lost'[p])
  BY <1>2, <1>3, <1>4 DEF Phases, Settings, KexPCs, OldKeyPCs, TransportState, PCs
<1> QED BY <1>1, <1>2, <1>3, <1>5, AskLocal

\* What a change of settings does to the coroutine and to the requests lost.
LEMMA ReconfigureFacts ==
    ASSUME TypeOK, Reconfigure, NEW t, t = tr["client"], NEW r, r = tr'["client"]
    PROVE  /\ tr'["server"] = tr["server"] /\ lost'["server"] = lost["server"] /\ bpp' = bpp
           /\ t.pc # "start"
           /\ r.pc = t.pc /\ (r.kex <=> t.kex) /\ (r.ok <=> t.ok) /\ r.begun = t.begun
           /\ r.conf = t.conf + 1 /\ r.used = t.used /\ r.timer
           /\ \/ ~t.kex /\ r.class = "normal" /\ (r.deferred <=> t.deferred) /\ lost' = lost
              \/ /\ t.kex \/ bpp["client"].blocked
                 /\ r.class = t.class /\ r.deferred /\ (t.kex \/ lost'["client"] # {})
<1>1. PICK u : u = [t EXCEPT !.conf = @ + 1, !.timer = TRUE]
  OBVIOUS
<1>2. t \in TransportState /\ t.pc # "start" /\ bpp' = bpp
  BY DEF Reconfigure, TypeOK, Peers
<1>3. /\ u \in TransportState /\ u.pc = t.pc /\ (u.kex <=> t.kex) /\ (u.ok <=> t.ok) /\ u.begun = t.begun
      /\ u.conf = t.conf + 1 /\ u.used = t.used /\ u.timer /\ u.class = t.class
      /\ (u.deferred <=> t.deferred)
  <2>1. t.conf + 1 \in Nat
    BY <1>2 DEF TransportState
  <2>2. PICK n \in Nat : n = t.conf + 1
    BY <2>1
  <2>3. u = [t EXCEPT !.conf = n, !.timer = TRUE]
    BY <1>1, <2>2
  <2> QED BY <1>2, <2>2, <2>3 DEF TransportState
<1>4. PICK now \in BOOLEAN : now <=> ~u.kex /\ ~bpp["client"].blocked
  OBVIOUS
<1>5. /\ tr' = [tr EXCEPT !["client"] = IF now THEN [u EXCEPT !.class = "normal", !.ic = TRUE]
                                      ELSE [u EXCEPT !.deferred = TRUE]]
      /\ lost' = IF ~u.kex /\ ~now
                 THEN [lost EXCEPT !["client"] = @ \cup {"inadvisable"}] ELSE lost
  BY <1>1, <1>4, Zenon DEF Reconfigure
<1>6. /\ tr'["server"] = tr["server"]
      /\ r = IF now THEN [u EXCEPT !.class = "normal", !.ic = TRUE] ELSE [u EXCEPT !.deferred = TRUE]
  BY <1>5 DEF TypeOK, Peers
<1>7. /\ lost'["server"] = lost["server"]
      /\ now => lost' = lost
      /\ ~now => u.kex \/ lost'["client"] # {}
  BY <1>5 DEF TypeOK, Peers
<1>8. /\ r.pc = u.pc /\ (r.kex <=> u.kex) /\ (r.ok <=> u.ok) /\ r.begun = u.begun
      /\ r.conf = u.conf /\ r.used = u.used /\ r.timer
      /\ now => r.class = "normal" /\ (r.deferred <=> u.deferred)
      /\ ~now => r.class = u.class /\ r.deferred
  BY <1>3, <1>6 DEF TransportState
<1> QED BY <1>2, <1>3, <1>4, <1>6, <1>7, <1>8

\* The step to change the settings leaves its end in order.
LEMMA ReconfigureLocal ==
    ASSUME TypeOK, Locals, Reconfigure
    PROVE  Locals'
<1>1. PICK t, r : t = tr["client"] /\ r = tr'["client"]
  OBVIOUS
<1>2. "client" \in Peers /\ Other("client") = "server" /\ t \in TransportState /\ delayed' = delayed
  BY <1>1 DEF Peers, Other, Reconfigure, TypeOK
<1>3. Phases("client", t) /\ Settings("client", t, lost["client"])
  BY <1>1, <1>2 DEF Locals, Local
<1>4. Settings("client", r, lost'["client"])
  BY <1>1, <1>2, <1>3, ReconfigureFacts DEF Phases, Settings, KexPCs, OldKeyPCs, TransportState, PCs
<1> QED BY <1>1, <1>2, <1>4, AskLocal, ReconfigureFacts

\* The step to end authentication leaves its end in order.
LEMMA NotifyAuthDoneLocal ==
    ASSUME TypeOK, Locals, NotifyAuthDone
    PROVE  Locals'
<1> DEFINE p == "client"
<1>1. PICK t, r : t = tr[p] /\ r = tr'[p]
  OBVIOUS
<1>2. /\ t \in TransportState /\ tr'[Other(p)] = tr[Other(p)]
      /\ delayed' = delayed /\ bpp' = bpp /\ p \in Peers /\ Overwritten(p, "userauth")
      /\ r = [t EXCEPT !.class = "post-userauth", !.ic = TRUE]
  BY <1>1, PeersAreTwo DEF NotifyAuthDone, TypeOK, Peers
<1> HIDE DEF p
<1>3. /\ r.pc = t.pc /\ (r.kex <=> t.kex) /\ (r.ok <=> t.ok) /\ r.begun = t.begun /\ r.conf = t.conf
      /\ r.used = t.used /\ (r.deferred <=> t.deferred) /\ (r.timer <=> t.timer)
      /\ r.class = "post-userauth"
  BY <1>2 DEF TransportState
<1>4. Phases(p, t) /\ Settings(p, t, lost[p])
  BY <1>1, <1>2 DEF Locals, Local
<1>5. lost'[Other(p)] = lost[Other(p)] /\ (lost[p] # {} \/ (t.class = "normal" /\ ~t.kex) => lost'[p] # {})
  BY <1>1, <1>2, OverwrittenFacts
<1>6. Settings(p, r, lost'[p])
  BY <1>2, <1>3, <1>4, <1>5 DEF Phases, Settings, KexPCs, OldKeyPCs, TransportState, PCs
<1> QED BY <1>1, <1>2, <1>3, <1>5, <1>6, AskLocal

\* Both ends start in order.
LEMMA InitLocal == Init => Locals
<1> SUFFICES ASSUME Init, NEW p \in Peers
             PROVE  Local(p)
  BY DEF Locals
<1>1. Phases(p, tr[p]) /\ Settings(p, tr[p], lost[p])
  BY DEF Init, Phases, Settings, KexPCs, OldKeyPCs
<1>2. KeysCounted(tr[p], bpp[p]) /\ Compression(p, bpp[p])
  BY DEF Init, KeysCounted, Compression, Compressing, KexPCs, OldKeyPCs, One
<1> QED BY <1>1, <1>2 DEF Local

\* Every step leaves each end by itself in order.
LEMMA LocalInvariance == TypeOK /\ Locals /\ [Next]_vars => Locals'
<1> SUFFICES ASSUME TypeOK, Locals, [Next]_vars
             PROVE  Locals'
  OBVIOUS
<1>1. ASSUME NEW p \in Peers, PassUp(p) \/ Unexpected(p)
      PROVE  Locals'
  BY <1>1, NothingLocal DEF PassUp, Unexpected
<1>2. ASSUME NEW p \in Peers, Coroutine(p)
      PROVE  Locals'
  BY <1>1, <1>2, StartLocal, RecvKexinitLocal, RecvKexreqLocal, RecvKexreplyLocal, RecvNewkeysLocal,
     RecvServiceLocal, WaitForRekeyLocal, BlockLocal DEF Coroutine
<1>3. ASSUME NEW p \in Peers, Step(p)
      PROVE  Locals'
  BY <1>2, <1>3, AcceptHostKeyLocal, BppInputLocal, BppOutputLocal, RekeyTimerLocal, QueueLocal
     DEF Step, SendData
<1>4. CASE AskAuth \/ AnswerAuth
  BY <1>4, QueueLocal DEF AskAuth, AnswerAuth, Peers
<1>5. CASE UNCHANGED vars
  BY <1>5, NothingLocal DEF vars
<1> QED
  BY <1>3, <1>4, <1>5, UserRekeyLocal, ReconfigureLocal, NotifyAuthDoneLocal DEF Next

\* Each end's own counts and flags agree in every reachable state.
LEMMA LocalCorrect == Spec => [](TypeOK /\ Locals)
<1>1. Init => TypeOK /\ Locals
  BY InitType, InitLocal
<1>2. TypeOK /\ Locals /\ [Next]_vars => (TypeOK /\ Locals)'
  BY TypeInvariance, LocalInvariance
<1> QED BY <1>1, <1>2, PTL DEF Spec

\* Once the client waits for a reason to rekey and has none, the settings of the last
\* exchange are the configured ones, or the request was lost in one of the known ways
\* (ssh2_transport_reconfigure, and rekey_class where others overwrite it).
THEOREM SettingsTakeForce == Spec => []SettingsInForce
<1>1. TypeOK /\ Locals => SettingsInForce
  BY DEF TypeOK, Locals, Local, Settings, SettingsInForce, AtRest, Peers
<1> QED BY <1>1, LocalCorrect, PTL

\* An end that waits with no reason at hand has its rekey timer running, or has lost the
\* timer's request (ssh2_transport_timer, ssh2_transport_timer_update).
THEOREM TimerStaysArmed == Spec => []TimerArmed
<1>1. TypeOK /\ Locals => TimerArmed
  BY DEF TypeOK, Locals, Local, Settings, TimerArmed, AtRest
<1> QED BY <1>1, LocalCorrect, PTL

--------------------------------------------------------------------------------
(* Queues of packets *)

Has(q, t) == \E i \in 1..Len(q) : q[i].type = t

\* No packet of type u is behind one of type v; and at most one is of type u if v = u.
Ahead(q, u, v) == \A i, j \in 1..Len(q) : q[i].type = u /\ q[j].type = v => i <= j

\* What a packet added at the end of a queue does.
LEMMA AppendToQueue ==
    ASSUME NEW S, NEW q \in Seq(S), NEW m \in S
    PROVE  /\ \A t : Has(Append(q, m), t) <=> Has(q, t) \/ m.type = t
           /\ \A u, v : Ahead(q, u, v) /\ (m.type = u => ~Has(q, v)) => Ahead(Append(q, m), u, v)
<1> DEFINE r == Append(q, m)
<1>1. /\ Len(q) \in Nat /\ Len(r) = Len(q) + 1 /\ r[Len(q) + 1] = m
      /\ \A i \in 1..Len(q) : r[i] = q[i]
  BY AppendProperties
<1> HIDE DEF r
<1>2. \A i \in 1..Len(r) : i \in 1..Len(q) \/ i = Len(q) + 1
  BY <1>1
<1>3. \A i \in 1..Len(q) : i \in 1..Len(r) /\ i < Len(q) + 1
  BY <1>1
<1>4. Len(q) + 1 \in 1..Len(r)
  BY <1>1
<1>5. \A t : Has(r, t) <=> Has(q, t) \/ m.type = t
  BY <1>1, <1>2, <1>3, <1>4 DEF Has
<1>6. ASSUME NEW u, NEW v, Ahead(q, u, v), m.type = u => ~Has(q, v)
      PROVE  Ahead(r, u, v)
  BY <1>1, <1>2, <1>3, <1>6 DEF Has, Ahead
<1> QED BY <1>5, <1>6 DEF r

\* What taking the first packet of a queue does.
LEMMA TailOfQueue ==
    ASSUME NEW S, NEW q \in Seq(S), q # <<>>, NEW t, t = Head(q).type
    PROVE  /\ Has(q, t) /\ (Ahead(q, t, t) => ~Has(Tail(q), t))
           /\ \A u : u # t => (Has(Tail(q), u) <=> Has(q, u))
           /\ \A u : Has(Tail(q), u) => Has(q, u)
           /\ \A u, v : Ahead(q, u, v) => Ahead(Tail(q), u, v)
           /\ \A u : u # t /\ Ahead(q, u, t) => ~Has(q, u)
<1> DEFINE r == Tail(q)
<1>1. /\ Len(q) \in Nat /\ Len(q) >= 1 /\ Len(r) = Len(q) - 1 /\ Head(q) = q[1]
      /\ \A i \in 1..Len(r) : r[i] = q[i + 1]
  BY HeadTailProperties, EmptySeq
<1> HIDE DEF r
<1>2. \A i \in 1..Len(r) : i + 1 \in 1..Len(q)
  BY <1>1
<1>3. \A i \in 1..Len(q) : i = 1 \/ (i - 1 \in 1..Len(r) /\ r[i - 1] = q[i])
  BY <1>1
<1>4. 1 \in 1..Len(q)
  BY <1>1
<1>5. Has(q, t) /\ \A u : Has(r, u) => Has(q, u)
  BY <1>1, <1>2, <1>4 DEF Has
<1>6. \A u : Has(q, u) /\ u # t => Has(r, u)
  BY <1>1, <1>3 DEF Has
<1>7. ASSUME Ahead(q, t, t)
      PROVE  ~Has(r, t)
  BY <1>1, <1>2, <1>4, <1>7 DEF Ahead, Has
<1>8. ASSUME NEW u, NEW v, Ahead(q, u, v)
      PROVE  Ahead(r, u, v)
  <2>1. \A i, j \in 1..Len(q) : q[i].type = u /\ q[j].type = v => i <= j
    BY <1>8 DEF Ahead
  <2>2. SUFFICES ASSUME NEW i \in 1..Len(r), NEW j \in 1..Len(r), r[i].type = u, r[j].type = v
                 PROVE  i <= j
    BY DEF Ahead
  <2>3. q[i + 1].type = u /\ q[j + 1].type = v
    BY <1>1, <2>2
  <2>4. i + 1 \in 1..Len(q) /\ j + 1 \in 1..Len(q)
    BY <1>2
  <2>5. i + 1 <= j + 1
    BY <2>1, <2>3, <2>4, Zenon
  <2> QED BY <1>1, <2>5
<1>9. ASSUME NEW u, u # t, Ahead(q, u, t)
      PROVE  ~Has(q, u)
  BY <1>1, <1>4, <1>9 DEF Ahead, Has
<1> QED BY <1>5, <1>6, <1>7, <1>8, <1>9 DEF r

\* What a queue added at the end of another does to the types it does not hold.
LEMMA JoinedQueues ==
    ASSUME NEW S, NEW q \in Seq(S), NEW h \in Seq(S)
    PROVE  /\ \A t : Has(q \o h, t) <=> Has(q, t) \/ Has(h, t)
           /\ \A u, v : Ahead(q, u, v) /\ ~Has(h, u) => Ahead(q \o h, u, v)
<1> DEFINE r == q \o h
<1>1. /\ Len(q) \in Nat /\ Len(h) \in Nat /\ Len(r) = Len(q) + Len(h)
      /\ \A i \in 1..Len(r) : r[i] = IF i <= Len(q) THEN q[i] ELSE h[i - Len(q)]
  BY ConcatProperties, EmptySeq
<1> HIDE DEF r
<1>2. \A i \in 1..Len(r) : \/ i \in 1..Len(q) /\ r[i] = q[i]
                           \/ i > Len(q) /\ i - Len(q) \in 1..Len(h) /\ r[i] = h[i - Len(q)]
  BY <1>1
<1>3. \A i \in 1..Len(q) : i \in 1..Len(r) /\ r[i] = q[i]
  BY <1>1
<1>4. \A i \in 1..Len(h) : i + Len(q) \in 1..Len(r) /\ r[i + Len(q)] = h[i]
  BY <1>1
<1>5. \A t : Has(r, t) <=> Has(q, t) \/ Has(h, t)
  BY ZenonT(30), <1>2, <1>3, <1>4 DEF Has
<1>6. ASSUME NEW u, NEW v, Ahead(q, u, v), ~Has(h, u)
      PROVE  Ahead(r, u, v)
  <2> SUFFICES ASSUME NEW i \in 1..Len(r), NEW j \in 1..Len(r), r[i].type = u, r[j].type = v
               PROVE  i <= j
    BY DEF Ahead
  <2>1. i \in 1..Len(q) /\ q[i].type = u
    BY <1>2, <1>6 DEF Has
  <2>2. CASE j \in 1..Len(q) /\ r[j] = q[j]
    BY <1>6, <2>1, <2>2 DEF Ahead
  <2>3. CASE j > Len(q)
    BY <1>1, <2>1, <2>3
  <2> QED BY <1>2, <2>2, <2>3
<1> QED BY <1>5, <1>6 DEF r

\* Sequences: taking from the first of two, and moving from one to the other.
LEMMA TailOfJoin ==
    ASSUME NEW S, NEW a \in Seq(S), NEW b \in Seq(S), a # <<>>
    PROVE  /\ a \o b # <<>> /\ Head(a \o b) = Head(a)
           /\ Tail(a \o b) = Tail(a) \o b
<1> DEFINE x == a \o b  t == Tail(a)  y == t \o b
<1>1. /\ t \in Seq(S) /\ Len(t) = Len(a) - 1 /\ Head(a) = a[1] /\ Len(a) \in Nat \ {0} /\ Len(b) \in Nat
      /\ \A k \in 1..Len(t) : t[k] = a[k + 1]
  BY HeadTailProperties, EmptySeq
<1>2. /\ x \in Seq(S) /\ Len(x) = Len(a) + Len(b)
      /\ \A k \in 1..(Len(a) + Len(b)) : x[k] = IF k <= Len(a) THEN a[k] ELSE b[k - Len(a)]
  BY ConcatProperties
<1> HIDE DEF t
<1>3. /\ y \in Seq(S) /\ Len(y) = Len(t) + Len(b)
      /\ \A k \in 1..(Len(t) + Len(b)) : y[k] = IF k <= Len(t) THEN t[k] ELSE b[k - Len(t)]
  BY <1>1, ConcatProperties
<1> HIDE DEF x, y
<1>4. Len(x) >= 1 /\ x # <<>> /\ Head(x) = a[1]
  <2>1. Len(x) >= 1
    BY <1>1, <1>2
  <2>2. x # <<>>
    BY <2>1
  <2>3. Head(x) = x[1]
    BY <1>2, <2>2, HeadTailProperties
  <2> QED BY <1>1, <1>2, <2>1, <2>2, <2>3
<1>5. /\ Tail(x) \in Seq(S) /\ Len(Tail(x)) = Len(x) - 1
      /\ \A k \in 1..Len(Tail(x)) : Tail(x)[k] = x[k + 1]
  BY <1>2, <1>4, HeadTailProperties
<1>6. Len(y) = Len(Tail(x))
  BY <1>1, <1>2, <1>3, <1>5
<1>7. \A k \in 1..Len(y) : y[k] = Tail(x)[k]
  <2> SUFFICES ASSUME NEW k \in 1..Len(y)
               PROVE  y[k] = Tail(x)[k]
    OBVIOUS
  <2>1. Tail(x)[k] = x[k + 1] /\ k + 1 \in 1..(Len(a) + Len(b)) /\ k \in 1..(Len(t) + Len(b))
    BY <1>1, <1>2, <1>3, <1>5, <1>6
  <2>2. CASE k <= Len(t)
    <3>1. y[k] = t[k] /\ t[k] = a[k + 1]
      BY <1>1, <1>3, <2>1, <2>2
    <3>2. x[k + 1] = a[k + 1]
      BY <1>1, <1>2, <2>1, <2>2
    <3> QED BY <2>1, <3>1, <3>2
  <2>3. CASE ~(k <= Len(t))
    <3>1. y[k] = b[k - Len(t)] /\ x[k + 1] = b[k + 1 - Len(a)] /\ k - Len(t) = k + 1 - Len(a)
      BY <1>1, <1>2, <1>3, <2>1, <2>3
    <3> QED BY <2>1, <3>1
  <2> QED BY <2>2, <2>3
<1>8. y = Tail(x)
  BY <1>3, <1>5, <1>6, <1>7, SeqEqual
<1> QED BY <1>1, <1>4, <1>8 DEF x, y, t

\* Moving the first of b to the end of a leaves the two together as they were.
LEMMA MoveFirst ==
    ASSUME NEW S, NEW a \in Seq(S), NEW b \in Seq(S), b # <<>>
    PROVE  Append(a, Head(b)) \o Tail(b) = a \o b
<1>1. Head(b) \in S /\ Tail(b) \in Seq(S) /\ <<Head(b)>> \in Seq(S)
  BY HeadTailProperties
<1>2. Append(a, Head(b)) = a \o <<Head(b)>>
  BY <1>1, AppendIsConcat
<1>3. (a \o <<Head(b)>>) \o Tail(b) = a \o (<<Head(b)>> \o Tail(b))
  BY <1>1, ConcatAssociative
<1>4. <<Head(b)>> \o Tail(b) = b
  <2>1. Len(b) \in Nat \ {0} /\ 1 \in 1..Len(b) /\ Len(b) \in 1..Len(b)
    BY EmptySeq
  <2>2. SubSeq(b, 1, Len(b)) = <<b[1]>> \o SubSeq(b, 1 + 1, Len(b))
    BY <2>1, SubSeqRecursiveFirst
  <2>3. SubSeq(b, 1, Len(b)) = b /\ Tail(b) = SubSeq(b, 2, Len(b)) /\ Head(b) = b[1]
    BY SubSeqFull, TailIsSubSeq
  <2> QED BY <2>2, <2>3
<1> QED BY <1>2, <1>3, <1>4

\* Moving the first n of b to the end of a leaves the two together as they were.
LEMMA SplitJoin ==
    ASSUME NEW S, NEW a \in Seq(S), NEW b \in Seq(S), NEW n \in 0..Len(b)
    PROVE  (a \o SubSeq(b, 1, n)) \o SubSeq(b, n + 1, Len(b)) = a \o b
<1>1. Len(b) \in Nat
  BY EmptySeq
<1>2. SubSeq(b, 1, n) \in Seq(S) /\ SubSeq(b, n + 1, Len(b)) \in Seq(S)
  BY <1>1, SubSeqProperties
<1>3. SubSeq(b, 1, n) \o SubSeq(b, n + 1, Len(b)) = SubSeq(b, 1, Len(b))
  <2>1. 1 \in 1..Len(b) + 1 /\ n \in 1 - 1..Len(b) /\ Len(b) \in n..Len(b)
    BY <1>1
  <2> QED BY <2>1, ConcatAdjacentSubSeq, Zenon
<1>4. SubSeq(b, 1, Len(b)) = b
  BY SubSeqFull
<1>5. \A x, y \in Seq(S) : (a \o x) \o y = a \o (x \o y)
  BY SMTT(30), ConcatAssociative
<1>6. (a \o SubSeq(b, 1, n)) \o SubSeq(b, n + 1, Len(b)) = a \o (SubSeq(b, 1, n) \o SubSeq(b, n + 1, Len(b)))
  BY <1>2, <1>5, Zenon
<1> QED BY <1>3, <1>4, <1>6, Zenon

--------------------------------------------------------------------------------
(* Lines: what one end has sent and the other has not yet taken *)

\* An encoded packet as the receiver will see it, if it can decode it
Stripped(w) == [i \in 1..Len(w) |-> Packet(w[i].type, w[i].n)]
LineOf(i, w, o) == i \o Stripped(w) \o o
Line(p) == LineOf(inq[Other(p)], wire[Other(p)], outq[p])

\* Stripping leaves packets, one for one.
LEMMA StrippedType ==
    ASSUME NEW w \in Seq(Encodings)
    PROVE  /\ Stripped(w) \in Seq(Packets(Types)) /\ Len(Stripped(w)) = Len(w)
           /\ \A i \in 1..Len(w) : Stripped(w)[i] = Packet(w[i].type, w[i].n)
<1>1. \A i \in 1..Len(w) : Packet(w[i].type, w[i].n) \in Packets(Types)
  <2> SUFFICES ASSUME NEW i \in 1..Len(w) PROVE Packet(w[i].type, w[i].n) \in Packets(Types)
    OBVIOUS
  <2>1. w[i] \in Encodings
    OBVIOUS
  <2>2. w[i].type \in Types /\ w[i].n \in Nat
    BY <2>1 DEF Encodings
  <2> QED BY <2>2, PacketTypes
<1>2. Len(w) \in Nat
  OBVIOUS
<1> QED BY <1>1, <1>2 DEF Stripped

\* Stripping goes well with taking the first and with adding at the end.
LEMMA StrippedMoves ==
    /\ \A w \in Seq(Encodings) : w # <<>> =>
            /\ Stripped(Tail(w)) = Tail(Stripped(w)) /\ Stripped(w) # <<>>
            /\ Head(Stripped(w)) = Packet(Head(w).type, Head(w).n)
    /\ \A w, e \in Seq(Encodings) : Stripped(w \o e) = Stripped(w) \o Stripped(e)
<1>1. ASSUME NEW w \in Seq(Encodings), w # <<>>
      PROVE  /\ Stripped(Tail(w)) = Tail(Stripped(w)) /\ Stripped(w) # <<>>
             /\ Head(Stripped(w)) = Packet(Head(w).type, Head(w).n)
  <2> DEFINE t == Tail(w)  x == Stripped(t)  y == Stripped(w)
  <2>1. /\ t \in Seq(Encodings) /\ Len(t) = Len(w) - 1 /\ Head(w) = w[1] /\ Len(w) \in Nat \ {0}
        /\ \A k \in 1..Len(t) : t[k] = w[k + 1]
    BY <1>1, HeadTailProperties, EmptySeq
  <2> HIDE DEF t
  <2>2. /\ x \in Seq(Packets(Types)) /\ Len(x) = Len(t)
        /\ \A k \in 1..Len(t) : x[k] = Packet(t[k].type, t[k].n)
    BY <2>1, StrippedType
  <2>3. /\ y \in Seq(Packets(Types)) /\ Len(y) = Len(w)
        /\ \A k \in 1..Len(w) : y[k] = Packet(w[k].type, w[k].n)
    BY StrippedType
  <2> HIDE DEF x, y
  <2>4. y # <<>> /\ Head(y) = y[1]
    <3>1. y # <<>>
      BY <2>1, <2>3, EmptySeq
    <3> QED BY <2>3, <3>1, HeadTailProperties
  <2>5. /\ Tail(y) \in Seq(Packets(Types)) /\ Len(Tail(y)) = Len(y) - 1
        /\ \A k \in 1..Len(Tail(y)) : Tail(y)[k] = y[k + 1]
    BY <2>3, <2>4, HeadTailProperties
  <2>6. Len(x) = Len(Tail(y)) /\ \A k \in 1..Len(x) : x[k] = Tail(y)[k]
    <3>1. Len(x) = Len(Tail(y))
      BY <2>1, <2>2, <2>3, <2>5
    <3>2. ASSUME NEW k \in 1..Len(x)
          PROVE  x[k] = Tail(y)[k]
      <4>1. x[k] = Packet(w[k + 1].type, w[k + 1].n) /\ Tail(y)[k] = y[k + 1] /\ k + 1 \in 1..Len(w)
        BY <2>1, <2>2, <2>3, <2>5, <3>1
      <4> QED BY <2>3, <4>1
    <3> QED BY <3>1, <3>2
  <2>7. x = Tail(y)
    BY <2>2, <2>5, <2>6, SeqEqual
  <2>8. 1 \in 1..Len(w)
    BY <2>1
  <2>9. Head(y) = Packet(Head(w).type, Head(w).n)
    BY <2>1, <2>3, <2>4, <2>8
  <2> QED BY <2>4, <2>7, <2>9 DEF x, y, t
<1>2. ASSUME NEW w \in Seq(Encodings), NEW e \in Seq(Encodings)
      PROVE  Stripped(w \o e) = Stripped(w) \o Stripped(e)
  <2> DEFINE v == w \o e  x == Stripped(w)  y == Stripped(e)  z == Stripped(v)  r == x \o y
  <2>1. /\ v \in Seq(Encodings) /\ Len(v) = Len(w) + Len(e) /\ Len(w) \in Nat /\ Len(e) \in Nat
        /\ \A k \in 1..(Len(w) + Len(e)) : v[k] = IF k <= Len(w) THEN w[k] ELSE e[k - Len(w)]
    BY ConcatProperties, EmptySeq
  <2> HIDE DEF v
  <2>2. /\ z \in Seq(Packets(Types)) /\ Len(z) = Len(v)
        /\ \A k \in 1..Len(v) : z[k] = Packet(v[k].type, v[k].n)
    BY <2>1, StrippedType
  <2>3. /\ x \in Seq(Packets(Types)) /\ Len(x) = Len(w)
        /\ \A k \in 1..Len(w) : x[k] = Packet(w[k].type, w[k].n)
        /\ y \in Seq(Packets(Types)) /\ Len(y) = Len(e)
        /\ \A k \in 1..Len(e) : y[k] = Packet(e[k].type, e[k].n)
    BY StrippedType
  <2> HIDE DEF x, y, z
  <2>4. /\ r \in Seq(Packets(Types)) /\ Len(r) = Len(x) + Len(y)
        /\ \A k \in 1..(Len(x) + Len(y)) : r[k] = IF k <= Len(x) THEN x[k] ELSE y[k - Len(x)]
    <3>1. x \in Seq(Packets(Types)) /\ y \in Seq(Packets(Types))
      BY <2>3
    <3> QED BY <3>1, ConcatProperties
  <2> HIDE DEF r
  <2>5. Len(z) = Len(r)
    BY <2>1, <2>2, <2>3, <2>4
  <2>6. ASSUME NEW k \in 1..Len(z)
        PROVE  z[k] = r[k]
    <3>1. k \in 1..Len(v) /\ k \in 1..(Len(w) + Len(e)) /\ k \in 1..(Len(x) + Len(y)) /\ k \in Int
      BY <2>1, <2>2, <2>3, <2>4, <2>6
    <3>2. CASE k <= Len(w)
      <4>1. k \in 1..Len(w)
        BY <2>1, <3>1, <3>2
      <4>2. z[k] = Packet(w[k].type, w[k].n)
        BY <2>1, <2>2, <3>1, <3>2
      <4>3. r[k] = x[k]
        BY <2>3, <2>4, <3>1, <3>2
      <4> QED BY <2>3, <4>1, <4>2, <4>3
    <3>3. CASE ~(k <= Len(w))
      <4>1. k - Len(w) \in 1..Len(e)
        BY <2>1, <3>1, <3>3
      <4>2. z[k] = Packet(e[k - Len(w)].type, e[k - Len(w)].n)
        BY <2>1, <2>2, <3>1, <3>3
      <4>3. r[k] = y[k - Len(w)]
        BY <2>3, <2>4, <3>1, <3>3
      <4> QED BY <2>3, <4>1, <4>2, <4>3
    <3> QED BY <3>2, <3>3
  <2>7. z = r
    BY <2>2, <2>4, <2>5, <2>6, SeqEqual
  <2> QED BY <2>7 DEF z, r, x, y, v
<1> QED BY <1>1, <1>2

\* What is sent arrives as it was.
LEMMA StrippedEncoded ==
    ASSUME TypeOK, NEW p \in Peers, NEW q \in Seq(Packets(Types))
    PROVE  Stripped(Encoded(p, q)) = SubSeq(q, 1, Sendable(p, q))
<1> DEFINE n == Sendable(p, q)  e == Encoded(p, q)  x == Stripped(e)  y == SubSeq(q, 1, n)
<1>1. n \in 0..Len(q) /\ Len(q) \in Nat
  BY SendableInRange, EmptySeq
<1>2. /\ e \in Seq(Encodings) /\ Len(e) = n
      /\ \A i \in 1..n : e[i] = [type |-> q[i].type, n |-> q[i].n, key |-> bpp[p].outKey,
                                 comp |-> Compressed(p, q, i)]
  BY EncodedType
<1> HIDE DEF n, e
<1>3. /\ x \in Seq(Packets(Types)) /\ Len(x) = n
      /\ \A i \in 1..n : x[i] = Packet(e[i].type, e[i].n)
  BY <1>2, StrippedType
<1>4. /\ y \in Seq(Packets(Types)) /\ Len(y) = n
      /\ \A i \in 1..n : y[i] = q[i]
  BY <1>1, SubSeqProperties
<1> HIDE DEF x, y
<1>5. ASSUME NEW i \in 1..n
      PROVE  x[i] = y[i]
  <2>1. q[i] \in Packets(Types)
    BY <1>1
  <2>2. e[i].type = q[i].type /\ e[i].n = q[i].n
    BY <1>2
  <2> QED BY <1>3, <1>4, <2>1, <2>2, PacketTypes
<1>6. x = y
  BY <1>3, <1>4, <1>5, SeqEqual
<1> QED BY <1>6 DEF x, y, n, e

\* A line is a queue of packets.
LEMMA LineType ==
    ASSUME NEW i \in Seq(Packets(Types)), NEW w \in Seq(Encodings), NEW o \in Seq(Packets(Types))
    PROVE  LineOf(i, w, o) \in Seq(Packets(Types))
  BY StrippedType, ConcatProperties DEF LineOf

\* A packet queued for sending joins the end of the line.
LEMMA LineAppend ==
    ASSUME NEW i \in Seq(Packets(Types)), NEW w \in Seq(Encodings), NEW o \in Seq(Packets(Types)),
           NEW m \in Packets(Types)
    PROVE  LineOf(i, w, Append(o, m)) = Append(LineOf(i, w, o), m)
<1> DEFINE x == i \o Stripped(w)
<1>1. x \in Seq(Packets(Types))
  BY StrippedType, ConcatProperties
<1>2. LineOf(i, w, o) = x \o o /\ LineOf(i, w, Append(o, m)) = x \o Append(o, m)
  BY DEF LineOf
<1> HIDE DEF x
<1>3. x \o o \in Seq(Packets(Types)) /\ <<m>> \in Seq(Packets(Types))
  BY <1>1, ConcatProperties
<1>4. Append(o, m) = o \o <<m>> /\ Append(x \o o, m) = (x \o o) \o <<m>>
  BY <1>3, AppendIsConcat
<1>5. (x \o o) \o <<m>> = x \o (o \o <<m>>)
  BY <1>1, <1>3, ConcatAssociative
<1> QED BY <1>2, <1>4, <1>5

\* Packets queued for sending join the end of the line.
LEMMA LineJoin ==
    ASSUME NEW i \in Seq(Packets(Types)), NEW w \in Seq(Encodings), NEW o \in Seq(Packets(Types)),
           NEW h \in Seq(Packets(Types))
    PROVE  LineOf(i, w, o \o h) = LineOf(i, w, o) \o h
<1> DEFINE x == i \o Stripped(w)
<1>1. x \in Seq(Packets(Types))
  BY StrippedType, ConcatProperties
<1>2. LineOf(i, w, o) = x \o o /\ LineOf(i, w, o \o h) = x \o (o \o h)
  BY DEF LineOf
<1> HIDE DEF x
<1>4. (x \o o) \o h = x \o (o \o h)
  BY SMTT(30), <1>1, ConcatAssociative
<1> QED BY <1>2, <1>4

\* Taking a decoded packet takes the first of the line.
LEMMA LineTaken ==
    ASSUME NEW i \in Seq(Packets(Types)), NEW w \in Seq(Encodings), NEW o \in Seq(Packets(Types)),
           i # <<>>
    PROVE  /\ LineOf(i, w, o) # <<>> /\ Head(LineOf(i, w, o)) = Head(i)
           /\ LineOf(Tail(i), w, o) = Tail(LineOf(i, w, o))
<1> DEFINE x == i \o Stripped(w)
<1>1. x \in Seq(Packets(Types)) /\ Stripped(w) \in Seq(Packets(Types))
  BY StrippedType, ConcatProperties
<1>2. x # <<>> /\ Head(x) = Head(i) /\ Tail(x) = Tail(i) \o Stripped(w)
  BY <1>1, TailOfJoin
<1>3. LineOf(i, w, o) = x \o o /\ LineOf(Tail(i), w, o) = (Tail(i) \o Stripped(w)) \o o
  BY DEF LineOf
<1> HIDE DEF x
<1>4. x \o o # <<>> /\ Head(x \o o) = Head(x) /\ Tail(x \o o) = Tail(x) \o o
  BY <1>1, <1>2, TailOfJoin
<1> QED BY <1>2, <1>3, <1>4

\* Decoding a packet leaves the line as it was.
LEMMA LineDecoded ==
    ASSUME NEW i \in Seq(Packets(Types)), NEW w \in Seq(Encodings), NEW o \in Seq(Packets(Types)),
           w # <<>>
    PROVE  LineOf(Append(i, Packet(Head(w).type, Head(w).n)), Tail(w), o) = LineOf(i, w, o)
<1> DEFINE x == Stripped(w)
<1>1. x \in Seq(Packets(Types))
  BY StrippedType
<1>2. Stripped(Tail(w)) = Tail(x) /\ x # <<>> /\ Head(x) = Packet(Head(w).type, Head(w).n)
  BY StrippedMoves
<1> HIDE DEF x
<1>3. Append(i, Head(x)) \o Tail(x) = i \o x
  BY <1>1, <1>2, MoveFirst
<1> QED BY <1>2, <1>3 DEF LineOf, x

\* Sending leaves the line as it was.
LEMMA LineEncoded ==
    ASSUME TypeOK, NEW p \in Peers, NEW i \in Seq(Packets(Types)), NEW w \in Seq(Encodings),
           NEW q \in Seq(Packets(Types))
    PROVE  LineOf(i, w \o Encoded(p, q), Unsent(p, q)) = LineOf(i, w, q)
<1> DEFINE x == Stripped(w)  n == Sendable(p, q)  y == i \o x
<1>1. x \in Seq(Packets(Types)) /\ y \in Seq(Packets(Types)) /\ Encoded(p, q) \in Seq(Encodings)
  BY StrippedType, ConcatProperties, EncodedType
<1>2. n \in 0..Len(q) /\ SubSeq(q, 1, n) \in Seq(Packets(Types))
  <2>1. n \in 0..Len(q) /\ Len(q) \in Nat
    BY SendableInRange, EmptySeq
  <2> QED BY <2>1, SubSeqProperties
<1>3. Stripped(w \o Encoded(p, q)) = x \o SubSeq(q, 1, n)
  BY <1>1, StrippedMoves, StrippedEncoded
<1>4. Unsent(p, q) = SubSeq(q, n + 1, Len(q))
  BY DEF Unsent
<1>5. LineOf(i, w \o Encoded(p, q), Unsent(p, q)) = (i \o (x \o SubSeq(q, 1, n))) \o SubSeq(q, n + 1, Len(q))
  BY <1>3, <1>4 DEF LineOf
<1>6. LineOf(i, w, q) = y \o q
  BY DEF LineOf
<1> HIDE DEF n
<1>7. i \o (x \o SubSeq(q, 1, n)) = y \o SubSeq(q, 1, n)
  <2> HIDE DEF x
  <2>1. \A z \in Seq(Packets(Types)) : (i \o x) \o z = i \o (x \o z)
    BY SMTT(30), <1>1, ConcatAssociative
  <2> QED BY <1>2, <2>1, Zenon
<1> HIDE DEF y
<1>8. (y \o SubSeq(q, 1, n)) \o SubSeq(q, n + 1, Len(q)) = y \o q
  BY <1>1, <1>2, SplitJoin
<1> QED BY <1>5, <1>6, <1>7, <1>8

--------------------------------------------------------------------------------
(* What the steps do to the lines *)

\* Each line is a queue of packets.
LEMMA TypesOfLines ==
    ASSUME TypeOK, NEW p \in Peers
    PROVE  Line(p) \in Seq(Packets(Types))
  BY TypesOfAnEnd, PeersAreTwo, LineType DEF Line

\* The line from p is made of what o has decoded, what is on its way and what p has queued.
LEMMA LinesKept ==
    ASSUME TypeOK, NEW p \in Peers, inq'[Other(p)] = inq[Other(p)], wire'[Other(p)] = wire[Other(p)],
           outq'[p] = outq[p]
    PROVE  Line(p)' = Line(p)
  BY DEF Line

\* handle_output leaves both lines as they were.
LEMMA LineOfOutput ==
    ASSUME TypeOK, NEW p \in Peers, BppOutput(p)
    PROVE  \A q \in Peers : Line(q)' = Line(q)
<1>1. /\ inq' = inq /\ wire'[p] = wire[p] /\ outq'[Other(p)] = outq[Other(p)]
      /\ wire'[Other(p)] = wire[Other(p)] \o Encoded(p, outq[p]) /\ outq'[p] = Unsent(p, outq[p])
  BY PeersAreTwo DEF BppOutput, TypeOK
<1>2. Line(p)' = Line(p)
  BY <1>1, TypesOfAnEnd, PeersAreTwo, LineEncoded DEF Line
<1>3. Line(Other(p))' = Line(Other(p))
  BY <1>1, PeersAreTwo DEF Line
<1> QED BY <1>2, <1>3, PeersAreTwo

\* handle_input leaves both lines as they were, if it can decode the packet.
LEMMA LineOfInput ==
    ASSUME TypeOK, NEW p \in Peers, BppInput(p), fault' # "garbled"
    PROVE  \A q \in Peers : Line(q)' = Line(q)
<1>1. /\ outq' = outq /\ wire' = [wire EXCEPT ![p] = Tail(@)] /\ wire[p] # <<>>
      /\ inq' = [inq EXCEPT ![p] = Append(@, Packet(Head(wire[p]).type, Head(wire[p]).n))]
  BY DEF BppInput, CanRead
<1>2. /\ wire'[p] = Tail(wire[p]) /\ wire'[Other(p)] = wire[Other(p)] /\ inq'[Other(p)] = inq[Other(p)]
      /\ inq'[p] = Append(inq[p], Packet(Head(wire[p]).type, Head(wire[p]).n))
  BY <1>1, PeersAreTwo DEF TypeOK
<1>3. Line(p)' = Line(p)
  BY <1>1, <1>2 DEF Line
<1>4. Line(Other(p))' = Line(Other(p))
  BY <1>1, <1>2, TypesOfAnEnd, PeersAreTwo, LineDecoded DEF Line
<1> QED BY <1>3, <1>4, PeersAreTwo

\* The other end takes a packet: the line loses its first.
LEMMA LineOfTaken ==
    ASSUME TypeOK, NEW p \in Peers, NEW u, inq[p] # <<>>, Took(p, u),
           wire'[p] = wire[p], outq'[Other(p)] = outq[Other(p)]
    PROVE  /\ Line(Other(p)) # <<>> /\ Head(Line(Other(p))) = Head(inq[p])
           /\ Head(Line(Other(p))).type = u /\ Line(Other(p))' = Tail(Line(Other(p)))
<1>1. inq' = [inq EXCEPT ![p] = Tail(@)] /\ Head(inq[p]).type = u
  BY DEF Took
<1>2. inq'[p] = Tail(inq[p])
  BY <1>1 DEF TypeOK
<1>3. Other(p) \in Peers /\ Other(Other(p)) = p
  BY PeersAreTwo
<1>4. /\ Line(Other(p)) = LineOf(inq[p], wire[p], outq[Other(p)])
      /\ Line(Other(p))' = LineOf(Tail(inq[p]), wire[p], outq[Other(p)])
  BY <1>2, <1>3 DEF Line
<1>5. inq[p] \in Seq(Packets(Types)) /\ wire[p] \in Seq(Encodings) /\ outq[Other(p)] \in Seq(Packets(Types))
  BY <1>3, TypesOfAnEnd
<1> QED BY <1>1, <1>4, <1>5, LineTaken

--------------------------------------------------------------------------------
(* The transport layer's own packets: how many of each type an end has sent, *)
(* how many the other has taken, and in which order they can be in between   *)

Lower == {"kexinit", "kexreq", "kexreply", "newkeys", "svcreq", "svcack"}
Rounds(t, pcs) == t.begun - One(t.pc \in pcs)

Sent(p, t) ==
    [u \in Lower |->
        IF u = "kexinit" THEN t.begun
        ELSE IF u = "newkeys" THEN Rounds(t, OldKeyPCs)
        ELSE IF p = "client" /\ u = "kexreq" THEN Rounds(t, {"kexinit"})
        ELSE IF p = "server" /\ u = "kexreply" THEN Rounds(t, {"kexinit", "kexreq"})
        ELSE IF p = "client" /\ u = "svcreq" THEN One(t.pc = "service" \/ t.ok)
        ELSE IF p = "server" /\ u = "svcack" THEN One(t.ok)
        ELSE 0]

Taken(p, t) ==
    [u \in Lower |->
        IF u = "kexinit" THEN Rounds(t, {"kexinit"})
        ELSE IF u = "newkeys" THEN Rounds(t, KexPCs)
        ELSE IF p = "server" /\ u = "kexreq" THEN Rounds(t, {"kexinit", "kexreq"})
        ELSE IF p = "client" /\ u = "kexreply" THEN Rounds(t, {"kexinit", "kexreply"})
        ELSE IF (p = "server" /\ u = "svcreq") \/ (p = "client" /\ u = "svcack") THEN One(t.ok)
        ELSE 0]

\* A packet of type u is sent only when none of these types is still on its way.
Precludes ==
    [kexinit |-> {"kexinit", "kexreq"}, kexreq |-> {"kexreq"}, kexreply |-> {"kexreply", "newkeys"},
     newkeys |-> {"newkeys", "kexinit", "svcreq"}, svcreq |-> {"svcreq"}, svcack |-> {"svcack", "kexinit"}]

Travels(q, a, b) ==
    /\ \A u \in Lower : \/ a[u] = b[u] /\ ~Has(q, u)
                        \/ a[u] = b[u] + 1 /\ Has(q, u)
    /\ \A u \in Lower : \A v \in Precludes[u] : Ahead(q, u, v)

\* A packet that may be sent keeps the counts and the order in agreement.
LEMMA TravelsSend ==
    ASSUME NEW q \in Seq(Packets(Types)), NEW a \in [Lower -> Int], NEW b \in [Lower -> Int],
           Travels(q, a, b), NEW m \in Packets(Types), m.type \in Lower,
           \A v \in Precludes[m.type] : a[v] = b[v]
    PROVE  Travels(Append(q, m), [a EXCEPT ![m.type] = @ + 1], b)
<1> DEFINE r == Append(q, m)  x == [a EXCEPT ![m.type] = @ + 1]
<1>1. /\ \A t : Has(r, t) <=> Has(q, t) \/ m.type = t
      /\ \A u, v : Ahead(q, u, v) /\ (m.type = u => ~Has(q, v)) => Ahead(r, u, v)
  BY AppendToQueue
<1>2. \A u \in Lower : x[u] = IF u = m.type THEN a[u] + 1 ELSE a[u]
  OBVIOUS
<1>3. \A u \in Lower : u \in Precludes[u] /\ Precludes[u] \subseteq Lower
  BY DEF Precludes, Lower
<1> HIDE DEF r, x
<1>4. \A v \in Precludes[m.type] : ~Has(q, v)
  BY <1>3 DEF Travels
<1>5. \A u \in Lower : \/ x[u] = b[u] /\ ~Has(r, u)
                       \/ x[u] = b[u] + 1 /\ Has(r, u)
  BY <1>1, <1>2, <1>3, <1>4 DEF Travels
<1>6. \A u \in Lower : \A v \in Precludes[u] : Ahead(r, u, v)
  BY <1>1, <1>4 DEF Travels
<1> QED BY <1>5, <1>6 DEF Travels, r, x

\* Taking the first packet keeps the counts and the order in agreement.
LEMMA TravelsTake ==
    ASSUME NEW q \in Seq(Packets(Types)), NEW a \in [Lower -> Int], NEW b \in [Lower -> Int],
           Travels(q, a, b), q # <<>>, NEW t \in Lower, Head(q).type = t
    PROVE  /\ Travels(Tail(q), a, [b EXCEPT ![t] = @ + 1])
           /\ a[t] = b[t] + 1
           /\ \A u \in Lower \ {t} : t \in Precludes[u] => a[u] = b[u]
<1> DEFINE r == Tail(q)  x == [b EXCEPT ![t] = @ + 1]
<1>1. /\ Has(q, t) /\ (Ahead(q, t, t) => ~Has(r, t))
      /\ \A u : u # t => (Has(r, u) <=> Has(q, u))
      /\ \A u, v : Ahead(q, u, v) => Ahead(r, u, v)
      /\ \A u : u # t /\ Ahead(q, u, t) => ~Has(q, u)
  BY TailOfQueue
<1>2. \A u \in Lower : x[u] = IF u = t THEN b[u] + 1 ELSE b[u]
  OBVIOUS
<1>3. t \in Precludes[t]
  BY DEF Precludes, Lower
<1> HIDE DEF r, x
<1>4. ~Has(r, t)
  BY <1>1, <1>3 DEF Travels
<1>5. \A u \in Lower : \/ a[u] = x[u] /\ ~Has(r, u)
                       \/ a[u] = x[u] + 1 /\ Has(r, u)
  BY <1>1, <1>2, <1>4 DEF Travels
<1>6. \A u \in Lower : \A v \in Precludes[u] : Ahead(r, u, v)
  BY <1>1 DEF Travels
<1>7. a[t] = b[t] + 1
  BY <1>1 DEF Travels
<1>8. \A u \in Lower \ {t} : t \in Precludes[u] => a[u] = b[u]
  BY <1>1 DEF Travels
<1> QED BY <1>5, <1>6, <1>7, <1>8 DEF Travels, r, x

\* Packets of the layer above come and go without disturbing this.
LEMMA TravelsUpper ==
    ASSUME NEW q \in Seq(Packets(Types)), NEW a \in [Lower -> Int], NEW b \in [Lower -> Int],
           Travels(q, a, b)
    PROVE  /\ \A h \in Seq(Packets(Upper)) : Travels(q \o h, a, b)
           /\ q # <<>> /\ Head(q).type \in Upper => Travels(Tail(q), a, b)
<1>1. Upper \cap Lower = {}
  BY DEF Upper, UserAuth, Lower
<1>2. ASSUME NEW h \in Seq(Packets(Upper))
      PROVE  Travels(q \o h, a, b)
  <2>1. \A u \in Lower : ~Has(h, u)
    <3> SUFFICES ASSUME NEW u \in Lower, NEW i \in 1..Len(h), h[i].type = u
                 PROVE  FALSE
      BY DEF Has
    <3>1. h[i] \in Packets(Upper)
      OBVIOUS
    <3> QED BY <1>1, <3>1 DEF Packets
  <2>2. h \in Seq(Packets(Types))
    BY HeldArePackets
  <2>3. /\ \A t : Has(q \o h, t) <=> Has(q, t) \/ Has(h, t)
        /\ \A u, v : Ahead(q, u, v) /\ ~Has(h, u) => Ahead(q \o h, u, v)
    BY <2>2, JoinedQueues
  <2> QED BY <2>1, <2>3 DEF Travels
<1>3. ASSUME q # <<>>, Head(q).type \in Upper
      PROVE  Travels(Tail(q), a, b)
  <2>1. PICK t : t = Head(q).type
    OBVIOUS
  <2>2. /\ \A u : u # t => (Has(Tail(q), u) <=> Has(q, u))
        /\ \A u, v : Ahead(q, u, v) => Ahead(Tail(q), u, v)
    BY <1>3, <2>1, TailOfQueue
  <2>3. \A u \in Lower : u # t
    BY <1>1, <1>3, <2>1
  <2> QED BY <2>2, <2>3 DEF Travels
<1> QED BY <1>2, <1>3

\* How the counts follow the coroutine
More(f, u) == [f EXCEPT ![u] = @ + 1]

\* A count raised by one is still a count.
LEMMA MoreType ==
    \A f \in [Lower -> Int], u \in Lower : More(f, u) \in [Lower -> Int]
  BY DEF More

\* The counts are numbers.
LEMMA CountsType ==
    ASSUME NEW p \in Peers, NEW t \in TransportState
    PROVE  Sent(p, t) \in [Lower -> Int] /\ Taken(p, t) \in [Lower -> Int]
<1>1. t.begun \in Int /\ \A pcs : Rounds(t, pcs) \in Int
  BY DEF TransportState, Rounds, One
<1>2. \A b : One(b) \in Int
  BY DEF One
<1> QED BY <1>1, <1>2 DEF Sent, Taken

\* The counts depend on where the coroutine waits, on the exchanges begun and on the service.
LEMMA CountsKept ==
    ASSUME NEW p \in Peers, NEW t \in TransportState, NEW r \in TransportState,
           r.pc = t.pc, r.begun = t.begun, r.ok <=> t.ok
    PROVE  Sent(p, r) = Sent(p, t) /\ Taken(p, r) = Taken(p, t)
<1>1. \A u \in Lower : Taken(p, r)[u] = Taken(p, t)[u] /\ Sent(p, r)[u] = Sent(p, t)[u]
  BY DEF Sent, Taken, Rounds, One, Lower, TransportState
<1> QED BY <1>1, CountsType

\* An exchange begun counts as one KEXINIT sent.
LEMMA CountsBegun ==
    ASSUME NEW p \in Peers, NEW t \in TransportState, NEW r \in TransportState, Phases(p, t),
           t.pc \in {"start", "idle"}, r.pc = "kexinit", r.begun = t.begun + 1, r.ok <=> t.ok
    PROVE  Sent(p, r) = More(Sent(p, t), "kexinit") /\ Taken(p, r) = Taken(p, t)
<1>1. t.begun \in Nat
  BY DEF TransportState
<1>2. \A u \in Lower : /\ Taken(p, r)[u] = Taken(p, t)[u]
                       /\ Sent(p, r)[u] = Sent(p, t)[u] + (IF u = "kexinit" THEN 1 ELSE 0)
  BY <1>1 DEF Sent, Taken, Rounds, One, Lower, KexPCs, OldKeyPCs, Phases
<1> QED BY <1>2, CountsType DEF More

\* The other end's KEXINIT counts as taken; the client's KEXREQ as sent.
LEMMA CountsOfKexinit ==
    ASSUME NEW p \in Peers, NEW t \in TransportState, NEW r \in TransportState, Phases(p, t),
           t.pc = "kexinit", r.pc = (IF p = "client" THEN "kexreply" ELSE "kexreq"),
           r.begun = t.begun, r.ok <=> t.ok
    PROVE  /\ Taken(p, r) = More(Taken(p, t), "kexinit")
           /\ Sent(p, r) = IF p = "client" THEN More(Sent(p, t), "kexreq") ELSE Sent(p, t)
<1>1. t.begun \in Nat
  BY DEF TransportState
<1>2. \A u \in Lower :
        /\ Taken(p, r)[u] = Taken(p, t)[u] + (IF u = "kexinit" THEN 1 ELSE 0)
        /\ Sent(p, r)[u] = Sent(p, t)[u] + (IF u = "kexreq" /\ p = "client" THEN 1 ELSE 0)
  BY <1>1 DEF Sent, Taken, Rounds, One, Lower, KexPCs, OldKeyPCs, Phases, Peers
<1> QED BY <1>2, CountsType DEF More

\* The server has the client's half of the exchange; the client has the server's; the
\* client also waits for the user once.
LEMMA CountsOfExchange ==
    ASSUME NEW p \in Peers, NEW t \in TransportState, NEW r \in TransportState, Phases(p, t),
           r.begun = t.begun, r.ok <=> t.ok
    PROVE  /\ t.pc = "kexreq" /\ r.pc = "newkeys" =>
                /\ p = "server"
                /\ Taken(p, r) = More(Taken(p, t), "kexreq")
                /\ Sent(p, r) = More(More(Sent(p, t), "kexreply"), "newkeys")
           /\ t.pc = "kexreply" /\ r.pc = "newkeys" =>
                /\ p = "client"
                /\ Taken(p, r) = More(Taken(p, t), "kexreply") /\ Sent(p, r) = More(Sent(p, t), "newkeys")
           /\ t.pc = "kexreply" /\ r.pc = "hostkey" =>
                /\ p = "client"
                /\ Taken(p, r) = More(Taken(p, t), "kexreply") /\ Sent(p, r) = Sent(p, t)
           /\ t.pc = "hostkey" /\ r.pc = "newkeys" =>
                /\ p = "client"
                /\ Taken(p, r) = Taken(p, t) /\ Sent(p, r) = More(Sent(p, t), "newkeys")
<1>1. t.begun \in Nat
  BY DEF TransportState
<1>2. ASSUME t.pc = "kexreq", r.pc = "newkeys"
      PROVE  p = "server" /\ \A u \in Lower :
                /\ Taken(p, r)[u] = Taken(p, t)[u] + (IF u = "kexreq" THEN 1 ELSE 0)
                /\ Sent(p, r)[u] = Sent(p, t)[u] + (IF u \in {"kexreply", "newkeys"} THEN 1 ELSE 0)
  BY <1>1, <1>2 DEF Sent, Taken, Rounds, One, Lower, KexPCs, OldKeyPCs, Phases, Peers
<1>3. ASSUME t.pc = "kexreply", r.pc \in {"newkeys", "hostkey"}
      PROVE  p = "client" /\ \A u \in Lower :
                /\ Taken(p, r)[u] = Taken(p, t)[u] + (IF u = "kexreply" THEN 1 ELSE 0)
                /\ Sent(p, r)[u] = Sent(p, t)[u] + (IF u = "newkeys" /\ r.pc = "newkeys" THEN 1 ELSE 0)
  BY <1>1, <1>3 DEF Sent, Taken, Rounds, One, Lower, KexPCs, OldKeyPCs, Phases, Peers
<1>4. ASSUME t.pc = "hostkey", r.pc = "newkeys"
      PROVE  p = "client" /\ \A u \in Lower :
                /\ Taken(p, r)[u] = Taken(p, t)[u]
                /\ Sent(p, r)[u] = Sent(p, t)[u] + (IF u = "newkeys" THEN 1 ELSE 0)
  BY <1>1, <1>4 DEF Sent, Taken, Rounds, One, Lower, KexPCs, OldKeyPCs, Phases, Peers
<1> QED BY <1>2, <1>3, <1>4, CountsType DEF More, Lower

\* The other end's NEWKEYS counts as taken, with what may be sent at once.
LEMMA CountsOfNewkeys ==
    ASSUME NEW p \in Peers, NEW t \in TransportState, NEW r \in TransportState, Phases(p, t),
           t.pc = "newkeys", r.ok <=> t.ok
    PROVE  /\ r.pc = "kexinit" /\ r.begun = t.begun + 1 =>
                Taken(p, r) = More(Taken(p, t), "newkeys") /\ Sent(p, r) = More(Sent(p, t), "kexinit")
           /\ r.pc = "idle" /\ r.begun = t.begun /\ t.ok =>
                Taken(p, r) = More(Taken(p, t), "newkeys") /\ Sent(p, r) = Sent(p, t)
           /\ r.pc = "service" /\ r.begun = t.begun /\ ~t.ok =>
                /\ Taken(p, r) = More(Taken(p, t), "newkeys")
                /\ Sent(p, r) = IF p = "client" THEN More(Sent(p, t), "svcreq") ELSE Sent(p, t)
<1>1. t.begun \in Nat
  BY DEF TransportState
<1>2. ASSUME r.pc = "kexinit", r.begun = t.begun + 1
      PROVE  \A u \in Lower :
                /\ Taken(p, r)[u] = Taken(p, t)[u] + (IF u = "newkeys" THEN 1 ELSE 0)
                /\ Sent(p, r)[u] = Sent(p, t)[u] + (IF u = "kexinit" THEN 1 ELSE 0)
  BY <1>1, <1>2 DEF Sent, Taken, Rounds, One, Lower, KexPCs, OldKeyPCs, Phases, Peers
<1>3. ASSUME r.pc \in {"idle", "service"}, r.begun = t.begun, r.pc = "service" <=> ~t.ok
      PROVE  \A u \in Lower :
                /\ Taken(p, r)[u] = Taken(p, t)[u] + (IF u = "newkeys" THEN 1 ELSE 0)
                /\ Sent(p, r)[u] = Sent(p, t)[u]
                                   + (IF u = "svcreq" /\ r.pc = "service" /\ p = "client" THEN 1 ELSE 0)
  BY <1>1, <1>3 DEF Sent, Taken, Rounds, One, Lower, KexPCs, OldKeyPCs, Phases, Peers
<1> QED BY <1>2, <1>3, CountsType DEF More, Lower

\* The service agreed counts as one packet taken, and one sent by the server.
LEMMA CountsOfService ==
    ASSUME NEW p \in Peers, NEW t \in TransportState, NEW r \in TransportState, Phases(p, t),
           t.pc = "service", r.pc = "idle", r.begun = t.begun, r.ok
    PROVE  /\ Taken(p, r) = More(Taken(p, t), IF p = "client" THEN "svcack" ELSE "svcreq")
           /\ Sent(p, r) = IF p = "server" THEN More(Sent(p, t), "svcack") ELSE Sent(p, t)
<1>1. t.begun \in Nat
  BY DEF TransportState
<1>2. \A u \in Lower :
        /\ Taken(p, r)[u] = Taken(p, t)[u]
                            + (IF u = (IF p = "client" THEN "svcack" ELSE "svcreq") THEN 1 ELSE 0)
        /\ Sent(p, r)[u] = Sent(p, t)[u] + (IF u = "svcack" /\ p = "server" THEN 1 ELSE 0)
  BY <1>1 DEF Sent, Taken, Rounds, One, Lower, KexPCs, OldKeyPCs, Phases, Peers
<1> QED BY <1>2, CountsType DEF More, Lower

--------------------------------------------------------------------------------
(* What the two ends' counts say of each other *)

Flow(p) == Travels(Line(p), Sent(p, tr[p]), Taken(Other(p), tr[Other(p)]))
Flowing == \A p \in Peers : Flow(p)

Within(taken, sent) == taken <= sent /\ sent <= taken + 1

\* c is the client's state, s the server's: neither has taken more than the other has sent,
\* and at most one packet of each type is on its way.
Agree(c, s) ==
    /\ Within(Rounds(s, {"kexinit"}), c.begun) /\ Within(Rounds(c, {"kexinit"}), s.begun)
    /\ Within(Rounds(s, {"kexinit", "kexreq"}), Rounds(c, {"kexinit"}))
    /\ Within(Rounds(c, {"kexinit", "kexreply"}), Rounds(s, {"kexinit", "kexreq"}))
    /\ Within(Rounds(s, KexPCs), Rounds(c, OldKeyPCs)) /\ Within(Rounds(c, KexPCs), Rounds(s, OldKeyPCs))
    /\ (c.ok => s.ok) /\ (s.ok => c.pc = "service" \/ c.ok)

\* The counts of each type, spelt out.
LEMMA ValuesOfCounts ==
    ASSUME NEW c, NEW s
    PROVE  /\ Sent("client", c)["kexinit"] = c.begun /\ Taken("client", c)["kexinit"] = Rounds(c, {"kexinit"})
           /\ Sent("server", s)["kexinit"] = s.begun /\ Taken("server", s)["kexinit"] = Rounds(s, {"kexinit"})
           /\ Sent("client", c)["kexreq"] = Rounds(c, {"kexinit"}) /\ Taken("client", c)["kexreq"] = 0
           /\ Sent("server", s)["kexreq"] = 0 /\ Taken("server", s)["kexreq"] = Rounds(s, {"kexinit", "kexreq"})
           /\ Sent("client", c)["kexreply"] = 0
           /\ Taken("client", c)["kexreply"] = Rounds(c, {"kexinit", "kexreply"})
           /\ Sent("server", s)["kexreply"] = Rounds(s, {"kexinit", "kexreq"}) /\ Taken("server", s)["kexreply"] = 0
           /\ Sent("client", c)["newkeys"] = Rounds(c, OldKeyPCs) /\ Taken("client", c)["newkeys"] = Rounds(c, KexPCs)
           /\ Sent("server", s)["newkeys"] = Rounds(s, OldKeyPCs) /\ Taken("server", s)["newkeys"] = Rounds(s, KexPCs)
           /\ Sent("client", c)["svcreq"] = One(c.pc = "service" \/ c.ok) /\ Taken("client", c)["svcreq"] = 0
           /\ Sent("server", s)["svcreq"] = 0 /\ Taken("server", s)["svcreq"] = One(s.ok)
           /\ Sent("client", c)["svcack"] = 0 /\ Taken("client", c)["svcack"] = One(c.ok)
           /\ Sent("server", s)["svcack"] = One(s.ok) /\ Taken("server", s)["svcack"] = 0
  BY DEF Sent, Taken, Lower

\* Lines in order mean that neither end has taken more than was sent.
LEMMA CountsAgree ==
    ASSUME TypeOK, Flowing
    PROVE  Agree(tr["client"], tr["server"])
<1> DEFINE c == tr["client"]  s == tr["server"]
<1>1. /\ c \in TransportState /\ s \in TransportState
      /\ Travels(Line("client"), Sent("client", c), Taken("server", s))
      /\ Travels(Line("server"), Sent("server", s), Taken("client", c))
  BY DEF TypeOK, Flowing, Flow, Peers, Other
<1>2. /\ Sent("client", c) \in [Lower -> Int] /\ Taken("client", c) \in [Lower -> Int]
      /\ Sent("server", s) \in [Lower -> Int] /\ Taken("server", s) \in [Lower -> Int]
  BY <1>1, CountsType DEF Peers
<1> HIDE DEF c, s
<1>3. \A u \in Lower : /\ Within(Taken("server", s)[u], Sent("client", c)[u])
                       /\ Within(Taken("client", c)[u], Sent("server", s)[u])
  BY <1>1, <1>2 DEF Travels, Within
<1>4. {"kexinit", "kexreq", "kexreply", "newkeys", "svcreq", "svcack"} \subseteq Lower
  BY DEF Lower
<1>5. (c.ok => s.ok) /\ (s.ok => c.pc = "service" \/ c.ok)
  <2>1. One(c.ok) <= One(s.ok) /\ One(s.ok) <= One(c.pc = "service" \/ c.ok)
    BY <1>3, <1>4, ValuesOfCounts DEF Within
  <2> QED BY <2>1 DEF One
<1>6. /\ Within(Rounds(s, {"kexinit"}), c.begun) /\ Within(Rounds(c, {"kexinit"}), s.begun)
      /\ Within(Rounds(s, {"kexinit", "kexreq"}), Rounds(c, {"kexinit"}))
      /\ Within(Rounds(c, {"kexinit", "kexreply"}), Rounds(s, {"kexinit", "kexreq"}))
      /\ Within(Rounds(s, KexPCs), Rounds(c, OldKeyPCs)) /\ Within(Rounds(c, KexPCs), Rounds(s, OldKeyPCs))
  <2>1. \A u \in {"kexinit", "kexreq", "kexreply", "newkeys"} :
            /\ Within(Taken("server", s)[u], Sent("client", c)[u])
            /\ Within(Taken("client", c)[u], Sent("server", s)[u])
    BY <1>3, <1>4
  <2>2. /\ Within(Taken("server", s)["kexinit"], Sent("client", c)["kexinit"])
        /\ Within(Taken("client", c)["kexinit"], Sent("server", s)["kexinit"])
        /\ Within(Taken("server", s)["kexreq"], Sent("client", c)["kexreq"])
        /\ Within(Taken("client", c)["kexreply"], Sent("server", s)["kexreply"])
        /\ Within(Taken("server", s)["newkeys"], Sent("client", c)["newkeys"])
        /\ Within(Taken("client", c)["newkeys"], Sent("server", s)["newkeys"])
    BY <2>1
  <2> QED BY <2>2, ValuesOfCounts
<1> QED BY <1>5, <1>6 DEF Agree, c, s

\* When the client may begin an exchange, its last KEXINIT and KEXREQ have been taken.
LEMMA ClientKexinitArithmetic ==
    ASSUME NEW c \in TransportState, NEW s \in TransportState, Phases("client", c), Phases("server", s),
           Agree(c, s),
           \/ c.pc \in {"start", "idle"}
           \/ c.pc = "newkeys" /\ Rounds(s, OldKeyPCs) = Rounds(c, KexPCs) + 1
    PROVE  c.begun = Rounds(s, {"kexinit"}) /\ Rounds(c, {"kexinit"}) = Rounds(s, {"kexinit", "kexreq"})
  BY DEF Phases, Agree, Within, Rounds, One, KexPCs, OldKeyPCs, TransportState

\* When the server may begin an exchange, its last KEXINIT has been taken.
LEMMA ServerKexinitArithmetic ==
    ASSUME NEW c \in TransportState, NEW s \in TransportState, Phases("client", c), Phases("server", s),
           Agree(c, s),
           \/ s.pc \in {"start", "idle"}
           \/ s.pc = "service" /\ Rounds(c, OldKeyPCs) = Rounds(s, KexPCs)
    PROVE  s.begun = Rounds(c, {"kexinit"})
  BY DEF Phases, Agree, Within, Rounds, One, KexPCs, OldKeyPCs, TransportState

\* When the client has the server's KEXINIT, its last KEXREQ has been taken.
LEMMA KexreqArithmetic ==
    ASSUME NEW c \in TransportState, NEW s \in TransportState, Phases("client", c), Phases("server", s),
           Agree(c, s),
           c.pc = "kexinit", s.begun = Rounds(c, {"kexinit"}) + 1, Rounds(s, OldKeyPCs) = Rounds(c, KexPCs)
    PROVE  Rounds(c, {"kexinit"}) = Rounds(s, {"kexinit", "kexreq"})
  BY DEF Phases, Agree, Within, Rounds, One, KexPCs, OldKeyPCs, TransportState

\* When the server has KEXREQ, its last KEXREPLY, NEWKEYS and KEXINIT have been taken.
LEMMA KexreplyArithmetic ==
    ASSUME NEW c \in TransportState, NEW s \in TransportState, Phases("client", c), Phases("server", s),
           Agree(c, s),
           s.pc = "kexreq", Rounds(c, {"kexinit"}) = Rounds(s, {"kexinit", "kexreq"}) + 1
    PROVE  /\ Rounds(s, {"kexinit", "kexreq"}) = Rounds(c, {"kexinit", "kexreply"})
           /\ Rounds(s, OldKeyPCs) = Rounds(c, KexPCs) /\ s.begun = Rounds(c, {"kexinit"})
  BY DEF Phases, Agree, Within, Rounds, One, KexPCs, OldKeyPCs, TransportState

\* When the client has KEXREPLY, its last NEWKEYS, KEXINIT and SERVICE_REQUEST have been taken.
LEMMA ClientNewkeysArithmetic ==
    ASSUME NEW c \in TransportState, NEW s \in TransportState, Phases("client", c), Phases("server", s),
           Agree(c, s),
           \/ c.pc = "hostkey"
           \/ c.pc = "kexreply" /\ Rounds(s, {"kexinit", "kexreq"}) = Rounds(c, {"kexinit", "kexreply"}) + 1
    PROVE  /\ Rounds(c, OldKeyPCs) = Rounds(s, KexPCs) /\ c.begun = Rounds(s, {"kexinit"})
           /\ One(c.pc = "service" \/ c.ok) = One(s.ok)
<1>1. One(c.pc = "service" \/ c.ok) = One(s.ok)
  BY DEF Agree, One
<1>2. Rounds(c, OldKeyPCs) = Rounds(s, KexPCs) /\ c.begun = Rounds(s, {"kexinit"})
  BY DEF Phases, Agree, Within, Rounds, One, KexPCs, OldKeyPCs, TransportState
<1> QED BY <1>1, <1>2

--------------------------------------------------------------------------------
(* Each step leaves the lines and the counts in agreement *)

\* Nothing that a packet of type u must not overtake or repeat is on its way from p.
May(p, u) == \A v \in Precludes[u] : Sent(p, tr[p])[v] = Taken(Other(p), tr[Other(p)])[v]

\* A step of p keeps both directions in order if it does so for p's and for the other's.
LEMMA FlowAfter ==
    ASSUME NEW p \in Peers, tr'[Other(p)] = tr[Other(p)],
           Travels(Line(p)', Sent(p, tr'[p]), Taken(Other(p), tr[Other(p)])),
           Travels(Line(Other(p))', Sent(Other(p), tr[Other(p)]), Taken(p, tr'[p]))
    PROVE  Flowing'
<1>1. Other(p) \in Peers /\ Other(Other(p)) = p /\ \A q \in Peers : q = p \/ q = Other(p)
  BY PeersAreTwo
<1>2. Flow(p)' /\ Flow(Other(p))'
  BY <1>1 DEF Flow
<1> QED BY <1>1, <1>2 DEF Flowing

\* Both directions before a step of p.
LEMMA FlowBefore ==
    ASSUME TypeOK, Flowing, NEW p \in Peers
    PROVE  /\ Travels(Line(p), Sent(p, tr[p]), Taken(Other(p), tr[Other(p)]))
           /\ Travels(Line(Other(p)), Sent(Other(p), tr[Other(p)]), Taken(p, tr[p]))
           /\ Line(p) \in Seq(Packets(Types)) /\ Line(Other(p)) \in Seq(Packets(Types))
           /\ Sent(p, tr[p]) \in [Lower -> Int] /\ Taken(p, tr[p]) \in [Lower -> Int]
           /\ Sent(Other(p), tr[Other(p)]) \in [Lower -> Int]
           /\ Taken(Other(p), tr[Other(p)]) \in [Lower -> Int]
<1>1. Other(p) \in Peers /\ Other(Other(p)) = p
  BY PeersAreTwo
<1>2. Flow(p) /\ Flow(Other(p))
  BY <1>1 DEF Flowing
<1>3. tr[p] \in TransportState /\ tr[Other(p)] \in TransportState
  BY <1>1, TypesOfAnEnd
<1> QED BY <1>1, <1>2, <1>3, CountsType, TypesOfLines DEF Flow

\* p sends a packet.
LEMMA FlowSends ==
    ASSUME TypeOK, Flowing, NEW p \in Peers, NEW m \in Packets(Types), m.type \in Lower, May(p, m.type)
    PROVE  Travels(Append(Line(p), m), More(Sent(p, tr[p]), m.type), Taken(Other(p), tr[Other(p)]))
  BY FlowBefore, TravelsSend DEF May, More

\* p takes a packet.
LEMMA FlowTakes ==
    ASSUME TypeOK, Flowing, NEW p \in Peers, NEW u \in Lower,
           Line(Other(p)) # <<>>, Head(Line(Other(p))).type = u
    PROVE  /\ Travels(Tail(Line(Other(p))), Sent(Other(p), tr[Other(p)]), More(Taken(p, tr[p]), u))
           /\ Sent(Other(p), tr[Other(p)])[u] = Taken(p, tr[p])[u] + 1
           /\ \A v \in Lower \ {u} : u \in Precludes[v] =>
                Sent(Other(p), tr[Other(p)])[v] = Taken(p, tr[p])[v]
<1>1. PICK q, a, b : q = Line(Other(p)) /\ a = Sent(Other(p), tr[Other(p)]) /\ b = Taken(p, tr[p])
  OBVIOUS
<1>2. q \in Seq(Packets(Types)) /\ a \in [Lower -> Int] /\ b \in [Lower -> Int] /\ Travels(q, a, b)
  BY <1>1, FlowBefore
<1>3. q # <<>> /\ Head(q).type = u
  BY <1>1
<1>4. /\ Travels(Tail(q), a, [b EXCEPT ![u] = @ + 1]) /\ a[u] = b[u] + 1
      /\ \A v \in Lower \ {u} : u \in Precludes[v] => a[v] = b[v]
  BY <1>2, <1>3, TravelsTake
<1> QED BY <1>1, <1>4 DEF More

\* The two ends by name.
LEMMA EndsByName ==
    ASSUME TypeOK, Locals, Flowing
    PROVE  /\ tr["client"] \in TransportState /\ tr["server"] \in TransportState
           /\ Phases("client", tr["client"]) /\ Phases("server", tr["server"])
           /\ Agree(tr["client"], tr["server"])
           /\ Other("client") = "server" /\ Other("server") = "client"
  BY TypesOfAnEnd, CountsAgree DEF Locals, Local, Peers, Other

\* An end that rests may send KEXINIT.
LEMMA MayBegin ==
    ASSUME TypeOK, Locals, Flowing, NEW p \in Peers, tr[p].pc \in {"start", "idle"}
    PROVE  May(p, "kexinit")
<1>1. Precludes["kexinit"] = {"kexinit", "kexreq"}
  BY DEF Precludes
<1>2. CASE p = "client"
  <2>1. /\ tr["client"].begun = Rounds(tr["server"], {"kexinit"})
        /\ Rounds(tr["client"], {"kexinit"}) = Rounds(tr["server"], {"kexinit", "kexreq"})
    BY <1>2, EndsByName, ClientKexinitArithmetic
  <2>2. May("client", "kexinit")
    BY <1>1, <2>1, EndsByName, ValuesOfCounts DEF May
  <2> QED BY <1>2, <2>2
<1>3. CASE p = "server"
  <2>1. tr["server"].begun = Rounds(tr["client"], {"kexinit"})
    BY <1>3, EndsByName, ServerKexinitArithmetic
  <2>2. \A v \in {"kexinit", "kexreq"} : Sent("server", tr["server"])[v] = Taken("client", tr["client"])[v]
    BY <2>1, ValuesOfCounts
  <2>3. May("server", "kexinit")
    BY <1>1, <2>2, EndsByName DEF May
  <2> QED BY <1>3, <2>3
<1> QED BY <1>2, <1>3 DEF Peers

\* An exchange that a deferred reason asks for begins with the NEWKEYS of the last one.
LEMMA MayBeginAgain ==
    ASSUME TypeOK, Locals, Flowing, tr["client"].pc = "newkeys",
           Sent("server", tr["server"])["newkeys"] = Taken("client", tr["client"])["newkeys"] + 1
    PROVE  May("client", "kexinit")
<1>1. Precludes["kexinit"] = {"kexinit", "kexreq"}
  BY DEF Precludes
<1>2. Rounds(tr["server"], OldKeyPCs) = Rounds(tr["client"], KexPCs) + 1
  BY ValuesOfCounts
<1>3. /\ tr["client"].begun = Rounds(tr["server"], {"kexinit"})
      /\ Rounds(tr["client"], {"kexinit"}) = Rounds(tr["server"], {"kexinit", "kexreq"})
  BY <1>2, EndsByName, ClientKexinitArithmetic
<1> QED BY <1>1, <1>3, EndsByName, ValuesOfCounts DEF May

\* A client that has the server's KEXINIT may send KEXREQ.
LEMMA MaySendKexreq ==
    ASSUME TypeOK, Locals, Flowing, tr["client"].pc = "kexinit",
           Sent("server", tr["server"])["kexinit"] = Taken("client", tr["client"])["kexinit"] + 1,
           Sent("server", tr["server"])["newkeys"] = Taken("client", tr["client"])["newkeys"]
    PROVE  May("client", "kexreq")
<1>1. Precludes["kexreq"] = {"kexreq"}
  BY DEF Precludes
<1>2. /\ tr["server"].begun = Rounds(tr["client"], {"kexinit"}) + 1
      /\ Rounds(tr["server"], OldKeyPCs) = Rounds(tr["client"], KexPCs)
  BY ValuesOfCounts
<1>3. Rounds(tr["client"], {"kexinit"}) = Rounds(tr["server"], {"kexinit", "kexreq"})
  BY <1>2, EndsByName, KexreqArithmetic
<1> QED BY <1>1, <1>3, EndsByName, ValuesOfCounts DEF May

\* A server that has KEXREQ may send KEXREPLY and NEWKEYS.
LEMMA MaySendKexreply ==
    ASSUME TypeOK, Locals, Flowing, tr["server"].pc = "kexreq",
           Sent("client", tr["client"])["kexreq"] = Taken("server", tr["server"])["kexreq"] + 1
    PROVE  May("server", "kexreply") /\ May("server", "newkeys")
<1>1. Precludes["kexreply"] = {"kexreply", "newkeys"} /\ Precludes["newkeys"] = {"newkeys", "kexinit", "svcreq"}
  BY DEF Precludes
<1>2. Rounds(tr["client"], {"kexinit"}) = Rounds(tr["server"], {"kexinit", "kexreq"}) + 1
  BY ValuesOfCounts
<1>3. /\ Rounds(tr["server"], {"kexinit", "kexreq"}) = Rounds(tr["client"], {"kexinit", "kexreply"})
      /\ Rounds(tr["server"], OldKeyPCs) = Rounds(tr["client"], KexPCs)
      /\ tr["server"].begun = Rounds(tr["client"], {"kexinit"})
  BY <1>2, EndsByName, KexreplyArithmetic
<1> QED BY <1>1, <1>3, EndsByName, ValuesOfCounts DEF May

\* A client that has KEXREPLY, and the host key accepted, may send NEWKEYS.
LEMMA MaySendNewkeys ==
    ASSUME TypeOK, Locals, Flowing,
           \/ tr["client"].pc = "hostkey"
           \/ /\ tr["client"].pc = "kexreply"
              /\ Sent("server", tr["server"])["kexreply"] = Taken("client", tr["client"])["kexreply"] + 1
    PROVE  May("client", "newkeys")
<1>1. Precludes["newkeys"] = {"newkeys", "kexinit", "svcreq"}
  BY DEF Precludes
<1>2. \/ tr["client"].pc = "hostkey"
      \/ /\ tr["client"].pc = "kexreply"
         /\ Rounds(tr["server"], {"kexinit", "kexreq"}) = Rounds(tr["client"], {"kexinit", "kexreply"}) + 1
  BY ValuesOfCounts
<1>3. /\ Rounds(tr["client"], OldKeyPCs) = Rounds(tr["server"], KexPCs)
      /\ tr["client"].begun = Rounds(tr["server"], {"kexinit"})
      /\ One(tr["client"].pc = "service" \/ tr["client"].ok) = One(tr["server"].ok)
  BY <1>2, EndsByName, ClientNewkeysArithmetic
<1> QED BY <1>1, <1>3, EndsByName, ValuesOfCounts DEF May

\* After the first exchange SERVICE_REQUEST and SERVICE_ACCEPT may be sent.
LEMMA MaySendService ==
    ASSUME TypeOK, Locals, Flowing
    PROVE  /\ tr["client"].pc = "newkeys" /\ ~tr["client"].ok => May("client", "svcreq")
           /\ /\ tr["server"].pc = "service"
              /\ Sent("client", tr["client"])["newkeys"] = Taken("server", tr["server"])["newkeys"]
              => May("server", "svcack")
<1>1. Precludes["svcreq"] = {"svcreq"} /\ Precludes["svcack"] = {"svcack", "kexinit"}
  BY DEF Precludes
<1>2. ASSUME tr["client"].pc = "newkeys", ~tr["client"].ok
      PROVE  May("client", "svcreq")
  <2>1. One(tr["client"].pc = "service" \/ tr["client"].ok) = One(tr["server"].ok)
    BY <1>2, EndsByName DEF Agree, One
  <2> QED BY <1>1, <2>1, EndsByName, ValuesOfCounts DEF May
<1>3. ASSUME tr["server"].pc = "service",
             Sent("client", tr["client"])["newkeys"] = Taken("server", tr["server"])["newkeys"]
      PROVE  May("server", "svcack")
  <2>1. tr["server"].begun = Rounds(tr["client"], {"kexinit"})
    BY <1>3, EndsByName, ValuesOfCounts, ServerKexinitArithmetic
  <2>2. One(tr["server"].ok) = One(tr["client"].ok)
    BY <1>3, EndsByName DEF Agree, One, Phases
  <2> QED BY <1>1, <2>1, <2>2, EndsByName, ValuesOfCounts DEF May
<1> QED BY <1>2, <1>3

--------------------------------------------------------------------------------
(* What each handler does to the two lines and to what is held back *)

\* A packet queued joins the line.
LEMMA LineOfSent ==
    ASSUME TypeOK, NEW p \in Peers, NEW m \in Packets(Types), inq'[Other(p)] = inq[Other(p)],
           wire'[Other(p)] = wire[Other(p)], outq'[p] = Append(outq[p], m)
    PROVE  Line(p)' = Append(Line(p), m)
  BY SMTT(30), TypesOfAnEnd, PeersAreTwo, LineAppend DEF Line

\* The effect on one end's queue of unsent packets, and on the other's.
LEMMA QueueOfSent ==
    ASSUME TypeOK, NEW p \in Peers, NEW q, outq' = [outq EXCEPT ![p] = q]
    PROVE  outq'[p] = q /\ outq'[Other(p)] = outq[Other(p)]
  BY PeersAreTwo DEF TypeOK

\* Taking a packet leaves the other end's queue alone.
LEMMA QueueOfTaken ==
    ASSUME TypeOK, NEW p \in Peers, NEW u, Took(p, u)
    PROVE  inq'[Other(p)] = inq[Other(p)]
  BY PeersAreTwo DEF TypeOK, Took

\* What the step to begin the first key exchange does to the lines.
LEMMA StartLines ==
    ASSUME TypeOK, NEW p \in Peers, Start(p)
    PROVE  /\ Line(p)' = Append(Line(p), Packet("kexinit", tr[p].conf))
           /\ Line(Other(p))' = Line(Other(p)) /\ held' = held
<1>1. /\ outq' = [outq EXCEPT ![p] = Append(outq[p], Packet("kexinit", tr[p].conf))]
      /\ inq' = inq /\ wire' = wire /\ held' = held
  BY DEF Start
<1>2. Packet("kexinit", tr[p].conf) \in Packets(Types)
  BY TypesOfAnEnd, OwnPacketTypes
<1> QED BY <1>1, <1>2, QueueOfSent, LineOfSent, LinesKept, PeersAreTwo

\* What the step to take the other end's KEXINIT does to the lines.
LEMMA RecvKexinitLines ==
    ASSUME TypeOK, NEW p \in Peers, RecvKexinit(p)
    PROVE  /\ Line(p)' = IF p = "client" THEN Append(Line(p), Packet("kexreq", 0)) ELSE Line(p)
           /\ Line(Other(p)) # <<>> /\ Head(Line(Other(p))).type = "kexinit"
           /\ Line(Other(p))' = Tail(Line(Other(p))) /\ held' = held
<1>1. /\ outq' = [outq EXCEPT ![p] = IF p = "client" THEN Append(outq[p], Packet("kexreq", 0)) ELSE outq[p]]
      /\ inq[p] # <<>> /\ Took(p, "kexinit") /\ wire' = wire /\ held' = held
  BY DEF RecvKexinit, Next1
<1>2. Packet("kexreq", 0) \in Packets(Types)
  BY OwnPacketTypes
<1>3. /\ outq'[p] = IF p = "client" THEN Append(outq[p], Packet("kexreq", 0)) ELSE outq[p]
      /\ outq'[Other(p)] = outq[Other(p)] /\ inq'[Other(p)] = inq[Other(p)]
  <2>1. PICK q : q = IF p = "client" THEN Append(outq[p], Packet("kexreq", 0)) ELSE outq[p]
    OBVIOUS
  <2>2. outq' = [outq EXCEPT ![p] = q]
    BY <1>1, <2>1
  <2> QED BY <1>1, <2>1, <2>2, QueueOfSent, QueueOfTaken
<1>4. Line(p)' = IF p = "client" THEN Append(Line(p), Packet("kexreq", 0)) ELSE Line(p)
  BY <1>1, <1>2, <1>3, LineOfSent, LinesKept
<1> QED BY <1>1, <1>3, <1>4, LineOfTaken

\* NEWKEYS joins the line, and what was held back follows it.
LEMMA LineOfNewkeys ==
    ASSUME TypeOK, NEW p \in Peers, NEW q \in Seq(Packets(Types)), SendNewkeys(p, q),
           inq'[Other(p)] = inq[Other(p)]
    PROVE  /\ Line(p)' = Append(LineOf(inq[Other(p)], wire[Other(p)], q), Packet("newkeys", 0)) \o held[p]
           /\ wire'[p] = wire[p] /\ outq'[Other(p)] = outq[Other(p)]
           /\ held' = [held EXCEPT ![p] = <<>>]
<1> DEFINE all == WithNewkeys(q)  m == Packet("newkeys", 0)
<1>1. all \in Seq(Packets(Types)) /\ m \in Packets(Types)
  BY WithNewkeysType, OwnPacketTypes
<1>2. all = Append(q, m)
  BY <1>1, AppendIsConcat DEF WithNewkeys
<1>3. /\ wire' = [wire EXCEPT ![Other(p)] = @ \o Encoded(p, all)]
      /\ outq' = [outq EXCEPT ![p] = Unsent(p, all) \o held[p]]
      /\ held' = [held EXCEPT ![p] = <<>>]
  BY DEF SendNewkeys, WithNewkeys
<1> HIDE DEF all, m
<1>4. /\ wire'[Other(p)] = wire[Other(p)] \o Encoded(p, all) /\ wire'[p] = wire[p]
      /\ outq'[p] = Unsent(p, all) \o held[p] /\ outq'[Other(p)] = outq[Other(p)]
  BY <1>3, PeersAreTwo DEF TypeOK
<1>5. /\ inq[Other(p)] \in Seq(Packets(Types)) /\ wire[Other(p)] \in Seq(Encodings)
      /\ held[p] \in Seq(Packets(Types))
  BY TypesOfAnEnd, PeersAreTwo
<1>6. Unsent(p, all) \in Seq(Packets(Types)) /\ wire[Other(p)] \o Encoded(p, all) \in Seq(Encodings)
  BY <1>1, <1>5, SendableInRange, EncodedType, ConcatProperties
<1>7. Line(p)' = LineOf(inq[Other(p)], wire[Other(p)] \o Encoded(p, all), Unsent(p, all) \o held[p])
  BY <1>4 DEF Line
<1>8. Line(p)' = LineOf(inq[Other(p)], wire[Other(p)] \o Encoded(p, all), Unsent(p, all)) \o held[p]
  BY ZenonT(30), <1>5, <1>6, <1>7, LineJoin
<1>9. Line(p)' = LineOf(inq[Other(p)], wire[Other(p)], all) \o held[p]
  BY <1>1, <1>5, <1>8, LineEncoded
<1>10. LineOf(inq[Other(p)], wire[Other(p)], all) = Append(LineOf(inq[Other(p)], wire[Other(p)], q), m)
  BY <1>1, <1>2, <1>5, LineAppend
<1> QED BY <1>3, <1>4, <1>9, <1>10 DEF m

\* What the step to take KEXREQ does to the lines.
LEMMA RecvKexreqLines ==
    ASSUME TypeOK, NEW p \in Peers, RecvKexreq(p)
    PROVE  /\ Line(p)' = Append(Append(Line(p), Packet("kexreply", 0)), Packet("newkeys", 0)) \o held[p]
           /\ Line(Other(p)) # <<>> /\ Head(Line(Other(p))).type = "kexreq"
           /\ Line(Other(p))' = Tail(Line(Other(p))) /\ held' = [held EXCEPT ![p] = <<>>]
<1> DEFINE m == Packet("kexreply", 0)
<1>1. m \in Packets(Types)
  BY OwnPacketTypes
<1>2. SendNewkeys(p, Append(outq[p], m)) /\ Took(p, "kexreq") /\ inq[p] # <<>>
  BY DEF RecvKexreq, Next1
<1> HIDE DEF m
<1>3. /\ outq[p] \in Seq(Packets(Types)) /\ inq'[Other(p)] = inq[Other(p)]
      /\ Append(outq[p], m) \in Seq(Packets(Types))
  BY <1>1, <1>2, TypesOfAnEnd, QueueOfTaken
<1>4. /\ Line(p)' = Append(LineOf(inq[Other(p)], wire[Other(p)], Append(outq[p], m)),
                           Packet("newkeys", 0)) \o held[p]
      /\ wire'[p] = wire[p] /\ outq'[Other(p)] = outq[Other(p)]
      /\ held' = [held EXCEPT ![p] = <<>>]
  BY <1>2, <1>3, LineOfNewkeys
<1>5. LineOf(inq[Other(p)], wire[Other(p)], Append(outq[p], m)) = Append(Line(p), m)
  BY SMTT(30), <1>1, <1>3, TypesOfAnEnd, PeersAreTwo, LineAppend DEF Line
<1>6. /\ Line(Other(p)) # <<>> /\ Head(Line(Other(p))).type = "kexreq"
      /\ Line(Other(p))' = Tail(Line(Other(p)))
  BY <1>2, <1>4, LineOfTaken
<1> QED BY <1>4, <1>5, <1>6 DEF m

\* What the step to take KEXREPLY does to the lines.
LEMMA RecvKexreplyLines ==
    ASSUME TypeOK, NEW p \in Peers, RecvKexreply(p)
    PROVE  /\ \/ tr[p].begun = 1 /\ Line(p)' = Line(p) /\ held' = held
              \/ /\ tr[p].begun # 1 /\ Line(p)' = Append(Line(p), Packet("newkeys", 0)) \o held[p]
                 /\ held' = [held EXCEPT ![p] = <<>>]
           /\ Line(Other(p)) # <<>> /\ Head(Line(Other(p))).type = "kexreply"
           /\ Line(Other(p))' = Tail(Line(Other(p)))
<1>1. Took(p, "kexreply") /\ inq[p] # <<>>
  BY DEF RecvKexreply, Next1
<1>2. inq'[Other(p)] = inq[Other(p)] /\ outq[p] \in Seq(Packets(Types))
  BY <1>1, QueueOfTaken, TypesOfAnEnd
<1>3. /\ \/ tr[p].begun = 1 /\ Line(p)' = Line(p) /\ held' = held
         \/ /\ tr[p].begun # 1 /\ Line(p)' = Append(Line(p), Packet("newkeys", 0)) \o held[p]
            /\ held' = [held EXCEPT ![p] = <<>>]
      /\ wire'[p] = wire[p] /\ outq'[Other(p)] = outq[Other(p)]
  <2>1. CASE tr[p].begun = 1
    BY <1>2, <2>1, LinesKept DEF RecvKexreply
  <2>2. CASE tr[p].begun # 1
    <3>1. SendNewkeys(p, outq[p])
      BY <2>2 DEF RecvKexreply
    <3> QED BY <1>2, <2>2, <3>1, LineOfNewkeys DEF Line
  <2> QED BY <2>1, <2>2
<1> QED BY <1>1, <1>3, LineOfTaken

\* What the step to accept the host key does to the lines.
LEMMA AcceptHostKeyLines ==
    ASSUME TypeOK, NEW p \in Peers, AcceptHostKey(p)
    PROVE  /\ Line(p)' = Append(Line(p), Packet("newkeys", 0)) \o held[p]
           /\ Line(Other(p))' = Line(Other(p)) /\ held' = [held EXCEPT ![p] = <<>>]
<1>1. SendNewkeys(p, outq[p]) /\ inq' = inq /\ outq[p] \in Seq(Packets(Types))
  BY TypesOfAnEnd DEF AcceptHostKey
<1>2. /\ Line(p)' = Append(Line(p), Packet("newkeys", 0)) \o held[p]
      /\ wire'[p] = wire[p] /\ outq'[Other(p)] = outq[Other(p)] /\ held' = [held EXCEPT ![p] = <<>>]
  BY <1>1, LineOfNewkeys DEF Line
<1> QED BY <1>1, <1>2, LinesKept, PeersAreTwo

\* What the step to take NEWKEYS does to the lines.
LEMMA RecvNewkeysLines ==
    ASSUME TypeOK, NEW p \in Peers, RecvNewkeys(p)
    PROVE  /\ Line(p)' = IF tr[p].deferred THEN Append(Line(p), Packet("kexinit", tr[p].conf))
                         ELSE IF p = "client" /\ ~tr[p].ok THEN Append(Line(p), Packet("svcreq", 0))
                         ELSE Line(p)
           /\ Line(Other(p)) # <<>> /\ Head(Line(Other(p))).type = "newkeys"
           /\ Line(Other(p))' = Tail(Line(Other(p))) /\ held' = held
<1>1. /\ outq' = [outq EXCEPT ![p] = IF tr[p].deferred THEN Append(outq[p], Packet("kexinit", tr[p].conf))
                                      ELSE IF p = "client" /\ ~tr[p].ok THEN Append(outq[p], Packet("svcreq", 0))
                                      ELSE outq[p]]
      /\ inq[p] # <<>> /\ Took(p, "newkeys") /\ wire' = wire /\ held' = held
  <2>1. (Finished(tr[p])).ok <=> tr[p].ok
    BY TypesOfAnEnd, FinishedFacts
  <2> QED BY <2>1 DEF RecvNewkeys, Next1
<1>2. Packet("kexinit", tr[p].conf) \in Packets(Types) /\ Packet("svcreq", 0) \in Packets(Types)
  BY TypesOfAnEnd, OwnPacketTypes
<1>3. /\ outq'[p] = IF tr[p].deferred THEN Append(outq[p], Packet("kexinit", tr[p].conf))
                    ELSE IF p = "client" /\ ~tr[p].ok THEN Append(outq[p], Packet("svcreq", 0))
                    ELSE outq[p]
      /\ outq'[Other(p)] = outq[Other(p)] /\ inq'[Other(p)] = inq[Other(p)]
  BY <1>1, QueueOfSent, QueueOfTaken
<1>4. CASE tr[p].deferred
  BY <1>1, <1>2, <1>3, <1>4, LineOfSent, LineOfTaken
<1>5. CASE ~tr[p].deferred /\ p = "client" /\ ~tr[p].ok
  BY <1>1, <1>2, <1>3, <1>5, LineOfSent, LineOfTaken
<1>6. CASE ~tr[p].deferred /\ ~(p = "client" /\ ~tr[p].ok)
  BY <1>1, <1>2, <1>3, <1>6, LinesKept, LineOfTaken
<1> QED BY <1>4, <1>5, <1>6

\* What the step to agree on the service does to the lines.
LEMMA RecvServiceLines ==
    ASSUME TypeOK, NEW p \in Peers, RecvService(p)
    PROVE  /\ Line(p)' = IF p = "server" THEN Append(Line(p), Packet("svcack", 0)) ELSE Line(p)
           /\ Line(Other(p)) # <<>>
           /\ Head(Line(Other(p))).type = (IF p = "client" THEN "svcack" ELSE "svcreq")
           /\ Line(Other(p))' = Tail(Line(Other(p))) /\ held' = held
<1>1. /\ outq' = [outq EXCEPT ![p] = IF p = "server" THEN Append(outq[p], Packet("svcack", 0)) ELSE outq[p]]
      /\ inq[p] # <<>> /\ Took(p, IF p = "client" THEN "svcack" ELSE "svcreq") /\ wire' = wire /\ held' = held
  BY DEF RecvService, Next1
<1>2. Packet("svcack", 0) \in Packets(Types)
  BY OwnPacketTypes
<1>3. /\ outq'[p] = IF p = "server" THEN Append(outq[p], Packet("svcack", 0)) ELSE outq[p]
      /\ outq'[Other(p)] = outq[Other(p)] /\ inq'[Other(p)] = inq[Other(p)]
  <2>1. PICK q : q = IF p = "server" THEN Append(outq[p], Packet("svcack", 0)) ELSE outq[p]
    OBVIOUS
  <2>2. outq' = [outq EXCEPT ![p] = q]
    BY <1>1, <2>1
  <2> QED BY <1>1, <2>1, <2>2, QueueOfSent, QueueOfTaken
<1>4. Line(p)' = IF p = "server" THEN Append(Line(p), Packet("svcack", 0)) ELSE Line(p)
  BY <1>1, <1>2, <1>3, LineOfSent, LinesKept
<1> QED BY <1>1, <1>3, <1>4, LineOfTaken

\* What the step to wait for a reason to rekey does to the lines.
LEMMA WaitForRekeyLines ==
    ASSUME TypeOK, NEW p \in Peers, WaitForRekey(p)
    PROVE  /\ \/ tr'[p].pc = "idle" /\ Line(p)' = Line(p) \o held[p]
              \/ tr'[p].pc = "kexinit" /\ Line(p)' = Append(Line(p) \o held[p], Packet("kexinit", tr[p].conf))
           /\ Line(Other(p))' = Line(Other(p)) /\ held' = [held EXCEPT ![p] = <<>>]
<1> DEFINE m == Packet("kexinit", tr[p].conf)
<1>1. /\ \/ tr'[p].pc = "idle" /\ outq' = [outq EXCEPT ![p] = Passed(p)]
         \/ tr'[p].pc = "kexinit" /\ outq' = [outq EXCEPT ![p] = Append(Passed(p), m)]
      /\ inq' = inq /\ wire' = wire /\ held' = [held EXCEPT ![p] = <<>>]
  <2>1. inq' = inq /\ wire' = wire /\ held' = [held EXCEPT ![p] = <<>>]
    BY DEF WaitForRekey
  <2> QED BY <2>1, WaitForRekeyFacts
<1>2. m \in Packets(Types)
  BY TypesOfAnEnd, OwnPacketTypes
<1> HIDE DEF m
<1>3. /\ inq[Other(p)] \in Seq(Packets(Types)) /\ wire[Other(p)] \in Seq(Encodings)
      /\ held[p] \in Seq(Packets(Types)) /\ outq[p] \in Seq(Packets(Types))
      /\ Passed(p) \in Seq(Packets(Types))
  BY TypesOfAnEnd, PeersAreTwo, ConcatProperties DEF Passed
<1>4. LineOf(inq[Other(p)], wire[Other(p)], Passed(p)) = Line(p) \o held[p]
  BY ZenonT(30), <1>3, LineJoin DEF Passed, Line
<1>5. PICK q : q = Passed(p)
  OBVIOUS
<1>6. LineOf(inq[Other(p)], wire[Other(p)], Append(q, m)) = Append(Line(p) \o held[p], m)
  <2>1. q \in Seq(Packets(Types)) /\ LineOf(inq[Other(p)], wire[Other(p)], q) = Line(p) \o held[p]
    BY <1>3, <1>4, <1>5
  <2>2. LineOf(inq[Other(p)], wire[Other(p)], Append(q, m)) = Append(LineOf(inq[Other(p)], wire[Other(p)], q), m)
    BY <1>2, <1>3, <2>1, LineAppend
  <2> QED BY <2>1, <2>2, Zenon
<1>7. CASE tr'[p].pc = "idle" /\ outq' = [outq EXCEPT ![p] = Passed(p)]
  <2>1. outq'[p] = q /\ outq'[Other(p)] = outq[Other(p)]
    BY <1>5, <1>7, QueueOfSent
  <2>2. Line(p)' = Line(p) \o held[p]
    BY <1>1, <1>4, <1>5, <2>1 DEF Line
  <2> QED BY <1>1, <1>7, <2>1, <2>2, LinesKept, PeersAreTwo
<1>8. CASE tr'[p].pc = "kexinit" /\ outq' = [outq EXCEPT ![p] = Append(Passed(p), m)]
  <2>1. outq'[p] = Append(q, m) /\ outq'[Other(p)] = outq[Other(p)]
    BY <1>5, <1>8, QueueOfSent
  <2>2. Line(p)' = Append(Line(p) \o held[p], m)
    BY <1>1, <1>6, <2>1 DEF Line
  <2>3. Line(Other(p))' = Line(Other(p))
    BY <1>1, <2>1, LinesKept, PeersAreTwo
  <2> QED BY <1>1, <1>8, <2>2, <2>3 DEF m
<1> QED BY <1>1, <1>7, <1>8, Zenon DEF m

\* What the step to pass a packet up does to the lines.
LEMMA PassUpLines ==
    ASSUME TypeOK, NEW p \in Peers, PassUp(p), fault' = "none"
    PROVE  /\ Line(p)' = Line(p) /\ held' = held /\ tr[p].ok
           /\ Line(Other(p)) # <<>> /\ Head(Line(Other(p))) = Head(inq[p]) /\ Head(inq[p]).type \in Upper
           /\ Line(Other(p))' = Tail(Line(Other(p)))
           /\ up' = [up EXCEPT ![p] = Delivered(@, Head(inq[p]))]
<1>1. /\ inq[p] # <<>> /\ Head(inq[p]).type \in Upper /\ tr[p].ok /\ wire' = wire /\ outq' = outq /\ held' = held
      /\ Took(p, Head(inq[p]).type) /\ up' = [up EXCEPT ![p] = Delivered(@, Head(inq[p]))]
  BY DEF PassUp, Took
<1>2. Line(p)' = Line(p)
  BY <1>1, QueueOfTaken, LinesKept
<1> QED BY <1>1, <1>2, LineOfTaken

--------------------------------------------------------------------------------
(* Counts and lines stay in agreement *)

\* What the layer above had to wait with follows without disturbing the counts.
LEMMA FlowHeld ==
    ASSUME TypeOK, NEW p \in Peers, NEW q \in Seq(Packets(Types)), NEW a \in [Lower -> Int],
           NEW b \in [Lower -> Int], Travels(q, a, b)
    PROVE  Travels(q \o held[p], a, b)
  BY TypesOfAnEnd, TravelsUpper

\* Nothing that counts.
LEMMA FlowKept ==
    ASSUME TypeOK, Flowing, NEW p \in Peers, tr'[Other(p)] = tr[Other(p)],
           NEW r \in TransportState, r = tr'[p], r.pc = tr[p].pc, r.begun = tr[p].begun, r.ok <=> tr[p].ok,
           Line(p)' = Line(p), Line(Other(p))' = Line(Other(p))
    PROVE  Flowing'
<1>1. Sent(p, tr'[p]) = Sent(p, tr[p]) /\ Taken(p, tr'[p]) = Taken(p, tr[p])
  BY TypesOfAnEnd, CountsKept
<1> QED BY <1>1, FlowBefore, FlowAfter

\* A step that touches neither the lines nor the coroutines keeps their agreement.
LEMMA NothingFlows ==
    ASSUME Flowing, tr' = tr, \A p \in Peers : Line(p)' = Line(p)
    PROVE  Flowing'
  BY DEF Flowing, Flow

\* An end's coroutine by itself.
LEMMA PhaseOf ==
    ASSUME TypeOK, Locals, NEW p \in Peers
    PROVE  Phases(p, tr[p]) /\ tr[p] \in TransportState
  BY TypesOfAnEnd DEF Locals, Local

\* The step to begin the first key exchange keeps counts and lines in agreement.
LEMMA StartFlow ==
    ASSUME TypeOK, Locals, Flowing, NEW p \in Peers, Start(p)
    PROVE  Flowing'
<1> DEFINE m == Packet("kexinit", tr[p].conf)
<1>1. PICK r : r = tr'[p]
  OBVIOUS
<1>2. r = Begun(tr[p]) /\ tr[p].pc = "start" /\ tr'[Other(p)] = tr[Other(p)]
  BY <1>1, PeersAreTwo DEF Start, TypeOK
<1>3. r \in TransportState /\ r.pc = "kexinit" /\ r.begun = tr[p].begun + 1 /\ (r.ok <=> tr[p].ok)
  BY <1>2, TypesOfAnEnd, BegunFacts, TransportOperatorsType
<1>4. Sent(p, r) = More(Sent(p, tr[p]), "kexinit") /\ Taken(p, r) = Taken(p, tr[p])
  BY <1>2, <1>3, PhaseOf, CountsBegun
<1>5. m \in Packets(Types) /\ m.type = "kexinit" /\ "kexinit" \in Lower
  BY TypesOfAnEnd, OwnPacketTypes DEF Lower
<1>6. May(p, "kexinit")
  BY <1>2, MayBegin
<1>7. Line(p)' = Append(Line(p), m) /\ Line(Other(p))' = Line(Other(p))
  BY StartLines
<1> HIDE DEF m
<1>8. Travels(Append(Line(p), m), More(Sent(p, tr[p]), "kexinit"), Taken(Other(p), tr[Other(p)]))
  BY <1>5, <1>6, FlowSends
<1> QED BY <1>1, <1>2, <1>4, <1>7, <1>8, FlowBefore, FlowAfter

\* The step to take the other end's KEXINIT keeps counts and lines in agreement.
LEMMA RecvKexinitFlow ==
    ASSUME TypeOK, Locals, Flowing, NEW p \in Peers, RecvKexinit(p)
    PROVE  Flowing'
<1> DEFINE m == Packet("kexreq", 0)
<1>1. PICK t, r : t = tr[p] /\ r = tr'[p]
  OBVIOUS
<1>2. /\ r = [t EXCEPT !.pc = IF p = "client" THEN "kexreply" ELSE "kexreq"]
      /\ t.pc = "kexinit" /\ tr'[Other(p)] = tr[Other(p)] /\ t \in TransportState /\ Phases(p, t)
  BY <1>1, PeersAreTwo, PhaseOf DEF RecvKexinit, Next1, TypeOK
<1>3. /\ r \in TransportState /\ r.pc = (IF p = "client" THEN "kexreply" ELSE "kexreq")
      /\ r.begun = t.begun /\ (r.ok <=> t.ok)
  BY <1>2 DEF TransportState, PCs
<1>4. /\ Taken(p, r) = More(Taken(p, t), "kexinit")
      /\ Sent(p, r) = IF p = "client" THEN More(Sent(p, t), "kexreq") ELSE Sent(p, t)
  BY <1>2, <1>3, CountsOfKexinit
<1>5. /\ Line(p)' = IF p = "client" THEN Append(Line(p), m) ELSE Line(p)
      /\ Line(Other(p)) # <<>> /\ Head(Line(Other(p))).type = "kexinit"
      /\ Line(Other(p))' = Tail(Line(Other(p)))
  BY RecvKexinitLines
<1>6. m \in Packets(Types) /\ m.type = "kexreq" /\ "kexreq" \in Lower
  BY OwnPacketTypes DEF Lower
<1> HIDE DEF m
<1>7. /\ Travels(Tail(Line(Other(p))), Sent(Other(p), tr[Other(p)]), More(Taken(p, t), "kexinit"))
      /\ Sent(Other(p), tr[Other(p)])["kexinit"] = Taken(p, t)["kexinit"] + 1
      /\ Sent(Other(p), tr[Other(p)])["newkeys"] = Taken(p, t)["newkeys"]
  <2>1. {"kexinit", "newkeys"} \subseteq Lower /\ "kexinit" \in Precludes["newkeys"]
    BY DEF Lower, Precludes
  <2> QED BY <1>1, <1>5, <2>1, FlowTakes
<1>8. CASE p = "client"
  <2>1. May(p, "kexreq")
    BY <1>1, <1>2, <1>7, <1>8, EndsByName, MaySendKexreq
  <2>2. Travels(Append(Line(p), m), More(Sent(p, t), "kexreq"), Taken(Other(p), tr[Other(p)]))
    BY <1>1, <1>6, <2>1, FlowSends
  <2> QED BY ZenonT(30), <1>1, <1>2, <1>4, <1>5, <1>7, <1>8, <2>2, FlowAfter
<1>9. CASE p # "client"
  BY ZenonT(30), <1>1, <1>2, <1>4, <1>5, <1>7, <1>9, FlowBefore, FlowAfter
<1> QED BY <1>8, <1>9

\* The step to take KEXREQ keeps counts and lines in agreement.
LEMMA RecvKexreqFlow ==
    ASSUME TypeOK, Locals, Flowing, NEW p \in Peers, RecvKexreq(p)
    PROVE  Flowing'
<1> DEFINE m == Packet("kexreply", 0)  n == Packet("newkeys", 0)
<1>1. PICK t, r : t = tr[p] /\ r = tr'[p]
  OBVIOUS
<1>2. /\ r = [t EXCEPT !.pc = "newkeys"]
      /\ t.pc = "kexreq" /\ tr'[Other(p)] = tr[Other(p)] /\ t \in TransportState /\ Phases(p, t)
  BY <1>1, PeersAreTwo, PhaseOf DEF RecvKexreq, Next1, TypeOK
<1>3. r \in TransportState /\ r.pc = "newkeys" /\ r.begun = t.begun /\ (r.ok <=> t.ok)
  BY <1>2 DEF TransportState, PCs
<1>4. /\ p = "server" /\ Taken(p, r) = More(Taken(p, t), "kexreq")
      /\ Sent(p, r) = More(More(Sent(p, t), "kexreply"), "newkeys")
  BY <1>2, <1>3, CountsOfExchange
<1>5. /\ Line(p)' = Append(Append(Line(p), m), n) \o held[p]
      /\ Line(Other(p)) # <<>> /\ Head(Line(Other(p))).type = "kexreq"
      /\ Line(Other(p))' = Tail(Line(Other(p)))
  BY RecvKexreqLines
<1>6. /\ m \in Packets(Types) /\ m.type = "kexreply" /\ n \in Packets(Types) /\ n.type = "newkeys"
      /\ {"kexreq", "kexreply", "newkeys"} \subseteq Lower
  BY OwnPacketTypes DEF Lower
<1> HIDE DEF m, n
<1>7. /\ Travels(Tail(Line(Other(p))), Sent(Other(p), tr[Other(p)]), More(Taken(p, t), "kexreq"))
      /\ Sent(Other(p), tr[Other(p)])["kexreq"] = Taken(p, t)["kexreq"] + 1
  BY <1>1, <1>5, <1>6, FlowTakes
<1>8. May(p, "kexreply") /\ May(p, "newkeys")
  BY <1>1, <1>2, <1>4, <1>7, EndsByName, MaySendKexreply
<1>9. PICK q, a, b : /\ q = Append(Line(p), m) /\ a = More(Sent(p, t), "kexreply")
                     /\ b = Taken(Other(p), tr[Other(p)])
  OBVIOUS
<1>10. /\ q \in Seq(Packets(Types)) /\ a \in [Lower -> Int] /\ b \in [Lower -> Int]
       /\ Travels(q, a, b)
  <2>1. Travels(Append(Line(p), m), More(Sent(p, tr[p]), "kexreply"), Taken(Other(p), tr[Other(p)]))
    BY <1>6, <1>8, FlowSends
  <2>2. Line(p) \in Seq(Packets(Types)) /\ Sent(p, t) \in [Lower -> Int] /\ b \in [Lower -> Int]
    BY <1>1, <1>9, FlowBefore
  <2>3. a \in [Lower -> Int]
    BY <1>6, <1>9, <2>2, MoreType
  <2>4. q \in Seq(Packets(Types))
    BY <1>6, <1>9, <2>2
  <2> QED BY <1>1, <1>9, <2>1, <2>2, <2>3, <2>4
<1>11. \A v \in Precludes["newkeys"] : a[v] = b[v]
  <2>1. \A v \in Precludes["newkeys"] : v \in Lower /\ v # "kexreply"
    BY DEF Precludes, Lower
  <2>2. \A v \in Precludes["newkeys"] : Sent(p, t)[v] = b[v]
    BY <1>1, <1>8, <1>9 DEF May
  <2>3. \A v \in Precludes["newkeys"] : a[v] = Sent(p, t)[v]
    BY <1>1, <1>9, <2>1, FlowBefore DEF More
  <2> QED BY <2>2, <2>3
<1>12. Travels(Append(q, n), More(a, "newkeys"), b)
  BY <1>6, <1>10, <1>11, TravelsSend DEF More
<1>13. Travels(Append(q, n) \o held[p], More(a, "newkeys"), b)
  <2>1. More(a, "newkeys") \in [Lower -> Int] /\ Append(q, n) \in Seq(Packets(Types))
    BY <1>6, <1>10 DEF More
  <2> QED BY <1>10, <1>12, <2>1, FlowHeld
<1> QED BY <1>1, <1>2, <1>4, <1>5, <1>7, <1>9, <1>13, FlowAfter

\* The step to take KEXREPLY keeps counts and lines in agreement.
LEMMA RecvKexreplyFlow ==
    ASSUME TypeOK, Locals, Flowing, NEW p \in Peers, RecvKexreply(p)
    PROVE  Flowing'
<1> DEFINE n == Packet("newkeys", 0)
<1>1. PICK t, r : t = tr[p] /\ r = tr'[p]
  OBVIOUS
<1>2. PICK pc \in {"hostkey", "newkeys"} : /\ r = [t EXCEPT !.pc = pc]
                                           /\ pc = "hostkey" <=> t.begun = 1
  <2>1. CASE t.begun = 1
    BY <1>1, <2>1 DEF RecvKexreply, TypeOK
  <2>2. CASE t.begun # 1
    BY <1>1, <2>2 DEF RecvKexreply, TypeOK
  <2> QED BY <2>1, <2>2
<1>3. t.pc = "kexreply" /\ tr'[Other(p)] = tr[Other(p)] /\ t \in TransportState /\ Phases(p, t)
  BY <1>1, PeersAreTwo, PhaseOf DEF RecvKexreply, Next1, TypeOK
<1>4. r \in TransportState /\ r.pc = pc /\ r.begun = t.begun /\ (r.ok <=> t.ok)
  <2>1. pc \in PCs
    BY DEF PCs
  <2>2. r = [t EXCEPT !.pc = pc]
    BY <1>2
  <2> QED BY <1>3, <2>1, <2>2 DEF TransportState
<1>5. /\ p = "client" /\ Taken(p, r) = More(Taken(p, t), "kexreply")
      /\ pc = "newkeys" => Sent(p, r) = More(Sent(p, t), "newkeys")
      /\ pc = "hostkey" => Sent(p, r) = Sent(p, t)
  BY <1>3, <1>4, CountsOfExchange
<1>6. /\ \/ pc = "hostkey" /\ Line(p)' = Line(p)
         \/ pc = "newkeys" /\ Line(p)' = Append(Line(p), n) \o held[p]
      /\ Line(Other(p)) # <<>> /\ Head(Line(Other(p))).type = "kexreply"
      /\ Line(Other(p))' = Tail(Line(Other(p)))
  <2>1. pc = "hostkey" <=> tr[p].begun = 1
    BY <1>1, <1>2
  <2> QED BY <2>1, RecvKexreplyLines
<1>7. n \in Packets(Types) /\ n.type = "newkeys" /\ {"kexreply", "newkeys"} \subseteq Lower
  BY OwnPacketTypes DEF Lower
<1> HIDE DEF n
<1>8. /\ Travels(Tail(Line(Other(p))), Sent(Other(p), tr[Other(p)]), More(Taken(p, t), "kexreply"))
      /\ Sent(Other(p), tr[Other(p)])["kexreply"] = Taken(p, t)["kexreply"] + 1
  BY <1>1, <1>6, <1>7, FlowTakes
<1>9. CASE pc = "hostkey"
  BY <1>1, <1>3, <1>5, <1>6, <1>8, <1>9, FlowBefore, FlowAfter
<1>10. CASE pc = "newkeys"
  <2>1. May(p, "newkeys")
    BY <1>1, <1>3, <1>5, <1>8, EndsByName, MaySendNewkeys
  <2>2. Travels(Append(Line(p), n), More(Sent(p, t), "newkeys"), Taken(Other(p), tr[Other(p)]))
    BY <1>1, <1>7, <2>1, FlowSends
  <2>3. PICK q, a, b : /\ q = Append(Line(p), n) /\ a = More(Sent(p, t), "newkeys")
                       /\ b = Taken(Other(p), tr[Other(p)])
    OBVIOUS
  <2>4. q \in Seq(Packets(Types)) /\ a \in [Lower -> Int] /\ b \in [Lower -> Int]
    <3>1. Line(p) \in Seq(Packets(Types)) /\ Sent(p, t) \in [Lower -> Int] /\ b \in [Lower -> Int]
      BY <1>1, <2>3, FlowBefore
    <3>2. a \in [Lower -> Int]
      BY <1>7, <2>3, <3>1, MoreType
    <3> QED BY <1>7, <2>3, <3>1, <3>2
  <2>5. Travels(q \o held[p], a, b)
    BY <2>2, <2>3, <2>4, FlowHeld
  <2> QED BY <1>1, <1>3, <1>5, <1>6, <1>8, <1>10, <2>3, <2>5, FlowAfter
<1> QED BY <1>9, <1>10

\* The step to accept the host key keeps counts and lines in agreement.
LEMMA AcceptHostKeyFlow ==
    ASSUME TypeOK, Locals, Flowing, NEW p \in Peers, AcceptHostKey(p)
    PROVE  Flowing'
<1> DEFINE n == Packet("newkeys", 0)
<1>1. PICK t, r : t = tr[p] /\ r = tr'[p]
  OBVIOUS
<1>2. /\ r = [t EXCEPT !.pc = "newkeys", !.ic = TRUE]
      /\ t.pc = "hostkey" /\ tr'[Other(p)] = tr[Other(p)] /\ t \in TransportState /\ Phases(p, t)
  BY <1>1, PeersAreTwo, PhaseOf DEF AcceptHostKey, TypeOK
<1>3. r \in TransportState /\ r.pc = "newkeys" /\ r.begun = t.begun /\ (r.ok <=> t.ok)
  BY <1>2 DEF TransportState, PCs
<1>4. /\ p = "client" /\ Taken(p, r) = Taken(p, t)
      /\ Sent(p, r) = More(Sent(p, t), "newkeys")
  BY <1>2, <1>3, CountsOfExchange
<1>5. Line(p)' = Append(Line(p), n) \o held[p] /\ Line(Other(p))' = Line(Other(p))
  BY AcceptHostKeyLines
<1>6. n \in Packets(Types) /\ n.type = "newkeys" /\ "newkeys" \in Lower
  BY OwnPacketTypes DEF Lower
<1> HIDE DEF n
<1>7. May(p, "newkeys")
  BY <1>1, <1>2, <1>4, EndsByName, MaySendNewkeys
<1>8. Travels(Append(Line(p), n), More(Sent(p, t), "newkeys"), Taken(Other(p), tr[Other(p)]))
  BY <1>1, <1>6, <1>7, FlowSends
<1>9. PICK q, a, b : /\ q = Append(Line(p), n) /\ a = More(Sent(p, t), "newkeys")
                     /\ b = Taken(Other(p), tr[Other(p)])
  OBVIOUS
<1>10. q \in Seq(Packets(Types)) /\ a \in [Lower -> Int] /\ b \in [Lower -> Int]
  <2>1. Line(p) \in Seq(Packets(Types)) /\ Sent(p, t) \in [Lower -> Int] /\ b \in [Lower -> Int]
    BY <1>1, <1>9, FlowBefore
  <2>2. a \in [Lower -> Int]
    BY <1>6, <1>9, <2>1, MoreType
  <2> QED BY <1>6, <1>9, <2>1, <2>2
<1>11. Travels(q \o held[p], a, b)
  BY <1>8, <1>9, <1>10, FlowHeld
<1>12. Travels(Line(p)', Sent(p, r), Taken(Other(p), tr[Other(p)]))
  BY <1>4, <1>5, <1>9, <1>11
<1>13. Travels(Line(Other(p))', Sent(Other(p), tr[Other(p)]), Taken(p, r))
  BY <1>1, <1>4, <1>5, FlowBefore
<1> QED BY <1>1, <1>2, <1>12, <1>13, FlowAfter

\* The step to take NEWKEYS keeps counts and lines in agreement.
LEMMA RecvNewkeysFlow ==
    ASSUME TypeOK, Locals, Flowing, NEW p \in Peers, RecvNewkeys(p)
    PROVE  Flowing'
<1> DEFINE k == Packet("kexinit", tr[p].conf)  v == Packet("svcreq", 0)
<1>1. PICK t, r : t = tr[p] /\ r = tr'[p]
  OBVIOUS
<1>2. /\ tr'[Other(p)] = tr[Other(p)] /\ t.pc = "newkeys" /\ (r.ok <=> t.ok)
      /\ t.deferred => r.pc = "kexinit" /\ r.begun = t.begun + 1
      /\ ~t.deferred => r.begun = t.begun /\ r.pc = (IF t.ok THEN "idle" ELSE "service")
  BY <1>1, RecvNewkeysFacts
<1>3. t \in TransportState /\ r \in TransportState /\ Phases(p, t)
  <2>1. TypeOK'
    BY RecvNewkeysType
  <2>2. r \in TransportState
    BY <1>1, <2>1 DEF TypeOK
  <2> QED BY <1>1, <2>2, PhaseOf
<1>4. t.deferred => p = "client"
  BY <1>1 DEF Locals, Local, Settings, Peers
<1>5. /\ Line(p)' = IF t.deferred THEN Append(Line(p), k)
                    ELSE IF p = "client" /\ ~t.ok THEN Append(Line(p), v) ELSE Line(p)
      /\ Line(Other(p)) # <<>> /\ Head(Line(Other(p))).type = "newkeys"
      /\ Line(Other(p))' = Tail(Line(Other(p)))
  BY <1>1, RecvNewkeysLines
<1>6. /\ k \in Packets(Types) /\ k.type = "kexinit" /\ v \in Packets(Types) /\ v.type = "svcreq"
      /\ {"newkeys", "kexinit", "svcreq"} \subseteq Lower
  BY TypesOfAnEnd, OwnPacketTypes DEF Lower
<1> HIDE DEF k, v
<1>7. /\ Travels(Tail(Line(Other(p))), Sent(Other(p), tr[Other(p)]), More(Taken(p, t), "newkeys"))
      /\ Sent(Other(p), tr[Other(p)])["newkeys"] = Taken(p, t)["newkeys"] + 1
  BY <1>1, <1>5, <1>6, FlowTakes
<1>8. CASE t.deferred
  <2>1. Taken(p, r) = More(Taken(p, t), "newkeys") /\ Sent(p, r) = More(Sent(p, t), "kexinit")
    BY <1>2, <1>3, <1>8, CountsOfNewkeys
  <2>2. May(p, "kexinit")
    BY <1>1, <1>2, <1>4, <1>7, <1>8, EndsByName, MayBeginAgain
  <2>3. Travels(Append(Line(p), k), More(Sent(p, t), "kexinit"), Taken(Other(p), tr[Other(p)]))
    BY <1>1, <1>6, <2>2, FlowSends
  <2> QED BY <1>1, <1>2, <1>5, <1>7, <1>8, <2>1, <2>3, FlowAfter
<1>9. CASE ~t.deferred /\ t.ok
  <2>1. Taken(p, r) = More(Taken(p, t), "newkeys") /\ Sent(p, r) = Sent(p, t)
    BY <1>2, <1>3, <1>9, CountsOfNewkeys
  <2> QED BY <1>1, <1>2, <1>5, <1>7, <1>9, <2>1, FlowBefore, FlowAfter
<1>10. CASE ~t.deferred /\ ~t.ok
  <2>1. /\ Taken(p, r) = More(Taken(p, t), "newkeys")
        /\ Sent(p, r) = IF p = "client" THEN More(Sent(p, t), "svcreq") ELSE Sent(p, t)
    BY <1>2, <1>3, <1>10, CountsOfNewkeys
  <2>2. CASE p = "client"
    <3>1. May(p, "svcreq")
      BY <1>1, <1>2, <1>10, <2>2, MaySendService
    <3>2. Travels(Append(Line(p), v), More(Sent(p, t), "svcreq"), Taken(Other(p), tr[Other(p)]))
      BY <1>1, <1>6, <3>1, FlowSends
    <3> QED BY <1>1, <1>2, <1>5, <1>7, <1>10, <2>1, <2>2, <3>2, FlowAfter
  <2>3. CASE p # "client"
    BY <1>1, <1>2, <1>5, <1>7, <1>10, <2>1, <2>3, FlowBefore, FlowAfter
  <2> QED BY <2>2, <2>3
<1> QED BY <1>8, <1>9, <1>10

\* The step to agree on the service keeps counts and lines in agreement.
LEMMA RecvServiceFlow ==
    ASSUME TypeOK, Locals, Flowing, NEW p \in Peers, RecvService(p)
    PROVE  Flowing'
<1> DEFINE m == Packet("svcack", 0)  u == IF p = "client" THEN "svcack" ELSE "svcreq"
<1>1. PICK t, r : t = tr[p] /\ r = tr'[p]
  OBVIOUS
<1>2. /\ tr'[Other(p)] = tr[Other(p)] /\ t.pc = "service" /\ r.pc = "idle" /\ r.ok /\ r.begun = t.begun
  BY <1>1, RecvServiceFacts
<1>3. t \in TransportState /\ r \in TransportState /\ Phases(p, t)
  <2>1. TypeOK'
    BY RecvServiceType
  <2>2. r \in TransportState
    BY <1>1, <2>1 DEF TypeOK
  <2> QED BY <1>1, <2>2, PhaseOf
<1>4. /\ Taken(p, r) = More(Taken(p, t), u)
      /\ Sent(p, r) = IF p = "server" THEN More(Sent(p, t), "svcack") ELSE Sent(p, t)
  BY <1>2, <1>3, CountsOfService
<1>5. /\ Line(p)' = IF p = "server" THEN Append(Line(p), m) ELSE Line(p)
      /\ Line(Other(p)) # <<>> /\ Head(Line(Other(p))).type = u
      /\ Line(Other(p))' = Tail(Line(Other(p)))
  BY RecvServiceLines
<1>6. m \in Packets(Types) /\ m.type = "svcack" /\ {"svcack", "svcreq", "newkeys"} \subseteq Lower /\ u \in Lower
  BY OwnPacketTypes DEF Lower
<1>7. p = "server" => u = "svcreq"
  OBVIOUS
<1> HIDE DEF m, u
<1>8. /\ Travels(Tail(Line(Other(p))), Sent(Other(p), tr[Other(p)]), More(Taken(p, t), u))
      /\ \A v \in Lower \ {u} : u \in Precludes[v] =>
            Sent(Other(p), tr[Other(p)])[v] = Taken(p, t)[v]
  BY <1>1, <1>5, <1>6, FlowTakes
<1>9. CASE p = "server"
  <2>1. "newkeys" \in Lower \ {"svcreq"} /\ "svcreq" \in Precludes["newkeys"]
    BY DEF Lower, Precludes
  <2>2. Sent(Other(p), tr[Other(p)])["newkeys"] = Taken(p, t)["newkeys"]
    BY <1>7, <1>8, <1>9, <2>1
  <2>3. May(p, "svcack")
    BY <1>1, <1>2, <1>9, <2>2, EndsByName, MaySendService
  <2>4. Travels(Append(Line(p), m), More(Sent(p, t), "svcack"), Taken(Other(p), tr[Other(p)]))
    BY <1>1, <1>6, <2>3, FlowSends
  <2> QED BY <1>1, <1>2, <1>4, <1>5, <1>8, <1>9, <2>4, FlowAfter
<1>10. CASE p # "server"
  BY <1>1, <1>2, <1>4, <1>5, <1>8, <1>10, FlowBefore, FlowAfter
<1> QED BY <1>9, <1>10

\* The step to wait for a reason to rekey keeps counts and lines in agreement.
LEMMA WaitForRekeyFlow ==
    ASSUME TypeOK, Locals, Flowing, NEW p \in Peers, WaitForRekey(p)
    PROVE  Flowing'
<1> DEFINE m == Packet("kexinit", tr[p].conf)
<1>1. PICK t, r : t = tr[p] /\ r = tr'[p]
  OBVIOUS
<1>2. /\ tr'[Other(p)] = tr[Other(p)] /\ t.pc = "idle" /\ (r.ok <=> t.ok)
      /\ \/ r.pc = "idle" /\ r.begun = t.begun
         \/ r.pc = "kexinit" /\ r.begun = t.begun + 1
  BY <1>1, WaitForRekeyFacts
<1>3. t \in TransportState /\ r \in TransportState /\ Phases(p, t)
  <2>1. TypeOK'
    BY WaitForRekeyType
  <2>2. r \in TransportState
    BY <1>1, <2>1 DEF TypeOK
  <2> QED BY <1>1, <2>2, PhaseOf
<1>4. /\ \/ r.pc = "idle" /\ Line(p)' = Line(p) \o held[p]
         \/ r.pc = "kexinit" /\ Line(p)' = Append(Line(p) \o held[p], m)
      /\ Line(Other(p))' = Line(Other(p))
  BY <1>1, WaitForRekeyLines
<1>5. m \in Packets(Types) /\ m.type = "kexinit" /\ "kexinit" \in Lower
  BY TypesOfAnEnd, OwnPacketTypes DEF Lower
<1> HIDE DEF m
<1>6. PICK q, a, b : q = Line(p) \o held[p] /\ a = Sent(p, t) /\ b = Taken(Other(p), tr[Other(p)])
  OBVIOUS
<1>7. q \in Seq(Packets(Types)) /\ a \in [Lower -> Int] /\ b \in [Lower -> Int] /\ Travels(q, a, b)
  <2>1. Travels(q, a, b)
    BY <1>1, <1>6, FlowBefore, FlowHeld
  <2>2. Line(p) \in Seq(Packets(Types)) /\ held[p] \in Seq(Packets(Types))
    BY FlowBefore, TypesOfAnEnd
  <2> QED BY <1>1, <1>6, <2>1, <2>2, FlowBefore, ConcatProperties
<1>8. CASE r.pc = "idle"
  <2>1. Sent(p, r) = Sent(p, t) /\ Taken(p, r) = Taken(p, t)
    BY <1>2, <1>3, <1>8, CountsKept
  <2> QED BY <1>1, <1>2, <1>4, <1>6, <1>7, <1>8, <2>1, FlowBefore, FlowAfter
<1>9. CASE r.pc = "kexinit"
  <2>1. Sent(p, r) = More(Sent(p, t), "kexinit") /\ Taken(p, r) = Taken(p, t)
    BY <1>2, <1>3, <1>9, CountsBegun
  <2>2. \A v \in Precludes["kexinit"] : a[v] = b[v]
    BY <1>1, <1>2, <1>6, MayBegin DEF May
  <2>3. Travels(Append(q, m), More(a, "kexinit"), b)
    BY <1>5, <1>7, <2>2, TravelsSend DEF More
  <2> QED BY <1>1, <1>2, <1>4, <1>6, <1>9, <2>1, <2>3, FlowBefore, FlowAfter
<1> QED BY <1>2, <1>8, <1>9

\* The step to pass a packet up keeps counts and lines in agreement.
LEMMA PassUpFlow ==
    ASSUME TypeOK, Locals, Flowing, NEW p \in Peers, PassUp(p)
    PROVE  Flowing'
<1>1. tr' = tr /\ wire' = wire /\ outq' = outq
  BY DEF PassUp
<1>2. CASE fault' = "none"
  <2>1. PICK q, a, b : /\ q = Line(Other(p)) /\ a = Sent(Other(p), tr[Other(p)]) /\ b = Taken(p, tr[p])
    OBVIOUS
  <2>2. /\ Line(p)' = Line(p) /\ q # <<>> /\ Head(q).type \in Upper /\ Line(Other(p))' = Tail(q)
    BY <1>2, <2>1, PassUpLines
  <2>3. q \in Seq(Packets(Types)) /\ a \in [Lower -> Int] /\ b \in [Lower -> Int] /\ Travels(q, a, b)
    BY <2>1, FlowBefore
  <2>4. Travels(Tail(q), a, b)
    BY <2>2, <2>3, TravelsUpper
  <2> QED BY <1>1, <2>1, <2>2, <2>4, FlowBefore, FlowAfter
<1>3. CASE fault' # "none"
  <2>1. inq' = inq
    BY <1>3 DEF PassUp, Running
  <2> QED BY <1>1, <2>1, NothingFlows DEF Line
<1> QED BY <1>2, <1>3

\* The steps in which no packet is sent or taken by the transport layer or the one above
Aside ==
    \/ \E p \in Peers : \/ Unexpected(p) \/ Block(p) \/ BppInput(p) \/ BppOutput(p)
                        \/ RekeyTimer(p) \/ SendData(p)
    \/ UserRekey \/ Reconfigure \/ NotifyAuthDone \/ AskAuth \/ AnswerAuth \/ UNCHANGED vars

Same(t, r) == r.pc = t.pc /\ r.begun = t.begun /\ (r.ok <=> t.ok)

\* A step that changes only one end's state.
LEMMA SameOthers ==
    ASSUME TypeOK, NEW p \in Peers, NEW x, tr' = [tr EXCEPT ![p] = x], Same(tr[p], x)
    PROVE  \A q \in Peers : Same(tr[q], tr'[q])
<1>1. tr'[p] = x /\ tr'[Other(p)] = tr[Other(p)]
  BY PeersAreTwo DEF TypeOK
<1>2. Same(tr[Other(p)], tr'[Other(p)])
  BY <1>1 DEF Same
<1> QED BY <1>1, <1>2, PeersAreTwo

\* Queueing for the layer above leaves the counts alone.
LEMMA QueuedSame ==
    ASSUME TypeOK, NEW p \in Peers, NEW ic \in BOOLEAN, tr' = [tr EXCEPT ![p] = [tr[p] EXCEPT !.ic = ic]]
    PROVE  \A q \in Peers : Same(tr[q], tr'[q])
<1>1. Same(tr[p], [tr[p] EXCEPT !.ic = ic])
  BY TypesOfAnEnd DEF Same, TransportState
<1> QED BY <1>1, SameOthers

\* The steps aside leave the counts alone.
LEMMA AsideSame ==
    ASSUME TypeOK, Aside
    PROVE  \A q \in Peers : Same(tr[q], tr'[q])
<1>1. ASSUME tr' = tr
      PROVE  \A q \in Peers : Same(tr[q], tr'[q])
  BY <1>1 DEF Same
<1>2. ASSUME NEW p \in Peers, Unexpected(p) \/ BppOutput(p)
      PROVE  tr' = tr
  BY <1>2 DEF Unexpected, BppOutput
<1>3. ASSUME NEW p \in Peers, Block(p)
      PROVE  \A q \in Peers : Same(tr[q], tr'[q])
  <2>1. tr' = [tr EXCEPT ![p] = [tr[p] EXCEPT !.ic = FALSE]]
    BY <1>3 DEF Block, TypeOK
  <2> QED BY <2>1, QueuedSame
<1>4. ASSUME NEW p \in Peers, NEW m, Queue(p, m)
      PROVE  \A q \in Peers : Same(tr[q], tr'[q])
  <2>1. tr' = [tr EXCEPT ![p] = [tr[p] EXCEPT !.ic = TRUE]]
    BY <1>4 DEF Queue, TypeOK
  <2> QED BY <2>1, QueuedSame
<1>5. ASSUME NEW p \in Peers, BppInput(p)
      PROVE  \A q \in Peers : Same(tr[q], tr'[q])
  <2>1. tr' = tr \/ tr' = [tr EXCEPT ![p] = [tr[p] EXCEPT !.ic = TRUE]]
    BY <1>5 DEF BppInput, TypeOK
  <2> QED BY <1>1, <2>1, QueuedSame
<1>6. ASSUME NEW p \in Peers, RekeyTimer(p)
      PROVE  \A q \in Peers : Same(tr[q], tr'[q])
  <2>1. PICK x : x = IF tr[p].kex THEN [tr[p] EXCEPT !.timer = FALSE]
                     ELSE [tr[p] EXCEPT !.timer = FALSE, !.class = "normal", !.ic = TRUE]
    OBVIOUS
  <2>2. tr' = [tr EXCEPT ![p] = x]
    BY <1>6, <2>1 DEF RekeyTimer, TypeOK
  <2>3. Same(tr[p], x)
    BY <2>1, TypesOfAnEnd DEF Same, TransportState
  <2> QED BY <2>2, <2>3, SameOthers
<1>7. "client" \in Peers /\ "server" \in Peers
  BY DEF Peers
<1>8. ASSUME UserRekey \/ NotifyAuthDone
      PROVE  \A q \in Peers : Same(tr[q], tr'[q])
  <2>1. PICK class \in {"normal", "post-userauth"} :
            tr' = [tr EXCEPT !["client"] = [tr["client"] EXCEPT !.class = class, !.ic = TRUE]]
    BY <1>7, <1>8 DEF UserRekey, NotifyAuthDone, TypeOK
  <2>2. Same(tr["client"], [tr["client"] EXCEPT !.class = class, !.ic = TRUE])
    BY <1>7, TypesOfAnEnd DEF Same, TransportState
  <2> QED BY <1>7, <2>1, <2>2, SameOthers
<1>9. ASSUME Reconfigure
      PROVE  \A q \in Peers : Same(tr[q], tr'[q])
  <2>1. Same(tr["client"], tr'["client"]) /\ Same(tr["server"], tr'["server"])
    BY <1>9, ReconfigureFacts DEF Same
  <2> QED BY <2>1 DEF Peers
<1>10. CASE UNCHANGED vars
  BY <1>1, <1>10 DEF vars
<1> QED BY <1>1, <1>2, <1>3, <1>4, <1>5, <1>6, <1>7, <1>8, <1>9, <1>10 DEF Aside, SendData, AskAuth, AnswerAuth

\* The steps aside leave the lines alone.
LEMMA AsideLines ==
    ASSUME TypeOK, Aside, fault' # "garbled"
    PROVE  \A q \in Peers : Line(q)' = Line(q)
<1>1. ASSUME inq' = inq, wire' = wire, outq' = outq
      PROVE  \A q \in Peers : Line(q)' = Line(q)
  BY <1>1 DEF Line
<1>2. ASSUME NEW p \in Peers, Unexpected(p) \/ Block(p) \/ RekeyTimer(p) \/ SendData(p)
      PROVE  inq' = inq /\ wire' = wire /\ outq' = outq
  BY <1>2 DEF Unexpected, Block, RekeyTimer, SendData, Queue
<1>3. ASSUME UserRekey \/ Reconfigure \/ NotifyAuthDone \/ AskAuth \/ AnswerAuth \/ UNCHANGED vars
      PROVE  inq' = inq /\ wire' = wire /\ outq' = outq
  BY <1>3 DEF UserRekey, Reconfigure, NotifyAuthDone, AskAuth, AnswerAuth, Queue, vars
<1> QED BY <1>1, <1>2, <1>3, LineOfInput, LineOfOutput DEF Aside

\* Steps that leave counts and lines alone keep their agreement.
LEMMA FlowSame ==
    ASSUME TypeOK, TypeOK', Flowing, \A q \in Peers : Same(tr[q], tr'[q]), \A q \in Peers : Line(q)' = Line(q)
    PROVE  Flowing'
<1>1. \A q \in Peers : tr[q] \in TransportState /\ tr'[q] \in TransportState
  BY DEF TypeOK
<1>2. \A q \in Peers : Sent(q, tr'[q]) = Sent(q, tr[q]) /\ Taken(q, tr'[q]) = Taken(q, tr[q])
  BY <1>1, CountsKept DEF Same
<1>3. \A q \in Peers : Flow(q)'
  <2> SUFFICES ASSUME NEW q \in Peers PROVE Flow(q)'
    OBVIOUS
  <2>1. Flow(q) /\ Other(q) \in Peers
    BY PeersAreTwo DEF Flowing
  <2> QED BY <1>2, <2>1 DEF Flow
<1> QED BY <1>3 DEF Flowing

\* At first nothing has been sent.
LEMMA InitFlow == Init => Flowing
<1> SUFFICES ASSUME Init, NEW p \in Peers
             PROVE  Flow(p)
  BY DEF Flowing
<1>1. /\ tr[p].begun = 0 /\ tr[p].pc = "start" /\ ~tr[p].ok
      /\ tr[Other(p)].begun = 0 /\ tr[Other(p)].pc = "start" /\ ~tr[Other(p)].ok
  BY PeersAreTwo DEF Init
<1>2. \A u \in Lower : Sent(p, tr[p])[u] = 0 /\ Taken(Other(p), tr[Other(p)])[u] = 0
  <2>1. ASSUME NEW q, NEW t, t.begun = 0, t.pc = "start", ~t.ok, NEW u \in Lower
        PROVE  Sent(q, t)[u] = 0 /\ Taken(q, t)[u] = 0
    <3>1. ASSUME NEW pcs, "start" \notin pcs
          PROVE  Rounds(t, pcs) = 0
      <4>1. One(t.pc \in pcs) = 0
        BY <2>1, <3>1 DEF One
      <4> QED BY <2>1, <4>1 DEF Rounds
    <3>2. \A pcs \in {{"kexinit"}, {"kexinit", "kexreq"}, {"kexinit", "kexreply"}, KexPCs, OldKeyPCs} :
            "start" \notin pcs
      BY DEF KexPCs, OldKeyPCs
    <3>3. One(t.pc = "service" \/ t.ok) = 0 /\ One(t.ok) = 0
      BY <2>1 DEF One
    <3> QED BY <2>1, <3>1, <3>2, <3>3 DEF Sent, Taken
  <2> QED BY <1>1, <2>1
<1>3. Line(p) = <<>>
  <2>1. inq[Other(p)] = <<>> /\ wire[Other(p)] = <<>> /\ outq[p] = <<>>
    BY PeersAreTwo DEF Init
  <2>2. Stripped(<<>>) \in Seq(Packets(Types)) /\ Len(Stripped(<<>>)) = 0
    <3>1. <<>> \in Seq(Encodings) /\ Len(<<>>) = 0
      OBVIOUS
    <3> QED BY <3>1, StrippedType
  <2>3. Stripped(<<>>) = <<>>
    BY <2>2, EmptySeq
  <2> QED BY <2>1, <2>3 DEF Line, LineOf
<1>4. Len(<<>>) = 0
  OBVIOUS
<1> QED BY <1>2, <1>3, <1>4 DEF Flow, Travels, Has, Ahead

\* One step, for the transport layer's own packets.
LEMMA FlowInvariance ==
    ASSUME TypeOK, Locals, Flowing, [Next]_vars, fault' # "garbled"
    PROVE  Flowing'
<1>1. TypeOK'
  BY TypeInvariance
<1>2. CASE Aside
  BY <1>1, <1>2, AsideSame, AsideLines, FlowSame
<1>3. ASSUME NEW p \in Peers,
             \/ Start(p) \/ RecvKexinit(p) \/ RecvKexreq(p) \/ RecvKexreply(p) \/ RecvNewkeys(p)
             \/ RecvService(p) \/ WaitForRekey(p) \/ PassUp(p) \/ AcceptHostKey(p)
      PROVE  Flowing'
  BY <1>3, StartFlow, RecvKexinitFlow, RecvKexreqFlow, RecvKexreplyFlow, RecvNewkeysFlow,
     RecvServiceFlow, WaitForRekeyFlow, PassUpFlow, AcceptHostKeyFlow
<1> QED BY <1>2, <1>3 DEF Next, Step, Coroutine, Aside

--------------------------------------------------------------------------------
(* No packet of the layer above before the service is agreed *)

HasUpper(q) == \E u \in Upper : Has(q, u)
Engaged(p) == held[p] # <<>> \/ up[p].auth # "idle" \/ HasUpper(Line(p))

\* The client's layer above speaks first, once the service is agreed.
UpperAfter == (\E p \in Peers : Engaged(p)) => tr["client"].ok

\* Only packets of the layer above bring packets of the layer above.
LEMMA UpperInQueues ==
    ASSUME NEW q \in Seq(Packets(Types))
    PROVE  /\ \A m \in Packets(Types) : m.type \in Lower /\ HasUpper(Append(q, m)) => HasUpper(q)
           /\ q # <<>> /\ HasUpper(Tail(q)) => HasUpper(q)
           /\ q # <<>> /\ Head(q).type \in Upper => HasUpper(q)
<1>1. ASSUME NEW m \in Packets(Types), m.type \in Lower, HasUpper(Append(q, m))
      PROVE  HasUpper(q)
  <2>1. \A t : Has(Append(q, m), t) <=> Has(q, t) \/ m.type = t
    BY AppendToQueue
  <2>2. Upper \cap Lower = {}
    BY DEF Upper, UserAuth, Lower
  <2> QED BY <1>1, <2>1, <2>2 DEF HasUpper
<1>2. ASSUME q # <<>>
      PROVE  (HasUpper(Tail(q)) => HasUpper(q)) /\ (Head(q).type \in Upper => HasUpper(q))
  <2>1. PICK t : t = Head(q).type
    OBVIOUS
  <2>2. Has(q, t) /\ \A u : Has(Tail(q), u) => Has(q, u)
    BY <1>2, <2>1, TailOfQueue
  <2> QED BY <2>1, <2>2 DEF HasUpper
<1> QED BY <1>1, <1>2

\* The service, once agreed, stays so.
LEMMA OkStays ==
    ASSUME TypeOK, [Next]_vars, NEW q \in Peers, tr[q].ok
    PROVE  tr'[q].ok
<1>1. CASE Aside
  BY <1>1, AsideSame DEF Same
<1>2. ASSUME NEW p \in Peers, tr'[Other(p)] = tr[Other(p)], tr[p].ok => tr'[p].ok
      PROVE  tr'[q].ok
  BY <1>2, PeersAreTwo
<1>3. ASSUME NEW p \in Peers, Start(p)
      PROVE  tr'[Other(p)] = tr[Other(p)] /\ (tr[p].ok => tr'[p].ok)
  <2>1. tr'[p] = Begun(tr[p]) /\ tr'[Other(p)] = tr[Other(p)]
    BY <1>3, PeersAreTwo DEF Start, TypeOK
  <2> QED BY <2>1, TypesOfAnEnd, BegunFacts
<1>4. ASSUME NEW p \in Peers, RecvKexinit(p) \/ RecvKexreq(p) \/ RecvKexreply(p) \/ AcceptHostKey(p)
      PROVE  tr'[Other(p)] = tr[Other(p)] /\ (tr[p].ok => tr'[p].ok)
  <2>1. CASE AcceptHostKey(p)
    <3>1. tr'[p] = [tr[p] EXCEPT !.pc = "newkeys", !.ic = TRUE] /\ tr'[Other(p)] = tr[Other(p)]
      BY <2>1, PeersAreTwo DEF AcceptHostKey, TypeOK
    <3> QED BY <3>1, TypesOfAnEnd DEF TransportState
  <2>2. CASE RecvKexinit(p) \/ RecvKexreq(p) \/ RecvKexreply(p)
    <3>1. PICK x : tr' = [tr EXCEPT ![p] = [tr[p] EXCEPT !.pc = x]]
      BY <2>2 DEF RecvKexinit, RecvKexreq, RecvKexreply, TypeOK
    <3>2. tr'[p] = [tr[p] EXCEPT !.pc = x] /\ tr'[Other(p)] = tr[Other(p)]
      BY <3>1, PeersAreTwo DEF TypeOK
    <3> QED BY <3>2, TypesOfAnEnd DEF TransportState
  <2> QED BY <1>4, <2>1, <2>2
<1>5. ASSUME NEW p \in Peers, RecvNewkeys(p) \/ RecvService(p) \/ WaitForRekey(p) \/ PassUp(p)
      PROVE  tr'[Other(p)] = tr[Other(p)] /\ (tr[p].ok => tr'[p].ok)
  BY <1>5, RecvNewkeysFacts, RecvServiceFacts, WaitForRekeyFacts DEF PassUp
<1> QED BY <1>1, <1>2, <1>3, <1>4, <1>5 DEF Next, Step, Coroutine, Aside

\* Before the service is agreed only the transport layer's own packets join the lines.
LEMMA LinesBeforeService ==
    ASSUME TypeOK, [Next]_vars, fault' # "garbled", \A q \in Peers : ~Engaged(q)
    PROVE  \A q \in Peers : ~HasUpper(Line(q)')
<1>1. \A q \in Peers : ~HasUpper(Line(q)) /\ held[q] = <<>> /\ Line(q) \in Seq(Packets(Types))
  BY TypesOfLines DEF Engaged
<1>2. \A q \in Seq(Packets(Types)) : q \o <<>> = q
  BY ConcatEmptySeq
<1>3. \A u \in {"kexinit", "kexreq", "kexreply", "newkeys", "svcreq", "svcack"}, n \in Nat :
            Packet(u, n) \in Packets(Types) /\ Packet(u, n).type \in Lower
  BY OwnPacketTypes DEF Lower
<1>4. ASSUME NEW p \in Peers, NEW m \in Packets(Types), m.type \in Lower
      PROVE  Append(Line(p), m) \in Seq(Packets(Types)) /\ ~HasUpper(Append(Line(p), m))
  BY <1>1, <1>4, UpperInQueues
<1>5. ASSUME NEW p \in Peers, ~HasUpper(Line(p)'), ~HasUpper(Line(Other(p))')
      PROVE  \A q \in Peers : ~HasUpper(Line(q)')
  BY <1>5, PeersAreTwo
<1>6. \A p \in Peers : Other(p) \in Peers /\ tr[p].conf \in Nat
  BY PeersAreTwo, TypesOfAnEnd
<1>taken. ASSUME NEW p \in Peers, Line(Other(p)) # <<>>, Line(Other(p))' = Tail(Line(Other(p)))
      PROVE  ~HasUpper(Line(Other(p))')
  BY <1>1, <1>6, <1>taken, UpperInQueues
<1>7. CASE Aside
  BY <1>1, <1>7, AsideLines
<1>8. ASSUME NEW p \in Peers, Start(p)
      PROVE  \A q \in Peers : ~HasUpper(Line(q)')
  BY <1>1, <1>3, <1>4, <1>5, <1>6, <1>8, StartLines
<1>9. ASSUME NEW p \in Peers, RecvKexinit(p)
      PROVE  \A q \in Peers : ~HasUpper(Line(q)')
  <2>1. ~HasUpper(Line(p)')
    BY <1>1, <1>3, <1>4, <1>9, RecvKexinitLines
  <2>2. ~HasUpper(Line(Other(p))')
    BY <1>9, <1>taken, RecvKexinitLines
  <2> QED BY <1>5, <2>1, <2>2
<1>10. ASSUME NEW p \in Peers, RecvKexreq(p)
       PROVE  \A q \in Peers : ~HasUpper(Line(q)')
  <2>1. PICK q : q = Append(Line(p), Packet("kexreply", 0))
    OBVIOUS
  <2>2. q \in Seq(Packets(Types)) /\ ~HasUpper(q)
    BY <1>3, <1>4, <2>1
  <2>3. PICK r : r = Append(q, Packet("newkeys", 0))
    OBVIOUS
  <2>4. r \in Seq(Packets(Types)) /\ ~HasUpper(r)
    BY <1>3, <2>2, <2>3, UpperInQueues
  <2>5. Line(p)' = r
    BY <1>1, <1>2, <1>10, <2>1, <2>3, <2>4, RecvKexreqLines
  <2>6. ~HasUpper(Line(Other(p))')
    BY <1>10, <1>taken, RecvKexreqLines
  <2> QED BY <1>5, <2>4, <2>5, <2>6
<1>11. ASSUME NEW p \in Peers, RecvKexreply(p)
       PROVE  \A q \in Peers : ~HasUpper(Line(q)')
  <2>1. PICK q : q = Append(Line(p), Packet("newkeys", 0))
    OBVIOUS
  <2>2. q \in Seq(Packets(Types)) /\ ~HasUpper(q)
    BY <1>3, <1>4, <2>1
  <2>3. Line(p)' = q \/ Line(p)' = Line(p)
    BY <1>1, <1>2, <1>11, <2>1, <2>2, RecvKexreplyLines
  <2>4. ~HasUpper(Line(Other(p))')
    BY <1>11, <1>taken, RecvKexreplyLines
  <2> QED BY <1>1, <1>5, <2>2, <2>3, <2>4
<1>12. ASSUME NEW p \in Peers, AcceptHostKey(p)
       PROVE  \A q \in Peers : ~HasUpper(Line(q)')
  <2>1. PICK q : q = Append(Line(p), Packet("newkeys", 0))
    OBVIOUS
  <2>2. q \in Seq(Packets(Types)) /\ ~HasUpper(q)
    BY <1>3, <1>4, <2>1
  <2>3. Line(p)' = q
    BY <1>1, <1>2, <1>12, <2>1, <2>2, AcceptHostKeyLines
  <2>4. ~HasUpper(Line(Other(p))')
    BY <1>1, <1>6, <1>12, AcceptHostKeyLines
  <2> QED BY <1>5, <2>2, <2>3, <2>4
<1>13. ASSUME NEW p \in Peers, RecvNewkeys(p)
       PROVE  \A q \in Peers : ~HasUpper(Line(q)')
  <2>1. ~HasUpper(Line(p)')
    BY <1>1, <1>3, <1>4, <1>6, <1>13, RecvNewkeysLines
  <2>2. ~HasUpper(Line(Other(p))')
    BY <1>13, <1>taken, RecvNewkeysLines
  <2> QED BY <1>5, <2>1, <2>2
<1>14. ASSUME NEW p \in Peers, RecvService(p)
       PROVE  \A q \in Peers : ~HasUpper(Line(q)')
  <2>1. ~HasUpper(Line(p)')
    BY <1>1, <1>3, <1>4, <1>14, RecvServiceLines
  <2>2. ~HasUpper(Line(Other(p))')
    BY <1>14, <1>taken, RecvServiceLines
  <2> QED BY <1>5, <2>1, <2>2
<1>15. ASSUME NEW p \in Peers, WaitForRekey(p)
       PROVE  \A q \in Peers : ~HasUpper(Line(q)')
  <2>1. PICK q : q = Append(Line(p), Packet("kexinit", tr[p].conf))
    OBVIOUS
  <2>2. ~HasUpper(q)
    BY <1>3, <1>4, <1>6, <2>1
  <2>3. Line(p)' = q \/ Line(p)' = Line(p)
    BY <1>1, <1>2, <1>15, <2>1, WaitForRekeyLines
  <2>4. ~HasUpper(Line(Other(p))')
    BY <1>1, <1>6, <1>15, WaitForRekeyLines
  <2> QED BY <1>1, <1>5, <2>2, <2>3, <2>4
<1>16. ASSUME NEW p \in Peers, PassUp(p)
       PROVE  \A q \in Peers : ~HasUpper(Line(q)')
  <2>1. fault' # "none"
    BY <1>1, <1>6, <1>16, PassUpLines, UpperInQueues
  <2>2. inq' = inq /\ wire' = wire /\ outq' = outq
    BY <1>16, <2>1 DEF PassUp, Running
  <2> QED BY <1>1, <2>2 DEF Line
<1> QED BY <1>7, <1>8, <1>9, <1>10, <1>11, <1>12, <1>13, <1>14, <1>15, <1>16 DEF Next, Step, Coroutine, Aside

\* Before the service is agreed nothing is held back.
LEMMA HeldBeforeService ==
    ASSUME TypeOK, [Next]_vars, fault' # "garbled", \A q \in Peers : ~Engaged(q), ~tr["client"].ok
    PROVE  \A q \in Peers : held'[q] = <<>> /\ up'[q].auth = "idle"
<1>1. \A q \in Peers : ~HasUpper(Line(q)) /\ held[q] = <<>> /\ up[q].auth = "idle"
  BY DEF Engaged
<1>2. ~AskAuth /\ ~AnswerAuth /\ ~NotifyAuthDone /\ \A p \in Peers : ~SendData(p)
  BY <1>1 DEF AskAuth, AnswerAuth, NotifyAuthDone, SendData, Peers
<1>3. ASSUME held' = held, up' = up
      PROVE  \A q \in Peers : held'[q] = <<>> /\ up'[q].auth = "idle"
  BY <1>1, <1>3
<1>4. ASSUME NEW p \in Peers, held' = [held EXCEPT ![p] = <<>>], up' = up
      PROVE  \A q \in Peers : held'[q] = <<>> /\ up'[q].auth = "idle"
  BY <1>1, <1>4 DEF TypeOK
<1>5. ASSUME NEW p \in Peers, PassUp(p)
      PROVE  held' = held /\ up' = up
  <2>1. fault' # "none"
    BY <1>1, <1>5, PassUpLines, PeersAreTwo, TypesOfLines, UpperInQueues
  <2> QED BY <1>5, <2>1 DEF PassUp, Running
<1>6. ASSUME NEW p \in Peers, SendNewkeys(p, outq[p]) \/ SendNewkeys(p, Append(outq[p], Packet("kexreply", 0)))
      PROVE  held' = [held EXCEPT ![p] = <<>>]
  BY <1>6 DEF SendNewkeys
<1>7. ASSUME NEW p \in Peers, RecvKexreq(p) \/ RecvKexreply(p) \/ AcceptHostKey(p) \/ WaitForRekey(p)
      PROVE  up' = up /\ (held' = held \/ held' = [held EXCEPT ![p] = <<>>])
  BY <1>6, <1>7 DEF RecvKexreq, RecvKexreply, AcceptHostKey, WaitForRekey
<1>8. ASSUME NEW p \in Peers, \/ Start(p) \/ RecvKexinit(p) \/ RecvNewkeys(p) \/ RecvService(p)
                              \/ Unexpected(p) \/ Block(p) \/ BppInput(p) \/ BppOutput(p) \/ RekeyTimer(p)
      PROVE  held' = held /\ up' = up
  BY <1>8 DEF Start, RecvKexinit, RecvNewkeys, RecvService, Unexpected, Block, BppInput, BppOutput, RekeyTimer
<1>9. ASSUME UserRekey \/ Reconfigure \/ UNCHANGED vars
      PROVE  held' = held /\ up' = up
  BY <1>9 DEF UserRekey, Reconfigure, vars
<1> QED BY <1>2, <1>3, <1>4, <1>5, <1>7, <1>8, <1>9 DEF Next, Step, Coroutine

\* No step makes the layers above speak before the service is agreed.
LEMMA UpperAfterInvariance ==
    ASSUME TypeOK, UpperAfter, [Next]_vars, fault' # "garbled"
    PROVE  UpperAfter'
<1>1. CASE tr["client"].ok
  BY <1>1, OkStays DEF UpperAfter, Peers
<1>2. CASE ~tr["client"].ok
  <2>1. \A q \in Peers : ~Engaged(q)
    BY <1>2 DEF UpperAfter
  <2>2. \A q \in Peers : ~Engaged(q)'
    BY <1>2, <2>1, HeldBeforeService, LinesBeforeService DEF Engaged, HasUpper
  <2> QED BY <2>2 DEF UpperAfter
<1> QED BY <1>1, <1>2

--------------------------------------------------------------------------------
(* What an end can find at the front of its queue *)

\* What is first on the line to the client is what its coroutine waits for.
LEMMA ClientExpects ==
    ASSUME NEW c \in TransportState, NEW s \in TransportState, Phases("client", c), Phases("server", s),
           Agree(c, s), c.pc # "start"
    PROVE  /\ /\ s.begun = Rounds(c, {"kexinit"}) + 1 /\ Rounds(s, OldKeyPCs) = Rounds(c, KexPCs)
              /\ One(s.ok) = One(c.ok)
              => c.pc \in {"kexinit", "idle", "hostkey"}
           /\ Rounds(s, {"kexinit", "kexreq"}) = Rounds(c, {"kexinit", "kexreply"}) + 1
              => c.pc = "kexreply"
           /\ /\ Rounds(s, OldKeyPCs) = Rounds(c, KexPCs) + 1
              /\ Rounds(s, {"kexinit", "kexreq"}) = Rounds(c, {"kexinit", "kexreply"})
              => c.pc \in {"newkeys", "hostkey"}
           /\ One(s.ok) = One(c.ok) + 1 => c.pc = "service"
<1>1. ASSUME s.begun = Rounds(c, {"kexinit"}) + 1, Rounds(s, OldKeyPCs) = Rounds(c, KexPCs),
             One(s.ok) = One(c.ok)
      PROVE  c.pc \in {"kexinit", "idle", "hostkey"}
  <2>1. s.ok <=> c.ok
    BY <1>1 DEF One, TransportState
  <2> QED BY <1>1, <2>1 DEF Phases, Rounds, One, KexPCs, OldKeyPCs, TransportState, PCs
<1>2. ASSUME Rounds(s, {"kexinit", "kexreq"}) = Rounds(c, {"kexinit", "kexreply"}) + 1
      PROVE  c.pc = "kexreply"
  BY <1>2 DEF Agree, Within, Rounds, One, TransportState
<1>3. ASSUME Rounds(s, OldKeyPCs) = Rounds(c, KexPCs) + 1,
             Rounds(s, {"kexinit", "kexreq"}) = Rounds(c, {"kexinit", "kexreply"})
      PROVE  c.pc \in {"newkeys", "hostkey"}
  BY <1>3 DEF Phases, Rounds, One, KexPCs, OldKeyPCs, TransportState, PCs
<1>4. ASSUME One(s.ok) = One(c.ok) + 1
      PROVE  c.pc = "service"
  BY <1>4 DEF Agree, One
<1> QED BY <1>1, <1>2, <1>3, <1>4

\* What is first on the line to the server is what its coroutine waits for, but for one KEXINIT.
LEMMA ServerExpects ==
    ASSUME NEW c \in TransportState, NEW s \in TransportState, Phases("client", c), Phases("server", s),
           Agree(c, s), s.pc # "start"
    PROVE  /\ c.begun = Rounds(s, {"kexinit"}) + 1 /\ Rounds(c, OldKeyPCs) = Rounds(s, KexPCs)
              => s.pc \in {"kexinit", "idle"} \/ (s.pc = "service" /\ ~c.ok /\ c.begun > 1)
           /\ /\ Rounds(c, {"kexinit"}) = Rounds(s, {"kexinit", "kexreq"}) + 1
              /\ c.begun = Rounds(s, {"kexinit"})
              => s.pc = "kexreq"
           /\ Rounds(c, OldKeyPCs) = Rounds(s, KexPCs) + 1 => s.pc = "newkeys"
           /\ /\ One(c.pc = "service" \/ c.ok) = One(s.ok) + 1
              /\ Rounds(c, OldKeyPCs) = Rounds(s, KexPCs)
              => s.pc = "service"
<1>1. ASSUME c.begun = Rounds(s, {"kexinit"}) + 1, Rounds(c, OldKeyPCs) = Rounds(s, KexPCs)
      PROVE  s.pc \in {"kexinit", "idle"} \/ (s.pc = "service" /\ ~c.ok /\ c.begun > 1)
  <2>1. c.ok => s.ok
    BY DEF Agree
  <2> QED BY <1>1, <2>1 DEF Phases, Rounds, One, KexPCs, OldKeyPCs, TransportState, PCs
<1>2. ASSUME Rounds(c, {"kexinit"}) = Rounds(s, {"kexinit", "kexreq"}) + 1, c.begun = Rounds(s, {"kexinit"})
      PROVE  s.pc = "kexreq"
  BY <1>2 DEF Rounds, One, TransportState
<1>3. ASSUME Rounds(c, OldKeyPCs) = Rounds(s, KexPCs) + 1
      PROVE  s.pc = "newkeys"
  <2>1. Rounds(c, {"kexinit", "kexreply"}) <= Rounds(s, {"kexinit", "kexreq"})
    BY DEF Agree, Within
  <2> QED BY <1>3, <2>1 DEF Phases, Rounds, One, KexPCs, OldKeyPCs, TransportState, PCs
<1>4. ASSUME One(c.pc = "service" \/ c.ok) = One(s.ok) + 1, Rounds(c, OldKeyPCs) = Rounds(s, KexPCs)
      PROVE  s.pc = "service"
  <2>1. ~s.ok /\ ~c.ok /\ c.pc = "service"
    BY <1>4 DEF Agree, One
  <2> QED BY <1>4, <2>1 DEF Phases, Rounds, One, KexPCs, OldKeyPCs, TransportState, PCs
<1> QED BY <1>1, <1>2, <1>3, <1>4

\* What arrives is what the coroutine waits for -- but for the KEXINIT of a client
\* that starts over before the service is agreed.
LEMMA FrontIsExpected ==
    ASSUME TypeOK, Locals, Flowing, NEW p \in Peers, tr[p].pc # "start",
           inq[p] # <<>>, NEW u, u = Head(inq[p]).type, u \notin Upper, u \notin Expected(p)
    PROVE  p = "server" /\ tr[p].pc = "service" /\ ~tr["server"].ok /\ tr["client"].used > 0
<1>1. PICK o : o = Other(p)
  OBVIOUS
<1>2. /\ inq[p] \in Seq(Packets(Types)) /\ Line(o) # <<>> /\ Head(Line(o)).type = u
  BY <1>1, TypesOfAnEnd, PeersAreTwo, LineTaken DEF Line
<1>3. u \in Lower
  <2>1. Head(inq[p]) \in Packets(Types)
    BY <1>2
  <2>2. u \in Types
    BY <2>1, PacketTypes
  <2> QED BY <2>2 DEF Types, Lower
<1>4. /\ Sent(o, tr[o])[u] = Taken(p, tr[p])[u] + 1
      /\ \A v \in Lower \ {u} : u \in Precludes[v] => Sent(o, tr[o])[v] = Taken(p, tr[p])[v]
  BY <1>1, <1>2, <1>3, FlowTakes
<1>5. /\ u = "kexinit" => /\ Sent(o, tr[o])["newkeys"] = Taken(p, tr[p])["newkeys"]
                          /\ Sent(o, tr[o])["svcack"] = Taken(p, tr[p])["svcack"]
      /\ u = "kexreq" => Sent(o, tr[o])["kexinit"] = Taken(p, tr[p])["kexinit"]
      /\ u = "newkeys" => Sent(o, tr[o])["kexreply"] = Taken(p, tr[p])["kexreply"]
      /\ u = "svcreq" => Sent(o, tr[o])["newkeys"] = Taken(p, tr[p])["newkeys"]
  <2>1. \A v \in {"newkeys", "svcack", "kexinit", "kexreply"} : v \in Lower
    BY DEF Lower
  <2>2. /\ "kexinit" \in Precludes["newkeys"] /\ "kexinit" \in Precludes["svcack"]
        /\ "kexreq" \in Precludes["kexinit"] /\ "newkeys" \in Precludes["kexreply"]
        /\ "svcreq" \in Precludes["newkeys"]
    BY DEF Precludes
  <2> QED BY <1>4, <2>1, <2>2
<1>6. u \in {"kexinit", "kexreq", "kexreply", "newkeys", "svcreq", "svcack"}
  BY <1>3 DEF Lower
<1>7. CASE p = "client"
  <2>1. o = "server" /\ Agree(tr["client"], tr["server"]) /\ Phases("client", tr["client"])
        /\ Phases("server", tr["server"]) /\ tr["client"] \in TransportState /\ tr["server"] \in TransportState
    BY <1>1, <1>7, EndsByName
  <2>2. /\ u # "kexreq" /\ u # "svcreq"
        /\ u = "kexinit" => tr["client"].pc \in {"kexinit", "idle", "hostkey"}
        /\ u = "kexreply" => tr["client"].pc = "kexreply"
        /\ u = "newkeys" => tr["client"].pc \in {"newkeys", "hostkey"}
        /\ u = "svcack" => tr["client"].pc = "service"
    <3>1. u # "kexreq" /\ u # "svcreq"
      <4>1. /\ Sent("server", tr["server"])["kexreq"] = 0 /\ Taken("client", tr["client"])["kexreq"] = 0
            /\ Sent("server", tr["server"])["svcreq"] = 0 /\ Taken("client", tr["client"])["svcreq"] = 0
        BY ValuesOfCounts
      <4> QED BY <1>4, <1>7, <2>1, <4>1
    <3>2. ASSUME u = "kexinit"
          PROVE  tr["client"].pc \in {"kexinit", "idle", "hostkey"}
      BY <1>4, <1>5, <1>7, <2>1, <3>2, ValuesOfCounts, ClientExpects
    <3>3. ASSUME u = "kexreply"
          PROVE  tr["client"].pc = "kexreply"
      <4>1. Rounds(tr["server"], {"kexinit", "kexreq"}) = Rounds(tr["client"], {"kexinit", "kexreply"}) + 1
        <5>1. /\ Sent("server", tr["server"])["kexreply"] = Rounds(tr["server"], {"kexinit", "kexreq"})
              /\ Taken("client", tr["client"])["kexreply"] = Rounds(tr["client"], {"kexinit", "kexreply"})
          BY ValuesOfCounts
        <5> QED BY <1>4, <1>7, <2>1, <3>3, <5>1
      <4> QED BY <1>7, <2>1, <4>1, ClientExpects
    <3>4. ASSUME u = "newkeys"
          PROVE  tr["client"].pc \in {"newkeys", "hostkey"}
      BY SMTT(30), <1>4, <1>5, <1>7, <2>1, <3>4, ValuesOfCounts, ClientExpects
    <3>5. ASSUME u = "svcack"
          PROVE  tr["client"].pc = "service"
      <4>1. One(tr["server"].ok) = One(tr["client"].ok) + 1
        <5>1. /\ Sent("server", tr["server"])["svcack"] = One(tr["server"].ok)
              /\ Taken("client", tr["client"])["svcack"] = One(tr["client"].ok)
          BY ValuesOfCounts
        <5> QED BY <1>4, <1>7, <2>1, <3>5, <5>1
      <4> QED BY <1>7, <2>1, <4>1, ClientExpects
    <3> QED BY <3>1, <3>2, <3>3, <3>4, <3>5
  <2>3. u \in Expected(p)
    BY <1>6, <1>7, <2>2 DEF Expected, Waits, Types
  <2> QED BY <2>3
<1>8. CASE p = "server"
  <2>1. o = "client" /\ Agree(tr["client"], tr["server"]) /\ Phases("client", tr["client"])
        /\ Phases("server", tr["server"]) /\ tr["client"] \in TransportState /\ tr["server"] \in TransportState
    BY <1>1, <1>8, EndsByName
  <2>2. /\ u # "kexreply" /\ u # "svcack"
        /\ u = "kexinit" => \/ tr["server"].pc \in {"kexinit", "idle"}
                            \/ tr["server"].pc = "service" /\ ~tr["client"].ok /\ tr["client"].begun > 1
        /\ u = "kexreq" => tr["server"].pc = "kexreq"
        /\ u = "newkeys" => tr["server"].pc = "newkeys"
        /\ u = "svcreq" => tr["server"].pc = "service"
    <3>1. u # "kexreply" /\ u # "svcack"
      <4>1. /\ Sent("client", tr["client"])["kexreply"] = 0 /\ Taken("server", tr["server"])["kexreply"] = 0
            /\ Sent("client", tr["client"])["svcack"] = 0 /\ Taken("server", tr["server"])["svcack"] = 0
        BY ValuesOfCounts
      <4> QED BY <1>4, <1>8, <2>1, <4>1
    <3>2. ASSUME u = "kexinit"
          PROVE  \/ tr["server"].pc \in {"kexinit", "idle"}
                 \/ tr["server"].pc = "service" /\ ~tr["client"].ok /\ tr["client"].begun > 1
      BY <1>4, <1>5, <1>8, <2>1, <3>2, ValuesOfCounts, ServerExpects
    <3>3. ASSUME u = "kexreq"
          PROVE  tr["server"].pc = "kexreq"
      BY <1>4, <1>5, <1>8, <2>1, <3>3, ValuesOfCounts, ServerExpects
    <3>4. ASSUME u = "newkeys"
          PROVE  tr["server"].pc = "newkeys"
      BY <1>4, <1>8, <2>1, <3>4, ValuesOfCounts, ServerExpects
    <3>5. ASSUME u = "svcreq"
          PROVE  tr["server"].pc = "service"
      BY <1>4, <1>5, <1>8, <2>1, <3>5, ValuesOfCounts, ServerExpects
    <3> QED BY <3>1, <3>2, <3>3, <3>4, <3>5
  <2>3. tr["server"].pc = "service" /\ ~tr["client"].ok /\ tr["client"].begun > 1
    BY <1>6, <1>8, <2>2 DEF Expected, Waits, Types
  <2>4. ~tr["server"].ok
    BY <2>1, <2>3 DEF Phases
  <2>5. tr["client"].used > 0
    BY <2>3 DEF Locals, Local, Settings, Peers
  <2> QED BY <1>8, <2>3, <2>4, <2>5
<1> QED BY <1>7, <1>8 DEF Peers
================================================================================
