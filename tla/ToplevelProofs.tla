---------------------------- MODULE ToplevelProofs ----------------------------
(***************************************************************************)
(* Theorems about Toplevel, for any objects, any modulus of the clock and  *)
(* any bounds that satisfy ToplevelAssumption: what is run is something of *)
(* an object that still exists, a timer is never run before its time nor   *)
(* taken from the tree unrun, but for the exceptions the properties name,  *)
(* and the front end knows of every callback and every timer there is.     *)
(***************************************************************************)
EXTENDS Toplevel, TLAPS, SequenceTheorems, FiniteSetTheorems, FunctionTheorems,
        NaturalsInduction, WellFoundedInduction

\* What is queued or may be timed belongs to objects that exist.
Living ==
    /\ \A i \in DOMAIN head : head[i].ctx \in alive
    /\ contexts \subseteq alive

\* Who wants a timer: one that is wanted by the object that lives at its context will not be dropped.
Owned ==
    /\ contexts \subseteq asked
    /\ \A t \in timers : t.by = "living" => t.ctx \in contexts

\* The ticks since MaxBack before a timer was set: there are no negative ones, however the clock jumps.
Origin(t) == (t.set - MaxBack) % Wrap
Since(x, t) == Minus(x, Origin(t))
Latest(t) == MaxBack + Minus(t.due, t.set) + MaxLate

\* Clock and now stay within the bounds of each timer, so that no comparison meets the modulus.
Timely ==
    \A t \in timers :
        /\ Minus(t.due, t.set) \in 1 .. MaxDelay
        /\ Since(clock, t) \in MaxBack - back .. Latest(t)
        /\ pc = "timers" => Since(now, t) \in 0 .. Latest(t)

\* Whoever is to run what waits has been told of it.
Woken ==
    /\ head # <<>> \/ InCallback => idle
    /\ timers # {} /\ pc # "timers" => timeout # None
    /\ pc = "loop" => running = None

IInv == TypeOK /\ Living /\ Owned /\ Timely /\ Woken

-----------------------------------------------------------------------------
(* Clock arithmetic.                                                        *)

\* The modulus is positive, and the bounds fit in it.
LEMMA Bounds ==
    /\ Wrap \in Nat /\ Wrap > 0 /\ Slack \in Nat /\ MaxDelay \in Nat /\ MaxLate \in Nat /\ MaxBack \in Nat
    /\ MaxDelay > 0 /\ MaxDelay + MaxLate + Slack + MaxBack < Wrap
    /\ Wrap \div 2 \in Nat /\ MaxLate < Wrap \div 2 /\ MaxDelay + MaxBack < Wrap \div 2
    /\ 2 * (Wrap \div 2) <= Wrap /\ Wrap <= 2 * (Wrap \div 2) + 1
  BY ToplevelAssumption

\* A remainder is known when the number is at most one modulus away.
LEMMA Remainder ==
    ASSUME NEW x \in Int
    PROVE  /\ x % Wrap \in Ticks
           /\ x \in Ticks => x % Wrap = x
           /\ x \in -Wrap .. -1 => x % Wrap = x + Wrap
           /\ x \in Wrap .. 2 * Wrap - 1 => x % Wrap = x - Wrap
<1>1. Wrap \in Nat /\ Wrap > 0
  BY Bounds
<1>2. x % Wrap \in 0 .. Wrap - 1
  BY <1>1
<1>3. x \in 0 .. Wrap - 1 => x % Wrap = x
  BY <1>1
<1>4. x \in -Wrap .. -1 => x % Wrap = x + Wrap
  BY <1>1
<1>5. x \in Wrap .. 2 * Wrap - 1 => x % Wrap = x - Wrap
  BY <1>1
<1> QED BY <1>2, <1>3, <1>4, <1>5 DEF Ticks

\* The difference of two times, without the remainder.
LEMMA MinusValue ==
    ASSUME NEW a \in Ticks, NEW b \in Ticks
    PROVE  /\ Minus(a, b) = IF b <= a THEN a - b ELSE a - b + Wrap
           /\ Minus(a, b) \in Ticks
<1>1. Wrap \in Nat /\ Wrap > 0 /\ a \in Int /\ b \in Int /\ a - b \in Int
  BY Bounds DEF Ticks
<1>2. CASE b <= a
  <2>1. a - b \in Ticks
    BY <1>1, <1>2 DEF Ticks
  <2> QED BY <1>1, <1>2, <2>1, Remainder DEF Minus
<1>3. CASE ~(b <= a)
  <2>1. a - b \in -Wrap .. -1 /\ a - b + Wrap \in Ticks
    BY <1>1, <1>3 DEF Ticks
  <2> QED BY <1>1, <1>3, <2>1, Remainder DEF Minus
<1> QED BY <1>2, <1>3

\* The difference of two times seen from a third that is not after either.
LEMMA MinusFrom ==
    ASSUME NEW a \in Ticks, NEW b \in Ticks, NEW c \in Ticks
    PROVE  Minus(a, b) = IF Minus(b, c) <= Minus(a, c) THEN Minus(a, c) - Minus(b, c)
                         ELSE Minus(a, c) - Minus(b, c) + Wrap
<1>1. Wrap \in Nat /\ Wrap > 0 /\ a \in 0 .. Wrap - 1 /\ b \in 0 .. Wrap - 1 /\ c \in 0 .. Wrap - 1
  BY Bounds DEF Ticks
<1>2. /\ Minus(a, b) = IF b <= a THEN a - b ELSE a - b + Wrap
      /\ Minus(a, c) = IF c <= a THEN a - c ELSE a - c + Wrap
      /\ Minus(b, c) = IF c <= b THEN b - c ELSE b - c + Wrap
  BY MinusValue
<1> QED BY <1>1, <1>2

\* A time some ticks back lies in the clock's range, that many ticks before.
LEMMA MinusEarlier ==
    ASSUME NEW b \in Ticks, NEW k \in Ticks
    PROVE  (b - k) % Wrap \in Ticks /\ Minus(b, (b - k) % Wrap) = k
<1>1. Wrap \in Nat /\ Wrap > 0 /\ b \in 0 .. Wrap - 1 /\ k \in 0 .. Wrap - 1
  BY Bounds DEF Ticks
<1>2. (b - k) % Wrap \in Ticks /\ (b - k) % Wrap = IF k <= b THEN b - k ELSE b - k + Wrap
  <2>1. CASE k <= b
    <3>1. b - k \in Ticks
      BY <1>1, <2>1 DEF Ticks
    <3> QED BY <1>1, <2>1, <3>1, Remainder
  <2>2. CASE ~(k <= b)
    <3>1. b - k \in -Wrap .. -1 /\ b - k \in Int
      BY <1>1, <2>2
    <3> QED BY <1>1, <2>2, <3>1, Remainder
  <2> QED BY <2>1, <2>2
<1>3. Minus(b, (b - k) % Wrap) = IF (b - k) % Wrap <= b THEN b - ((b - k) % Wrap)
                                 ELSE b - ((b - k) % Wrap) + Wrap
  BY <1>2, MinusValue
<1> QED BY <1>1, <1>2, <1>3

\* A time known from k ticks before b, seen from j ticks before b.
LEMMA MinusAt ==
    ASSUME NEW a \in Ticks, NEW b \in Ticks, NEW k \in Ticks, NEW j \in Ticks
    PROVE  LET x == Minus(a, (b - k) % Wrap) - k + j
           IN Minus(a, b - j) = IF x < 0 THEN x + Wrap ELSE IF x < Wrap THEN x ELSE x - Wrap
<1> DEFINE n == Minus(a, (b - k) % Wrap)
           x == n - k + j
           y == a - b + j
<1>1. Wrap \in Nat /\ Wrap > 0 /\ a \in 0 .. Wrap - 1 /\ b \in 0 .. Wrap - 1 /\ k \in 0 .. Wrap - 1
      /\ j \in 0 .. Wrap - 1
  BY Bounds DEF Ticks
<1>2. n \in 0 .. Wrap - 1
  BY MinusEarlier, MinusValue DEF Ticks
<1>3. Minus(a, b) = IF k <= n THEN n - k ELSE n - k + Wrap
  BY MinusEarlier, MinusFrom
<1>4. Minus(a, b) = IF b <= a THEN a - b ELSE a - b + Wrap
  BY MinusValue
<1>5. y = x \/ y = x + Wrap \/ y = x - Wrap
  BY <1>1, <1>2, <1>3, <1>4
<1>6. y \in Int /\ x \in Int /\ Minus(a, b - j) = y % Wrap
  <2>1. a - (b - j) = y
    BY <1>1
  <2> QED BY <1>1, <1>2, <2>1 DEF Minus
<1>7. y \in -Wrap .. 2 * Wrap - 1 /\ x \in -Wrap .. 2 * Wrap - 1
  BY <1>1, <1>2
<1> HIDE DEF y, x
<1>8. y % Wrap = IF y < 0 THEN y + Wrap ELSE IF y < Wrap THEN y ELSE y - Wrap
  <2>1. CASE y < 0
    <3>1. y \in -Wrap .. -1
      BY <1>1, <1>6, <1>7, <2>1
    <3> QED BY <1>6, <2>1, <3>1, Remainder
  <2>2. CASE ~(y < 0) /\ y < Wrap
    <3>1. y \in Ticks
      BY <1>1, <1>6, <1>7, <2>2 DEF Ticks
    <3> QED BY <1>6, <2>2, <3>1, Remainder
  <2>3. CASE ~(y < 0) /\ ~(y < Wrap)
    <3>1. y \in Wrap .. 2 * Wrap - 1
      BY <1>1, <1>6, <1>7, <2>3
    <3> QED BY <1>6, <2>3, <3>1, Remainder
  <2> QED BY <2>1, <2>2, <2>3
<1>9. Minus(a, b - j) = IF x < 0 THEN x + Wrap ELSE IF x < Wrap THEN x ELSE x - Wrap
  <2>1. y < 0 => y + Wrap \in 0 .. Wrap - 1
    BY <1>1, <1>6, <1>7
  <2>2. y >= Wrap => y - Wrap \in 0 .. Wrap - 1
    BY <1>1, <1>6, <1>7
  <2> QED BY <1>1, <1>5, <1>6, <1>7, <1>8, <2>1, <2>2
<1> QED BY <1>9 DEF x, n

\* The clock some ticks back, seen from a time that is not after it.
LEMMA MinusBack ==
    ASSUME NEW a \in Ticks, NEW c \in Ticks, NEW k \in Ticks, k <= Minus(a, c)
    PROVE  (a - k) % Wrap \in Ticks /\ Minus((a - k) % Wrap, c) = Minus(a, c) - k
<1> DEFINE z == (a - k) % Wrap
<1>1. z \in Ticks /\ Minus(a, z) = k
  BY MinusEarlier
<1> HIDE DEF z
<1>2. Minus(a, z) = IF Minus(z, c) <= Minus(a, c) THEN Minus(a, c) - Minus(z, c)
                    ELSE Minus(a, c) - Minus(z, c) + Wrap
  BY <1>1, MinusFrom
<1>3. Minus(z, c) \in 0 .. Wrap - 1 /\ Minus(a, c) \in 0 .. Wrap - 1 /\ Wrap \in Nat /\ k \in Nat
  BY <1>1, MinusValue, Bounds DEF Ticks
<1>4. Minus(z, c) = Minus(a, c) - k
  BY <1>1, <1>2, <1>3
<1> QED BY <1>1, <1>4 DEF z

\* The clock a tick later.
LEMMA MinusTick ==
    ASSUME NEW a \in Ticks, NEW c \in Ticks, Minus(a, c) + 1 < Wrap
    PROVE  (a + 1) % Wrap \in Ticks /\ Minus((a + 1) % Wrap, c) = Minus(a, c) + 1
<1>1. Wrap \in Nat /\ Wrap > 0 /\ a \in 0 .. Wrap - 1 /\ c \in 0 .. Wrap - 1
  BY Bounds DEF Ticks
<1>2. (a + 1) % Wrap \in Ticks /\ (a + 1) % Wrap = IF a + 1 < Wrap THEN a + 1 ELSE 0
  <2>1. CASE a + 1 < Wrap
    BY <1>1, <2>1, Remainder DEF Ticks
  <2>2. CASE ~(a + 1 < Wrap)
    BY <1>1, <2>2, Remainder DEF Ticks
  <2> QED BY <2>1, <2>2
<1>3. /\ Minus(a, c) = IF c <= a THEN a - c ELSE a - c + Wrap
      /\ Minus((a + 1) % Wrap, c) = IF c <= (a + 1) % Wrap THEN ((a + 1) % Wrap) - c
                                    ELSE ((a + 1) % Wrap) - c + Wrap
  BY <1>2, MinusValue
<1> QED BY <1>1, <1>2, <1>3

\* What a delay adds to the clock is what lies between it and the time it gives.
LEMMA MinusLater ==
    ASSUME NEW a \in Ticks, NEW d \in Ticks
    PROVE  (a + d) % Wrap \in Ticks /\ Minus((a + d) % Wrap, a) = d
<1>1. Wrap \in Nat /\ Wrap > 0 /\ a \in 0 .. Wrap - 1 /\ d \in 0 .. Wrap - 1
  BY Bounds DEF Ticks
<1>2. (a + d) % Wrap \in Ticks /\ (a + d) % Wrap = IF a + d < Wrap THEN a + d ELSE a + d - Wrap
  <2>1. CASE a + d < Wrap
    BY <1>1, <2>1, Remainder DEF Ticks
  <2>2. CASE ~(a + d < Wrap)
    BY <1>1, <2>2, Remainder DEF Ticks
  <2> QED BY <2>1, <2>2
<1>3. Minus((a + d) % Wrap, a) = IF a <= (a + d) % Wrap THEN ((a + d) % Wrap) - a
                                 ELSE ((a + d) % Wrap) - a + Wrap
  BY <1>2, MinusValue
<1> QED BY <1>1, <1>2, <1>3

\* A signed difference keeps to the range of the clock on both sides.
LEMMA SignedValue ==
    ASSUME NEW a \in Ticks, NEW b \in Ticks
    PROVE  /\ Signed(a, b) = IF Minus(a, b) < Wrap \div 2 THEN Minus(a, b) ELSE Minus(a, b) - Wrap
           /\ Signed(a, b) \in Int /\ Signed(a, b) + Wrap \in Nat
<1>1. Wrap \in Nat /\ Wrap > 0 /\ Wrap \div 2 \in Nat /\ Minus(a, b) \in 0 .. Wrap - 1
  BY Bounds, MinusValue DEF Ticks
<1> QED BY <1>1 DEF Signed

-----------------------------------------------------------------------------
(* The queue of callbacks.                                                  *)

\* The ranks of a finite set of numbers count them: each rank belongs to one of them.
LEMMA Ranks ==
    ASSUME NEW n \in Nat, NEW S \in SUBSET (1 .. n)
    PROVE  /\ Cardinality(S) \in 0 .. n
           /\ \A k \in 1 .. Cardinality(S) : Nth(S, k) \in S /\ Rank(S, Nth(S, k)) = k
           /\ \A i \in S : Rank(S, i) \in 1 .. Cardinality(S) /\ Nth(S, Rank(S, i)) = i
           /\ \A i, j \in S : i < j => Rank(S, i) < Rank(S, j)
<1> DEFINE Upto(i) == {j \in S : j <= i}
<1>1. IsFiniteSet(1 .. n) /\ Cardinality(1 .. n) = n
  BY FS_Interval
<1>2. IsFiniteSet(S) /\ Cardinality(S) \in Nat /\ Cardinality(S) <= n
  BY <1>1, FS_Subset, FS_CardinalityType
<1>3. \A i \in S : /\ IsFiniteSet(Upto(i)) /\ Cardinality(Upto(i)) \in Nat
                   /\ Cardinality(Upto(i)) <= Cardinality(S)
  BY <1>2, FS_Subset, FS_CardinalityType
<1>4. ASSUME NEW i \in S
      PROVE  Cardinality(Upto(i)) >= 1
  <2>1. {i} \subseteq Upto(i)
    OBVIOUS
  <2>2. Cardinality({i}) = 1
    BY FS_Singleton
  <2> QED BY <1>3, <2>1, <2>2, FS_Subset
<1>5. ASSUME NEW i \in S, NEW j \in S, i < j
      PROVE  Cardinality(Upto(i)) < Cardinality(Upto(j))
  <2>1. Upto(i) \subseteq Upto(j) /\ j \in Upto(j) /\ j \notin Upto(i)
    <3>1. \A k \in S : k <= i => k <= j
      BY <1>5
    <3>2. j <= j /\ ~(j <= i)
      BY <1>5
    <3> QED BY <3>1, <3>2
  <2> HIDE DEF Upto
  <2> QED BY <1>3, <2>1, FS_Subset
<1>6. \A i \in S : Rank(S, i) = Cardinality(Upto(i))
  BY DEF Rank
<1> HIDE DEF Upto
<1>7. \A i \in S : Rank(S, i) \in 1 .. Cardinality(S)
  BY <1>2, <1>3, <1>4, <1>6
<1>8. \A i, j \in S : i < j => Rank(S, i) < Rank(S, j)
  BY <1>5, <1>6
<1>9. \A i, j \in S : Rank(S, i) = Rank(S, j) => i = j
  BY <1>7, <1>8
<1>10. \A k \in 1 .. Cardinality(S) : \E i \in S : Rank(S, i) = k
  <2> DEFINE f == [i \in S |-> Rank(S, i)]
  <2>1. f \in Injection(S, 1 .. Cardinality(S))
    BY <1>7, <1>9, Fun_IsInj
  <2>2. IsFiniteSet(1 .. Cardinality(S)) /\ Cardinality(1 .. Cardinality(S)) = Cardinality(S)
    BY <1>2, FS_Interval
  <2>3. f \in Surjection(S, 1 .. Cardinality(S))
    BY <2>1, <2>2, FS_Injection
  <2> QED BY <2>3 DEF Surjection
<1>11. \A k \in 1 .. Cardinality(S) : Nth(S, k) \in S /\ Rank(S, Nth(S, k)) = k
  BY <1>10 DEF Nth
<1>12. \A i \in S : Nth(S, Rank(S, i)) = i
  BY <1>7, <1>9, <1>11
<1> QED BY <1>2, <1>7, <1>8, <1>11, <1>12

\* What is left of the queue is what belongs to others, in its order.
LEMMA DeletedCallbacks ==
    ASSUME head \in Seq(Callbacks), NEW o
    PROVE  /\ DeleteCallbacks(o) \in Seq(Callbacks) /\ Len(DeleteCallbacks(o)) <= Len(head)
           /\ \A k \in DOMAIN DeleteCallbacks(o) :
                  /\ Nth(Kept(o), k) \in Kept(o) /\ Rank(Kept(o), Nth(Kept(o), k)) = k
                  /\ DeleteCallbacks(o)[k] = head[Nth(Kept(o), k)]
           /\ \A i \in Kept(o) : /\ Rank(Kept(o), i) \in DOMAIN DeleteCallbacks(o)
                                 /\ Nth(Kept(o), Rank(Kept(o), i)) = i
           /\ \A i, j \in Kept(o) : i < j => Rank(Kept(o), i) < Rank(Kept(o), j)
<1> DEFINE n == Len(head)
           K == Kept(o)
           c == Cardinality(K)
           r == DeleteCallbacks(o)
<1>1. n \in Nat /\ DOMAIN head = 1 .. n /\ \A i \in 1 .. n : head[i] \in Callbacks
  BY LenProperties, ElementOfSeq
<1>2. K \in SUBSET (1 .. n)
  BY <1>1 DEF Kept
<1>3. r = [k \in 1 .. c |-> head[Nth(K, k)]]
  BY DEF DeleteCallbacks
<1> HIDE DEF K, r, n
<1>4. /\ c \in 0 .. n
      /\ \A k \in 1 .. c : Nth(K, k) \in K /\ Rank(K, Nth(K, k)) = k
      /\ \A i \in K : Rank(K, i) \in 1 .. c /\ Nth(K, Rank(K, i)) = i
      /\ \A i, j \in K : i < j => Rank(K, i) < Rank(K, j)
  BY <1>1, <1>2, Ranks
<1> HIDE DEF c
<1>5. c \in Nat /\ c <= n
  BY <1>1, <1>4
<1>6. \A k \in 1 .. c : head[Nth(K, k)] \in Callbacks
  BY <1>1, <1>2, <1>4
<1>7. r \in Seq(Callbacks) /\ Len(r) = c /\ DOMAIN r = 1 .. c
  BY <1>3, <1>5, <1>6
<1> QED BY <1>3, <1>4, <1>5, <1>7 DEF K, r, n

\* What the bookkeeping of the queue says, apart from the rest of TypeOK.
Booked ==
    /\ head \in Seq(Callbacks) /\ queued \in [Objects -> BOOLEAN]
    /\ \A o \in Objects : queued[o] <=> Entries(o) # {}
    /\ \A o \in Objects : \A i, j \in Entries(o) : i = j

\* The new queue holds nothing that the old one did not.
NoGain == \A k \in DOMAIN head' : \E i \in DOMAIN head : head'[k] = head[i]

\* The new queue holds nothing that the old one did not, but for x.
Gains(x) == \A k \in DOMAIN head' : head'[k] = x \/ \E i \in DOMAIN head : head'[k] = head[i]

\* Queueing a callback, idempotent or not, keeps the books.
LEMMA EnqueueBooked ==
    ASSUME Booked, NEW o \in Objects, NEW idem \in BOOLEAN,
           head' = Append(head, Callback(o, idem)), idem => ~queued[o],
           queued' = IF idem THEN [queued EXCEPT ![o] = TRUE] ELSE queued
    PROVE  Booked' /\ Gains(Callback(o, idem)) /\ head' # <<>>
<1> DEFINE x == Callback(o, idem)
           n == Len(head)
<1>1. x \in Callbacks /\ x.ctx = o /\ x.idem = idem
  BY DEF Callback, Callbacks
<1>2. n \in Nat /\ DOMAIN head = 1 .. n
  BY LenProperties DEF Booked
<1> HIDE DEF x
<1>3. /\ head' \in Seq(Callbacks) /\ Len(head') = n + 1 /\ DOMAIN head' = 1 .. n + 1
      /\ head'[n + 1] = x /\ \A i \in 1 .. n : head'[i] = head[i]
  BY <1>1, <1>2, AppendProperties DEF Booked, x
<1> HIDE DEF n
<1>5. \A p \in Objects : Entries(p)' = Entries(p) \cup (IF p = o /\ idem THEN {n + 1} ELSE {})
  <2> SUFFICES ASSUME NEW p \in Objects
               PROVE  Entries(p)' = Entries(p) \cup (IF p = o /\ idem THEN {n + 1} ELSE {})
    OBVIOUS
  <2>1. x = Callback(p, TRUE) <=> p = o /\ idem
    BY DEF x, Callback
  <2>5. n + 1 \in 1 .. n + 1 /\ \A i \in 1 .. n + 1 : i \in 1 .. n \/ i = n + 1
    BY <1>2
  <2>2. /\ \A i \in 1 .. n + 1 : i \in Entries(p)' <=> head'[i] = Callback(p, TRUE)
        /\ \A i \in 1 .. n : head'[i] = Callback(p, TRUE) <=> i \in Entries(p)
        /\ n + 1 \in Entries(p)' <=> p = o /\ idem
    BY <1>2, <1>3, <2>1, <2>5 DEF Entries
  <2>3. Entries(p)' \subseteq 1 .. n + 1 /\ Entries(p) \subseteq 1 .. n
    BY <1>2, <1>3 DEF Entries
  <2>4. \A i \in 1 .. n : i \in 1 .. n + 1
    BY <1>2
  <2> QED BY <2>2, <2>3, <2>4, <2>5
<1>6. \A p \in Objects : \A i \in Entries(p) : i \in 1 .. n
  BY <1>2 DEF Entries
<1>7. \A p \in Objects : queued'[p] <=> Entries(p)' # {}
  <2> SUFFICES ASSUME NEW p \in Objects
               PROVE  queued'[p] <=> Entries(p)' # {}
    OBVIOUS
  <2>1. CASE p = o /\ idem
    <3>1. queued'[p] /\ n + 1 \in Entries(p)'
      BY <1>5, <2>1 DEF Booked
    <3> QED BY <3>1
  <2>2. CASE ~(p = o /\ idem)
    <3>1. queued'[p] <=> queued[p]
      BY <2>2 DEF Booked
    <3> QED BY <1>5, <2>2, <3>1 DEF Booked
  <2> QED BY <2>1, <2>2
<1>8. \A p \in Objects : \A i, j \in Entries(p)' : i = j
  BY <1>5 DEF Booked
<1>9. queued' \in [Objects -> BOOLEAN]
  BY DEF Booked
<1>10. Gains(x) /\ head' # <<>>
  BY <1>2, <1>3, EmptySeq DEF Gains
<1> QED BY <1>3, <1>7, <1>8, <1>9, <1>10 DEF Booked, x

\* A callback is its two fields.
LEMMA CallbackFields ==
    ASSUME NEW c \in Callbacks
    PROVE  /\ c.ctx \in Objects /\ c.idem \in BOOLEAN
           /\ \A o : c = Callback(o, TRUE) <=> o = c.ctx /\ c.idem
<1>1. PICK o \in Objects, b \in BOOLEAN : c = [ctx |-> o, idem |-> b]
  BY DEF Callbacks
<1>2. c.ctx = o /\ (c.idem <=> b)
  BY <1>1
<1> QED BY <1>1, <1>2 DEF Callback

\* So does taking the first callback of the queue.
LEMMA StartBooked ==
    ASSUME Booked, head # <<>>, StartCallback
    PROVE  /\ Booked' /\ NoGain
           /\ running' \in Objects /\ \E i \in DOMAIN head : running' = head[i].ctx
<1> DEFINE n == Len(head)
           c == head[1]
<1>1. n \in Nat /\ DOMAIN head = 1 .. n /\ n >= 1 /\ 1 \in 1 .. n
  BY LenProperties, EmptySeq DEF Booked
<1>2. running' = c.ctx /\ c \in Callbacks
  BY <1>1, HeadTailProperties, ElementOfSeq DEF Booked, StartCallback
<1> HIDE DEF c
<1>3. /\ head' \in Seq(Callbacks) /\ Len(head') = n - 1 /\ DOMAIN head' = 1 .. n - 1
      /\ \A i \in 1 .. n - 1 : head'[i] = head[i + 1]
  BY <1>1, HeadTailProperties, LenProperties DEF Booked, StartCallback
<1>4. queued' = IF c.idem THEN [queued EXCEPT ![c.ctx] = FALSE] ELSE queued
  BY <1>1, HeadTailProperties DEF Booked, StartCallback, c
<1> HIDE DEF n
<1>5. \A i \in 1 .. n - 1 : i + 1 \in 1 .. n
  BY <1>1
<1>6. \A i \in 1 .. n : i = 1 \/ i - 1 \in 1 .. n - 1
  BY <1>1
<1>7. c.ctx \in Objects /\ \A o \in Objects : c = Callback(o, TRUE) <=> o = c.ctx /\ c.idem
  BY <1>2, CallbackFields
<1>8. \A o \in Objects : \A i \in 1 .. n - 1 : i \in Entries(o)' <=> i + 1 \in Entries(o)
  BY <1>1, <1>3, <1>5 DEF Entries
<1>9. \A o \in Objects : Entries(o)' \subseteq 1 .. n - 1 /\ Entries(o) \subseteq 1 .. n
  BY <1>1, <1>3 DEF Entries
<1>10. \A o \in Objects : 1 \in Entries(o) <=> o = c.ctx /\ c.idem
  BY <1>1, <1>7 DEF Entries, c
<1>11. ASSUME NEW o \in Objects
       PROVE  (queued'[o] <=> Entries(o)' # {}) /\ \A i, j \in Entries(o)' : i = j
  <2>1. \A i, j \in Entries(o)' : i + 1 = j + 1
    BY <1>8, <1>9 DEF Booked
  <2>2. \A i, j \in Entries(o)' : i = j
    BY <1>1, <1>9, <2>1
  <2>3. CASE o = c.ctx /\ c.idem
    <3>1. Entries(o)' = {}
      <4> SUFFICES ASSUME NEW i \in Entries(o)' PROVE FALSE
        OBVIOUS
      <4>1. i \in 1 .. n - 1 /\ i + 1 \in Entries(o) /\ 1 \in Entries(o)
        BY <1>8, <1>9, <1>10, <2>3
      <4>2. i + 1 = 1
        BY <4>1 DEF Booked
      <4> QED BY <1>1, <4>1, <4>2
    <3>2. ~queued'[o]
      BY <1>4, <2>3 DEF Booked
    <3> QED BY <2>2, <3>1, <3>2
  <2>4. CASE ~(o = c.ctx /\ c.idem)
    <3>1. queued'[o] <=> queued[o]
      BY <1>4, <1>7, <2>4 DEF Booked
    <3>2. ASSUME NEW i \in Entries(o)
          PROVE  i - 1 \in Entries(o)'
      <4>1. i \in 1 .. n /\ i # 1
        BY <1>9, <1>10, <2>4
      <4>2. i - 1 \in 1 .. n - 1 /\ (i - 1) + 1 = i
        BY <1>1, <4>1
      <4> QED BY <1>8, <4>2
    <3>3. \A i \in Entries(o)' : i + 1 \in Entries(o)
      BY <1>8, <1>9
    <3> QED BY <2>2, <3>1, <3>2, <3>3 DEF Booked
  <2> QED BY <2>3, <2>4
<1>12. queued' \in [Objects -> BOOLEAN]
  BY <1>4 DEF Booked
<1>13. NoGain
  BY <1>1, <1>3, <1>5 DEF NoGain
<1>15. \E i \in DOMAIN head : running' = head[i].ctx
  BY <1>1, <1>2 DEF c
<1> QED BY <1>2, <1>3, <1>7, <1>11, <1>12, <1>13, <1>15 DEF Booked

\* So does deleting the callbacks of an object, and none of them stays.
LEMMA FreeBooked ==
    ASSUME Booked, NEW o \in Objects, head' = DeleteCallbacks(o),
           queued' = [queued EXCEPT ![o] = FALSE]
    PROVE  /\ Booked' /\ NoGain
           /\ \A k \in DOMAIN head' : head'[k].ctx # o
           /\ head' # <<>> => head # <<>>
<1> DEFINE K == Kept(o)
<1>1. /\ head' \in Seq(Callbacks) /\ Len(head') <= Len(head)
      /\ \A k \in DOMAIN head' : Nth(K, k) \in K /\ Rank(K, Nth(K, k)) = k /\ head'[k] = head[Nth(K, k)]
      /\ \A i \in K : Rank(K, i) \in DOMAIN head' /\ Nth(K, Rank(K, i)) = i
      /\ \A i, j \in K : i < j => Rank(K, i) < Rank(K, j)
  BY DeletedCallbacks DEF Booked
<1>2. \A i : i \in K <=> i \in DOMAIN head /\ head[i].ctx # o
  BY DEF Kept
<1>3. Len(head') \in Nat /\ Len(head) \in Nat
  BY <1>1, LenProperties DEF Booked
<1> HIDE DEF K
<1>4. \A k \in DOMAIN head' : head'[k].ctx # o /\ Nth(K, k) \in DOMAIN head /\ head'[k] = head[Nth(K, k)]
  BY <1>1, <1>2
<1>5. \A p \in Objects : \A k \in Entries(p)' : Nth(K, k) \in Entries(p) /\ p # o
  <2> SUFFICES ASSUME NEW p \in Objects, NEW k \in Entries(p)'
               PROVE  Nth(K, k) \in Entries(p) /\ p # o
    OBVIOUS
  <2>1. k \in DOMAIN head' /\ head'[k] = Callback(p, TRUE)
    BY DEF Entries
  <2>2. Callback(p, TRUE).ctx = p
    BY DEF Callback
  <2> QED BY <1>4, <2>1, <2>2 DEF Entries
<1>6. \A p \in Objects \ {o} : \A i \in Entries(p) : i \in K /\ Rank(K, i) \in Entries(p)'
  <2> SUFFICES ASSUME NEW p \in Objects \ {o}, NEW i \in Entries(p)
               PROVE  i \in K /\ Rank(K, i) \in Entries(p)'
    OBVIOUS
  <2>1. i \in DOMAIN head /\ head[i] = Callback(p, TRUE) /\ head[i].ctx # o
    BY DEF Entries, Callback
  <2>2. i \in K /\ Rank(K, i) \in DOMAIN head' /\ head'[Rank(K, i)] = head[i]
    BY <1>1, <1>2, <2>1
  <2> QED BY <2>1, <2>2 DEF Entries
<1>7. \A p \in Objects : queued'[p] <=> Entries(p)' # {}
  <2> SUFFICES ASSUME NEW p \in Objects
               PROVE  queued'[p] <=> Entries(p)' # {}
    OBVIOUS
  <2>1. CASE p = o
    BY <1>5, <2>1 DEF Booked
  <2>2. CASE p # o
    <3>1. queued'[p] <=> queued[p]
      BY <2>2 DEF Booked
    <3> QED BY <1>5, <1>6, <2>2, <3>1 DEF Booked
  <2> QED BY <2>1, <2>2
<1>8. ASSUME NEW p \in Objects, NEW k \in Entries(p)', NEW l \in Entries(p)'
      PROVE  k = l
  <2>1. Nth(K, k) = Nth(K, l)
    BY <1>5 DEF Booked
  <2>2. k \in DOMAIN head' /\ l \in DOMAIN head'
    BY DEF Entries
  <2> QED BY <1>1, <2>1, <2>2
<1>9. queued' \in [Objects -> BOOLEAN]
  BY DEF Booked
<1>11. NoGain
  BY <1>4 DEF NoGain
<1>12. head' # <<>> => head # <<>>
  BY <1>1, <1>3, EmptySeq
<1> QED BY <1>1, <1>4, <1>7, <1>8, <1>9, <1>11, <1>12 DEF Booked

-----------------------------------------------------------------------------
(* The timers.                                                              *)

Less == {ss \in Nat \X Nat : ss[1] < ss[2]}

\* A set of numbers that is not empty has a least element.
LEMMA LeastNumber ==
    ASSUME NEW S \in SUBSET Nat, S # {}
    PROVE  \E m \in S : \A k \in S : m <= k
<1>1. IsWellFoundedOn(Less, Nat)
  BY NatLessThanWellFounded DEF OpToRel, Less
<1>2. PICK m \in S : \A k \in S : <<k, m>> \notin Less
  BY <1>1, WFMin
<1>3. \A k \in S : ~(k < m)
  BY <1>2 DEF Less
<1> QED BY <1>3

\* The first of the timers is one of them, however many there are.
LEMMA FirstOfTimers ==
    ASSUME NEW ts \in SUBSET Timers, ts # {}, NEW at \in Ticks
    PROVE  First(ts, at) \in ts
<1> DEFINE v(t) == Signed(t.due, at) + Wrap
           V == {v(t) : t \in ts}
<1>1. \A t \in ts : t.due \in Ticks /\ Signed(t.due, at) \in Int /\ v(t) \in Nat
  BY SignedValue DEF Timers
<1>2. Wrap \in Nat
  BY Bounds
<1> HIDE DEF v
<1>3. V \in SUBSET Nat /\ V # {}
  BY <1>1
<1>4. PICK m \in V : \A k \in V : m <= k
  <2> HIDE DEF V
  <2> QED BY <1>3, LeastNumber
<1>5. PICK t \in ts : m = v(t)
  BY <1>4
<1>6. \A u \in ts : v(t) <= v(u)
  BY <1>4, <1>5
<1>7. \A u \in ts : Signed(t.due, at) <= Signed(u.due, at)
  BY <1>1, <1>2, <1>6 DEF v
<1>8. \E x \in ts : \A u \in ts : Signed(x.due, at) <= Signed(u.due, at)
  BY <1>7
<1> QED BY <1>8, Zenon DEF First

\* The fields of a timer, and its times seen from its origin.
LEMMA TimerFacts ==
    ASSUME TypeOK, NEW t \in timers
    PROVE  /\ t \in Timers /\ t.ctx \in Objects /\ t.due \in Ticks /\ t.set \in Ticks
           /\ clock \in Ticks /\ now \in Ticks /\ back \in 0 .. MaxBack
           /\ MaxBack \in Ticks /\ Slack \in Ticks /\ Origin(t) \in Ticks
           /\ Minus(t.due, t.set) \in Ticks /\ Since(t.set, t) = MaxBack
           /\ \A x \in Ticks : Since(x, t) \in Ticks
           /\ Minus(t.due, t.set) \in 1 .. MaxDelay => Since(t.due, t) = MaxBack + Minus(t.due, t.set)
<1>1. t \in Timers /\ clock \in Ticks /\ now \in Ticks /\ back \in 0 .. MaxBack
  BY DEF TypeOK
<1>2. t.ctx \in Objects /\ t.due \in Ticks /\ t.set \in Ticks
  BY <1>1 DEF Timers
<1>3. MaxBack \in Ticks /\ Slack \in Ticks
  BY Bounds DEF Ticks
<1>4. Origin(t) \in Ticks /\ Since(t.set, t) = MaxBack
  BY <1>2, <1>3, MinusEarlier DEF Origin, Since
<1>5. Minus(t.due, t.set) \in Ticks /\ \A x \in Ticks : Since(x, t) \in Ticks
  BY <1>2, <1>4, MinusValue DEF Since
<1>6. Minus(t.due, t.set) = IF MaxBack <= Since(t.due, t) THEN Since(t.due, t) - MaxBack
                            ELSE Since(t.due, t) - MaxBack + Wrap
  BY <1>2, <1>4, MinusFrom DEF Since
<1>7. ASSUME Minus(t.due, t.set) \in 1 .. MaxDelay
      PROVE  Since(t.due, t) = MaxBack + Minus(t.due, t.set)
  <2>1. Since(t.due, t) \in 0 .. Wrap - 1
    BY <1>2, <1>5 DEF Ticks
  <2> QED BY <1>6, <1>7, <2>1, Bounds
<1> QED BY <1>1, <1>2, <1>3, <1>4, <1>5, <1>7

\* A timer that is found due is past its time, or the clock has jumped to before it was set.
LEMMA DueIsPast ==
    ASSUME TypeOK, Timely, pc = "timers", NEW t \in timers, Due(t)
    PROVE  Signed(now, t.due) > 0 \/ Signed(now, t.set) < -Slack
<1> DEFINE d == Minus(t.due, t.set)
           n == Since(now, t)
<1>1. /\ d \in 1 .. MaxDelay /\ n \in 0 .. MaxBack + d + MaxLate
      /\ t.due \in Ticks /\ t.set \in Ticks /\ now \in Ticks /\ Origin(t) \in Ticks
      /\ MaxBack \in Ticks /\ Slack \in Ticks
      /\ Since(t.set, t) = MaxBack /\ Since(t.due, t) = MaxBack + d
  BY TimerFacts DEF Timely, Latest
<1>2. LET x == n - MaxBack + Slack
      IN Minus(now, t.set - Slack) = IF x < 0 THEN x + Wrap ELSE IF x < Wrap THEN x ELSE x - Wrap
  BY <1>1, MinusAt DEF Since, Origin
<1>3. LET x == Since(t.due, t) - MaxBack + Slack
      IN Minus(t.due, t.set - Slack) = IF x < 0 THEN x + Wrap ELSE IF x < Wrap THEN x ELSE x - Wrap
  BY <1>1, MinusAt DEF Since, Origin
<1>4. Minus(now, t.due) = IF MaxBack + d <= n THEN n - (MaxBack + d) ELSE n - (MaxBack + d) + Wrap
  BY <1>1, MinusFrom DEF Since
<1>5. Minus(now, t.set) = IF MaxBack <= n THEN n - MaxBack ELSE n - MaxBack + Wrap
  BY <1>1, MinusFrom DEF Since
<1>6. /\ Signed(now, t.due) = IF Minus(now, t.due) < Wrap \div 2 THEN Minus(now, t.due)
                               ELSE Minus(now, t.due) - Wrap
      /\ Signed(now, t.set) = IF Minus(now, t.set) < Wrap \div 2 THEN Minus(now, t.set)
                               ELSE Minus(now, t.set) - Wrap
  BY <1>1, SignedValue
<1> HIDE DEF d, n
<1>7. Minus(t.due, t.set - Slack) = d + Slack
  BY <1>1, <1>3, Bounds DEF Ticks
<1>8. CASE n > MaxBack + d
  <2>1. Minus(now, t.due) = n - (MaxBack + d) /\ n - (MaxBack + d) \in 1 .. MaxLate
    BY <1>1, <1>4, <1>8, Bounds
  <2> QED BY <1>6, <2>1, Bounds
<1>9. CASE n <= MaxBack + d /\ n - MaxBack < -Slack
  <2>1. Minus(now, t.set) = n - MaxBack + Wrap /\ ~(Minus(now, t.set) < Wrap \div 2)
    BY <1>1, <1>5, <1>9, Bounds
  <2> QED BY <1>1, <1>6, <1>9, <2>1, Bounds
<1>10. CASE n <= MaxBack + d /\ ~(n - MaxBack < -Slack)
  <2>1. Minus(now, t.set - Slack) = n - MaxBack + Slack
    BY <1>1, <1>2, <1>10, Bounds
  <2>2. ~(n - MaxBack + Slack > d + Slack)
    BY <1>1, <1>10, Bounds
  <2> QED BY <1>7, <2>1, <2>2 DEF Due
<1> QED BY <1>1, <1>8, <1>9, <1>10, Bounds

\* Time passes, but not so much that a timer is found later than MaxLate.
LEMMA TickTimely ==
    ASSUME TypeOK, Timely, Tick
    PROVE  Timely' /\ clock' \in Ticks
<1>1. /\ timers' = timers /\ now' = now /\ pc' = pc /\ back' = back /\ clock' = (clock + 1) % Wrap
      /\ clock \in Ticks /\ \A t \in timers : Signed(clock, t.due) < MaxLate
  BY DEF Tick, MayTick, timing, TypeOK
<1>2. clock' \in Ticks
  BY <1>1, Bounds, Remainder DEF Ticks
<1>3. ASSUME NEW t \in timers
      PROVE  Since(clock', t) \in MaxBack - back .. Latest(t)
  <2> DEFINE d == Minus(t.due, t.set)
             c == Since(clock, t)
  <2>1. /\ d \in 1 .. MaxDelay /\ c \in MaxBack - back .. MaxBack + d + MaxLate /\ c \in Ticks
        /\ back \in 0 .. MaxBack /\ t.due \in Ticks /\ Origin(t) \in Ticks
        /\ Since(t.due, t) = MaxBack + d
    BY <1>1, TimerFacts DEF Timely, Latest
  <2>2. Minus(clock, t.due) = IF MaxBack + d <= c THEN c - (MaxBack + d) ELSE c - (MaxBack + d) + Wrap
    BY <1>1, <2>1, MinusFrom DEF Since
  <2>3. Signed(clock, t.due) = IF Minus(clock, t.due) < Wrap \div 2 THEN Minus(clock, t.due)
                               ELSE Minus(clock, t.due) - Wrap
    BY <1>1, <2>1, SignedValue
  <2>4. c + 1 < Wrap => Since(clock', t) = c + 1
    BY <1>1, <2>1, MinusTick DEF Since
  <2> HIDE DEF d, c
  <2>5. c < MaxBack + d + MaxLate
    <3>1. CASE MaxBack + d <= c
      <4>1. Minus(clock, t.due) = c - (MaxBack + d) /\ c - (MaxBack + d) \in 0 .. MaxLate
        BY <2>1, <2>2, <3>1, Bounds
      <4>2. Signed(clock, t.due) = c - (MaxBack + d)
        BY <2>3, <4>1, Bounds
      <4> QED BY <1>1, <2>1, <4>1, <4>2, Bounds
    <3>2. CASE ~(MaxBack + d <= c)
      BY <1>1, <2>1, <3>2, Bounds DEF Ticks
    <3> QED BY <3>1, <3>2
  <2>6. c + 1 < Wrap /\ c + 1 \in MaxBack - back .. MaxBack + d + MaxLate
    BY <2>1, <2>5, Bounds
  <2> QED BY <2>4, <2>6 DEF c, d, Latest
<1> QED BY <1>1, <1>2, <1>3 DEF Timely, Since, Latest, Origin

\* Nor does the clock jump back further than its origin.
LEMMA JumpTimely ==
    ASSUME TypeOK, Timely, Jump
    PROVE  Timely' /\ clock' \in Ticks /\ back' \in 0 .. MaxBack
<1>1. /\ timers' = timers /\ now' = now /\ pc' = pc /\ clock \in Ticks /\ back \in 0 .. MaxBack
  BY DEF Jump, TypeOK
<1>2. PICK k \in 1 .. MaxBack - back : clock' = (clock - k) % Wrap /\ back' = back + k
  BY DEF Jump
<1>3. k \in Ticks /\ back' \in 0 .. MaxBack
  BY <1>1, <1>2, Bounds DEF Ticks
<1>4. clock' \in Ticks
  BY <1>1, <1>2, <1>3, MinusEarlier
<1>5. ASSUME NEW t \in timers
      PROVE  Since(clock', t) \in MaxBack - back' .. Latest(t)
  <2> DEFINE d == Minus(t.due, t.set)
             c == Since(clock, t)
  <2>1. /\ d \in 1 .. MaxDelay /\ c \in MaxBack - back .. MaxBack + d + MaxLate /\ c \in Ticks
        /\ Origin(t) \in Ticks
    BY <1>1, TimerFacts DEF Timely, Latest
  <2>2. k <= c
    BY <1>1, <2>1, Bounds
  <2>3. Since(clock', t) = c - k
    BY <1>1, <1>2, <1>3, <2>1, <2>2, MinusBack DEF Since
  <2> HIDE DEF d, c
  <2>4. c - k \in MaxBack - back' .. MaxBack + d + MaxLate
    BY <1>1, <1>2, <2>1, <2>2, Bounds
  <2> QED BY <2>3, <2>4 DEF d, Latest
<1> QED BY <1>1, <1>3, <1>4, <1>5 DEF Timely, Since, Latest, Origin

\* A timer that is set is set for a time to come.
LEMMA NewTimer ==
    ASSUME clock \in Ticks, NEW o \in Objects, NEW ticks \in 0 .. MaxDelay, NEW when,
           when = IF ticks = 0 THEN (clock + 1) % Wrap ELSE (clock + ticks) % Wrap
    PROVE  /\ when \in Ticks /\ Timer(o, when, clock) \in Timers
           /\ Minus(when, clock) \in 1 .. MaxDelay
<1>1. PICK d \in 1 .. MaxDelay : when = (clock + d) % Wrap
  <2>1. CASE ticks = 0
    BY <2>1, Bounds
  <2>2. CASE ticks # 0
    BY <2>2, Bounds
  <2> QED BY <2>1, <2>2
<1>2. d \in Ticks /\ clock \in Int
  BY Bounds DEF Ticks
<1>3. when \in Ticks /\ Minus(when, clock) = d
  BY <1>1, <1>2, MinusLater
<1>4. Timer(o, when, clock) \in Timers
  BY <1>3 DEF Timer, Timers
<1> QED BY <1>3, <1>4

-----------------------------------------------------------------------------
(* The invariant, action by action.                                         *)

\* TypeOK without the queue and without the time.
Placed ==
    /\ alive \subseteq Objects /\ contexts \subseteq Objects /\ asked \subseteq Objects
    /\ idle \in BOOLEAN /\ pc \in {"loop", "fd", "fd callback", "idle", "timers"}
    /\ running \in {None} \cup Objects

\* What TypeOK says of the time.
Timed ==
    /\ clock \in Ticks /\ now \in Ticks /\ then \in Ticks /\ back \in 0 .. MaxBack
    /\ timers \subseteq Timers
    /\ timeout \in {None} \cup Timeouts

\* TypeOK is these three.
LEMMA Types == TypeOK <=> Booked /\ Placed /\ Timed
  BY DEF TypeOK, Booked, Placed, Timed

\* And so it is in the next state.
LEMMA TypesNext == TypeOK' <=> Booked' /\ Placed' /\ Timed'
  BY DEF TypeOK, Booked, Placed, Timed

\* A queue that stays as it is keeps its books.
LEMMA BookedSame ==
    ASSUME Booked, UNCHANGED callbacks
    PROVE  Booked' /\ NoGain
<1>1. head' = head /\ queued' = queued
  BY DEF callbacks
<1>2. \A o : Entries(o)' = Entries(o)
  BY <1>1 DEF Entries
<1> QED BY <1>1, <1>2 DEF Booked, NoGain

\* Timers that stay, or go, or change hands, stay within their time as long as the clock does.
LEMMA TimelySame ==
    ASSUME Timely, \A t \in timers' : \E u \in timers : t.due = u.due /\ t.set = u.set,
           UNCHANGED time, pc' = "timers" => pc = "timers" /\ now' = now
    PROVE  Timely'
<1> SUFFICES ASSUME NEW t \in timers'
             PROVE  /\ Minus(t.due, t.set) \in 1 .. MaxDelay
                    /\ Since(clock', t) \in MaxBack - back' .. Latest(t)
                    /\ pc' = "timers" => Since(now', t) \in 0 .. Latest(t)
  BY DEF Timely, Since, Latest, Origin
<1>1. PICK u \in timers : t.due = u.due /\ t.set = u.set
  OBVIOUS
<1>2. Origin(t) = Origin(u) /\ Latest(t) = Latest(u)
  BY <1>1 DEF Origin, Latest
<1>3. clock' = clock /\ back' = back
  BY DEF time
<1> QED BY <1>1, <1>2, <1>3 DEF Timely, Since

\* What belongs to the living still does when what is added does, and nobody dies.
LEMMA LivingSame ==
    ASSUME Living, alive \subseteq alive', contexts' \subseteq contexts \cup alive',
           NoGain \/ \E x : Gains(x) /\ x.ctx \in alive'
    PROVE  Living'
<1>1. \A k \in DOMAIN head' : head'[k].ctx \in alive'
  BY DEF Living, Gains, NoGain
<1> QED BY <1>1 DEF Living

\* Queueing a callback preserves the invariant.
LEMMA QueueInv ==
    ASSUME IInv, NEW o \in Objects, o \in alive, Queue(o) \/ QueueIdempotent(o),
           UNCHANGED <<pc, running, time, then>>
    PROVE  IInv'
<1>1. Booked /\ Placed /\ Timed /\ Living /\ Owned /\ Timely /\ Woken
  BY Types DEF IInv
<1>2. PICK idem \in BOOLEAN :
        /\ Enqueue(o, idem) /\ (idem => ~queued[o])
        /\ queued' = IF idem THEN [queued EXCEPT ![o] = TRUE] ELSE queued
  <2>1. CASE Queue(o)
    BY <2>1 DEF Queue
  <2>2. CASE QueueIdempotent(o)
    BY <2>2 DEF QueueIdempotent
  <2> QED BY <2>1, <2>2
<1>3. UNCHANGED <<timers, contexts, asked, now, timeout, alive>>
  BY DEF Queue, QueueIdempotent, timing
<1>4. head' = Append(head, Callback(o, idem)) /\ idle' = (idle \/ MustNotify)
  BY <1>2 DEF Enqueue
<1>5. Booked' /\ Gains(Callback(o, idem)) /\ head' # <<>>
  BY <1>1, <1>2, <1>4, EnqueueBooked
<1>6. Callback(o, idem).ctx = o
  BY DEF Callback
<1>7. Living'
  BY <1>1, <1>3, <1>5, <1>6, LivingSame
<1>8. idle' = TRUE
  BY <1>1, <1>4 DEF Woken, MustNotify, Placed
<1>9. Placed' /\ Timed' /\ Owned'
  BY <1>1, <1>3, <1>8 DEF Placed, Timed, Owned, time
<1>10. Timely'
  BY <1>1, <1>3, TimelySame
<1>11. Woken'
  BY <1>1, <1>3, <1>8 DEF Woken
<1> QED BY <1>5, <1>7, <1>9, <1>10, <1>11, TypesNext DEF IInv

\* What an end and a free leave of a timer: its context and its two times.
LEMMA TimerKept ==
    ASSUME NEW t \in Timers, NEW o
    PROVE  /\ Shared(o, t) \in Timers /\ Orphaned(o, t) \in Timers
           /\ Shared(o, t).ctx = t.ctx /\ Shared(o, t).due = t.due /\ Shared(o, t).set = t.set
           /\ Orphaned(o, t).ctx = t.ctx /\ Orphaned(o, t).due = t.due /\ Orphaned(o, t).set = t.set
           /\ Shared(o, t).by = IF o \in contexts THEN "living" ELSE "unheard"
           /\ t.ctx # o => Orphaned(o, t) = t
           /\ t.ctx = o => Orphaned(o, t).by = "freed"
           /\ t.by = "living" /\ o \in contexts => Shared(o, t) = t
<1>1. t = [ctx |-> t.ctx, due |-> t.due, set |-> t.set, by |-> t.by]
      /\ t.ctx \in Objects /\ t.due \in Ticks /\ t.set \in Ticks /\ t.by \in {"living", "freed", "unheard"}
  BY DEF Timers
<1> QED BY <1>1 DEF Shared, Orphaned, Timers

\* Asking again for a timer that is in the tree already preserves it.
LEMMA SharedInv ==
    ASSUME IInv, NEW o \in Objects, o \in alive, NEW twin \in SUBSET timers, twin # {},
           \A u \in twin : u.ctx = o,
           now' = IF pc = "timers" THEN clock ELSE 0,
           timers' = (timers \ twin) \cup {Shared(o, u) : u \in twin},
           asked' = asked \cup {o},
           UNCHANGED <<contexts, timeout, callbacks, idle, alive, pc, running, time, then>>
    PROVE  IInv'
<1>1. Booked /\ Placed /\ Timed /\ Living /\ Owned /\ Timely /\ Woken
  BY Types DEF IInv
<1>2. Booked' /\ NoGain
  BY <1>1, BookedSame
<1>3. Living'
  BY <1>1, <1>2, LivingSame
<1>4. ASSUME NEW t \in timers'
      PROVE  /\ t \in Timers
             /\ t.by = "living" => t.ctx \in contexts
             /\ \E u \in timers : t.due = u.due /\ t.set = u.set
  <2>1. CASE t \in timers
    BY <1>1, <2>1 DEF Timed, Owned
  <2>2. CASE \E u \in twin : t = Shared(o, u)
    <3>1. PICK u \in twin : t = Shared(o, u)
      BY <2>2
    <3>2. u \in timers /\ u \in Timers /\ u.ctx = o
      BY <1>1, <3>1 DEF Timed
    <3>3. t \in Timers /\ t.ctx = o /\ t.due = u.due /\ t.set = u.set
          /\ t.by = IF o \in contexts THEN "living" ELSE "unheard"
      BY <3>1, <3>2, TimerKept
    <3> QED BY <3>2, <3>3
  <2> QED BY <2>1, <2>2
<1>5. Owned'
  BY <1>1, <1>4 DEF Owned
<1>6. 0 \in Ticks /\ clock' = clock /\ back' = back
  BY Bounds DEF Ticks, time
<1>7. Placed' /\ Timed'
  BY <1>1, <1>4, <1>6 DEF Placed, Timed
<1>8. Timely'
  <2> SUFFICES ASSUME NEW t \in timers'
               PROVE  /\ Minus(t.due, t.set) \in 1 .. MaxDelay
                      /\ Since(clock, t) \in MaxBack - back .. Latest(t)
                      /\ pc = "timers" => Since(clock, t) \in 0 .. Latest(t)
    BY <1>6 DEF Timely, Since, Latest, Origin
  <2>1. PICK u \in timers : t.due = u.due /\ t.set = u.set
    BY <1>4
  <2>2. Origin(t) = Origin(u) /\ Latest(t) = Latest(u)
    BY <2>1 DEF Origin, Latest
  <2>3. Minus(t.due, t.set) \in 1 .. MaxDelay /\ Since(clock, t) \in MaxBack - back .. Latest(t)
    BY <1>1, <2>1, <2>2 DEF Timely, Since
  <2>4. back \in 0 .. MaxBack
    BY <1>1 DEF Timed
  <2>5. Latest(t) \in Int
    BY <2>3, Bounds DEF Latest
  <2> QED BY <2>3, <2>4, <2>5, Bounds
<1>9. Woken'
  BY <1>1 DEF Woken, InCallback, callbacks
<1> QED BY <1>2, <1>3, <1>5, <1>7, <1>8, <1>9, TypesNext DEF IInv

\* So does setting one that is not.
LEMMA NewTimerInv ==
    ASSUME IInv, NEW o \in Objects, o \in alive, NEW ticks \in 0 .. MaxDelay, NEW when,
           when = IF ticks = 0 THEN (clock + 1) % Wrap ELSE (clock + ticks) % Wrap,
           now' = IF pc = "timers" THEN clock ELSE 0,
           timers' = timers \cup {Timer(o, when, clock)},
           contexts' = contexts \cup {o}, asked' = asked \cup {o},
           timeout' = IF First(timers', clock) = Timer(o, when, clock) THEN Arm(when) ELSE timeout,
           UNCHANGED <<callbacks, idle, alive, pc, running, time, then>>
    PROVE  IInv'
<1> DEFINE t == Timer(o, when, clock)
<1>1. Booked /\ Placed /\ Timed /\ Living /\ Owned /\ Timely /\ Woken
  BY Types DEF IInv
<1>2. /\ when \in Ticks /\ t \in Timers /\ Minus(when, clock) \in 1 .. MaxDelay
      /\ t.due = when /\ t.set = clock /\ t.ctx = o
      /\ clock \in Ticks /\ Wrap \in Nat /\ Wrap > 0 /\ back \in 0 .. MaxBack
      /\ clock' = clock /\ back' = back
  BY <1>1, NewTimer, Bounds DEF Timed, Timer, time
<1>3. timers' = timers \cup {t}
  OBVIOUS
<1>4. timeout' = IF First(timers', clock) = t THEN Arm(when) ELSE timeout
  OBVIOUS
<1> HIDE DEF t
<1>5. Booked' /\ NoGain
  BY <1>1, BookedSame
<1>6. Living'
  BY <1>1, <1>5, LivingSame
<1>7. Arm(when) \in Timeouts
  <2>1. Signed(when, clock) \in Int
    BY <1>2, SignedValue
  <2>2. (clock + (IF Signed(when, clock) <= 0 THEN 1 ELSE Signed(when, clock))) % Wrap \in Ticks
    BY <1>2, <2>1, Remainder DEF Ticks
  <2> QED BY <1>2, <2>2 DEF Arm, Timeouts
<1>8. Timed'
  <2>1. now' \in Ticks
    BY <1>2, Bounds DEF Ticks
  <2>2. timers' \subseteq Timers
    BY <1>1, <1>2, <1>3 DEF Timed
  <2>3. timeout' \in {None} \cup Timeouts
    BY <1>1, <1>4, <1>7 DEF Timed
  <2> QED BY <1>1, <1>2, <2>1, <2>2, <2>3 DEF Timed
<1>9. Placed' /\ Owned'
  BY <1>1, <1>2, <1>3 DEF Placed, Owned
<1>10. Timely'
  <2> SUFFICES ASSUME NEW u \in timers'
               PROVE  /\ Minus(u.due, u.set) \in 1 .. MaxDelay
                      /\ Since(clock, u) \in MaxBack - back .. Latest(u)
                      /\ pc = "timers" => Since(clock, u) \in 0 .. Latest(u)
    BY <1>2 DEF Timely, Since, Latest, Origin
  <2>1. Minus(u.due, u.set) \in 1 .. MaxDelay /\ Since(clock, u) \in MaxBack - back .. Latest(u)
    <3>1. CASE u \in timers
      BY <1>1, <3>1 DEF Timely
    <3>2. CASE u = t
      <4>1. MaxBack \in Ticks
        BY Bounds DEF Ticks
      <4>2. Minus(u.due, u.set) \in 1 .. MaxDelay /\ Since(clock, u) = MaxBack
        BY <1>2, <3>2, <4>1, MinusEarlier DEF Since, Origin
      <4> QED BY <1>2, <4>2, Bounds DEF Latest
    <3> QED BY <1>3, <3>1, <3>2
  <2>2. Latest(u) \in Int
    BY <2>1, Bounds DEF Latest
  <2> QED BY <1>2, <2>1, <2>2, Bounds
<1>11. Woken'
  <2>1. (head' # <<>> \/ InCallback' => idle') /\ (pc' = "loop" => running' = None)
    BY <1>1 DEF Woken, InCallback, callbacks
  <2>2. ASSUME pc # "timers"
        PROVE  timeout' # None
    <3>1. CASE timers # {}
      <4>1. timeout # None
        BY <1>1, <2>2, <3>1 DEF Woken
      <4> QED BY <1>4, <1>7, <4>1, NoneAssumption
    <3>2. CASE timers = {}
      <4>1. timers' = {t}
        BY <1>3, <3>2
      <4>2. First(timers', clock) = t
        <5>1. {t} \in SUBSET Timers /\ {t} # {}
          BY <1>2
        <5>2. First({t}, clock) \in {t}
          BY <1>2, <5>1, FirstOfTimers
        <5> QED BY <4>1, <5>2
      <4>3. timeout' = Arm(when)
        BY <1>4, <4>2
      <4> QED BY <1>7, <4>3, NoneAssumption
    <3> QED BY <3>1, <3>2
  <2> QED BY <2>1, <2>2 DEF Woken
<1> QED BY <1>5, <1>6, <1>8, <1>9, <1>10, <1>11, TypesNext DEF IInv

\* The two outcomes of schedule_timer.
LEMMA Scheduled ==
    ASSUME NEW o, Schedule(o)
    PROVE  /\ now' = IF pc = "timers" THEN clock ELSE 0
           /\ asked' = asked \cup {o} /\ UNCHANGED <<callbacks, idle, alive>>
           /\ \E ticks \in 0 .. MaxDelay :
              \E when \in {IF ticks = 0 THEN (clock + 1) % Wrap ELSE (clock + ticks) % Wrap} :
                \/ /\ Twin(o, when) # {} /\ UNCHANGED <<contexts, timeout>>
                   /\ timers' = (timers \ Twin(o, when)) \cup {Shared(o, u) : u \in Twin(o, when)}
                \/ /\ timers' = timers \cup {Timer(o, when, clock)} /\ contexts' = contexts \cup {o}
                   /\ timeout' = IF First(timers', clock) = Timer(o, when, clock) THEN Arm(when) ELSE timeout
  BY DEF Schedule

\* Setting a timer preserves it.
LEMMA ScheduleInv ==
    ASSUME IInv, NEW o \in Objects, o \in alive, Schedule(o), UNCHANGED <<pc, running, time, then>>
    PROVE  IInv'
<1>1. /\ now' = IF pc = "timers" THEN clock ELSE 0
      /\ asked' = asked \cup {o} /\ UNCHANGED <<callbacks, idle, alive>>
  BY Scheduled
<1>2. PICK ticks \in 0 .. MaxDelay :
        \E when \in {IF ticks = 0 THEN (clock + 1) % Wrap ELSE (clock + ticks) % Wrap} :
            \/ /\ Twin(o, when) # {} /\ UNCHANGED <<contexts, timeout>>
               /\ timers' = (timers \ Twin(o, when)) \cup {Shared(o, u) : u \in Twin(o, when)}
            \/ /\ timers' = timers \cup {Timer(o, when, clock)} /\ contexts' = contexts \cup {o}
               /\ timeout' = IF First(timers', clock) = Timer(o, when, clock) THEN Arm(when) ELSE timeout
  BY Scheduled
<1>3. PICK when \in {IF ticks = 0 THEN (clock + 1) % Wrap ELSE (clock + ticks) % Wrap} :
            \/ /\ Twin(o, when) # {} /\ UNCHANGED <<contexts, timeout>>
               /\ timers' = (timers \ Twin(o, when)) \cup {Shared(o, u) : u \in Twin(o, when)}
            \/ /\ timers' = timers \cup {Timer(o, when, clock)} /\ contexts' = contexts \cup {o}
               /\ timeout' = IF First(timers', clock) = Timer(o, when, clock) THEN Arm(when) ELSE timeout
  BY <1>2
<1>4. Twin(o, when) \in SUBSET timers /\ \A u \in Twin(o, when) : u.ctx = o
  BY DEF Twin
<1> QED BY <1>1, <1>3, <1>4, SharedInv, NewTimerInv

\* Freeing an object preserves it: nothing of the object stays where it would be run.
LEMMA FreeInv ==
    ASSUME IInv, NEW o \in Objects, o \in alive, Free(o), UNCHANGED <<pc, running, time, then>>
    PROVE  IInv'
<1>1. Booked /\ Placed /\ Timed /\ Living /\ Owned /\ Timely /\ Woken
  BY Types DEF IInv
<1>2. /\ alive' = alive \ {o} /\ head' = DeleteCallbacks(o) /\ queued' = [queued EXCEPT ![o] = FALSE]
      /\ contexts' = contexts \ {o} /\ asked' = asked \ {o}
      /\ timers' = {Orphaned(o, t) : t \in timers} /\ UNCHANGED <<idle, now, timeout>>
  BY DEF Free
<1>3. /\ Booked' /\ NoGain /\ \A k \in DOMAIN head' : head'[k].ctx # o
      /\ head' # <<>> => head # <<>>
  BY <1>1, <1>2, FreeBooked
<1>4. Living'
  <2>1. \A k \in DOMAIN head' : head'[k].ctx \in alive'
    BY <1>1, <1>2, <1>3 DEF Living, NoGain
  <2> QED BY <1>1, <1>2, <2>1 DEF Living
<1>5. ASSUME NEW t \in timers'
      PROVE  /\ t \in Timers
             /\ t.by = "living" => t.ctx \in contexts'
             /\ \E u \in timers : t.due = u.due /\ t.set = u.set
  <2>1. PICK u \in timers : t = Orphaned(o, u)
    BY <1>2
  <2>2. u \in Timers
    BY <1>1 DEF Timed
  <2>3. /\ t \in Timers /\ t.ctx = u.ctx /\ t.due = u.due /\ t.set = u.set
        /\ u.ctx # o => t = u
        /\ u.ctx = o => t.by = "freed"
    BY <2>1, <2>2, TimerKept
  <2> QED BY <1>1, <1>2, <2>3 DEF Owned
<1>6. Placed' /\ Timed' /\ Owned'
  BY <1>1, <1>2, <1>5 DEF Placed, Timed, Owned, time
<1>7. Timely'
  BY <1>1, <1>2, <1>5, TimelySame
<1>8. Woken'
  BY <1>1, <1>2, <1>3 DEF Woken, InCallback
<1> QED BY <1>3, <1>4, <1>6, <1>7, <1>8, TypesNext DEF IInv

\* What a handler, a callback or a timer function does preserves it.
LEMMA WorkInv ==
    ASSUME IInv, Work
    PROVE  IInv'
<1>1. UNCHANGED <<pc, running, time, then>>
  BY DEF Work
<1>2. PICK o \in Objects : \/ o \in alive /\ (Queue(o) \/ QueueIdempotent(o) \/ Schedule(o) \/ Free(o))
                           \/ New(o)
  BY DEF Work
<1>3. CASE New(o)
  <2>1. Booked /\ Placed /\ Timed /\ Living /\ Owned /\ Timely /\ Woken
    BY Types DEF IInv
  <2>2. alive' = alive \cup {o} /\ UNCHANGED <<callbacks, idle, timing>>
    BY <1>3 DEF New
  <2>3. Booked' /\ NoGain
    BY <2>1, <2>2, BookedSame
  <2>4. Living'
    BY <2>1, <2>2, <2>3, LivingSame DEF timing
  <2>5. Placed' /\ Timed' /\ Owned'
    BY <1>1, <2>1, <2>2 DEF Placed, Timed, Owned, timing, time
  <2>6. Timely'
    BY <1>1, <2>1, <2>2, TimelySame DEF timing
  <2>7. Woken'
    BY <1>1, <2>1, <2>2 DEF Woken, InCallback, timing, callbacks
  <2> QED BY <2>3, <2>4, <2>5, <2>6, <2>7, TypesNext DEF IInv
<1> QED BY <1>1, <1>2, <1>3, QueueInv, ScheduleInv, FreeInv

\* A step that leaves the objects, the timers and the clock alone, and takes at most from the queue.
LEMMA QuietInv ==
    ASSUME IInv, Booked', NoGain, Placed', UNCHANGED <<alive, time, then, timing>>,
           pc' = "timers" <=> pc = "timers", pc' = "loop" => running' = None,
           head' # <<>> \/ InCallback' => idle'
    PROVE  IInv'
<1>1. Booked /\ Placed /\ Timed /\ Living /\ Owned /\ Timely /\ Woken
  BY Types DEF IInv
<1>2. Living'
  BY <1>1, LivingSame DEF timing
<1>3. Timed' /\ Owned'
  BY <1>1 DEF Timed, Owned, timing, time
<1>4. Timely'
  BY <1>1, TimelySame DEF timing
<1>5. Woken'
  BY <1>1 DEF Woken, timing
<1> QED BY <1>2, <1>3, <1>4, <1>5, TypesNext DEF IInv

\* Starting a callback preserves it, whichever handler does.
LEMMA StartInv ==
    ASSUME IInv, head # <<>>, StartCallback, pc \in {"loop", "fd"}, pc' \in {"fd callback", "idle"},
           UNCHANGED <<alive, idle, time, then, timing>>
    PROVE  IInv' /\ running' \in alive
<1>1. Booked /\ Placed /\ Living /\ Woken
  BY Types DEF IInv
<1>2. Booked' /\ NoGain /\ running' \in Objects /\ \E i \in DOMAIN head : running' = head[i].ctx
  BY <1>1, StartBooked
<1>3. idle'
  BY <1>1 DEF Woken
<1>4. Placed'
  BY <1>1, <1>2 DEF Placed, timing
<1>5. IInv'
  BY <1>2, <1>3, <1>4, QuietInv
<1> QED BY <1>1, <1>2, <1>5 DEF Living

\* The handlers of the event loop that concern callbacks preserve it.
LEMMA LoopInv ==
    ASSUME IInv, FdInput \/ FdRun \/ IdleFunc \/ EndCallback
    PROVE  IInv'
<1>1. Booked /\ Placed /\ Timed /\ Living /\ Owned /\ Timely /\ Woken
  BY Types DEF IInv
<1>2. CASE FdInput
  <2>1. pc = "loop" /\ pc' = "fd" /\ UNCHANGED <<alive, callbacks, idle, running, time, then, timing>>
    BY <1>2 DEF FdInput
  <2>2. Booked' /\ NoGain
    BY <1>1, <2>1, BookedSame
  <2>3. Placed' /\ (head' # <<>> \/ InCallback' => idle')
    BY <1>1, <2>1 DEF Placed, Woken, InCallback, callbacks, timing
  <2> QED BY <2>1, <2>2, <2>3, QuietInv
<1>3. CASE FdRun
  <2>1. CASE head = <<>>
    <3>1. /\ pc = "fd" /\ running = None /\ pc' = "loop"
          /\ UNCHANGED <<alive, callbacks, idle, running, time, then, timing>>
      BY <1>3, <2>1 DEF FdRun
    <3>2. Booked' /\ NoGain
      BY <1>1, <3>1, BookedSame
    <3>3. Placed' /\ (head' # <<>> \/ InCallback' => idle')
      BY <1>1, <2>1, <3>1 DEF Placed, InCallback, callbacks, timing
    <3> QED BY <3>1, <3>2, <3>3, QuietInv
  <2>2. CASE head # <<>>
    BY <1>3, <2>2, StartInv DEF FdRun
  <2> QED BY <2>1, <2>2
<1>4. CASE IdleFunc
  <2>1. CASE head = <<>>
    <3>1. /\ pc = "loop" /\ idle' = FALSE /\ UNCHANGED <<callbacks, running, pc>>
          /\ UNCHANGED <<alive, time, then, timing>>
      BY <1>4, <2>1 DEF IdleFunc
    <3>2. Booked' /\ NoGain
      BY <1>1, <3>1, BookedSame
    <3>3. Placed'
      BY <1>1, <3>1 DEF Placed, timing
    <3>4. ~(head' # <<>> \/ InCallback')
      BY <1>1, <2>1, <3>1 DEF callbacks, InCallback, Woken
    <3>5. pc' = "loop" => running' = None
      BY <1>1, <3>1 DEF Woken
    <3> QED BY <3>1, <3>2, <3>3, <3>4, <3>5, QuietInv
  <2>2. CASE head # <<>>
    BY <1>4, <2>2, StartInv DEF IdleFunc
  <2> QED BY <2>1, <2>2
<1>5. CASE EndCallback
  <2>1. /\ InCallback /\ running' = None /\ pc' = "loop" /\ idle' = (idle /\ (pc = "idle" => head # <<>>))
        /\ UNCHANGED <<alive, callbacks, time, then, timing>>
    BY <1>5 DEF EndCallback
  <2>2. Booked' /\ NoGain
    BY <1>1, <2>1, BookedSame
  <2>3. Placed' /\ (head' # <<>> \/ InCallback' => idle') /\ pc # "timers"
    BY <1>1, <2>1 DEF Placed, Woken, InCallback, callbacks, timing
  <2> QED BY <2>1, <2>2, <2>3, QuietInv
<1> QED BY <1>2, <1>3, <1>4, <1>5

\* The steps of run_timers preserve it.
LEMMA TimersInv ==
    ASSUME IInv, TimerTrigger \/ DropTimer \/ RunTimer \/ EndTimer \/ TimersDone
    PROVE  IInv'
<1>1. Booked /\ Placed /\ Timed /\ Living /\ Owned /\ Timely /\ Woken
  BY Types DEF IInv
<1>2. UNCHANGED <<alive, callbacks, idle, time, contexts, asked>> /\ timers' \subseteq timers
  BY DEF TimerTrigger, DropTimer, RunTimer, EndTimer, TimersDone, timing
<1>3. Booked' /\ NoGain
  BY <1>1, <1>2, BookedSame
<1>4. Living' /\ Owned' /\ clock' = clock /\ back' = back
  BY <1>1, <1>2, <1>3, LivingSame DEF Owned, time
<1>5. CASE TimerTrigger
  <2>1. /\ timeout \in Timeouts /\ pc = "loop" /\ pc' = "timers" /\ then' = timeout.data
        /\ timeout' = None /\ now' = clock /\ UNCHANGED <<running, timers>>
    BY <1>1, <1>5 DEF TimerTrigger, TimeoutDue, Timed
  <2>2. then' \in Ticks
    BY <2>1 DEF Timeouts
  <2>3. Timely'
    <3> SUFFICES ASSUME NEW t \in timers
                 PROVE  /\ Minus(t.due, t.set) \in 1 .. MaxDelay
                        /\ Since(clock, t) \in MaxBack - back .. Latest(t)
                        /\ Since(clock, t) \in 0 .. Latest(t)
      BY <1>4, <2>1 DEF Timely, Since, Latest, Origin
    <3>1. Minus(t.due, t.set) \in 1 .. MaxDelay /\ Since(clock, t) \in MaxBack - back .. Latest(t)
      BY <1>1 DEF Timely
    <3>2. back \in 0 .. MaxBack /\ Latest(t) \in Int
      BY <1>1, <3>1, Bounds DEF Timed, Latest
    <3> QED BY <3>1, <3>2, Bounds
  <2>4. Placed' /\ Timed'
    BY <1>1, <1>2, <1>4, <2>1, <2>2 DEF Placed, Timed
  <2>5. Woken'
    BY <1>1, <1>2, <2>1 DEF Woken, InCallback, callbacks
  <2> QED BY <1>3, <1>4, <2>3, <2>4, <2>5, TypesNext DEF IInv
<1>6. CASE DropTimer \/ RunTimer \/ EndTimer
  <2>1. pc = "timers" /\ UNCHANGED <<pc, now, timeout, then>>
    BY <1>6 DEF DropTimer, RunTimer, EndTimer, TakingTimers, timing
  <2>2. running' \in {None, running} \cup Objects
    <3>1. CASE RunTimer
      <4>1. timers # {} /\ running' = Earliest.ctx
        BY <3>1 DEF RunTimer
      <4>2. Earliest \in Timers
        BY <1>1, <4>1, FirstOfTimers DEF Earliest, Timed
      <4> QED BY <4>1, <4>2 DEF Timers
    <3>2. CASE DropTimer \/ EndTimer
      BY <3>2 DEF DropTimer, EndTimer
    <3> QED BY <1>6, <3>1, <3>2
  <2>3. Placed' /\ Timed'
    BY <1>1, <1>2, <1>4, <2>1, <2>2 DEF Placed, Timed
  <2>4. Timely'
    BY <1>1, <1>2, <2>1, TimelySame
  <2>5. Woken'
    BY <1>1, <1>2, <2>1 DEF Woken, InCallback, callbacks
  <2> QED BY <1>3, <1>4, <2>3, <2>4, <2>5, TypesNext DEF IInv
<1>7. CASE TimersDone
  <2> DEFINE ticks == IF Minus(clock, then) > Minus(Earliest.due, then) THEN 0
                      ELSE Minus(Earliest.due, clock)
             next == [at |-> (clock + ticks) % Wrap, data |-> Earliest.due]
  <2>1. /\ pc = "timers" /\ running = None /\ pc' = "loop" /\ then' = 0 /\ now' = 0
        /\ UNCHANGED <<running, timers>>
        /\ timeout' = IF Rearm THEN next ELSE timeout
    BY <1>7 DEF TimersDone, TakingTimers
  <2>2. timers # {} => next \in Timeouts
    <3> SUFFICES ASSUME timers # {} PROVE next \in Timeouts
      OBVIOUS
    <3>1. Earliest \in Timers
      BY <1>1, FirstOfTimers DEF Earliest, Timed
    <3>2. Earliest.due \in Ticks /\ clock \in Ticks /\ Wrap \in Nat /\ Wrap > 0
      BY <1>1, <3>1, Bounds DEF Timed, Timers
    <3>3. clock + ticks \in Int
      <4>1. Minus(Earliest.due, clock) \in Ticks
        BY <3>2, MinusValue
      <4>2. ticks = 0 \/ ticks = Minus(Earliest.due, clock)
        OBVIOUS
      <4> HIDE DEF ticks
      <4> QED BY <3>2, <4>1, <4>2 DEF Ticks
    <3>4. (clock + ticks) % Wrap \in Ticks
      BY <3>3, Remainder
    <3> HIDE DEF ticks
    <3> QED BY <3>2, <3>4 DEF Timeouts
  <2> HIDE DEF next
  <2>3. timeout' \in {None} \cup Timeouts /\ (timers # {} => timeout' # None)
    BY <1>1, <2>1, <2>2, NoneAssumption DEF Timed, Rearm
  <2>4. 0 \in Ticks
    BY Bounds DEF Ticks
  <2>5. Placed' /\ Timed'
    BY <1>1, <1>2, <1>4, <2>1, <2>3, <2>4 DEF Placed, Timed
  <2>6. Timely'
    BY <1>1, <1>2, <2>1, TimelySame
  <2>7. Woken'
    BY <1>1, <1>2, <2>1, <2>3 DEF Woken, InCallback, callbacks
  <2> QED BY <1>3, <1>4, <2>5, <2>6, <2>7, TypesNext DEF IInv
<1> QED BY <1>5, <1>6, <1>7

\* Time that passes preserves it.
LEMMA TickInv ==
    ASSUME IInv, Tick
    PROVE  IInv'
<1>1. Booked /\ Placed /\ Timed /\ Living /\ Owned /\ Timely /\ Woken
  BY Types DEF IInv
<1>2. UNCHANGED <<alive, callbacks, idle, pc, running, back, timing, then>>
  BY DEF Tick
<1>3. Booked' /\ NoGain
  BY <1>1, <1>2, BookedSame
<1>4. Living' /\ Owned'
  BY <1>1, <1>2, <1>3, LivingSame DEF timing, Owned
<1>5. Timely' /\ clock' \in Ticks
  BY TickTimely DEF IInv
<1>6. Placed' /\ Timed'
  BY <1>1, <1>2, <1>5 DEF Placed, Timed, timing
<1>7. Woken'
  BY <1>1, <1>2 DEF Woken, InCallback, timing, callbacks
<1> QED BY <1>3, <1>4, <1>5, <1>6, <1>7, TypesNext DEF IInv

\* So does a jump of the clock.
LEMMA JumpInv ==
    ASSUME IInv, Jump
    PROVE  IInv'
<1>1. Booked /\ Placed /\ Timed /\ Living /\ Owned /\ Timely /\ Woken
  BY Types DEF IInv
<1>2. /\ UNCHANGED <<alive, callbacks, idle, pc, running, now, timers, contexts, asked, then>>
      /\ \E k \in 1 .. MaxBack - back :
            timeout' = IF timeout = None THEN None ELSE [timeout EXCEPT !.at = (@ - k) % Wrap]
  BY DEF Jump
<1>3. Booked' /\ NoGain
  BY <1>1, <1>2, BookedSame
<1>4. Living' /\ Owned'
  BY <1>1, <1>2, <1>3, LivingSame DEF Owned
<1>5. Timely' /\ clock' \in Ticks /\ back' \in 0 .. MaxBack
  BY JumpTimely DEF IInv
<1>6. timeout' \in {None} \cup Timeouts /\ (timeout # None => timeout' # None)
  <2>1. PICK k \in 1 .. MaxBack - back :
          timeout' = IF timeout = None THEN None ELSE [timeout EXCEPT !.at = (@ - k) % Wrap]
    BY <1>2
  <2>2. CASE timeout = None
    BY <2>1, <2>2
  <2>3. CASE timeout # None
    <3>1. timeout \in Timeouts /\ timeout.at \in Ticks /\ k \in Int
      BY <1>1, <2>3, Bounds DEF Timed, Timeouts
    <3>2. (timeout.at - k) % Wrap \in Ticks
      BY <3>1, Remainder, Bounds DEF Ticks
    <3>3. [timeout EXCEPT !.at = (@ - k) % Wrap] \in Timeouts
      BY <3>1, <3>2 DEF Timeouts
    <3> QED BY <2>1, <2>3, <3>3, NoneAssumption
  <2> QED BY <2>2, <2>3
<1>7. Placed' /\ Timed'
  BY <1>1, <1>2, <1>5, <1>6 DEF Placed, Timed
<1>8. Woken'
  BY <1>1, <1>2, <1>6 DEF Woken, InCallback, callbacks
<1> QED BY <1>3, <1>4, <1>5, <1>7, <1>8, TypesNext DEF IInv

\* So does a step of anything else.
LEMMA StutterInv ==
    ASSUME IInv, UNCHANGED vars
    PROVE  IInv'
<1>1. Booked /\ Placed /\ Timed /\ Living /\ Owned /\ Timely /\ Woken
  BY Types DEF IInv
<1>2. UNCHANGED <<alive, callbacks, idle, pc, running, timing, then, time>>
  BY DEF vars, callbacks, timing, time
<1>3. Booked' /\ NoGain
  BY <1>1, <1>2, BookedSame
<1>4. Placed' /\ (head' # <<>> \/ InCallback' => idle') /\ (pc' = "loop" => running' = None)
  BY <1>1, <1>2 DEF Placed, Woken, InCallback, callbacks, timing
<1> QED BY <1>2, <1>3, <1>4, QuietInv

\* At the start nothing is queued, nothing is set and the clock stands at zero.
LEMMA InitInv == Init => IInv
<1> SUFFICES ASSUME Init
             PROVE  IInv
  OBVIOUS
<1>1. head = <<>> /\ <<>> \in Seq(Callbacks) /\ Len(<<>>) = 0 /\ DOMAIN <<>> = {}
  BY EmptySeq DEF Init
<1>2. \A o : Entries(o) = {}
  BY <1>1 DEF Entries
<1>3. Booked
  BY <1>1, <1>2 DEF Booked, Init
<1>4. 0 \in Ticks /\ 0 \in 0 .. MaxBack
  BY Bounds DEF Ticks
<1>5. Placed /\ Timed /\ Living /\ Owned /\ Timely /\ Woken
  BY <1>1, <1>4 DEF Init, Placed, Timed, Living, Owned, Timely, Woken, InCallback
<1> QED BY <1>3, <1>5, Types DEF IInv

\* The invariant holds in every reachable state, for any objects, any modulus and any bounds.
THEOREM Invariance == Spec => []IInv
<1>1. Init => IInv
  BY InitInv
<1>2. IInv /\ [Next]_vars => IInv'
  BY WorkInv, LoopInv, TimersInv, TickInv, JumpInv, StutterInv DEF Next
<1> QED BY <1>1, <1>2, PTL DEF Spec

\* Every variable keeps its type, and an IdempotentCallback is marked queued exactly when the one
\* entry for it is in the queue: queue_idempotent_callback may trust ic->queued.
THEOREM TypeCorrect == Spec => []TypeOK
<1>1. IInv => TypeOK
  BY DEF IInv
<1> QED BY <1>1, Invariance, PTL

\* Whoever is to run callbacks or timers has been told of them: a callback that waits, or runs, has
\* the idle function scheduled, and a timer that is set has a timeout, whatever order they come in.
THEOREM AlwaysWoken == Spec => []Woken
<1>1. IInv => Woken
  BY DEF IInv
<1> QED BY <1>1, Invariance, PTL

\* What a step takes from the tree, if it starts a timer, is the timer it starts.
LEMMA RunTimerTakes ==
    ASSUME IInv, RunTimer
    PROVE  /\ pc = "timers" /\ Earliest \in timers /\ Earliest.ctx \in contexts /\ Due(Earliest)
           /\ running' = Earliest.ctx /\ timers' = timers \ {Earliest} /\ UNCHANGED <<alive, callbacks>>
<1>1. pc = "timers" /\ timers # {} /\ Earliest.ctx \in contexts /\ Due(Earliest)
      /\ running' = Earliest.ctx /\ timers' = timers \ {Earliest} /\ UNCHANGED <<alive, callbacks>>
  BY DEF RunTimer, TakingTimers
<1>2. Earliest \in timers
  BY <1>1, Types, FirstOfTimers DEF IInv, Timed, Earliest
<1> QED BY <1>1, <1>2

\* What run_toplevel_callbacks and run_timers run is of an object that exists; a timer of a freed
\* object is run only for an object at its address that has set timers itself; and a timer is run
\* after its time, wherever the clock wraps, or when the clock has jumped to before it was set.
THEOREM RunsLivingOnly == Spec => RunsForTheLiving
<1> DEFINE Runs == /\ \A i \in DOMAIN head' : head'[i].ctx \in alive'
                   /\ running = None /\ running' # None => running' \in alive
                   /\ StartsTimer => \A t \in timers \ timers' :
                        /\ t.by = "freed" => t.ctx \in asked
                        /\ Signed(now, t.due) > 0 \/ Signed(now, t.set) < -Slack
<1>1. ASSUME IInv, IInv', Next
      PROVE  Runs
  <2>1. \A i \in DOMAIN head' : head'[i].ctx \in alive'
    BY <1>1 DEF IInv, Living
  <2>2. CASE FdRun \/ IdleFunc
    <3>1. (head # <<>> /\ StartCallback) \/ UNCHANGED running
      BY <2>2 DEF FdRun, IdleFunc
    <3>2. pc # "timers"
      BY <2>2 DEF FdRun, IdleFunc
    <3>3. ASSUME head # <<>>, StartCallback
          PROVE  running' \in alive
      BY <1>1, <3>3, Types, StartBooked DEF IInv, Living
    <3> QED BY <2>1, <3>1, <3>2, <3>3 DEF StartsTimer
  <2>3. CASE RunTimer
    <3>1. /\ pc = "timers" /\ Earliest \in timers /\ Earliest.ctx \in contexts /\ Due(Earliest)
          /\ running' = Earliest.ctx /\ timers' = timers \ {Earliest}
      BY <1>1, <2>3, RunTimerTakes
    <3>2. Signed(now, Earliest.due) > 0 \/ Signed(now, Earliest.set) < -Slack
      BY <1>1, <3>1, DueIsPast DEF IInv
    <3>3. Earliest.ctx \in asked /\ Earliest.ctx \in alive
      BY <1>1, <3>1 DEF IInv, Owned, Living
    <3>4. \A t \in timers \ timers' : t = Earliest
      BY <3>1
    <3> QED BY <2>1, <3>1, <3>2, <3>3, <3>4
  <2>4. CASE ~(FdRun \/ IdleFunc \/ RunTimer)
    <3>1. running' \in {running, None}
      BY <1>1, <2>4
         DEF Next, Work, FdInput, EndCallback, TimerTrigger, DropTimer, EndTimer, TimersDone, Tick, Jump
    <3> QED BY <2>1, <3>1 DEF StartsTimer
  <2> QED BY <2>2, <2>3, <2>4
<1>2. IInv /\ IInv' /\ [Next]_vars => [Runs]_vars
  BY <1>1
<1> QED BY <1>2, Invariance, PTL DEF Spec, RunsForTheLiving

\* No timer that the object at its context has set, and was heard, leaves the tree without being run
\* or that object freed, whatever others are set, run, dropped and asked for again in between.
THEOREM TimersStay == Spec => TimersKept
<1> DEFINE Stays == \A t \in timers : t.by = "living" =>
                        t \in timers' \/ (StartsTimer /\ running' = t.ctx) \/ t.ctx \notin alive'
<1>1. ASSUME IInv, Next
      PROVE  Stays
  <2> SUFFICES ASSUME NEW t \in timers, t.by = "living", t \notin timers'
               PROVE  (StartsTimer /\ running' = t.ctx) \/ t.ctx \notin alive'
    OBVIOUS
  <2>1. t \in Timers /\ t.ctx \in contexts
    BY <1>1, Types DEF IInv, Timed, Owned
  <2>2. CASE RunTimer
    <3>1. pc = "timers" /\ running = None /\ t = Earliest /\ running' = t.ctx
      BY <1>1, <2>2, RunTimerTakes DEF RunTimer, TakingTimers
    <3>2. t.ctx # None
      BY <2>1, NoneAssumption DEF Timers
    <3> QED BY <3>1, <3>2 DEF StartsTimer
  <2>3. CASE DropTimer
    BY <2>1, <2>3 DEF DropTimer
  <2>4. CASE Work
    <3>1. PICK o \in Objects : \/ o \in alive /\ (Queue(o) \/ QueueIdempotent(o) \/ Schedule(o) \/ Free(o))
                               \/ New(o)
      BY <2>4 DEF Work
    <3>2. CASE Schedule(o)
      <4>1. \E when : timers' = (timers \ Twin(o, when)) \cup {Shared(o, u) : u \in Twin(o, when)}
        BY <3>2, Scheduled
      <4>2. PICK when : timers' = (timers \ Twin(o, when)) \cup {Shared(o, u) : u \in Twin(o, when)}
        BY <4>1
      <4>3. t \in Twin(o, when) /\ t.ctx = o
        BY <4>2 DEF Twin
      <4>4. Shared(o, t) = t
        BY <2>1, <4>3, TimerKept
      <4> QED BY <4>2, <4>3, <4>4
    <3>3. CASE Free(o)
      <4>1. alive' = alive \ {o} /\ timers' = {Orphaned(o, u) : u \in timers}
        BY <3>3 DEF Free
      <4>2. t.ctx # o => Orphaned(o, t) = t
        BY <2>1, TimerKept
      <4> QED BY <4>1, <4>2
    <3>4. CASE Queue(o) \/ QueueIdempotent(o) \/ New(o)
      BY <3>4 DEF Queue, QueueIdempotent, New, timing
    <3> QED BY <3>1, <3>2, <3>3, <3>4
  <2>5. CASE ~(RunTimer \/ DropTimer \/ Work)
    BY <1>1, <2>5
       DEF Next, FdInput, FdRun, IdleFunc, EndCallback, TimerTrigger, EndTimer, TimersDone, Tick, Jump, timing
  <2> QED BY <2>2, <2>3, <2>4, <2>5
<1>2. IInv /\ [Next]_vars => [Stays]_vars
  BY <1>1
<1> QED BY <1>2, Invariance, PTL DEF Spec, TimersKept
================================================================================
