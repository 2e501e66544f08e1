---------------------------- MODULE SshWindowProofs ----------------------------
(***************************************************************************)
(* Proofs about SshWindow, for every window size, packet size, stream      *)
(* length and setting.  The inductive invariant IInv says what is in       *)
(* transit: the entries of each queue name increasing positions that start *)
(* where the receiving end stands and end where the sending end stands     *)
(* (Chain), and a writing end that still buffers data has no window left.  *)
(***************************************************************************)
EXTENDS SshWindow, FiniteSetTheorems, FunctionTheorems, TLAPS

\* The entries of q lead from position `from` to position `to`; only entries of the
\* kind `carrier` advance it.
Chain(q, from, to, carrier) ==
    /\ from <= to
    /\ q = <<>> => from = to
    /\ q # <<>> => q[Len(q)].upto = to
    /\ \A i \in 1..Len(q) : from <= q[i].upto /\ q[i].upto <= to
    /\ \A i, j \in 1..Len(q) : i < j => q[i].upto <= q[j].upto
    /\ \A i \in 1..Len(q) :
          q[i].kind # carrier => q[i].upto = IF i = 1 THEN from ELSE q[i-1].upto

\* What the writing end's buffer, its EOF and the entries that carry them have in common.
Outgoing ==
    /\ sent <= written
    /\ sent < written => remwindow = 0
    /\ sent_eof => sent = written /\ ~pending_eof
    /\ rcvd_eof => sent_eof /\ rcvd = written

\* An EOF in q stands at position `at`, and only if the writing end has ended.
Ends(q, ended, at) ==
    \A i \in 1..Len(q) : q[i].kind = "eof" => ended /\ q[i].upto = at

\* Only a Channel with an initial fixed window is ever in the fixed-window phase.
FixedByChannel == fixed => setup.fixedwin > 0

IInv ==
    /\ TypeOK
    /\ Chain(fwd, rcvd, sent, "data")
    /\ Chain(back, applied, granted, "adjust")
    /\ Ends(fwd, sent_eof, written)
    /\ Outgoing
    /\ CreditConserved
    /\ FixedByChannel
    /\ NeverThrottlesConn
    /\ WindowWideEnough

\* The entries of a queue name positions.
LEMMA EntriesAreEntries ==
    ASSUME NEW q \in Seq(Entry)
    PROVE  Len(q) \in Nat /\ \A i \in 1..Len(q) : q[i] \in Entry /\ q[i].upto \in Nat
<1>1. Len(q) \in Nat /\ \A i \in 1..Len(q) : q[i] \in Entry
  OBVIOUS
<1> QED
  BY <1>1 DEF Entry

\* A queue that gets one more entry still leads from `from`, now to the entry's position.
LEMMA ChainAppend ==
    ASSUME NEW q \in Seq(Entry), NEW from \in Nat, NEW to \in Nat, NEW c \in Kinds,
           Chain(q, from, to, c), NEW e \in Entry, e.upto >= to, e.kind # c => e.upto = to
    PROVE  Chain(Append(q, e), from, e.upto, c)
<1> DEFINE r == Append(q, e)
<1>1. /\ r \in Seq(Entry) /\ Len(r) = Len(q) + 1 /\ r # <<>>
      /\ \A i \in 1..Len(q) : r[i] = q[i]
      /\ r[Len(r)] = e
  OBVIOUS
<1>2. Len(q) \in Nat /\ \A i \in 1..Len(q) : q[i].upto \in Nat
  BY EntriesAreEntries
<1>3. e.upto \in Nat
  BY DEF Entry
<1>4. \A i \in 1..Len(r) : from <= r[i].upto /\ r[i].upto <= e.upto
  BY <1>1, <1>2, <1>3 DEF Chain
<1>5. \A i, j \in 1..Len(r) : i < j => r[i].upto <= r[j].upto
  BY <1>1, <1>2, <1>3 DEF Chain
<1>6. \A i \in 1..Len(r) : r[i].kind # c => r[i].upto = IF i = 1 THEN from ELSE r[i-1].upto
  <2> SUFFICES ASSUME NEW i \in 1..Len(r), r[i].kind # c
               PROVE  r[i].upto = IF i = 1 THEN from ELSE r[i-1].upto
    OBVIOUS
  <2>1. CASE i \in 1..Len(q)
    BY <2>1, <1>1, <1>2 DEF Chain
  <2>2. CASE i = Len(r)
    <3>1. e.upto = to
      BY <2>2, <1>1
    <3>2. CASE q = <<>>
      BY <3>1, <3>2, <2>2, <1>1 DEF Chain
    <3>3. CASE q # <<>>
      BY <3>1, <3>3, <2>2, <1>1, <1>2 DEF Chain
    <3> QED BY <3>2, <3>3
  <2> QED BY <2>1, <2>2, <1>1, <1>2
<1> QED
  BY <1>1, <1>2, <1>3, <1>4, <1>5, <1>6 DEF Chain

\* A queue whose head is taken leads from the head's position.
LEMMA ChainTail ==
    ASSUME NEW q \in Seq(Entry), NEW from \in Nat, NEW to \in Nat, NEW c \in Kinds,
           Chain(q, from, to, c), q # <<>>
    PROVE  /\ Tail(q) \in Seq(Entry)
           /\ Head(q) = q[1] /\ Head(q) \in Entry
           /\ from <= Head(q).upto /\ Head(q).upto <= to
           /\ Head(q).kind # c => Head(q).upto = from
           /\ Chain(Tail(q), Head(q).upto, to, c)
<1> DEFINE r == Tail(q)
<1>1. /\ r \in Seq(Entry) /\ Len(r) = Len(q) - 1
      /\ \A i \in 1..Len(r) : r[i] = q[i+1]
      /\ Head(q) = q[1] /\ Head(q) \in Entry
      /\ Len(q) \in Nat /\ Len(q) >= 1
  OBVIOUS
<1>2. \A i \in 1..Len(q) : q[i].upto \in Nat
  BY EntriesAreEntries
<1>3. /\ from <= q[1].upto /\ q[1].upto <= to
      /\ q[1].kind # c => q[1].upto = from
  BY <1>1 DEF Chain
<1>4. \A i \in 1..Len(r) : q[1].upto <= r[i].upto /\ r[i].upto <= to
  BY <1>1, <1>2 DEF Chain
<1>5. \A i, j \in 1..Len(r) : i < j => r[i].upto <= r[j].upto
  BY <1>1, <1>2 DEF Chain
<1>6. \A i \in 1..Len(r) : r[i].kind # c => r[i].upto = IF i = 1 THEN q[1].upto ELSE r[i-1].upto
  BY <1>1, <1>2 DEF Chain
<1>7. r = <<>> => q[1].upto = to
  <2>1. r = <<>> => Len(q) = 1
    BY <1>1
  <2> QED BY <2>1, <1>1 DEF Chain
<1>8. r # <<>> => r[Len(r)].upto = to
  BY <1>1 DEF Chain
<1> QED
  BY <1>1, <1>3, <1>4, <1>5, <1>6, <1>7, <1>8 DEF Chain

\* A receiver that takes part of the run at the head stands inside it.
LEMMA ChainPart ==
    ASSUME NEW q \in Seq(Entry), NEW from \in Nat, NEW to \in Nat, NEW c \in Kinds,
           Chain(q, from, to, c), q # <<>>, Head(q).kind = c,
           NEW p \in Nat, from <= p, p <= Head(q).upto
    PROVE  Chain(q, p, to, c)
<1>1. Head(q) = q[1] /\ Len(q) \in Nat /\ Len(q) >= 1 /\ \A i \in 1..Len(q) : q[i].upto \in Nat
  BY EntriesAreEntries
<1>2. \A i \in 1..Len(q) : p <= q[i].upto /\ q[i].upto <= to
  BY <1>1 DEF Chain
<1>3. p <= to
  BY <1>1, <1>2
<1>4. \A i \in 1..Len(q) : q[i].kind # c => q[i].upto = IF i = 1 THEN p ELSE q[i-1].upto
  BY <1>1 DEF Chain
<1> QED
  BY <1>1, <1>2, <1>3, <1>4 DEF Chain

\* A queue has finitely many entries of a kind, and an empty one has none.
LEMMA CountType ==
    ASSUME NEW q \in Seq(Entry), NEW kind
    PROVE  /\ IsFiniteSet({i \in DOMAIN q : q[i].kind = kind})
           /\ Count(q, kind) \in Nat
           /\ q = <<>> => Count(q, kind) = 0
<1> DEFINE At == {i \in DOMAIN q : q[i].kind = kind}
<1>1. DOMAIN q = 1..Len(q) /\ Len(q) \in Nat
  OBVIOUS
<1>2. IsFiniteSet(1..Len(q))
  BY <1>1, FS_Interval
<1>3. IsFiniteSet(At)
  BY <1>1, <1>2, FS_Subset
<1>4. q = <<>> => At = {}
  BY <1>1
<1> QED BY <1>3, <1>4, FS_CardinalityType, FS_EmptySet DEF Count

\* The count of entries of a kind is a number.
LEMMA CountNat ==
    ASSUME NEW q \in Seq(Entry), NEW kind
    PROVE  Count(q, kind) \in Nat
  BY CountType

\* An entry that joins a queue adds one to the count of its kind.
LEMMA CountAppend ==
    ASSUME NEW q \in Seq(Entry), NEW e \in Entry, NEW kind
    PROVE  Count(Append(q, e), kind) = Count(q, kind) + IF e.kind = kind THEN 1 ELSE 0
<1> DEFINE r == Append(q, e)
           At(s) == {i \in DOMAIN s : s[i].kind = kind}
<1>1. /\ DOMAIN q = 1..Len(q) /\ Len(q) \in Nat
      /\ DOMAIN r = 1..(Len(q) + 1)
      /\ \A i \in 1..Len(q) : r[i] = q[i]
      /\ r[Len(q) + 1] = e
  OBVIOUS
<1>4. IsFiniteSet(At(q)) /\ Cardinality(At(q)) \in Nat
  BY CountType DEF Count
<1>2. CASE e.kind = kind
  <2>1. At(r) = At(q) \cup {Len(q) + 1} /\ Len(q) + 1 \notin At(q)
    BY <1>1, <1>2
  <2>2. Cardinality(At(r)) = Cardinality(At(q)) + 1
    <3> HIDE DEF At, r
    <3> QED BY <2>1, <1>4, FS_AddElement
  <2> QED BY <1>2, <2>2 DEF Count
<1>3. CASE e.kind # kind
  <2>1. At(r) = At(q)
    BY <1>1, <1>3
  <2>2. Cardinality(At(r)) = Cardinality(At(q)) + 0
    <3> HIDE DEF At, r
    <3> QED BY <2>1, <1>4
  <2> QED BY <1>3, <2>2 DEF Count
<1> QED BY <1>2, <1>3

\* An entry that leaves a queue takes one from the count of its kind.
LEMMA CountTail ==
    ASSUME NEW q \in Seq(Entry), q # <<>>, NEW kind
    PROVE  Count(q, kind) = Count(Tail(q), kind) + IF Head(q).kind = kind THEN 1 ELSE 0
<1> DEFINE r == Tail(q)
           At(s) == {i \in DOMAIN s : s[i].kind = kind}
           Later == At(q) \ {1}
           f == [i \in At(r) |-> i + 1]
<1>1. /\ DOMAIN q = 1..Len(q) /\ Len(q) \in Nat /\ Len(q) >= 1
      /\ r \in Seq(Entry) /\ DOMAIN r = 1..(Len(q) - 1)
      /\ \A i \in 1..(Len(q) - 1) : r[i] = q[i + 1]
      /\ Head(q) = q[1]
  OBVIOUS
<1>2. IsFiniteSet(At(r)) /\ IsFiniteSet(At(q)) /\ Count(r, kind) \in Nat /\ Count(q, kind) \in Nat
  BY <1>1, CountType
<1>3. ExistsBijection(At(r), Later)
  <2>1. \A i \in At(r) : i \in 1..(Len(q) - 1) /\ i + 1 \in Later
    BY <1>1
  <2>2. f \in [At(r) -> Later]
    BY <2>1
  <2>3. \A i, j \in At(r) : f[i] = f[j] => i = j
    BY <2>1
  <2>4. \A j \in Later : j - 1 \in At(r) /\ f[j - 1] = j
    BY <1>1
  <2>5. f \in Injection(At(r), Later)
    BY <2>2, <2>3, Fun_IsInj
  <2>6. f \in Surjection(At(r), Later)
    BY <2>2, <2>4, Fun_IsSurj
  <2>7. f \in Bijection(At(r), Later)
    BY <2>5, <2>6 DEF Bijection
  <2> QED BY <2>7 DEF ExistsBijection
<1>4. Cardinality(Later) = Cardinality(At(r))
  BY <1>2, <1>3, FS_Bijection
<1>5. Cardinality(Later) = IF 1 \in At(q) THEN Cardinality(At(q)) - 1 ELSE Cardinality(At(q))
  BY <1>2, FS_RemoveElement
<1>6. 1 \in At(q) <=> Head(q).kind = kind
  BY <1>1
<1>7. Count(q, kind) = Cardinality(At(q)) /\ Count(r, kind) = Cardinality(At(r))
  BY DEF Count
<1> HIDE DEF At, Later, r
<1> QED BY <1>2, <1>4, <1>5, <1>6, <1>7 DEF r

--------------------------------------------------------------------------------
(* What the operators on the window fields return. *)

\* The winadj requests recorded in w whose packet is no longer in w's queue.
Acknowledging(w) == Len(w.reqs) - Count(w.queue, "winadj")

\* What reopening the window from w to r, given room for `room` bytes, promises.
Reopened(w, r, room, from, isfixed) ==
    /\ r \in Window
    /\ r.max = w.max
    /\ r.given >= w.given
    /\ r.loc - w.loc = r.given - w.given
    /\ r.loc = w.loc \/ r.loc <= room
    /\ room > 0 /\ ~rcvd_eof /\ ~isfixed => Capped(room) \div 2 < r.loc
    /\ Chain(r.queue, from, r.given, "adjust")
    /\ Acknowledging(r) = Acknowledging(w)

\* Capping a window leaves it positive and no larger.
LEMMA CappedFacts ==
    ASSUME setup \in Setups, NEW n \in Nat \ {0}
    PROVE  Capped(n) \in Nat \ {0} /\ Capped(n) <= n
  BY SizesAssumption DEF Capped, AtMost

\* Opening the window to `new` grants exactly the difference, as one more adjustment.
LEMMA OpenFacts ==
    ASSUME NEW w \in Window, NEW new \in Nat, new >= w.loc, NEW from \in Nat,
           Chain(w.queue, from, w.given, "adjust"),
           NEW r, r = OpenWide(w, new) \/ r = OpenPartly(w, new)
    PROVE  /\ r \in Window
           /\ r.max = w.max /\ r.loc = new /\ r.given = w.given + (new - w.loc)
           /\ Chain(r.queue, from, r.given, "adjust")
           /\ Acknowledging(r) = Acknowledging(w)
<1> DEFINE g == w.given + (new - w.loc)
<1> DEFINE adj == Item("adjust", g)
<1> DEFINE req == Item("winadj", w.given)
<1>1. /\ w.loc \in Int /\ w.max \in Nat /\ w.rem \in Int /\ w.given \in Nat
      /\ w.reqs \in Seq(Nat) /\ w.queue \in Seq(Entry)
      /\ w.state \in {"UNTHROTTLED", "UNTHROTTLING", "THROTTLED"}
  BY DEF Window
<1>2. new - w.loc \in Nat /\ g \in Nat /\ g >= w.given
  BY <1>1
<1>3. /\ adj \in Entry /\ adj.upto = g /\ adj.kind = "adjust"
      /\ req \in Entry /\ req.upto = w.given /\ req.kind = "winadj"
      /\ "adjust" \in Kinds
  BY <1>1, <1>2 DEF Item, Entry, Kinds
<1> HIDE DEF adj, req, g
<1>4. CASE r = OpenPartly(w, new)
  <2>1. r = [w EXCEPT !.rem = new, !.state = "THROTTLED", !.queue = Append(@, adj),
                      !.given = g, !.loc = new]
    BY <1>4, <1>1 DEF OpenPartly, adj, g, Window
  <2>2. Append(w.queue, adj) \in Seq(Entry)
    BY <1>1, <1>3
  <2>3. r = [loc |-> new, max |-> w.max, rem |-> new, state |-> "THROTTLED",
             reqs |-> w.reqs, given |-> g, queue |-> Append(w.queue, adj)]
    BY <2>1 DEF Window
  <2>4. r \in Window
    BY <2>2, <2>3, <1>1, <1>2 DEF Window
  <2>5. Chain(r.queue, from, g, "adjust")
    BY <2>3, <1>1, <1>2, <1>3, ChainAppend
  <2>6. Count(r.queue, "winadj") = Count(w.queue, "winadj") /\ r.reqs = w.reqs
    <3>1. Count(Append(w.queue, adj), "winadj") = Count(w.queue, "winadj") + 0
      BY <1>1, <1>3, CountAppend
    <3>2. Count(w.queue, "winadj") \in Nat
      BY <1>1, CountNat
    <3> QED BY <2>3, <3>1, <3>2
  <2> QED BY <2>3, <2>4, <2>5, <2>6 DEF g, Acknowledging
<1>5. CASE r = OpenWide(w, new)
  <2>1. r = [w EXCEPT !.reqs = Append(@, new - w.loc),
                      !.state = IF @ = "UNTHROTTLED" THEN @ ELSE "UNTHROTTLING",
                      !.queue = Append(Append(@, req), adj),
                      !.given = g, !.loc = new]
    BY <1>5, <1>1 DEF OpenWide, Request, adj, req, g, Window
  <2>2. Append(w.queue, req) \in Seq(Entry) /\ Append(Append(w.queue, req), adj) \in Seq(Entry)
        /\ Append(w.reqs, new - w.loc) \in Seq(Nat)
    BY <1>1, <1>2, <1>3
  <2> DEFINE st == IF w.state = "UNTHROTTLED" THEN w.state ELSE "UNTHROTTLING"
  <2>3. r = [loc |-> new, max |-> w.max, rem |-> w.rem, state |-> st,
             reqs |-> Append(w.reqs, new - w.loc), given |-> g,
             queue |-> Append(Append(w.queue, req), adj)]
    BY <2>1 DEF Window
  <2>4. r \in Window
    <3>1. st \in {"UNTHROTTLED", "UNTHROTTLING", "THROTTLED"}
      BY <1>1
    <3> HIDE DEF st
    <3> QED BY <3>1, <2>2, <2>3, <1>1, <1>2 DEF Window
  <2>5. Chain(Append(w.queue, req), from, w.given, "adjust")
    BY <1>1, <1>3, ChainAppend
  <2>6. Chain(r.queue, from, g, "adjust")
    BY <2>2, <2>3, <2>5, <1>1, <1>2, <1>3, ChainAppend
  <2>7. Acknowledging(r) = Acknowledging(w)
    <3>1. Count(Append(w.queue, req), "winadj") = Count(w.queue, "winadj") + 1
      BY <1>1, <1>3, CountAppend
    <3>2. Count(Append(Append(w.queue, req), adj), "winadj")
            = Count(Append(w.queue, req), "winadj") + 0
      BY <1>3, <2>2, CountAppend
    <3>3. Count(w.queue, "winadj") \in Nat
      BY <1>1, CountNat
    <3>4. Len(Append(w.reqs, new - w.loc)) = Len(w.reqs) + 1 /\ Len(w.reqs) \in Nat
      BY <1>1, <1>2
    <3>5. /\ r.reqs = Append(w.reqs, new - w.loc)
          /\ r.queue = Append(Append(w.queue, req), adj)
      BY <2>3
    <3>6. Len(r.reqs) = Len(w.reqs) + 1
      BY <3>4, <3>5
    <3>7. Count(r.queue, "winadj") = Count(w.queue, "winadj") + 1
      BY <3>1, <3>2, <3>3, <3>5
    <3> QED BY SMTT(30), <3>3, <3>4, <3>6, <3>7 DEF Acknowledging
  <2> QED BY <2>3, <2>4, <2>6, <2>7 DEF g
<1> QED BY <1>4, <1>5

\* ssh2_set_window keeps or raises the window, and never leaves it below half.
LEMMA SetWindowFacts ==
    ASSUME setup \in Setups, rcvd_eof \in BOOLEAN,
           NEW w \in Window, NEW newwin \in Nat \ {0}, NEW isfixed \in BOOLEAN,
           NEW from \in Nat, Chain(w.queue, from, w.given, "adjust")
    PROVE  Reopened(w, SetWindow(w, newwin, isfixed), newwin, from, isfixed)
<1> DEFINE new == Capped(newwin)
<1> DEFINE r == SetWindow(w, newwin, isfixed)
<1>1. w.loc \in Int /\ w.given \in Nat
  BY DEF Window
<1>2. new \in Nat \ {0} /\ new <= newwin
  BY CappedFacts
<1> HIDE DEF new
<1>3. CASE rcvd_eof \/ isfixed \/ NotWorthIt(new, w.loc)
  <2>1. r = w
    BY <1>3 DEF SetWindow, new
  <2>2. ~rcvd_eof /\ ~isfixed => new \div 2 < w.loc
    BY <1>3 DEF NotWorthIt
  <2> QED BY <2>1, <2>2, <1>1 DEF Reopened, new
<1>4. CASE ~(rcvd_eof \/ isfixed \/ NotWorthIt(new, w.loc))
  <2>1. r = OpenWide(w, new) \/ r = OpenPartly(w, new)
    BY <1>4 DEF SetWindow, new
  <2>2. ~(new \div 2 < w.loc)
    BY <1>4 DEF NotWorthIt
  <2>3. new >= w.loc /\ new \div 2 < new
    BY <2>2, <1>1, <1>2
  <2> HIDE DEF r
  <2>4. /\ r \in Window
        /\ r.max = w.max /\ r.loc = new /\ r.given = w.given + (new - w.loc)
        /\ Chain(r.queue, from, r.given, "adjust")
        /\ Acknowledging(r) = Acknowledging(w)
    BY <2>1, <2>3, <1>2, OpenFacts
  <2> QED BY <2>4, <2>3, <1>1, <1>2 DEF Reopened, new, r
<1> QED BY <1>3, <1>4

\* The same for a reopening that happens only if there is room.
LEMMA ReopenFacts ==
    ASSUME setup \in Setups, rcvd_eof \in BOOLEAN,
           NEW w \in Window, NEW room \in Int, NEW isfixed \in BOOLEAN,
           NEW from \in Nat, Chain(w.queue, from, w.given, "adjust")
    PROVE  Reopened(w, Reopen(w, room, isfixed), room, from, isfixed)
<1>1. CASE room > 0
  BY <1>1, SetWindowFacts DEF Reopen
<1>2. CASE ~(room > 0)
  <2>1. Reopen(w, room, isfixed) = w
    BY <1>2 DEF Reopen
  <2>2. w.loc \in Int /\ w.given \in Nat
    BY DEF Window
  <2> QED BY <1>2, <2>1, <2>2 DEF Reopened
<1> QED BY <1>1, <1>2

\* Growing changes locmaxwin only, and only upwards.
LEMMA GrowFacts ==
    ASSUME NEW w \in Window
    PROVE  LET r == Grow(w) IN
           /\ r \in Window /\ r.max >= w.max
           /\ r.loc = w.loc /\ r.given = w.given /\ r.queue = w.queue
           /\ r.reqs = w.reqs
<1> DEFINE grown == [w EXCEPT !.max = @ + WinSize]
<1>1. w.max \in Nat /\ WinSize \in Nat
  BY SizesAssumption DEF Window
<1>2. grown = [loc |-> w.loc, max |-> w.max + WinSize, rem |-> w.rem, state |-> w.state,
               reqs |-> w.reqs, given |-> w.given, queue |-> w.queue]
  BY DEF Window
<1>3. grown \in Window
  BY <1>1, <1>2 DEF Window
<1> HIDE DEF grown
<1>4. Grow(w) = w \/ Grow(w) = grown
  BY DEF Grow, grown
<1> QED BY <1>1, <1>2, <1>3, <1>4

--------------------------------------------------------------------------------
(* Facts the actions share. *)

\* What the settings are, and that every channel starts with a window.
LEMMA SetupFacts ==
    ASSUME setup \in Setups
    PROVE  /\ setup \in Setup /\ setup.simple \in BOOLEAN /\ setup.fixedwin \in Nat
           /\ FullWindow \in Nat \ {0} /\ StartWindow \in Nat \ {0}
<1>1. setup \in Setup
  BY SizesAssumption
<1>2. setup.simple \in BOOLEAN /\ setup.fixedwin \in Nat
  BY <1>1 DEF Setup
<1>3. FullWindow \in Nat \ {0}
  BY SizesAssumption DEF FullWindow
<1> QED BY <1>1, <1>2, <1>3 DEF StartWindow

\* Adding an entry of another kind, or an EOF where the stream ends, keeps Ends.
LEMMA EndsAppend ==
    ASSUME NEW q \in Seq(Entry), NEW ended \in BOOLEAN, NEW at \in Nat, NEW e \in Entry,
           Ends(q, ended, at), e.kind = "eof" => ended /\ e.upto = at
    PROVE  Ends(Append(q, e), ended, at)
<1> DEFINE r == Append(q, e)
<1>1. Len(r) = Len(q) + 1 /\ Len(q) \in Nat /\ r[Len(r)] = e /\ \A i \in 1..Len(q) : r[i] = q[i]
  OBVIOUS
<1> SUFFICES ASSUME NEW i \in 1..Len(r), r[i].kind = "eof"
             PROVE  ended /\ r[i].upto = at
  BY DEF Ends
<1>2. CASE i \in 1..Len(q)
  BY <1>1, <1>2 DEF Ends
<1>3. CASE i = Len(r)
  BY <1>1, <1>3
<1> QED BY <1>1, <1>2, <1>3

\* Taking the head keeps Ends.
LEMMA EndsTail ==
    ASSUME NEW q \in Seq(Entry), NEW ended, NEW at, Ends(q, ended, at), q # <<>>
    PROVE  Ends(Tail(q), ended, at)
<1>1. Len(Tail(q)) = Len(q) - 1 /\ Len(q) \in Nat /\ \A i \in 1..Len(Tail(q)) : Tail(q)[i] = q[i+1]
  OBVIOUS
<1> QED BY <1>1 DEF Ends

\* ssh2_try_send keeps the sum of what was sent and what may still be sent, leaves data
\* behind only if the window is used up, and sends EOF only behind the last byte.
LEMMA TrySendFacts ==
    ASSUME TypeOK, Chain(fwd, rcvd, sent, "data"), Ends(fwd, sent_eof, written), ~sent_eof,
           NEW total \in Nat, sent <= total, NEW win \in Nat, NEW pending \in BOOLEAN,
           TrySend(total, win, pending)
    PROVE  /\ written' = total /\ sent' \in Nat /\ sent <= sent' /\ sent' <= total
           /\ remwindow' \in Nat /\ sent' + remwindow' = sent + win
           /\ sent' < total => remwindow' = 0
           /\ pending_eof' \in BOOLEAN /\ sent_eof' \in BOOLEAN
           /\ sent_eof' => sent' = total /\ ~pending_eof'
           /\ (pending_eof' \/ sent_eof') <=> pending
           /\ fwd' \in Seq(Entry)
           /\ Chain(fwd', rcvd, sent', "data")
           /\ Ends(fwd', sent_eof', total)
           /\ Count(fwd', "reply") = Count(fwd, "reply")
<1> DEFINE reach == Reach(total, win)
<1> DEFINE ending == pending /\ reach = total
<1> DEFINE filled == IF reach > sent THEN Append(fwd, Item("data", reach)) ELSE fwd
<1>1. /\ written' = total /\ sent' = reach /\ remwindow' = win - (reach - sent)
      /\ pending_eof' = (pending /\ ~ending) /\ sent_eof' = ending
      /\ fwd' = IF ending THEN Append(filled, Item("eof", reach)) ELSE filled
  BY DEF TrySend
<1>2. {sent, rcvd} \subseteq Nat /\ fwd \in Seq(Entry) /\ "data" \in Kinds
  BY DEF TypeOK, Kinds
<1>3. /\ reach \in Nat /\ sent <= reach /\ reach <= total /\ reach <= sent + win
      /\ reach < total => reach = sent + win
  BY <1>2 DEF Reach, AtMost
<1> HIDE DEF reach
<1>4. /\ Item("data", reach) \in Entry /\ Item("eof", reach) \in Entry
      /\ Item("data", reach).upto = reach /\ Item("data", reach).kind = "data"
      /\ Item("eof", reach).upto = reach /\ Item("eof", reach).kind = "eof"
  BY <1>3 DEF Item, Entry, Kinds
<1>5. ending \in BOOLEAN /\ (ending => reach = total)
  OBVIOUS
<1>6. Ends(fwd, ending, total)
  BY DEF Ends
<1>7. filled \in Seq(Entry) /\ Chain(filled, rcvd, reach, "data") /\ Ends(filled, ending, total)
  <2>1. CASE reach > sent
    <3>1. filled = Append(fwd, Item("data", reach)) /\ filled \in Seq(Entry)
      BY <2>1, <1>2, <1>4
    <3>2. Chain(filled, rcvd, reach, "data")
      BY <2>1, <3>1, <1>2, <1>3, <1>4, ChainAppend
    <3>3. Ends(filled, ending, total)
      BY <3>1, <1>2, <1>4, <1>5, <1>6, EndsAppend
    <3> QED BY <3>1, <3>2, <3>3
  <2>2. CASE ~(reach > sent)
    BY <2>2, <1>2, <1>3, <1>6
  <2> QED BY <2>1, <2>2
<1> HIDE DEF filled, ending
<1>8. fwd' \in Seq(Entry) /\ Chain(fwd', rcvd, reach, "data") /\ Ends(fwd', ending, total)
  <2>1. CASE ending
    <3>1. fwd' = Append(filled, Item("eof", reach)) /\ fwd' \in Seq(Entry)
      BY <2>1, <1>1, <1>4, <1>7
    <3>2. Chain(fwd', rcvd, reach, "data")
      BY <3>1, <1>2, <1>3, <1>4, <1>7, ChainAppend
    <3>3. Ends(fwd', ending, total)
      BY <2>1, <3>1, <1>4, <1>5, <1>7, EndsAppend
    <3> QED BY <3>1, <3>2, <3>3
  <2>2. CASE ~ending
    BY <2>2, <1>1, <1>7
  <2> QED BY <2>1, <2>2
<1>11. Count(fwd', "reply") = Count(fwd, "reply")
  <2>1. Count(fwd, "reply") \in Nat
    BY <1>2, CountNat
  <2>2. Count(filled, "reply") = Count(fwd, "reply")
    <3>1. Count(Append(fwd, Item("data", reach)), "reply") = Count(fwd, "reply") + 0
      BY <1>2, <1>4, CountAppend
    <3> QED BY <2>1, <3>1 DEF filled
  <2>3. Count(Append(filled, Item("eof", reach)), "reply") = Count(filled, "reply") + 0
    BY <1>4, <1>7, CountAppend
  <2> QED BY <1>1, <2>1, <2>2, <2>3
<1>9. remwindow' \in Nat /\ sent' + remwindow' = sent + win /\ (sent' < total => remwindow' = 0)
  BY <1>1, <1>2, <1>3
<1>10. /\ pending_eof' \in BOOLEAN /\ sent_eof' \in BOOLEAN
       /\ sent_eof' => sent' = total /\ ~pending_eof'
       /\ (pending_eof' \/ sent_eof') <=> pending
  BY <1>1, <1>5 DEF ending
<1> QED BY <1>1, <1>3, <1>8, <1>9, <1>10, <1>11

--------------------------------------------------------------------------------
(* IInv holds initially and every action keeps it. *)

\* A channel starts with nothing in transit and its whole window on offer.
LEMMA InitIInv == Init => IInv
<1> SUFFICES ASSUME Init PROVE IInv
  OBVIOUS
<1>1. /\ setup \in Setups /\ setup.fixedwin \in Nat /\ FullWindow \in Nat \ {0}
      /\ StartWindow \in Nat \ {0}
  BY SetupFacts DEF Init
<1>2. fixed \in BOOLEAN /\ (fixed => setup.fixedwin > 0)
  <2>1. fixed = (setup.fixedwin # 0)
    BY DEF Init
  <2>2. fixed \in BOOLEAN /\ (fixed => setup.fixedwin # 0)
    BY <2>1, Zenon
  <2> QED BY <2>2, <1>1
<1>7. TypeOK
  <2>1. fwd \in Seq(Entry) /\ back \in Seq(Entry) /\ chanreqs \in Seq(Nat)
    BY DEF Init
  <2>2. written \in Nat /\ sent \in Nat /\ remwindow \in Nat /\ locwindow \in Int
        /\ locmaxwin \in Nat /\ remlocwin \in Int
    BY <1>1 DEF Init
  <2>3. pending_eof \in BOOLEAN /\ sent_eof \in BOOLEAN /\ rcvd_eof \in BOOLEAN
        /\ throttling_conn \in BOOLEAN
    BY DEF Init
  <2> QED BY <2>1, <2>2, <2>3, <1>1, <1>2 DEF Init, TypeOK
<1>3. Chain(fwd, rcvd, sent, "data") /\ Chain(back, applied, granted, "adjust")
  BY DEF Init, Chain
<1>4. Outgoing /\ Ends(fwd, sent_eof, written) /\ CreditConserved
  BY <1>1 DEF Init, Outgoing, Ends, CreditConserved
<1>5. FixedByChannel /\ NeverThrottlesConn
  BY <1>1, <1>2 DEF Init, NeverThrottlesConn, FixedByChannel
<1>6. WindowWideEnough
  <2>1. Capped(StartWindow) \in Nat \ {0} /\ Capped(StartWindow) <= StartWindow
    BY <1>1, CappedFacts
  <2>2. Capped(StartWindow) \div 2 < StartWindow
    BY <2>1, <1>1
  <2>3. locmaxwin - bufsize = StartWindow /\ locwindow = StartWindow
    BY <1>1 DEF Init
  <2> QED BY <2>2, <2>3 DEF WindowWideEnough
<1> QED BY <1>3, <1>4, <1>5, <1>6, <1>7 DEF IInv

\* Actions of the writing end leave the reading end alone.
LEMMA ReaderUnchanged ==
    ASSUME UNCHANGED <<locwindow, locmaxwin, bufsize, fixed, throttling_conn, rcvd_eof, setup>>
    PROVE  /\ NeverThrottlesConn => NeverThrottlesConn'
           /\ WindowWideEnough => WindowWideEnough'
           /\ FixedByChannel => FixedByChannel'
  BY DEF NeverThrottlesConn, WindowWideEnough, FixedByChannel, Capped, AtMost

\* sshfwd_write keeps IInv, and announces no EOF.
LEMMA WriteIInv ==
    ASSUME IInv, NEW n \in Nat, Write(n)
    PROVE  IInv' /\ ~pending_eof' /\ ~sent_eof' /\ Count(fwd', "reply") = Count(fwd, "reply")
<1>1. /\ TypeOK /\ Chain(fwd, rcvd, sent, "data") /\ Chain(back, applied, granted, "adjust")
      /\ Ends(fwd, sent_eof, written) /\ Outgoing /\ CreditConserved
      /\ FixedByChannel /\ NeverThrottlesConn /\ WindowWideEnough
  BY DEF IInv
<1>2. /\ ~sent_eof /\ ~pending_eof /\ TrySend(written + n, remwindow, FALSE)
      /\ UNCHANGED <<winVars, chanVars, back, applied, setup>>
  BY DEF Write
<1>3. /\ written \in Nat /\ sent \in Nat /\ remwindow \in Nat /\ rcvd \in Nat
      /\ granted \in Nat /\ applied \in Nat
  BY <1>1 DEF TypeOK
<1>4. sent <= written + n /\ written + n \in Nat /\ FALSE \in BOOLEAN
  BY <1>1, <1>3 DEF Outgoing
<1>5. /\ written' = written + n /\ sent' \in Nat /\ sent <= sent' /\ sent' <= written + n
      /\ remwindow' \in Nat /\ sent' + remwindow' = sent + remwindow
      /\ sent' < written + n => remwindow' = 0
      /\ pending_eof' \in BOOLEAN /\ sent_eof' \in BOOLEAN
      /\ ~pending_eof' /\ ~sent_eof'
      /\ fwd' \in Seq(Entry)
      /\ Chain(fwd', rcvd, sent', "data")
      /\ Ends(fwd', sent_eof', written + n)
      /\ Count(fwd', "reply") = Count(fwd, "reply")
  BY <1>1, <1>2, <1>3, <1>4, TrySendFacts
<1>6. TypeOK'
  BY <1>1, <1>2, <1>5, <1>3 DEF TypeOK, winVars, chanVars
<1>7. Chain(fwd, rcvd, sent, "data")' /\ Chain(back, applied, granted, "adjust")'
  BY <1>1, <1>2, <1>5 DEF winVars, chanVars, Chain
<1>8. Outgoing' /\ Ends(fwd, sent_eof, written)'
  BY <1>1, <1>2, <1>5, <1>3 DEF Outgoing, chanVars, Ends
<1>9. CreditConserved'
  <2>1. rcvd' = rcvd /\ granted' = granted /\ applied' = applied /\ locwindow' = locwindow
    BY <1>2 DEF winVars, chanVars
  <2>2. remwindow' + (sent' - rcvd') + (granted' - applied')
          = remwindow + (sent - rcvd) + (granted - applied)
    <3>1. PICK s \in Nat, w \in Nat : s = sent' /\ w = remwindow'
      BY <1>5
    <3>2. s + w = sent + remwindow
      BY <3>1, <1>5
    <3>3. w + (s - rcvd) = remwindow + (sent - rcvd)
      BY <3>2, <1>3
    <3> QED BY <2>1, <3>1, <3>3
  <2> QED BY <2>1, <2>2, <1>1, <1>2 DEF CreditConserved
<1>10. NeverThrottlesConn' /\ WindowWideEnough' /\ FixedByChannel'
  BY <1>1, <1>2, ReaderUnchanged DEF winVars, chanVars
<1> QED BY <1>5, <1>6, <1>7, <1>8, <1>9, <1>10 DEF IInv

\* sshfwd_write_eof keeps IInv: it sends the EOF only behind the last byte.
LEMMA WriteEofIInv ==
    ASSUME IInv, WriteEof
    PROVE  IInv'
<1>1. /\ TypeOK /\ Chain(fwd, rcvd, sent, "data") /\ Chain(back, applied, granted, "adjust")
      /\ Ends(fwd, sent_eof, written) /\ Outgoing /\ CreditConserved
      /\ FixedByChannel /\ NeverThrottlesConn /\ WindowWideEnough
  BY DEF IInv
<1>2. /\ ~sent_eof /\ ~pending_eof /\ TryEof
      /\ UNCHANGED <<written, sent, remwindow, winVars, chanVars, back, applied, setup>>
  BY DEF WriteEof
<1>3. /\ written \in Nat /\ sent \in Nat /\ remwindow \in Nat /\ rcvd \in Nat
      /\ granted \in Nat /\ applied \in Nat /\ fwd \in Seq(Entry)
      /\ "data" \in Kinds
  BY <1>1 DEF TypeOK, Kinds
<1>4. Item("eof", sent) \in Entry /\ Item("eof", sent).upto = sent /\ Item("eof", sent).kind = "eof"
  BY <1>3 DEF Item, Entry, Kinds
<1>5. pending_eof' = (sent < written) /\ sent_eof' = (sent = written)
  BY <1>2 DEF TryEof
<1>6. /\ fwd' \in Seq(Entry) /\ Chain(fwd', rcvd, sent, "data")
      /\ Ends(fwd', sent_eof', written)
  <2>1. CASE sent = written
    <3>1. fwd' = Append(fwd, Item("eof", sent)) /\ sent_eof'
      BY <2>1, <1>2, <1>5 DEF TryEof
    <3>2. Chain(fwd', rcvd, sent, "data")
      BY <3>1, <1>1, <1>3, <1>4, ChainAppend
    <3>3. Ends(fwd, sent_eof', written) /\ sent_eof' \in BOOLEAN
      BY <3>1, <1>1 DEF Ends
    <3>4. Ends(fwd', sent_eof', written)
      BY <2>1, <3>1, <3>3, <1>3, <1>4, EndsAppend
    <3>5. fwd' \in Seq(Entry)
      BY <3>1, <1>3, <1>4
    <3> QED BY <3>2, <3>4, <3>5
  <2>2. CASE sent # written
    <3>1. fwd' = fwd
      BY <2>2, <1>2 DEF TryEof
    <3>2. Ends(fwd', sent_eof', written)
      BY <3>1, <1>1, <1>2 DEF Ends
    <3> QED BY <3>1, <3>2, <1>1, <1>3
  <2> QED BY <2>1, <2>2
<1>7. TypeOK'
  BY <1>1, <1>2, <1>5, <1>6 DEF TypeOK, winVars, chanVars
<1>8. Chain(fwd, rcvd, sent, "data")' /\ Chain(back, applied, granted, "adjust")'
  BY <1>1, <1>2, <1>6 DEF winVars, chanVars, Chain
<1>9. Outgoing' /\ Ends(fwd, sent_eof, written)'
  <2>1. (pending_eof' <=> sent < written) /\ (sent_eof' <=> sent = written)
    BY <1>5
  <2>2. rcvd_eof' = rcvd_eof /\ ~rcvd_eof /\ written' = written /\ sent' = sent
        /\ remwindow' = remwindow
    BY <1>1, <1>2 DEF Outgoing, chanVars
  <2> QED BY <2>1, <2>2, <1>1, <1>3, <1>6 DEF Outgoing
<1>10. CreditConserved'
  BY <1>1, <1>2, <1>3, <1>7 DEF CreditConserved, TypeOK, winVars, chanVars
<1>11. NeverThrottlesConn' /\ WindowWideEnough' /\ FixedByChannel'
  BY <1>1, <1>2, ReaderUnchanged DEF winVars, chanVars
<1> QED BY <1>7, <1>8, <1>9, <1>10, <1>11 DEF IInv

\* WINDOW_ADJUST keeps IInv; the stream and its announced end stay as they are.
LEMMA RecvAdjustIInv ==
    ASSUME IInv, RecvAdjust
    PROVE  /\ IInv' /\ written' = written
           /\ (pending_eof' \/ sent_eof' <=> pending_eof \/ sent_eof)
           /\ Count(fwd', "reply") = Count(fwd, "reply")
<1> DEFINE u == Head(back).upto
<1>1. /\ TypeOK /\ Chain(fwd, rcvd, sent, "data") /\ Chain(back, applied, granted, "adjust")
      /\ Ends(fwd, sent_eof, written) /\ Outgoing /\ CreditConserved
      /\ FixedByChannel /\ NeverThrottlesConn /\ WindowWideEnough
  BY DEF IInv
<1>2. /\ back # <<>> /\ back' = Tail(back) /\ applied' = u
      /\ locwindow' = locwindow /\ granted' = granted /\ rcvd' = rcvd /\ rcvd_eof' = rcvd_eof
      /\ UNCHANGED <<winVars, chanVars, setup>>
  BY DEF RecvAdjust, AtHead, winVars, chanVars
<1>3. /\ written \in Nat /\ sent \in Nat /\ remwindow \in Nat /\ rcvd \in Nat
      /\ granted \in Nat /\ applied \in Nat /\ locwindow \in Int
      /\ back \in Seq(Entry) /\ fwd \in Seq(Entry) /\ pending_eof \in BOOLEAN
      /\ sent_eof \in BOOLEAN
  BY <1>1 DEF TypeOK
<1>4. /\ Tail(back) \in Seq(Entry) /\ u \in Nat /\ applied <= u /\ u <= granted
      /\ Chain(Tail(back), u, granted, "adjust")
  <2>1. "adjust" \in Kinds
    BY DEF Kinds
  <2> QED BY <2>1, <1>1, <1>2, <1>3, ChainTail DEF Entry
<1> HIDE DEF u
<1>5. Chain(back, applied, granted, "adjust")'
  BY <1>2, <1>4 DEF Chain
<1>6. NeverThrottlesConn' /\ WindowWideEnough' /\ FixedByChannel'
  BY <1>1, <1>2, ReaderUnchanged DEF winVars, chanVars
<1>7. CASE sent_eof
  <2>1. UNCHANGED <<written, sent, remwindow, pending_eof, sent_eof, fwd>>
    BY <1>7 DEF RecvAdjust, sndVars
  <2>2. TypeOK'
    BY <2>1, <1>1, <1>2, <1>4 DEF TypeOK, winVars, chanVars
  <2>3. Chain(fwd, rcvd, sent, "data")' /\ Ends(fwd, sent_eof, written)' /\ Outgoing'
    BY <2>1, <1>1, <1>2 DEF Chain, Ends, Outgoing
  <2>4. CreditConserved'
    <3>1. 0 <= remwindow + (sent - rcvd) + (granted - u)
      BY <1>1, <1>3, <1>4 DEF Chain
    <3>2. remwindow + (sent - rcvd) + (granted - u) <= locwindow
      BY <1>1, <1>3, <1>4 DEF CreditConserved
    <3> QED BY <3>1, <3>2, <2>1, <1>2, <1>7 DEF CreditConserved
  <2> QED BY <2>1, <2>2, <2>3, <2>4, <1>5, <1>6 DEF IInv
<1>8. CASE ~sent_eof
  <2> DEFINE win == remwindow + (u - applied)
  <2>1. TrySend(written, win, pending_eof)
    BY <1>8 DEF RecvAdjust, NewWindow, u
  <2>2. win \in Nat /\ sent <= written
    BY <1>1, <1>3, <1>4 DEF Outgoing
  <2> HIDE DEF win
  <2>3. /\ written' = written /\ sent' \in Nat /\ sent <= sent' /\ sent' <= written
        /\ remwindow' \in Nat /\ sent' + remwindow' = sent + win
        /\ sent' < written => remwindow' = 0
        /\ pending_eof' \in BOOLEAN /\ sent_eof' \in BOOLEAN
        /\ sent_eof' => sent' = written /\ ~pending_eof'
        /\ (pending_eof' \/ sent_eof') <=> pending_eof
        /\ fwd' \in Seq(Entry)
        /\ Chain(fwd', rcvd, sent', "data")
        /\ Ends(fwd', sent_eof', written)
        /\ Count(fwd', "reply") = Count(fwd, "reply")
    BY <2>1, <2>2, <1>1, <1>3, <1>8, TrySendFacts
  <2>4. TypeOK'
    BY <2>3, <1>1, <1>2, <1>4 DEF TypeOK, winVars, chanVars
  <2>5. Chain(fwd, rcvd, sent, "data")' /\ Ends(fwd, sent_eof, written)' /\ Outgoing'
    BY <2>3, <1>1, <1>2, <1>8 DEF Chain, Ends, Outgoing
  <2>6. CreditConserved'
    <3>1. PICK s \in Nat, w \in Nat : s = sent' /\ w = remwindow'
      BY <2>3
    <3>2. s + w = sent + win /\ sent <= s
      BY <3>1, <2>3
    <3>3. w + (s - rcvd) + (granted - u) = remwindow + (sent - rcvd) + (granted - applied)
      BY <3>2, <1>3, <1>4 DEF win
    <3> QED BY <3>1, <3>3, <1>1, <1>2, <1>8 DEF CreditConserved
  <2> QED BY <2>3, <2>4, <2>5, <2>6, <1>5, <1>6, <1>8 DEF IInv
<1> QED BY <1>3, <1>7, <1>8

\* Answering a winadj request keeps IInv.
LEMMA RecvWinadjIInv ==
    ASSUME IInv, RecvWinadj
    PROVE  IInv'
<1> DEFINE e == Item("reply", sent)
<1>1. /\ TypeOK /\ Chain(fwd, rcvd, sent, "data") /\ Chain(back, applied, granted, "adjust")
      /\ Ends(fwd, sent_eof, written) /\ Outgoing /\ CreditConserved
      /\ FixedByChannel /\ NeverThrottlesConn /\ WindowWideEnough
  BY DEF IInv
<1>2. /\ back # <<>> /\ Head(back).kind # "adjust" /\ back' = Tail(back)
      /\ fwd' = Append(fwd, e)
      /\ UNCHANGED <<sndVars, winVars, chanVars, applied, setup>>
  BY DEF RecvWinadj, AtHead
<1>3. /\ written \in Nat /\ sent \in Nat /\ rcvd \in Nat /\ granted \in Nat /\ applied \in Nat
      /\ back \in Seq(Entry) /\ fwd \in Seq(Entry) /\ sent_eof \in BOOLEAN
      /\ "data" \in Kinds /\ "adjust" \in Kinds
  BY <1>1 DEF TypeOK, Kinds
<1>4. Tail(back) \in Seq(Entry) /\ Chain(Tail(back), applied, granted, "adjust")
  BY <1>1, <1>2, <1>3, ChainTail
<1>5. e \in Entry /\ e.upto = sent /\ e.kind = "reply"
  BY <1>3 DEF Item, Entry, Kinds
<1> HIDE DEF e
<1>6. Append(fwd, e) \in Seq(Entry) /\ Chain(Append(fwd, e), rcvd, sent, "data")
  BY <1>1, <1>3, <1>5, ChainAppend
<1>7. Ends(Append(fwd, e), sent_eof, written)
  BY <1>1, <1>3, <1>5, EndsAppend
<1>8. TypeOK'
  BY <1>1, <1>2, <1>4, <1>6 DEF TypeOK, sndVars, winVars, chanVars
<1>9. /\ Chain(fwd, rcvd, sent, "data")' /\ Chain(back, applied, granted, "adjust")'
      /\ Ends(fwd, sent_eof, written)'
  BY <1>2, <1>4, <1>6, <1>7 DEF sndVars, winVars, chanVars, Chain, Ends
<1>10. Outgoing' /\ CreditConserved'
  BY <1>1, <1>2 DEF sndVars, winVars, chanVars, Outgoing, CreditConserved
<1>11. NeverThrottlesConn' /\ WindowWideEnough' /\ FixedByChannel'
  BY <1>1, <1>2, ReaderUnchanged DEF winVars, chanVars
<1> QED BY <1>8, <1>9, <1>10, <1>11 DEF IInv

\* Processing the answer to a winadj request keeps IInv.
LEMMA RecvReplyIInv ==
    ASSUME IInv, RecvReply
    PROVE  IInv'
<1>1. /\ TypeOK /\ Chain(fwd, rcvd, sent, "data") /\ Chain(back, applied, granted, "adjust")
      /\ Ends(fwd, sent_eof, written) /\ Outgoing /\ CreditConserved
      /\ FixedByChannel /\ NeverThrottlesConn /\ WindowWideEnough
  BY DEF IInv
<1>2. /\ fwd # <<>> /\ Head(fwd).kind = "reply" /\ fwd' = Tail(fwd)
      /\ chanreqs # <<>> /\ chanreqs' = Tail(chanreqs)
      /\ remlocwin' = remlocwin + Head(chanreqs)
      /\ throttle_state' = IF throttle_state = "UNTHROTTLING" THEN "UNTHROTTLED"
                           ELSE throttle_state
      /\ UNCHANGED <<sndVars, locwindow, locmaxwin, granted, chanVars, back, applied, setup>>
  BY DEF RecvReply, AtHead
<1>3. /\ written \in Nat /\ sent \in Nat /\ rcvd \in Nat /\ fwd \in Seq(Entry)
      /\ chanreqs \in Seq(Nat) /\ "data" \in Kinds /\ remlocwin \in Int
  BY <1>1 DEF TypeOK, Kinds
<1>4. Tail(fwd) \in Seq(Entry) /\ Chain(Tail(fwd), rcvd, sent, "data")
  BY SMTT(30), <1>1, <1>2, <1>3, ChainTail
<1>5. Ends(Tail(fwd), sent_eof, written)
  BY <1>1, <1>2, <1>3, EndsTail
<1>6. Tail(chanreqs) \in Seq(Nat) /\ Head(chanreqs) \in Nat
  BY <1>2, <1>3
<1>7. TypeOK'
  BY SMTT(30), <1>1, <1>2, <1>3, <1>4, <1>6 DEF TypeOK, sndVars, chanVars
<1>8. /\ Chain(fwd, rcvd, sent, "data")' /\ Chain(back, applied, granted, "adjust")'
      /\ Ends(fwd, sent_eof, written)'
  BY <1>1, <1>2, <1>4, <1>5 DEF sndVars, chanVars, Chain, Ends
<1>9. Outgoing' /\ CreditConserved'
  BY <1>1, <1>2 DEF sndVars, chanVars, Outgoing, CreditConserved
<1>10. NeverThrottlesConn' /\ WindowWideEnough' /\ FixedByChannel'
  BY <1>1, <1>2, ReaderUnchanged DEF chanVars
<1> QED BY <1>7, <1>8, <1>9, <1>10 DEF IInv

\* CHANNEL_EOF keeps IInv, and comes after every byte of the stream.
LEMMA RecvEofIInv ==
    ASSUME IInv, RecvEof
    PROVE  IInv' /\ rcvd = written /\ sent_eof
<1>1. /\ TypeOK /\ Chain(fwd, rcvd, sent, "data") /\ Chain(back, applied, granted, "adjust")
      /\ Ends(fwd, sent_eof, written) /\ Outgoing /\ CreditConserved
      /\ FixedByChannel /\ NeverThrottlesConn /\ WindowWideEnough
  BY DEF IInv
<1>2. /\ fwd # <<>> /\ Head(fwd).kind = "eof" /\ fwd' = Tail(fwd) /\ rcvd_eof' = TRUE
      /\ UNCHANGED <<sndVars, winVars, rcvd, bufsize, fixed, throttling_conn, back, applied, setup>>
  BY DEF RecvEof, AtHead
<1>3. /\ written \in Nat /\ sent \in Nat /\ rcvd \in Nat /\ fwd \in Seq(Entry) /\ "data" \in Kinds
  BY <1>1 DEF TypeOK, Kinds
<1>4. /\ Tail(fwd) \in Seq(Entry) /\ Head(fwd) = fwd[1] /\ Head(fwd).upto = rcvd
      /\ Chain(Tail(fwd), rcvd, sent, "data")
  BY <1>1, <1>2, <1>3, ChainTail
<1>5. Ends(Tail(fwd), sent_eof, written)
  BY <1>1, <1>2, <1>3, EndsTail
<1>6. sent_eof /\ rcvd = written
  <2>1. 1 \in 1..Len(fwd)
    BY <1>2, <1>3
  <2> QED BY <2>1, <1>1, <1>2, <1>4 DEF Ends
<1>7. TypeOK'
  BY <1>1, <1>2, <1>4 DEF TypeOK, sndVars, winVars
<1>8. /\ Chain(fwd, rcvd, sent, "data")' /\ Chain(back, applied, granted, "adjust")'
      /\ Ends(fwd, sent_eof, written)'
  BY <1>1, <1>2, <1>4, <1>5 DEF sndVars, winVars, Chain, Ends
<1>9. Outgoing' /\ CreditConserved'
  BY <1>1, <1>2, <1>6 DEF sndVars, winVars, Outgoing, CreditConserved
<1>10. NeverThrottlesConn' /\ WindowWideEnough' /\ FixedByChannel'
  BY <1>1, <1>2 DEF winVars, NeverThrottlesConn, WindowWideEnough, FixedByChannel
<1> QED BY <1>6, <1>7, <1>8, <1>9, <1>10 DEF IInv

\* The window fields start from are well formed, k bytes further on.
LEMMA AfterFacts ==
    ASSUME TypeOK, NEW k \in Nat
    PROVE  /\ After(k) \in Window
           /\ After(k).max = locmaxwin /\ After(k).loc = locwindow - k
           /\ After(k).given = granted /\ After(k).queue = back
           /\ After(k).reqs = chanreqs
<1>1. /\ locwindow - k \in Int /\ remlocwin - k \in Int /\ locmaxwin \in Nat /\ granted \in Nat
      /\ throttle_state \in {"UNTHROTTLED", "UNTHROTTLING", "THROTTLED"}
      /\ chanreqs \in Seq(Nat) /\ back \in Seq(Entry)
  BY DEF TypeOK
<1> QED BY <1>1 DEF After, Window

\* Installing well-formed window fields keeps the types.
LEMMA InstallFacts ==
    ASSUME NEW r \in Window, Install(r)
    PROVE  /\ locwindow' = r.loc /\ locmaxwin' = r.max /\ granted' = r.given /\ back' = r.queue
           /\ chanreqs' = r.reqs
           /\ locwindow' \in Int /\ locmaxwin' \in Nat /\ remlocwin' \in Int
           /\ throttle_state' \in {"UNTHROTTLED", "UNTHROTTLING", "THROTTLED"}
           /\ chanreqs' \in Seq(Nat) /\ granted' \in Nat /\ back' \in Seq(Entry)
  BY DEF Install, Window

\* sshfwd_unthrottle keeps IInv.
LEMMA DrainIInv ==
    ASSUME IInv, NEW d \in Nat, Drain(d)
    PROVE  /\ IInv'
           /\ Len(chanreqs') - Count(back', "winadj") = Len(chanreqs) - Count(back, "winadj")
<1> DEFINE w == After(0)
<1> DEFINE b == bufsize - d
<1> DEFINE room == Room(b)
<1> DEFINE r == Reopen(w, room, fixed)
<1>1. /\ TypeOK /\ Chain(fwd, rcvd, sent, "data") /\ Chain(back, applied, granted, "adjust")
      /\ Ends(fwd, sent_eof, written) /\ Outgoing /\ CreditConserved
      /\ FixedByChannel /\ NeverThrottlesConn /\ WindowWideEnough
  BY DEF IInv
<1>2. /\ d <= bufsize /\ bufsize' = b /\ Install(r)
      /\ throttling_conn' = (throttling_conn /\ Overfull(b))
      /\ UNCHANGED <<sndVars, rcvd, fixed, rcvd_eof, fwd, applied, setup>>
  BY DEF Drain
<1>3. /\ written \in Nat /\ sent \in Nat /\ remwindow \in Nat /\ rcvd \in Nat /\ bufsize \in Nat
      /\ granted \in Nat /\ applied \in Nat /\ locmaxwin \in Nat /\ locwindow \in Int
      /\ fixed \in BOOLEAN /\ rcvd_eof \in BOOLEAN /\ setup \in Setups
      /\ throttling_conn \in BOOLEAN
  BY <1>1 DEF TypeOK
<1>4. b \in Nat /\ b <= bufsize
  BY <1>2, <1>3
<1>5. room \in Int /\ (~setup.simple => room = locmaxwin - b)
  BY <1>3, <1>4 DEF Room, buflimit
<1>6. /\ w \in Window /\ w.max = locmaxwin /\ w.loc = locwindow /\ w.given = granted
      /\ Chain(w.queue, applied, w.given, "adjust")
      /\ w.queue = back /\ w.reqs = chanreqs
  BY <1>1, <1>3, AfterFacts
<1> HIDE DEF w, b, room
<1>7. Reopened(w, r, room, applied, fixed)
  BY <1>3, <1>5, <1>6, ReopenFacts
<1> HIDE DEF r
<1>8. /\ locwindow' = r.loc /\ locmaxwin' = locmaxwin /\ granted' = r.given /\ back' = r.queue
      /\ locwindow' \in Int /\ remlocwin' \in Int
      /\ throttle_state' \in {"UNTHROTTLED", "UNTHROTTLING", "THROTTLED"}
      /\ chanreqs' \in Seq(Nat) /\ granted' \in Nat /\ back' \in Seq(Entry)
      /\ Chain(r.queue, applied, r.given, "adjust")
      /\ r.loc - locwindow = r.given - granted
      /\ r.given \in Nat /\ r.loc \in Int
  BY <1>2, <1>6, <1>7, InstallFacts DEF Reopened
<1>9. throttling_conn' \in BOOLEAN /\ (throttling_conn' => throttling_conn)
  BY <1>2, <1>3, Zenon
<1>10. TypeOK'
  BY <1>1, <1>2, <1>4, <1>8, <1>9 DEF TypeOK, sndVars
<1>11. /\ Chain(fwd, rcvd, sent, "data")' /\ Chain(back, applied, granted, "adjust")'
       /\ Ends(fwd, sent_eof, written)' /\ Outgoing' /\ FixedByChannel'
  BY <1>1, <1>2, <1>8 DEF sndVars, Chain, Ends, Outgoing, FixedByChannel
<1>12. CreditConserved'
  <2>1. PICK g \in Nat, l \in Int : g = r.given /\ l = r.loc
    BY <1>8
  <2>2. l - locwindow = g - granted /\ applied <= g
    BY <2>1, <1>8 DEF Chain
  <2>3. sent >= rcvd
    BY <1>1 DEF Chain
  <2>4. 0 <= remwindow + (sent - rcvd) + (g - applied)
    BY <2>2, <2>3, <1>3
  <2>5. /\ remwindow + (sent - rcvd) + (g - applied) <= l
        /\ ~sent_eof => remwindow + (sent - rcvd) + (g - applied) = l
    BY <2>2, <1>1, <1>3 DEF CreditConserved
  <2> QED BY <2>1, <2>4, <2>5, <1>2, <1>8 DEF CreditConserved, sndVars
<1>13. NeverThrottlesConn'
  <2> SUFFICES ASSUME ~setup.simple, setup.fixedwin = 0
               PROVE  ~throttling_conn' /\ b + r.loc <= locmaxwin
    BY <1>2, <1>8 DEF NeverThrottlesConn
  <2>1. ~throttling_conn /\ bufsize + locwindow <= locmaxwin
    BY <1>1 DEF NeverThrottlesConn
  <2>2. r.loc = locwindow \/ r.loc <= locmaxwin - b
    BY <1>5, <1>6, <1>7 DEF Reopened
  <2> QED BY SMTT(30), <2>1, <2>2, <1>3, <1>4, <1>8, <1>9
<1>14. WindowWideEnough'
  <2> SUFFICES ASSUME ~setup.simple, ~fixed, ~rcvd_eof, b < locmaxwin
               PROVE  Capped(locmaxwin - b) \div 2 < r.loc
    BY <1>2, <1>8 DEF WindowWideEnough, Capped
  <2>1. room > 0 /\ room = locmaxwin - b
    BY <1>3, <1>4, <1>5
  <2> QED BY <2>1, <1>7 DEF Reopened
<1>15. Len(chanreqs') - Count(back', "winadj") = Len(chanreqs) - Count(back, "winadj")
  <2>1. Acknowledging(r) = Acknowledging(w) /\ chanreqs' = r.reqs /\ back' = r.queue
    BY <1>2, <1>7, InstallFacts DEF Reopened
  <2> QED BY <2>1, <1>6 DEF Acknowledging
<1> QED BY <1>10, <1>11, <1>12, <1>13, <1>14, <1>15 DEF IInv

\* While data may still arrive the reading end has not seen EOF, and what arrives is in
\* the window: k bytes of the run at the head of fwd are within what was granted.
LEMMA RecvDataFacts ==
    ASSUME IInv, NEW k \in Nat \ {0}, AtHead(fwd, "data"), k <= Head(fwd).upto - rcvd, TakeBytes(k)
    PROVE  /\ ~rcvd_eof /\ k <= locwindow
           /\ rcvd' = rcvd + k /\ rcvd' <= sent
           /\ fwd' \in Seq(Entry)
           /\ Chain(fwd', rcvd', sent, "data") /\ Ends(fwd', sent_eof, written)
<1> DEFINE u == Head(fwd).upto
<1>1. /\ TypeOK /\ Chain(fwd, rcvd, sent, "data") /\ Chain(back, applied, granted, "adjust")
      /\ Ends(fwd, sent_eof, written) /\ Outgoing /\ CreditConserved
  BY DEF IInv
<1>2. /\ fwd # <<>> /\ Head(fwd).kind = "data"
      /\ rcvd' = rcvd + k /\ fwd' = IF rcvd + k = u THEN Tail(fwd) ELSE fwd
  BY DEF AtHead, TakeBytes
<1>3. /\ written \in Nat /\ sent \in Nat /\ remwindow \in Nat /\ rcvd \in Nat /\ fwd \in Seq(Entry)
      /\ granted \in Nat /\ applied \in Nat /\ locwindow \in Int /\ "data" \in Kinds
  BY <1>1 DEF TypeOK, Kinds
<1>4. /\ Tail(fwd) \in Seq(Entry) /\ u \in Nat /\ rcvd <= u /\ u <= sent
      /\ Chain(Tail(fwd), u, sent, "data")
  BY <1>1, <1>2, <1>3, ChainTail DEF Entry
<1> HIDE DEF u
<1>5. rcvd + k \in Nat /\ rcvd <= rcvd + k /\ rcvd + k <= u
  BY <1>3, <1>4 DEF u
<1>6. Chain(fwd, rcvd + k, sent, "data")
  BY <1>1, <1>2, <1>3, <1>5, ChainPart DEF u
<1>7. Ends(Tail(fwd), sent_eof, written)
  BY <1>1, <1>2, <1>3, EndsTail
<1>8. fwd' \in Seq(Entry) /\ Chain(fwd', rcvd', sent, "data") /\ Ends(fwd', sent_eof, written)
  <2>1. CASE rcvd + k = u
    BY <2>1, <1>2, <1>4, <1>7
  <2>2. CASE rcvd + k # u
    BY <2>2, <1>1, <1>2, <1>3, <1>6
  <2> QED BY <2>1, <2>2
<1>9. ~rcvd_eof
  BY <1>1, <1>3, <1>4, <1>5 DEF Outgoing
<1>10. k <= locwindow
  <2>1. applied <= granted
    BY <1>1 DEF Chain
  <2>2. remwindow + (sent - rcvd) + (granted - applied) <= locwindow
    BY <1>1 DEF CreditConserved
  <2> QED BY <2>1, <2>2, <1>3, <1>4, <1>5
<1>11. rcvd + k <= sent
  BY <1>3, <1>4, <1>5
<1> QED BY <1>2, <1>8, <1>9, <1>10, <1>11

\* CHANNEL_DATA keeps IInv: the backlog it leaves still fits in locmaxwin.
LEMMA RecvDataIInv ==
    ASSUME IInv, NEW k \in Nat \ {0}, NEW b \in Nat, NEW verified \in BOOLEAN,
           RecvData(k, b, verified)
    PROVE  /\ IInv'
           /\ Len(chanreqs') - Count(back', "winadj") = Len(chanreqs) - Count(back, "winadj")
<1> DEFINE w == After(k)
<1> DEFINE lifted == IF verified THEN SetWindow(w, FullWindow, FALSE) ELSE w
<1> DEFINE grown == Grow(lifted)
<1> DEFINE still == fixed /\ ~verified
<1> DEFINE room == grown.max - b
<1> DEFINE r == Reopen(grown, room, still)
<1>1. /\ TypeOK /\ Chain(back, applied, granted, "adjust")
      /\ Outgoing /\ CreditConserved
      /\ FixedByChannel /\ NeverThrottlesConn /\ WindowWideEnough
  BY DEF IInv
<1>2. /\ AtHead(fwd, "data") /\ k <= Head(fwd).upto - rcvd /\ TakeBytes(k)
      /\ bufsize' = b /\ (verified => fixed)
      /\ UNCHANGED <<sndVars, rcvd_eof, applied, setup>>
  BY DEF RecvData
<1>3. fixed' = still /\ Install(r)
      /\ throttling_conn' = (throttling_conn \/ b > grown.max \/ (setup.simple /\ b > 0))
  BY DEF RecvData
<1>4. IF still THEN b = 0 ELSE IF bufsize > 0 THEN b = bufsize + k ELSE b <= k
  BY DEF RecvData
<1>5. /\ written \in Nat /\ sent \in Nat /\ remwindow \in Nat /\ rcvd \in Nat /\ bufsize \in Nat
      /\ granted \in Nat /\ applied \in Nat /\ locmaxwin \in Nat /\ locwindow \in Int
      /\ fixed \in BOOLEAN /\ rcvd_eof \in BOOLEAN /\ setup \in Setups
      /\ throttling_conn \in BOOLEAN
  BY <1>1 DEF TypeOK
<1>6. /\ ~rcvd_eof /\ k <= locwindow /\ rcvd' = rcvd + k /\ rcvd' <= sent
      /\ fwd' \in Seq(Entry)
      /\ Chain(fwd', rcvd', sent, "data") /\ Ends(fwd', sent_eof, written)
  BY <1>2, RecvDataFacts
<1>7. /\ w \in Window /\ w.max = locmaxwin /\ w.loc = locwindow - k /\ w.given = granted
      /\ Chain(w.queue, applied, w.given, "adjust")
      /\ w.queue = back /\ w.reqs = chanreqs
  BY <1>1, <1>5, AfterFacts
<1> HIDE DEF w
<1>8. /\ lifted \in Window /\ lifted.max = locmaxwin /\ lifted.given >= granted
      /\ lifted.loc - w.loc = lifted.given - granted
      /\ Chain(lifted.queue, applied, lifted.given, "adjust")
      /\ ~verified => lifted.loc = locwindow - k
      /\ Acknowledging(lifted) = Acknowledging(w)
  <2>1. CASE verified
    <3>1. FullWindow \in Nat \ {0} /\ FALSE \in BOOLEAN
      BY <1>5, SetupFacts
    <3>2. Reopened(w, SetWindow(w, FullWindow, FALSE), FullWindow, applied, FALSE)
      BY <3>1, <1>5, <1>7, SetWindowFacts
    <3> QED BY <2>1, <3>2, <1>7 DEF Reopened
  <2>2. CASE ~verified
    <3>1. lifted = w
      BY <2>2
    <3> HIDE DEF lifted
    <3> QED BY <3>1, <2>2, <1>5, <1>7
  <2> QED BY <2>1, <2>2
<1> HIDE DEF lifted
<1>9. /\ grown \in Window /\ grown.max >= locmaxwin /\ grown.loc = lifted.loc
      /\ grown.given = lifted.given /\ grown.queue = lifted.queue /\ grown.max \in Nat
      /\ grown.reqs = lifted.reqs
  BY <1>8, GrowFacts DEF Window
<1> HIDE DEF grown
<1>10. Chain(grown.queue, applied, grown.given, "adjust")
  BY <1>8, <1>9
<1>11. still \in BOOLEAN /\ (still => fixed) /\ (~fixed => ~still /\ ~verified)
  BY <1>2, <1>5
<1>12. room \in Int
  BY <1>9
<1> HIDE DEF still, room
<1>13. Reopened(grown, r, room, applied, still)
  BY <1>5, <1>9, <1>10, <1>11, <1>12, ReopenFacts
<1> HIDE DEF r
<1>14. /\ locwindow' = r.loc /\ locmaxwin' = grown.max /\ granted' = r.given /\ back' = r.queue
       /\ locwindow' \in Int /\ locmaxwin' \in Nat /\ remlocwin' \in Int
       /\ throttle_state' \in {"UNTHROTTLED", "UNTHROTTLING", "THROTTLED"}
       /\ chanreqs' \in Seq(Nat) /\ granted' \in Nat /\ back' \in Seq(Entry)
       /\ Chain(r.queue, applied, r.given, "adjust")
  BY <1>3, <1>13, InstallFacts DEF Reopened
<1>15. PICK g \in Nat, l \in Int, g1 \in Nat, l1 \in Int :
          /\ g = r.given /\ l = r.loc /\ g1 = grown.given /\ l1 = grown.loc
  BY <1>9, <1>14 DEF Window
<1>16. /\ l - l1 = g - g1 /\ l1 - (locwindow - k) = g1 - granted /\ applied <= g
       /\ ~verified => l1 = locwindow - k
       /\ l = l1 \/ l <= room
  BY <1>7, <1>8, <1>9, <1>13, <1>14, <1>15 DEF Reopened, Chain
<1>17. b \in Nat /\ throttling_conn' \in BOOLEAN
  <2>1. (b > grown.max) \in BOOLEAN /\ (b > 0) \in BOOLEAN /\ setup.simple \in BOOLEAN
    BY <1>5, <1>9, SetupFacts
  <2>2. throttling_conn' = (throttling_conn \/ b > grown.max \/ (setup.simple /\ b > 0))
    BY <1>3
  <2>3. throttling_conn' \in BOOLEAN
    BY <2>1, <2>2, <1>5, Zenon
  <2> QED BY <2>3
<1>18. TypeOK'
  BY <1>1, <1>2, <1>3, <1>6, <1>11, <1>14, <1>17 DEF TypeOK, sndVars
<1>19. /\ Chain(fwd, rcvd, sent, "data")' /\ Chain(back, applied, granted, "adjust")'
       /\ Ends(fwd, sent_eof, written)'
  BY <1>2, <1>6, <1>14 DEF sndVars, Chain, Ends
<1>20. Outgoing' /\ FixedByChannel'
  BY <1>1, <1>2, <1>3, <1>6, <1>11 DEF sndVars, Outgoing, FixedByChannel
<1>21. CreditConserved'
  <2>1. 0 <= remwindow + (sent - (rcvd + k)) + (g - applied)
    BY <1>5, <1>6, <1>16
  <2>2. /\ remwindow + (sent - (rcvd + k)) + (g - applied) <= l
        /\ ~sent_eof => remwindow + (sent - (rcvd + k)) + (g - applied) = l
    BY <1>1, <1>5, <1>16 DEF CreditConserved
  <2> QED BY <2>1, <2>2, <1>2, <1>6, <1>14, <1>15 DEF CreditConserved, sndVars
<1>22. NeverThrottlesConn'
  <2> SUFFICES ASSUME ~setup.simple, setup.fixedwin = 0
               PROVE  ~throttling_conn' /\ b + l <= grown.max
    BY <1>2, <1>14, <1>15 DEF NeverThrottlesConn
  <2>1. ~throttling_conn /\ bufsize + locwindow <= locmaxwin
    BY <1>1 DEF NeverThrottlesConn
  <2>2. ~fixed
    BY <1>1 DEF FixedByChannel
  <2>3. ~still /\ l1 = locwindow - k
    BY <2>2, <1>11, <1>16
  <2>4. b <= bufsize + k
    BY <2>3, <1>4, <1>5
  <2>5. b <= grown.max
    BY <2>1, <2>4, <1>5, <1>6, <1>9
  <2>6. b + l <= grown.max
    <3>1. CASE l = l1
      BY <3>1, <2>1, <2>3, <2>4, <1>5, <1>9
    <3>2. CASE l <= room
      BY <3>2, <1>9 DEF room
    <3> QED BY <3>1, <3>2, <1>16
  <2>7. ~(b > grown.max) /\ ~throttling_conn
    BY <2>1, <2>5, <1>9
  <2>8. ~throttling_conn'
    BY <2>7, <1>3
  <2> QED BY <2>6, <2>8
<1>23. WindowWideEnough'
  <2> SUFFICES ASSUME ~setup.simple, ~still, b < grown.max
               PROVE  Capped(grown.max - b) \div 2 < r.loc
    BY <1>2, <1>3, <1>14 DEF WindowWideEnough, Capped
  <2>1. room > 0 /\ room = grown.max - b
    BY <1>9 DEF room
  <2> QED BY <2>1, <1>6, <1>13 DEF Reopened
<1>24. Len(chanreqs') - Count(back', "winadj") = Len(chanreqs) - Count(back, "winadj")
  <2>1. Acknowledging(r) = Acknowledging(grown) /\ chanreqs' = r.reqs /\ back' = r.queue
    BY <1>3, <1>13, InstallFacts DEF Reopened
  <2>2. Acknowledging(grown) = Acknowledging(lifted)
    BY <1>9 DEF Acknowledging
  <2> QED BY <2>1, <2>2, <1>7, <1>8 DEF Acknowledging
<1> QED BY <1>18, <1>19, <1>20, <1>21, <1>22, <1>23, <1>24 DEF IInv

\* Every step keeps IInv: one case per action.
LEMMA NextIInv ==
    ASSUME IInv, [Next]_vars
    PROVE  IInv'
<1>1. MaxBytes \in Nat /\ MaxPkt \in Nat
  BY SizesAssumption
<1>2. CASE WriteSome
  BY <1>1, <1>2, WriteIInv DEF WriteSome
<1>3. CASE WriteEof
  BY <1>3, WriteEofIInv
<1>4. CASE RecvAdjust
  BY <1>4, RecvAdjustIInv
<1>5. CASE RecvWinadj
  BY <1>5, RecvWinadjIInv
<1>6. CASE RecvSome
  <2>1. PICK k \in Nat \ {0}, b \in Nat, v \in BOOLEAN : RecvData(k, b, v)
    BY <1>1, <1>6 DEF RecvSome
  <2> QED BY <2>1, RecvDataIInv
<1>7. CASE RecvReply
  BY <1>7, RecvReplyIInv
<1>8. CASE RecvEof
  BY <1>8, RecvEofIInv
<1>9. CASE DrainSome
  BY <1>1, <1>9, DrainIInv DEF DrainSome
<1>10. CASE UNCHANGED vars
  <2>1. TypeOK' /\ CreditConserved' /\ NeverThrottlesConn' /\ WindowWideEnough'
    BY <1>10 DEF IInv, vars, sndVars, winVars, chanVars, TypeOK, CreditConserved,
                 NeverThrottlesConn, WindowWideEnough, Capped, AtMost
  <2> QED BY <1>10, <2>1 DEF IInv, vars, sndVars, winVars, chanVars, Chain, Ends, Outgoing,
                             FixedByChannel
<1> QED BY <1>2, <1>3, <1>4, <1>5, <1>6, <1>7, <1>8, <1>9, <1>10
        DEF Next, RecvBack, RecvFwd

\* IInv is an invariant of every channel.
THEOREM Invariance == Spec => []IInv
  BY InitIInv, NextIInv, PTL DEF Spec

--------------------------------------------------------------------------------
(* Replies and the requests they answer. *)

\* The heads of the queues that the two ends read, and what is left behind them.
LEMMA HeadTaken ==
    ASSUME NEW q \in Seq(Entry), NEW kind, NEW other, AtHead(q, kind)
    PROVE  /\ Count(q, other) = Count(Tail(q), other) + (IF kind = other THEN 1 ELSE 0)
           /\ Count(q, other) \in Nat /\ Count(Tail(q), other) \in Nat
<1>1. q # <<>> /\ Head(q).kind = kind /\ Tail(q) \in Seq(Entry)
  BY DEF AtHead
<1>2. Count(q, other) \in Nat /\ Count(Tail(q), other) \in Nat
  BY <1>1, CountNat
<1> QED BY <1>1, <1>2, CountTail

\* Every step keeps the recorded requests in step with those in transit and answered:
\* one case per action.
LEMMA RepliesKept ==
    ASSUME IInv, [Next]_vars, RepliesMatchRequests
    PROVE  RepliesMatchRequests'
<1> DEFINE asked == Count(back, "winadj")
           answered == Count(fwd, "reply")
<1>1. /\ MaxBytes \in Nat /\ MaxPkt \in Nat
      /\ sent \in Nat /\ fwd \in Seq(Entry) /\ back \in Seq(Entry) /\ chanreqs \in Seq(Nat)
  BY SizesAssumption DEF IInv, TypeOK
<1>2. asked \in Nat /\ answered \in Nat /\ Len(chanreqs) \in Nat /\ Len(chanreqs) = asked + answered
  BY <1>1, CountNat DEF RepliesMatchRequests
<1>3. CASE WriteSome
  <2>1. PICK n \in Nat : Write(n)
    BY <1>1, <1>3 DEF WriteSome
  <2>2. chanreqs' = chanreqs /\ back' = back
    BY <2>1 DEF Write, winVars
  <2>3. Count(fwd', "reply") = answered
    BY <2>1, WriteIInv
  <2> QED BY <2>2, <2>3, <1>2 DEF RepliesMatchRequests
<1>4. CASE WriteEof
  <2>1. chanreqs' = chanreqs /\ back' = back
    BY <1>4 DEF WriteEof, winVars
  <2>2. Item("eof", sent) \in Entry /\ Item("eof", sent).kind = "eof"
    BY <1>1 DEF Item, Entry, Kinds
  <2>3. Count(Append(fwd, Item("eof", sent)), "reply") = answered + 0
    BY <1>1, <2>2, CountAppend
  <2>4. Count(fwd', "reply") = answered
    BY <1>2, <1>4, <2>3 DEF WriteEof, TryEof
  <2> QED BY <2>1, <2>4, <1>2 DEF RepliesMatchRequests
<1>5. CASE RecvAdjust
  <2>1. chanreqs' = chanreqs /\ back' = Tail(back) /\ AtHead(back, "adjust")
    BY <1>5 DEF RecvAdjust, winVars
  <2>2. Count(fwd', "reply") = answered
    BY <1>5, RecvAdjustIInv
  <2>3. asked = Count(back', "winadj") + 0 /\ Count(back', "winadj") \in Nat
    BY SMTT(30), <1>1, <2>1, HeadTaken
  <2> QED BY <2>1, <2>2, <2>3, <1>2 DEF RepliesMatchRequests
<1>6. CASE RecvWinadj
  <2>1. /\ chanreqs' = chanreqs /\ back' = Tail(back) /\ AtHead(back, "winadj")
        /\ fwd' = Append(fwd, Item("reply", sent))
    BY <1>6 DEF RecvWinadj, winVars
  <2>2. asked = Count(back', "winadj") + 1 /\ Count(back', "winadj") \in Nat
    BY <1>1, <2>1, HeadTaken
  <2>3. Item("reply", sent) \in Entry /\ Item("reply", sent).kind = "reply"
    BY <1>1 DEF Item, Entry, Kinds
  <2>4. Count(fwd', "reply") = answered + 1
    BY <1>1, <2>1, <2>3, CountAppend
  <2> QED BY <2>1, <2>2, <2>4, <1>2 DEF RepliesMatchRequests
<1>7. CASE RecvSome
  <2>1. PICK k \in Nat \ {0}, b \in Nat, v \in BOOLEAN : RecvData(k, b, v)
    BY <1>1, <1>7 DEF RecvSome
  <2>2. Len(chanreqs') - Count(back', "winadj") = Len(chanreqs) - asked /\ IInv'
    BY <2>1, RecvDataIInv
  <2>3. Count(fwd', "reply") = answered
    <3>1. AtHead(fwd, "data") /\ (fwd' = Tail(fwd) \/ fwd' = fwd)
      BY <2>1 DEF RecvData, TakeBytes
    <3>2. fwd' = Tail(fwd) => answered = Count(fwd', "reply") + 0 /\ Count(fwd', "reply") \in Nat
      BY <1>1, <3>1, HeadTaken
    <3> QED BY <3>1, <3>2
  <2>4. Len(chanreqs') \in Nat /\ Count(back', "winadj") \in Nat
    <3>1. chanreqs' \in Seq(Nat) /\ back' \in Seq(Entry)
      BY <2>2 DEF IInv, TypeOK
    <3> QED BY <3>1, CountNat
  <2> QED BY <2>2, <2>3, <2>4, <1>2 DEF RepliesMatchRequests
<1>8. CASE RecvReply
  <2>1. /\ back' = back /\ fwd' = Tail(fwd) /\ AtHead(fwd, "reply")
        /\ chanreqs # <<>> /\ chanreqs' = Tail(chanreqs)
    BY <1>8 DEF RecvReply
  <2>2. answered = Count(fwd', "reply") + 1 /\ Count(fwd', "reply") \in Nat
    BY <1>1, <2>1, HeadTaken
  <2>3. Len(chanreqs') = Len(chanreqs) - 1
    BY <1>1, <2>1
  <2> QED BY <2>1, <2>2, <2>3, <1>2 DEF RepliesMatchRequests
<1>9. CASE RecvEof
  <2>1. chanreqs' = chanreqs /\ back' = back /\ fwd' = Tail(fwd) /\ AtHead(fwd, "eof")
    BY <1>9 DEF RecvEof, winVars
  <2>2. answered = Count(fwd', "reply") + 0 /\ Count(fwd', "reply") \in Nat
    BY SMTT(30), <1>1, <2>1, HeadTaken
  <2> QED BY <2>1, <2>2, <1>2 DEF RepliesMatchRequests
<1>10. CASE DrainSome
  <2>1. PICK d \in Nat : Drain(d)
    BY <1>1, <1>10 DEF DrainSome
  <2>2. Len(chanreqs') - Count(back', "winadj") = Len(chanreqs) - asked /\ IInv'
    BY <2>1, DrainIInv
  <2>3. fwd' = fwd
    BY <2>1 DEF Drain
  <2>4. Len(chanreqs') \in Nat /\ Count(back', "winadj") \in Nat
    <3>1. chanreqs' \in Seq(Nat) /\ back' \in Seq(Entry)
      BY <2>2 DEF IInv, TypeOK
    <3> QED BY <3>1, CountNat
  <2> QED BY <2>2, <2>3, <2>4, <1>2 DEF RepliesMatchRequests
<1>11. CASE UNCHANGED vars
  BY <1>11 DEF vars, winVars, RepliesMatchRequests
<1> QED BY <1>3, <1>4, <1>5, <1>6, <1>7, <1>8, <1>9, <1>10, <1>11 DEF Next, RecvBack, RecvFwd

--------------------------------------------------------------------------------
(* The properties. *)

\* Every CHANNEL_FAILURE that answers a winadj request finds the request it answers on
\* chanreqs, whatever the adjustments, replies and data in transit: the connection is
\* never ended for "no outstanding channel request".
THEOREM RepliesAnswerRequests == Spec => []RepliesMatchRequests
<1>1. Init => RepliesMatchRequests
  <2>1. ASSUME Init PROVE RepliesMatchRequests
    <3>1. fwd = <<>> /\ back = <<>> /\ chanreqs = <<>> /\ <<>> \in Seq(Entry)
      BY <2>1 DEF Init
    <3>2. Count(<<>>, "winadj") = 0 /\ Count(<<>>, "reply") = 0
      BY <3>1, CountType
    <3> QED BY <3>1, <3>2 DEF RepliesMatchRequests
  <2> QED BY <2>1
<1>2. IInv /\ RepliesMatchRequests /\ [Next]_vars => RepliesMatchRequests'
  BY RepliesKept
<1> QED BY <1>1, <1>2, Invariance, PTL DEF Spec

\* Every variable keeps its type: in particular the remote window the writing end keeps
\* (an unsigned in ssh2_channel) never goes below zero.
THEOREM TypesHold == Spec => []TypeOK
<1>1. IInv => TypeOK
  BY DEF IInv
<1> QED BY <1>1, Invariance, PTL

\* Window credit is neither lost nor invented, for every window size and setting.
THEOREM CreditHolds == Spec => []CreditConserved
<1>1. IInv => CreditConserved
  BY DEF IInv
<1> QED BY <1>1, Invariance, PTL

\* A channel of a shared connection never makes the CHANNEL_DATA handler stop the connection.
THEOREM ConnNeverThrottled == Spec => []NeverThrottlesConn
<1>1. IInv => NeverThrottlesConn
  BY DEF IInv
<1> QED BY <1>1, Invariance, PTL

\* The hysteresis of ssh2_set_window never closes the window on a reader that has room.
THEOREM WindowStaysWide == Spec => []WindowWideEnough
<1>1. IInv => WindowWideEnough
  BY DEF IInv
<1> QED BY <1>1, Invariance, PTL

\* Every step of connection2.c is a step of the byte stream or leaves it alone.
THEOREM ImplementsStream == Spec => StreamSpec
<1> DEFINE ended == pending_eof \/ sent_eof
<1>1. Init => Stream!Init
  BY DEF Init, Stream!Init
<1>2. ASSUME IInv, [Next]_vars
      PROVE  [Stream!Next]_<<written, rcvd, pending_eof \/ sent_eof, rcvd_eof>>
  <2>1. TypeOK /\ MaxBytes \in Nat /\ MaxPkt \in Nat
    BY <1>2, SizesAssumption DEF IInv
  <2>2. written \in Nat /\ sent \in Nat /\ rcvd \in Nat
    BY <2>1 DEF TypeOK
  <2>3. CASE WriteSome
    <3>1. PICK n \in Nat \ {0} : Write(n)
      BY <2>1, <2>3 DEF WriteSome
    <3>2. ~pending_eof /\ ~sent_eof /\ ~pending_eof' /\ ~sent_eof'
      <4>1. ~pending_eof /\ ~sent_eof
        BY <3>1 DEF Write
      <4>2. ~pending_eof' /\ ~sent_eof'
        BY <1>2, <3>1, WriteIInv
      <4> QED BY <4>1, <4>2
    <3>3. written' = written + n /\ rcvd' = rcvd /\ rcvd_eof' = rcvd_eof
      BY <3>1 DEF Write, TrySend, chanVars
    <3>4. Stream!Accept
      BY <2>1, <2>2, <3>2, <3>3 DEF Stream!Accept
    <3> QED BY <3>4 DEF Stream!Next
  <2>4. CASE WriteEof
    <3>1. ~ended /\ written' = written /\ rcvd' = rcvd /\ rcvd_eof' = rcvd_eof
      BY <2>4 DEF WriteEof, chanVars
    <3>2. pending_eof' = (sent < written) /\ sent_eof' = (sent = written)
      BY <2>4 DEF WriteEof, TryEof
    <3>3. sent < written \/ sent = written
      BY <1>2, <2>2 DEF IInv, Outgoing
    <3>4. (pending_eof' \/ sent_eof') = TRUE
      BY <3>2, <3>3
    <3>5. Stream!End
      BY <3>1, <3>4 DEF Stream!End
    <3> QED BY <3>5 DEF Stream!Next
  <2>5. CASE RecvAdjust
    <3>1. written' = written /\ (pending_eof' \/ sent_eof' <=> ended)
      BY <1>2, <2>5, RecvAdjustIInv
    <3>2. rcvd' = rcvd /\ rcvd_eof' = rcvd_eof
      BY <2>5 DEF RecvAdjust, chanVars
    <3> QED BY <3>1, <3>2
  <2>6. CASE RecvWinadj \/ RecvReply \/ DrainSome \/ UNCHANGED vars
    <3>1. UNCHANGED <<written, pending_eof, sent_eof, rcvd, rcvd_eof>>
      BY <2>6 DEF RecvWinadj, RecvReply, DrainSome, Drain, sndVars, chanVars, vars
    <3> QED BY <3>1
  <2>7. CASE RecvSome
    <3>1. PICK k \in Nat \ {0}, b \in Nat, v \in BOOLEAN : RecvData(k, b, v)
      BY <2>1, <2>7 DEF RecvSome
    <3>2. /\ AtHead(fwd, "data") /\ k <= Head(fwd).upto - rcvd /\ TakeBytes(k)
          /\ UNCHANGED <<sndVars, rcvd_eof>>
      BY <3>1 DEF RecvData
    <3>3. ~rcvd_eof /\ rcvd' = rcvd + k /\ rcvd' <= sent
      BY <1>2, <3>2, RecvDataFacts
    <3>4. sent <= written
      BY <1>2 DEF IInv, Outgoing
    <3>5. UNCHANGED <<written, pending_eof, sent_eof, rcvd_eof>>
      BY <3>2 DEF sndVars
    <3>6. rcvd + k \in Nat /\ rcvd < rcvd + k /\ rcvd + k <= written
      BY <2>2, <3>3, <3>4
    <3>7. Stream!Deliver
      BY <3>3, <3>5, <3>6 DEF Stream!Deliver
    <3> QED BY <3>7 DEF Stream!Next
  <2>8. CASE RecvEof
    <3>1. sent_eof /\ rcvd = written
      BY <1>2, <2>8, RecvEofIInv
    <3>2. rcvd_eof' = TRUE /\ UNCHANGED <<written, pending_eof, sent_eof, rcvd>>
      BY <2>8 DEF RecvEof, sndVars
    <3>3. CASE rcvd_eof
      <4>1. rcvd_eof' = rcvd_eof
        BY <3>2, <3>3, <2>1 DEF TypeOK
      <4> QED BY <4>1, <3>2
    <3>4. CASE ~rcvd_eof
      <4>1. Stream!SeeEnd
        BY <3>1, <3>2, <3>4 DEF Stream!SeeEnd
      <4> QED BY <4>1 DEF Stream!Next
    <3> QED BY <3>3, <3>4
  <2> QED BY <1>2, <2>3, <2>4, <2>5, <2>6, <2>7, <2>8 DEF Next, RecvBack, RecvFwd
<1>3. QED
  BY <1>1, <1>2, Invariance, PTL DEF Spec, StreamSpec, Stream!Spec
================================================================================
