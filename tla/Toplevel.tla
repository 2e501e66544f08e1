-------------------------------- MODULE Toplevel --------------------------------
(***************************************************************************)
(* The top level of a program: the queue of callbacks (callback.c), the    *)
(* timers (timing.c), and the GTK front end's event loop that drives them  *)
(* (unix/gtk-common.c).  Everything runs in one thread; what a handler, a  *)
(* callback or a timer function does while it runs is any sequence of      *)
(* Work steps: queueing a callback, setting a timer, freeing an object.    *)
(*                                                                         *)
(* The clock is modulo Wrap, as GETTICKCOUNT is modulo 2^32, and it may    *)
(* jump back, as the comment at the head of timing.c expects it to.        *)
(*                                                                         *)
(* An object's memory is used again, so an address does not say whose a    *)
(* timer is: each timer is marked with what became of who asked for it.    *)
(***************************************************************************)
EXTENDS Naturals, Integers, Sequences, FiniteSetsExt

CONSTANTS
    None,       \* no callback, no timeout
    Objects,    \* contexts: objects with an IdempotentCallback and a timer function
    Wrap,       \* the clock's modulus
    Slack,      \* how far back the clock may jump and not count as wrapped (10 ticks)
    MaxDelay,   \* bound of the model: the longest delay a timer is set for
    MaxLate,    \* bound of the model: how late the program is to see a timer due
    MaxRun,     \* bound of the model: how long run_timers takes
    MaxBack,    \* bound of the model: how far the clock jumps back, in all
    MaxWaiting  \* bound of the model: callbacks in the queue and timers in the tree

\* What timers are compared over fits in the range of the clock, from when one is set to when it runs,
\* and in half of it, from the present.
ASSUME ToplevelAssumption ==
    /\ Wrap \in Nat /\ Slack \in Nat /\ MaxDelay \in Nat /\ MaxLate \in Nat /\ MaxRun \in Nat
    /\ MaxBack \in Nat /\ MaxWaiting \in Nat /\ MaxDelay > 0
    /\ MaxDelay + MaxLate + Slack + MaxBack < Wrap
    /\ MaxLate < Wrap \div 2 /\ MaxDelay + MaxBack < Wrap \div 2

\* Readings of the clock; and what GTK holds for a timeout.
Ticks == 0 .. Wrap - 1
Timeouts == [at : Ticks, data : Ticks]
ASSUME NoneAssumption == None \notin Timeouts \cup Objects

VARIABLES
    alive,     \* the objects that exist
    queued,    \* queued[o]: ic.queued of o's IdempotentCallback
    head,      \* the list from cbhead to cbtail
    idle,      \* idle_fn_scheduled
    pc,        \* the handler the event loop is in
    running,   \* the object whose callback (cbcurr) or timer is being run
    clock,     \* GETTICKCOUNT()
    back,      \* history: how far it has jumped back
    now,       \* the static now of timing.c, 0 outside run_timers: nobody reads it there unset
    timers,    \* the tree of timers
    contexts,  \* timer_contexts
    asked,     \* history: the objects that have called schedule_timer since they exist
    timeout,   \* timer_id: GTK's timeout source, when it is due and its data
    then       \* the data of the timeout being handled

vars == <<alive, queued, head, idle, pc, running, clock, back, now, timers, contexts, asked, timeout, then>>
callbacks == <<queued, head>>
time == <<clock, back>>
timing == <<now, timers, contexts, asked, timeout>>

Callback(o, idem) == [ctx |-> o, idem |-> idem]
Callbacks == [ctx : Objects, idem : BOOLEAN]
\* A timer, its two times, and a history of who wants it: the object that lives at ctx, one freed
\* since, or one that lives and asked for it when it was a freed one's, and before any of its own.
Timer(o, due, set) == [ctx |-> o, due |-> due, set |-> set, by |-> "living"]
Timers == [ctx : Objects, due : Ticks, set : Ticks, by : {"living", "freed", "unheard"}]

Init ==
    /\ alive = Objects /\ queued = [o \in Objects |-> FALSE] /\ head = <<>> /\ idle = FALSE
    /\ pc = "loop" /\ running = None
    /\ clock = 0 /\ back = 0 /\ now = 0 /\ timers = {} /\ contexts = {} /\ asked = {}
    /\ timeout = None /\ then = 0

\* a - b as an unsigned and as a signed number of ticks.
Minus(a, b) == (a - b) % Wrap
Signed(a, b) == IF Minus(a, b) < Wrap \div 2 THEN Minus(a, b) ELSE Minus(a, b) - Wrap

Room == Len(head) + Cardinality(timers) < MaxWaiting

-----------------------------------------------------------------------------
(* callback.c                                                               *)

\* queue_toplevel_callback: the front end is told when the queue was empty and no callback runs.
InCallback == running # None /\ pc # "timers"
MustNotify_outside_handlers == head = <<>> /\ running = None
MustNotify == head = <<>> /\ ~InCallback
Enqueue(o, idem) ==
    /\ head' = Append(head, Callback(o, idem))
    /\ idle' = (idle \/ MustNotify)

Queue(o) ==
    /\ Room
    /\ Enqueue(o, FALSE)
    /\ UNCHANGED <<queued, timing, alive>>

QueueIdempotent(o) ==
    /\ Room
    /\ ~queued[o]
    /\ queued' = [queued EXCEPT ![o] = TRUE]
    /\ Enqueue(o, TRUE)
    /\ UNCHANGED <<timing, alive>>

\* delete_callbacks_for_context
DeleteCallbacks_first(o) ==
    LET mine == {i \in DOMAIN head : head[i].ctx = o}
    IN IF mine = {} THEN head
       ELSE LET k == CHOOSE i \in mine : \A j \in mine : i <= j
            IN SubSeq(head, 1, k - 1) \o SubSeq(head, k + 1, Len(head))
\* What is not of the context keeps its place: the k-th of it becomes the k-th of all.
Kept(o) == {i \in DOMAIN head : head[i].ctx # o}
Rank(S, i) == Cardinality({j \in S : j <= i})
Nth(S, k) == CHOOSE i \in S : Rank(S, i) = k
DeleteCallbacks(o) == [k \in 1 .. Cardinality(Kept(o)) |-> head[Nth(Kept(o), k)]]

Pending == InCallback \/ head # <<>>

-----------------------------------------------------------------------------
(* timing.c                                                                 *)

\* index234(timers, 0), as compare_timers orders them at the static now.
First(ts, at) ==
    CHOOSE t \in ts : \A u \in ts : Signed(t.due, at) <= Signed(u.due, at)

\* timer_change_notify, of the GTK front end.
Arm(due) ==
    LET ticks == Signed(due, clock)
    IN [at |-> (clock + (IF ticks <= 0 THEN 1 ELSE ticks)) % Wrap, data |-> due]

\* schedule_timer
Twin(o, when) == {t \in timers : t.ctx = o /\ t.due = when}
Shared(o, t) == [t EXCEPT !.by = IF o \in contexts THEN "living" ELSE "unheard"]
Schedule(o) ==
    /\ \E ticks \in 0 .. MaxDelay :
        LET when == IF ticks = 0 THEN (clock + 1) % Wrap ELSE (clock + ticks) % Wrap
            twin == Twin(o, when)
            t == Timer(o, when, clock)
        IN /\ now' = IF pc = "timers" THEN clock ELSE 0
           /\ \/ /\ twin # {}
                 /\ timers' = (timers \ twin) \cup {Shared(o, u) : u \in twin}
                 /\ UNCHANGED <<contexts, timeout>>
              \/ /\ twin = {} /\ Room
                 /\ timers' = timers \cup {t}
                 /\ contexts' = contexts \cup {o}
                 /\ timeout' = IF First(timers', clock) = t THEN Arm(when) ELSE timeout
    /\ asked' = asked \cup {o}
    /\ UNCHANGED <<callbacks, idle, alive>>

\* Running t: its context is known, and the clock is past its time or before the one it was set at.
Due(t) == Minus(now, t.set - Slack) > Minus(t.due, t.set - Slack)

\* An object is freed with its callbacks and its timers, which stay in the tree; its memory is used
\* again for another one.
Orphaned(o, t) == IF t.ctx = o THEN [t EXCEPT !.by = "freed"] ELSE t
Free(o) ==
    /\ alive' = alive \ {o}
    /\ head' = DeleteCallbacks(o)
    /\ queued' = [queued EXCEPT ![o] = FALSE]
    /\ contexts' = contexts \ {o}
    /\ asked' = asked \ {o}
    /\ timers' = {Orphaned(o, t) : t \in timers}
    /\ UNCHANGED <<idle, now, timeout>>

New(o) ==
    /\ o \notin alive
    /\ alive' = alive \cup {o}
    /\ UNCHANGED <<callbacks, idle, timing>>

-----------------------------------------------------------------------------
(* unix/gtk-common.c, and what runs under it                                *)

\* External: the code the top level calls, which works on objects that exist.
Work ==
    /\ pc = "fd" \/ running # None
    /\ \E o \in Objects :
        \/ o \in alive /\ (Queue(o) \/ QueueIdempotent(o) \/ Schedule(o) \/ Free(o))
        \/ New(o)
    /\ UNCHANGED <<pc, running, time, then>>

\* run_toplevel_callbacks: the head of the queue becomes cbcurr.
StartCallback_still_queued ==
    /\ running' = Head(head).ctx
    /\ head' = Tail(head)
    /\ UNCHANGED queued
StartCallback ==
    /\ running' = Head(head).ctx
    /\ head' = Tail(head)
    /\ queued' = IF Head(head).idem THEN [queued EXCEPT ![Head(head).ctx] = FALSE] ELSE queued

\* fd_input_func: select_result, then one callback.
FdInput ==
    /\ pc = "loop" /\ pc' = "fd"
    /\ UNCHANGED <<alive, callbacks, idle, running, time, then, timing>>
FdRun ==
    /\ pc = "fd" /\ running = None
    /\ IF head = <<>> THEN pc' = "loop" /\ UNCHANGED <<callbacks, running>>
       ELSE pc' = "fd callback" /\ StartCallback
    /\ UNCHANGED <<alive, idle, time, then, timing>>

\* idle_toplevel_callback_func: one callback, and the idle function stays while there are more.
IdleFunc ==
    /\ pc = "loop" /\ idle
    /\ IF head = <<>> THEN idle' = FALSE /\ UNCHANGED <<callbacks, running, pc>>
       ELSE pc' = "idle" /\ StartCallback /\ UNCHANGED idle
    /\ UNCHANGED <<alive, time, then, timing>>

EndCallback ==
    /\ InCallback
    /\ running' = None /\ pc' = "loop"
    /\ idle' = (idle /\ (pc = "idle" => head # <<>>))
    /\ UNCHANGED <<alive, callbacks, time, then, timing>>

\* timer_trigger: GTK's timeout is due; run_timers reads the clock once, then takes timer by timer.
TimeoutDue == pc = "loop" /\ timeout # None /\ (timeout # None => Signed(clock, timeout.at) >= 0)
TimerTrigger ==
    /\ TimeoutDue
    /\ pc' = "timers" /\ then' = timeout.data
    /\ timeout' = None /\ now' = clock
    /\ UNCHANGED <<alive, callbacks, idle, running, time, timers, contexts, asked>>

TakingTimers == pc = "timers" /\ running = None
Earliest == First(timers, now)

\* The first timer's context has expired: the timer is dropped.
DropTimer ==
    /\ TakingTimers /\ timers # {} /\ Earliest.ctx \notin contexts
    /\ timers' = timers \ {Earliest}
    /\ UNCHANGED <<alive, callbacks, idle, pc, running, time, now, contexts, asked, timeout, then>>

RunTimer ==
    /\ TakingTimers /\ timers # {} /\ Earliest.ctx \in contexts /\ Due(Earliest)
    /\ timers' = timers \ {Earliest}
    /\ running' = Earliest.ctx
    /\ UNCHANGED <<alive, callbacks, idle, pc, time, now, contexts, asked, timeout, then>>

EndTimer ==
    /\ pc = "timers" /\ running # None
    /\ running' = None
    /\ UNCHANGED <<alive, callbacks, idle, pc, time, then, timing>>

\* No timer is due: the timeout is set for the first, unless schedule_timer has set one already.
Rearm == timers # {} /\ timeout = None
TimersDone ==
    /\ TakingTimers
    /\ timers # {} => Earliest.ctx \in contexts /\ ~Due(Earliest)
    /\ pc' = "loop" /\ then' = 0 /\ now' = 0
    /\ timeout' = IF ~Rearm THEN timeout
                  ELSE LET next == Earliest.due
                           ticks == IF Minus(clock, then) > Minus(next, then) THEN 0 ELSE Minus(next, clock)
                       IN [at |-> (clock + ticks) % Wrap, data |-> next]
    /\ UNCHANGED <<alive, callbacks, idle, running, time, timers, contexts, asked>>

\* External: time passes, whatever the program is at; the program is never later than MaxLate,
\* and run_timers takes no more than MaxRun.
MayTick ==
    /\ \A t \in timers : Signed(clock, t.due) < MaxLate
    /\ timeout # None => Signed(clock, timeout.at) < MaxLate
    /\ pc = "timers" => Signed(clock, now) < MaxRun
Tick ==
    /\ MayTick
    /\ clock' = (clock + 1) % Wrap
    /\ UNCHANGED <<alive, callbacks, idle, pc, running, back, timing, then>>

\* External: the clock jumps back, where getticks.c finds no monotonic one and asks gettimeofday.
\* GTK counts its timeouts by a clock of its own.
Jump ==
    /\ \E k \in 1 .. MaxBack - back :
        /\ clock' = (clock - k) % Wrap
        /\ back' = back + k
        /\ timeout' = IF timeout = None THEN None ELSE [timeout EXCEPT !.at = (@ - k) % Wrap]
    /\ UNCHANGED <<alive, callbacks, idle, pc, running, now, timers, contexts, asked, then>>

Next ==
    \/ Work \/ FdInput \/ FdRun \/ IdleFunc \/ EndCallback
    \/ TimerTrigger \/ DropTimer \/ RunTimer \/ EndTimer \/ TimersDone \/ Tick \/ Jump

Spec == Init /\ [][Next]_vars

\* Time passes; what the event loop calls returns to it; GTK runs a timeout that is due at its next
\* round.  The idle function, of lower priority, it runs when nothing else is ready: input alone may
\* keep it out for ever, but then the handler of input takes the callbacks.
FairSpec ==
    /\ Spec
    /\ []<>(pc = "loop")
    /\ []<>~MayTick \/ []<><<Tick>>_vars
    /\ <>[]~TimeoutDue \/ []<><<TimerTrigger>>_vars
    /\ <>[]~(pc = "loop" /\ idle) \/ []<><<IdleFunc \/ FdRun>>_vars

-----------------------------------------------------------------------------
(* Types, and the bookkeeping of IdempotentCallbacks: one is marked queued  *)
(* exactly when an entry for it is in the queue, and there is one at most.  *)
Entries(o) == {i \in DOMAIN head : head[i] = Callback(o, TRUE)}
TypeOK ==
    /\ alive \subseteq Objects /\ contexts \subseteq Objects /\ asked \subseteq Objects
    /\ head \in Seq(Callbacks)
    /\ queued \in [Objects -> BOOLEAN]
    /\ \A o \in Objects : queued[o] <=> Entries(o) # {}
    /\ \A o \in Objects : \A i, j \in Entries(o) : i = j
    /\ idle \in BOOLEAN /\ pc \in {"loop", "fd", "fd callback", "idle", "timers"}
    /\ running \in {None} \cup Objects
    /\ {clock, now, then} \subseteq Ticks /\ back \in 0 .. MaxBack
    /\ timers \subseteq Timers
    /\ timeout \in {None} \cup Timeouts

(* What is run is something of an object that still exists: no callback     *)
(* outlives its object, however many are queued when it is freed, and no    *)
(* timer of a freed object is run, with one exception.  It is still in the  *)
(* tree, its context is an address, and an object that is made there and    *)
(* sets any timer of its own brings it back (timing.c:136, 181).  And a     *)
(* timer is run after its time, never before, wherever the clock's wrap     *)
(* comes, unless the clock has jumped to before the time it was set at.     *)
StartsTimer == pc = "timers" /\ running = None /\ running' # None
RunsForTheLiving ==
    [][/\ \A i \in DOMAIN head' : head'[i].ctx \in alive'
       /\ running = None /\ running' # None => running' \in alive
       /\ StartsTimer => \A t \in timers \ timers' :
            /\ t.by = "freed" => t.ctx \in asked
            /\ Signed(now, t.due) > 0 \/ Signed(now, t.set) < -Slack]_vars

(* GTK's timeout is never later than the first timer of all, though it is   *)
(* set anew only by a timer that comes before every other and when          *)
(* run_timers is done.                                                      *)
InTime ==
    pc # "timers" => \A t \in timers :
        /\ timeout # None
        /\ Signed(timeout.at, clock) <= 0 \/ Signed(timeout.at, clock) <= Signed(t.due, clock)

(* A timer stays in the tree until it is run or its object is freed, with   *)
(* one exception: one for the tick of a freed object's timer, asked for by  *)
(* an object at that address before any other, is taken for the freed one's *)
(* and gets no context (timing.c:133-137), so it may be dropped.            *)
TimersKept ==
    [][\A t \in timers : t.by = "living" =>
        t \in timers' \/ (StartsTimer /\ running' = t.ctx) \/ t.ctx \notin alive']_vars

(* Nothing is forgotten: a callback in the queue is run or deleted with its *)
(* object, though the front end is told of it only when the queue was       *)
(* empty; the same with a timer, which is kept until then (TimersKept), and *)
(* for which the front end wakes up in time.                                *)
NothingForgotten ==
    /\ []InTime
    /\ TimersKept
    /\ \A o \in Objects :
        /\ (\E i \in DOMAIN head : head[i].ctx = o) ~> ((InCallback /\ running = o) \/ o \notin alive)
        /\ (\E t \in timers : t.ctx = o /\ t.by = "living") ~> ((pc = "timers" /\ running = o) \/ o \notin alive)
=============================================================================
