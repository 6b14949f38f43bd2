---------------------------- MODULE SandboxPool ----------------------------
(***************************************************************************)
(* acas_toolkit.sandbox_pool.SandboxPool: the pool that hands out sandbox  *)
(* ids and keeps a few pre-created ("warm") ones in a queue.               *)
(*                                                                         *)
(* Threads.  One OWNER runs open() and close() (the `with` block).  Any    *)
(* number of CALLERS run acquire(), release() and wait_warm().  The pool's *)
(* own daemon thread, the WARMER, keeps the queue full.  close() waits for *)
(* the warmer at most five seconds, so a warmer may survive it as a        *)
(* straggler while a later open() starts another: warmers are slots.       *)
(*                                                                         *)
(* A call to the sandbox service is a step of its own, between the code    *)
(* before it and the code after it, so every other thread may run while it *)
(* is under way.  It returns, or it raises with or without having had its  *)
(* effect (a lost answer).                                                 *)
(***************************************************************************)
EXTENDS Naturals, Sequences, FiniteSets, Functions

CONSTANTS
    Callers,            \* threads that call acquire, release, wait_warm
    Warmers,            \* slots for warmer threads
    Sandboxes,          \* sandbox ids; their number is the service's quota
    WarmSize,           \* SandboxPoolConfig.warm_size
    WaitTargets,        \* the n callers pass to wait_warm
    MaxOpens,           \* bound on the number of open() calls
    CreateOutlivesJoin, \* may a create outlast join(timeout=5.0) in close()?
    NoSandbox, NoThread

ASSUME ThreadsAssumption ==
    /\ Callers \cap Warmers = {}
    /\ NoThread \notin Warmers
ASSUME SandboxAssumption == NoSandbox \notin Sandboxes
ASSUME SizeAssumption == WarmSize \in Nat /\ MaxOpens \in Nat
ASSUME TargetAssumption == WaitTargets \subseteq Nat \ {0}
ASSUME JoinAssumption == CreateOutlivesJoin \in BOOLEAN

VARIABLES
    alive,      \* service: the sandboxes that exist
    orphans,    \* ghost: alive, but the call that made or deleted them raised
    late,       \* ghost: recorded after the sweep of close() was fixed
    clients,    \* _clients is not None
    active,     \* _active
    warm,       \* _warm, the FIFO queue of idle sandbox ids
    stop,       \* _warm_stop is set
    refill,     \* _warm_refill is set
    warmThread, \* _warm_thread
    lock,       \* holder of _warm_lock
    pc,         \* program counter of every caller and warmer
    sbx,        \* the local variable sbx / sbx_id of every thread
    held,       \* ghost: the ids acquire() returned to a caller, unreleased
    want,       \* wait_warm's target
    opc,        \* program counter of the owner
    todo,       \* close(): list(self._active) not yet deleted
    opens       \* number of open() calls so far

service == <<alive, orphans>>
events == <<stop, refill>>
threads == <<pc, sbx>>
owner == <<clients, warmThread, opc, todo, opens>>
vars == <<alive, orphans, late, clients, active, warm, stop, refill,
          warmThread, lock, pc, sbx, held, want, opc, todo, opens>>

Threads == Callers \cup Warmers

CallerPC == {"idle", "signal", "create", "record", "delete", "deleted",
             "raised", "wait", "waited"}
WarmerPC == {"off", "loop", "wait", "clear", "lock", "create", "created",
             "put"}
OwnerPC == {"out", "join", "drain", "list", "sweep"}

-----------------------------------------------------------------------------
Init ==
    /\ alive = {} /\ orphans = {} /\ late = {}
    /\ clients = FALSE
    /\ active = {}
    /\ warm = <<>>
    /\ stop = FALSE /\ refill = FALSE
    /\ warmThread = NoThread /\ lock = NoThread
    /\ pc = [t \in Threads |-> IF t \in Callers THEN "idle" ELSE "off"]
    /\ sbx = [t \in Threads |-> NoSandbox]
    /\ held = [c \in Callers |-> {}]
    /\ want = [c \in Callers |-> 0]
    /\ opc = "out"
    /\ todo = {}
    /\ opens = 0

-----------------------------------------------------------------------------
(* The service.                                                            *)

\* The service never issues an id twice.  Ids nothing refers to any more are
\* reissued here, which no one can tell from a fresh id.
Referenced == alive \cup active \cup Range(warm) \cup todo
                \cup Range(sbx) \cup UNION Range(held)
Free == Sandboxes \ Referenced

\* create_sandbox returns the id s.
Create(s) ==
    /\ s \in Free
    /\ alive' = alive \cup {s}
    /\ UNCHANGED orphans

\* create_sandbox raises, before or after the sandbox came to be.
CreateRaises ==
    \/ UNCHANGED service
    \/ \E s \in Free : alive' = alive \cup {s} /\ orphans' = orphans \cup {s}

\* delete_sandbox(s) returns.
Delete(s) ==
    /\ alive' = alive \ {s}
    /\ orphans' = orphans \ {s}
    /\ late' = late \ {s}

\* delete_sandbox(s) raises, before or after the sandbox went away.
DeleteRaises(s) ==
    \/ Delete(s)
    \/ orphans' = orphans \cup ({s} \cap alive) /\ UNCHANGED <<alive, late>>

\* Thread t moves to label l, with its local id being s.
Goto(t, l, s) ==
    /\ pc' = [pc EXCEPT ![t] = l]
    /\ sbx' = [sbx EXCEPT ![t] = s]

-----------------------------------------------------------------------------
(* The owner: open() and close().                                          *)

\* _start_warmer: nothing to do while a warmer is on record.
StartWarmer ==
    \/ warmThread # NoThread /\ UNCHANGED <<events, warmThread, pc>>
    \/ /\ warmThread = NoThread
       /\ stop' = FALSE /\ refill' = TRUE
       /\ \E w \in Warmers :
             /\ pc[w] = "off"
             /\ warmThread' = w
             /\ pc' = [pc EXCEPT ![w] = "loop"]

\* The end of open(): build the clients, start the warmer of a warm pool.
Open ==
    /\ opc = "out" /\ opens < MaxOpens
    /\ opens' = opens + 1
    /\ clients' = TRUE
    /\ IF WarmSize > 0 THEN StartWarmer ELSE UNCHANGED <<events, warmThread, pc>>
    /\ UNCHANGED <<service, late, active, warm, lock, sbx, held, want, opc,
                   todo>>

\* Mutant: the stop event is not set.
CloseBeginNoStop ==
    /\ opc = "out" /\ clients
    /\ late' = {}
    /\ refill' = TRUE /\ UNCHANGED stop
    /\ opc' = IF warmThread = NoThread THEN "drain" ELSE "join"
    /\ UNCHANGED <<service, clients, active, warm, warmThread, lock, threads,
                   held, want, todo, opens>>

\* close(), up to the join: `_stop_warmer` tells the warmer to stop.
CloseBegin ==
    /\ opc = "out" /\ clients
    /\ late' = {}
    /\ \/ /\ warmThread = NoThread
          /\ opc' = "drain"
          /\ UNCHANGED events
       \/ /\ warmThread # NoThread
          /\ stop' = TRUE /\ refill' = TRUE
          /\ opc' = "join"
    /\ UNCHANGED <<service, clients, active, warm, warmThread, lock, threads,
                   held, want, todo, opens>>

\* Mutant: close() does not join the warmer.
CloseNoJoin ==
    /\ opc = "join"
    /\ warmThread' = NoThread
    /\ opc' = "drain"
    /\ UNCHANGED <<service, late, clients, active, warm, events, lock,
                   threads, held, want, todo, opens>>

\* join(timeout=5.0) returns: the warmer has ended, or it did not in time.
CloseJoin ==
    /\ opc = "join"
    /\ pc[warmThread] = "off" \/ CreateOutlivesJoin
    /\ warmThread' = NoThread
    /\ opc' = "drain"
    /\ UNCHANGED <<service, late, clients, active, warm, events, lock,
                   threads, held, want, todo, opens>>

\* Mutant: close() leaves the queue as it is (its ids are in _active anyway).
CloseNoDrain ==
    /\ opc = "drain"
    /\ opc' = "list"
    /\ UNCHANGED <<service, late, clients, active, warm, events, warmThread,
                   lock, threads, held, want, todo, opens>>

\* One round of the loop that drains the warm queue into _active.
CloseDrain ==
    /\ opc = "drain"
    /\ \/ /\ warm # <<>>
          /\ active' = active \cup {Head(warm)}
          /\ warm' = Tail(warm)
          /\ UNCHANGED opc
       \/ /\ warm = <<>>
          /\ opc' = "list"
          /\ UNCHANGED <<active, warm>>
    /\ UNCHANGED <<service, late, clients, events, warmThread, lock, threads,
                   held, want, todo, opens>>

\* `list(self._active)`: what the sweep will delete is fixed here.
CloseList ==
    /\ opc = "list"
    /\ todo' = active
    /\ opc' = "sweep"
    /\ UNCHANGED <<service, late, clients, active, warm, events, warmThread,
                   lock, threads, held, want, opens>>

\* Mutant: after a delete that raised, close() lists and sweeps once more.
CloseDeleteRetry(s) ==
    /\ opc = "sweep" /\ s \in todo
    /\ \/ /\ Delete(s)
          /\ active' = active \ {s} /\ todo' = todo \ {s}
          /\ UNCHANGED opc
       \/ /\ DeleteRaises(s)
          /\ opc' = "list"
          /\ UNCHANGED <<active, todo>>
    /\ UNCHANGED <<clients, warm, events, warmThread, lock, threads, held,
                   want, opens>>

\* One round of the sweep; a delete that raises is logged and passed over.
CloseDelete(s) ==
    /\ opc = "sweep" /\ s \in todo
    /\ Delete(s) \/ DeleteRaises(s)
    /\ active' = active \ {s}
    /\ todo' = todo \ {s}
    /\ UNCHANGED <<clients, warm, events, warmThread, lock, threads, held,
                   want, opc, opens>>

\* The end of close(): the clients go.
CloseEnd ==
    /\ opc = "sweep" /\ todo = {}
    /\ clients' = FALSE
    /\ opc' = "out"
    /\ UNCHANGED <<service, late, active, warm, events, warmThread, lock,
                   threads, held, want, todo, opens>>

Owner == \/ Open \/ CloseBegin \/ CloseJoin \/ CloseDrain \/ CloseList
         \/ (\E s \in Sandboxes : CloseDelete(s)) \/ CloseEnd

-----------------------------------------------------------------------------
(* Callers: acquire(), release() and wait_warm().                          *)

\* Mutant: acquire() peeks at the queue.
AcquireWarmPeek(c) ==
    /\ pc[c] = "idle"
    /\ WarmSize > 0 /\ warm # <<>>
    /\ Goto(c, "signal", Head(warm))
    /\ UNCHANGED <<service, late, owner, active, warm, events, lock, held,
                   want>>

\* acquire() finds a warm sandbox of the disk it wants.
AcquireWarm(c) ==
    /\ pc[c] = "idle"
    /\ WarmSize > 0 /\ warm # <<>>
    /\ warm' = Tail(warm)
    /\ Goto(c, "signal", Head(warm))
    /\ UNCHANGED <<service, late, owner, active, events, lock, held, want>>

\* Mutant: the refill event is not set.
AcquireNoSignal(c) ==
    /\ pc[c] = "signal"
    /\ held' = [held EXCEPT ![c] = @ \cup {sbx[c]}]
    /\ Goto(c, "idle", NoSandbox)
    /\ UNCHANGED <<service, late, owner, active, warm, events, lock, want>>

\* It asks the warmer for another one and returns the id.
AcquireSignal(c) ==
    /\ pc[c] = "signal"
    /\ refill' = TRUE
    /\ held' = [held EXCEPT ![c] = @ \cup {sbx[c]}]
    /\ Goto(c, "idle", NoSandbox)
    /\ UNCHANGED <<service, late, owner, active, warm, stop, lock, want>>

\* acquire() creates: the queue is empty, or the request has another disk or
\* extra arguments, which no warm sandbox fits.  Without clients it raises.
AcquireCold(c) ==
    /\ pc[c] = "idle" /\ clients
    /\ Goto(c, "create", NoSandbox)
    /\ UNCHANGED <<service, late, owner, active, warm, events, lock, held,
                   want>>

\* Mutant: the exception of the create is swallowed.
AcquireSwallow(c) ==
    /\ pc[c] = "create"
    /\ \/ \E s \in Sandboxes : Create(s) /\ Goto(c, "record", s)
       \/ CreateRaises /\ Goto(c, "record", NoSandbox)
    /\ UNCHANGED <<late, owner, active, warm, events, lock, held, want>>

\* The create returns an id, or its exception reaches acquire()'s caller.
AcquireCreate(c) ==
    /\ pc[c] = "create"
    /\ \/ \E s \in Sandboxes : Create(s) /\ Goto(c, "record", s)
       \/ CreateRaises /\ Goto(c, "idle", NoSandbox)
    /\ UNCHANGED <<late, owner, active, warm, events, lock, held, want>>

\* `self._active.add(sbx.id)`, and acquire() returns the id.
AcquireRecord(c) ==
    /\ pc[c] = "record"
    /\ active' = active \cup {sbx[c]}
    /\ late' = IF opc = "sweep" \/ ~clients THEN late \cup {sbx[c]} ELSE late
    /\ held' = [held EXCEPT ![c] = @ \cup {sbx[c]}]
    /\ Goto(c, "idle", NoSandbox)
    /\ UNCHANGED <<service, owner, warm, events, lock, want>>

\* release() of an id this caller acquired.
ReleaseBegin(c) ==
    /\ pc[c] = "idle"
    /\ \E s \in held[c] :
          /\ held' = [held EXCEPT ![c] = @ \ {s}]
          /\ Goto(c, "delete", s)
    /\ UNCHANGED <<service, late, owner, active, warm, events, lock, want>>

\* The delete call returns or raises; a closed pool raises without calling.
ReleaseDelete(c) ==
    /\ pc[c] = "delete"
    /\ \/ clients /\ Delete(sbx[c]) /\ Goto(c, "deleted", sbx[c])
       \/ clients /\ DeleteRaises(sbx[c]) /\ Goto(c, "raised", sbx[c])
       \/ /\ ~clients
          /\ orphans' = orphans \cup ({sbx[c]} \cap alive)
          /\ Goto(c, "raised", sbx[c])
          /\ UNCHANGED <<alive, late>>
    /\ UNCHANGED <<owner, active, warm, events, lock, held, want>>

\* Mutant: a sandbox whose delete raised goes back into the queue.
ReleaseRecycles(c) ==
    /\ pc[c] \in {"deleted", "raised"}
    /\ IF pc[c] = "raised"
       THEN warm' = Append(warm, sbx[c]) /\ UNCHANGED active
       ELSE active' = active \ {sbx[c]} /\ UNCHANGED warm
    /\ refill' = (refill \/ pc[c] = "deleted")
    /\ Goto(c, "idle", NoSandbox)
    /\ UNCHANGED <<service, late, owner, stop, lock, held, want>>

\* `finally: self._active.discard`; only a delete that returned signals.
ReleaseEnd(c) ==
    /\ pc[c] \in {"deleted", "raised"}
    /\ active' = active \ {sbx[c]}
    /\ refill' = (refill \/ pc[c] = "deleted")
    /\ Goto(c, "idle", NoSandbox)
    /\ UNCHANGED <<service, late, owner, warm, stop, lock, held, want>>

\* wait_warm(n): returns at once when the pool has no warmer.
WaitBegin(c) ==
    /\ pc[c] = "idle" /\ warmThread # NoThread
    /\ \E n \in WaitTargets : want' = [want EXCEPT ![c] = n]
    /\ Goto(c, "wait", NoSandbox)
    /\ UNCHANGED <<service, late, owner, active, warm, events, lock, held>>

\* The loop's test of the queue size succeeds.
WaitReady(c) ==
    /\ pc[c] = "wait" /\ Len(warm) >= want[c]
    /\ Goto(c, "waited", NoSandbox)
    /\ UNCHANGED <<service, late, owner, active, warm, events, lock, held,
                   want>>

\* wait_warm reads the size again and returns it; or the deadline passes.
WaitEnd(c) ==
    /\ pc[c] = "waited" \/ (pc[c] = "wait" /\ Len(warm) < want[c])
    /\ want' = [want EXCEPT ![c] = 0]
    /\ Goto(c, "idle", NoSandbox)
    /\ UNCHANGED <<service, late, owner, active, warm, events, lock, held>>

Caller(c) ==
    \/ AcquireWarm(c) \/ AcquireSignal(c) \/ AcquireCold(c)
    \/ AcquireCreate(c) \/ AcquireRecord(c)
    \/ ReleaseBegin(c) \/ ReleaseDelete(c) \/ ReleaseEnd(c)
    \/ WaitBegin(c) \/ WaitReady(c) \/ WaitEnd(c)

-----------------------------------------------------------------------------
(* The warmer: _warmer_loop.                                               *)

\* Mutant: the warmer creates while the queue is not over warm_size.
WarmerLoopOver(w) ==
    /\ pc[w] = "loop"
    /\ Goto(w, IF stop THEN "off"
               ELSE IF Len(warm) > WarmSize THEN "wait" ELSE "lock",
            NoSandbox)
    /\ UNCHANGED <<service, late, owner, active, warm, events, lock, held,
                   want>>

\* Mutant: the loop does not test the stop event.
WarmerLoopForever(w) ==
    /\ pc[w] = "loop"
    /\ Goto(w, IF Len(warm) >= WarmSize THEN "wait" ELSE "lock", NoSandbox)
    /\ UNCHANGED <<service, late, owner, active, warm, events, lock, held,
                   want>>

\* The test of the loop and of the queue size.
WarmerLoop(w) ==
    /\ pc[w] = "loop"
    /\ Goto(w, IF stop THEN "off"
               ELSE IF Len(warm) >= WarmSize THEN "wait" ELSE "lock",
            NoSandbox)
    /\ UNCHANGED <<service, late, owner, active, warm, events, lock, held,
                   want>>

\* `_warm_refill.wait(timeout=1.0)` returns because the event is set...
WarmerWake(w) ==
    /\ pc[w] = "wait" /\ refill
    /\ Goto(w, "clear", NoSandbox)
    /\ UNCHANGED <<service, late, owner, active, warm, events, lock, held,
                   want>>

\* ...or because the second has passed.
WarmerTimeout(w) ==
    /\ pc[w] = "wait"
    /\ Goto(w, "clear", NoSandbox)
    /\ UNCHANGED <<service, late, owner, active, warm, events, lock, held,
                   want>>

WarmerClear(w) ==
    /\ pc[w] = "clear"
    /\ refill' = FALSE
    /\ Goto(w, "loop", NoSandbox)
    /\ UNCHANGED <<service, late, owner, active, warm, stop, lock, held, want>>

\* Take _warm_lock and test the stop event again.  That `self._clients` is not
\* None once the test is passed, which the code does not test, is
\* WarmerHasClients below.  The test (l.500) and the dereference (l.502) are one
\* step: a warmer that sleeps between them until its join has given up and
\* close() has dropped the clients gets an exception, which the loop catches
\* like that of a create; that behaviour is WarmerCreateRaises without effect.
WarmerLock(w) ==
    /\ pc[w] = "lock" /\ lock = NoThread
    /\ \/ stop /\ Goto(w, "off", NoSandbox) /\ UNCHANGED lock
       \/ ~stop /\ Goto(w, "create", NoSandbox) /\ lock' = w
    /\ UNCHANGED <<service, late, owner, active, warm, events, held, want>>

\* The create returns and the lock is released...
WarmerCreate(w) ==
    /\ pc[w] = "create"
    /\ \E s \in Sandboxes : Create(s) /\ Goto(w, "created", s)
    /\ lock' = NoThread
    /\ UNCHANGED <<late, owner, active, warm, events, held, want>>

\* Mutant: the exception ends the warmer's thread.
WarmerDies(w) ==
    /\ pc[w] = "create"
    /\ CreateRaises
    /\ Goto(w, "off", NoSandbox)
    /\ lock' = NoThread
    /\ UNCHANGED <<late, owner, active, warm, events, held, want>>

\* ...or it raises: the warmer ends if told to, else backs off and goes round.
WarmerCreateRaises(w) ==
    /\ pc[w] = "create"
    /\ CreateRaises
    /\ Goto(w, IF stop THEN "off" ELSE "loop", NoSandbox)
    /\ lock' = NoThread
    /\ UNCHANGED <<late, owner, active, warm, events, held, want>>

\* Mutant: the warmer does not tell _active.
WarmerNoRecord(w) ==
    /\ pc[w] = "created"
    /\ Goto(w, "put", sbx[w])
    /\ UNCHANGED <<service, late, owner, active, warm, events, lock, held,
                   want>>

\* `self._active.add(sbx.id)`
WarmerRecord(w) ==
    /\ pc[w] = "created"
    /\ active' = active \cup {sbx[w]}
    /\ Goto(w, "put", sbx[w])
    /\ UNCHANGED <<service, late, owner, warm, events, lock, held, want>>

\* `self._warm.put(sbx.id)`
WarmerPut(w) ==
    /\ pc[w] = "put"
    /\ warm' = Append(warm, sbx[w])
    /\ Goto(w, "loop", NoSandbox)
    /\ UNCHANGED <<service, late, owner, active, events, lock, held, want>>

Warmer(w) ==
    \/ WarmerLoop(w) \/ WarmerWake(w) \/ WarmerTimeout(w) \/ WarmerClear(w)
    \/ WarmerLock(w) \/ WarmerCreate(w) \/ WarmerCreateRaises(w)
    \/ WarmerRecord(w) \/ WarmerPut(w)

-----------------------------------------------------------------------------
\* The bound on open() is reached, the pool is closed and no call is under
\* way: the one state the program may stop in.
Done ==
    /\ opens = MaxOpens /\ ~clients /\ opc = "out"
    /\ \A c \in Callers : pc[c] = "idle"
    /\ \A w \in Warmers : pc[w] = "off"
    /\ UNCHANGED vars

Next == \/ Owner
        \/ \E c \in Callers : Caller(c)
        \/ \E w \in Warmers : Warmer(w)
        \/ Done

Spec == Init /\ [][Next]_vars

(***************************************************************************)
(* Fairness.  Every thread that can run keeps running: WF.  Each service   *)
(* call comes back, with an answer or with an exception.  SF on a create   *)
(* that succeeds: the service does not fail the same request for ever.     *)
(***************************************************************************)
Fairness ==
    /\ WF_vars(CloseJoin) /\ WF_vars(CloseDrain) /\ WF_vars(CloseList)
    /\ WF_vars(\E s \in Sandboxes : CloseDelete(s)) /\ WF_vars(CloseEnd)
    /\ \A w \in Warmers : WF_vars(Warmer(w)) /\ SF_vars(WarmerCreate(w))

FairSpec == Spec /\ Fairness

-----------------------------------------------------------------------------
(* Invariants.                                                             *)

\* The type of every variable.
TypeOK ==
    /\ {alive, orphans, late, active, todo} \subseteq SUBSET Sandboxes
    /\ clients \in BOOLEAN
    /\ warm \in Seq(Sandboxes)
    /\ stop \in BOOLEAN /\ refill \in BOOLEAN
    /\ warmThread \in Warmers \cup {NoThread}
    /\ lock \in Warmers \cup {NoThread}
    /\ pc \in [Threads -> CallerPC \cup WarmerPC]
    /\ \A c \in Callers : pc[c] \in CallerPC
    /\ \A w \in Warmers : pc[w] \in WarmerPC
    /\ sbx \in [Threads -> Sandboxes \cup {NoSandbox}]
    /\ held \in [Callers -> SUBSET Sandboxes]
    /\ want \in [Callers -> WaitTargets \cup {0}]
    /\ opc \in OwnerPC
    /\ opens \in 0..MaxOpens

\* A sandbox is in one place at a time: at one position of the warm queue, in
\* the hands of one thread, or leased to one caller.  No interleaving of
\* acquire, release, close and any number of warmers hands it out twice.
ExclusiveLease ==
    /\ \A i, j \in DOMAIN warm : warm[i] = warm[j] => i = j
    /\ \A t, u \in Threads : sbx[t] = sbx[u] /\ sbx[t] # NoSandbox => t = u
    /\ \A c, d \in Callers : c # d => held[c] \cap held[d] = {}
    /\ \A t \in Threads, c \in Callers : sbx[t] \notin held[c]
    /\ \A i \in DOMAIN warm :
          /\ \A t \in Threads : warm[i] # sbx[t]
          /\ \A c \in Callers : warm[i] \notin held[c]

\* A create that has returned, before `_active.add`.
Unrecorded == {sbx[t] : t \in {u \in Threads : pc[u] \in {"record", "created"}}}

\* No sandbox that bills is forgotten: _active knows it, or the line after its
\* create will record it, or the service call about it raised.
Accounted == alive \subseteq active \cup Unrecorded \cup orphans

Running(w) == pc[w] # "off"

\* The wake-up of the warmer is never lost: while every running warmer is in
\* (or about to enter) _warm_refill.wait(), either the event is set, or the
\* acquire that emptied a slot is about to set it, or there is nothing to do.
NoLostWakeup ==
    /\ \E w \in Warmers : Running(w)
    /\ \A w \in Warmers : Running(w) => pc[w] = "wait"
    /\ Len(warm) < WarmSize \/ stop
    => refill \/ \E c \in Callers : pc[c] = "signal"

\* A warmer that nobody told to stop works for an open pool: `self._clients` is
\* not None where a warmer passes its stop test under _warm_lock, straggler or not.
WarmerHasClients == (\E w \in Warmers : Running(w)) /\ ~stop => clients

\* Sandboxes in the queue or on the way to it.
Filling == {w \in Warmers : pc[w] \in {"lock", "create", "created", "put"}}

\* The queue overshoots warm_size by at most one sandbox per straggler: each
\* warmer tests the size before it creates, and only its own test.
WarmBound == Len(warm) + Cardinality(Filling) <= WarmSize + Cardinality(Warmers) - 1

\* close() leaves nothing behind that bills, but what a failed call hides and
\* what a caller's acquire, under way during close, brought in too late.
\* sandbox_pool.py:212 "Delete all sandboxes acquired through this pool."
InFlight == {sbx[c] : c \in {d \in Callers : pc[d] = "record"}}
ClosedClean == ~clients => alive \subseteq orphans \cup late \cup InFlight

\* What the warm queue holds exists, over close() and a later open() too.
WarmIsLive == Range(warm) \subseteq alive

-----------------------------------------------------------------------------
(* Steps and liveness.                                                     *)

\* close() returns, whatever the warmer and the service do.
CloseReturns == opc # "out" ~> opc = "out"

\* A warmer told to stop ends, unless a later open() revives it.
WarmerEnds == \A w \in Warmers : (stop /\ Running(w)) ~> (~stop \/ ~Running(w))

\* An open pool with an empty queue gets a warm sandbox again, unless it is
\* closed or the quota is used up.
Refilled ==
    (warmThread # NoThread /\ opc = "out" /\ warm = <<>>)
        ~> (warm # <<>> \/ opc # "out" \/ Free = {})

-----------------------------------------------------------------------------
(* The abstract pool this one implements.                                  *)

\* What a thread has in hand at one of the labels L.
InHand(T, L) == {sbx[t] : t \in {u \in T : pc[u] \in L}}

Idle == Range(warm) \cup InHand(Warmers, {"created", "put"})

\* Leased from the moment acquire() has taken or made it until release().
Leased == [c \in Callers |-> held[c] \cup InHand({c}, {"signal", "record"})]

Lease == INSTANCE SandboxLease WITH
            open <- clients /\ opc = "out", exists <- alive,
            idle <- Idle, leased <- Leased

\* The pool keeps the promises of SandboxLease, with any number of warmers: a
\* sandbox passes from the pool to one caller and back to nobody else, and only
\* its holder's release() or the pool's close() ever deletes it.
ImplementsLease == Lease!Spec
=============================================================================
