------------------------ MODULE SandboxPool_proofs ------------------------
(***************************************************************************)
(* Proofs about SandboxPool, for every set of callers, warmers and ids and *)
(* every warm_size.                                                        *)
(***************************************************************************)
EXTENDS SandboxPool, FiniteSetTheorems, TLAPS

CallerHolds == {"signal", "record", "delete", "deleted", "raised"}
WarmerHolds == {"created", "put"}

\* A thread that is about to use its local id has one.
HandlesTyped ==
    /\ \A c \in Callers : pc[c] \in CallerHolds => sbx[c] \in Sandboxes
    /\ \A w \in Warmers : pc[w] \in WarmerHolds => sbx[w] \in Sandboxes

Typed == TypeOK /\ HandlesTyped

-----------------------------------------------------------------------------
(* Type correctness.                                                       *)

\* The initial state is typed.
LEMMA TypedInit == Init => Typed
<1> SUFFICES ASSUME Init PROVE Typed
  OBVIOUS
<1>1. /\ pc \in [Threads -> CallerPC \cup WarmerPC]
      /\ \A c \in Callers : pc[c] = "idle"
      /\ \A w \in Warmers : pc[w] = "off"
  BY ThreadsAssumption DEF Init, Threads, CallerPC, WarmerPC
<1>2. TypeOK
  <2>1. warm \in Seq(Sandboxes)
    BY DEF Init
  <2>2. opens \in 0..MaxOpens
    BY SizeAssumption DEF Init
  <2>3. /\ sbx \in [Threads -> Sandboxes \cup {NoSandbox}]
        /\ held \in [Callers -> SUBSET Sandboxes]
        /\ want \in [Callers -> WaitTargets \cup {0}]
    BY DEF Init
  <2>4. QED BY <1>1, <2>1, <2>2, <2>3
        DEF Init, TypeOK, CallerPC, WarmerPC, OwnerPC
<1>3. HandlesTyped
  BY <1>1 DEF HandlesTyped, CallerHolds, WarmerHolds
<1>4. QED BY <1>2, <1>3 DEF Typed

\* A step of the owner keeps the types.
LEMMA TypedOwner == Typed /\ Owner => Typed'
<1> SUFFICES ASSUME Typed, Owner PROVE Typed'
  OBVIOUS
<1> USE ThreadsAssumption, SandboxAssumption, SizeAssumption
    DEF Typed, TypeOK, HandlesTyped, Threads, CallerHolds, WarmerHolds,
        CallerPC, WarmerPC, OwnerPC, service, events, threads
<1>1. CASE Open
  <2>1. CASE UNCHANGED <<events, warmThread, pc>>
    BY <1>1, <2>1 DEF Open, StartWarmer
  <2>2. ASSUME NEW w \in Warmers, warmThread' = w, pc[w] = "off",
               pc' = [pc EXCEPT ![w] = "loop"], stop' = FALSE, refill' = TRUE
        PROVE  Typed'
    <3>1. /\ pc' \in [Threads -> CallerPC \cup WarmerPC]
          /\ \A c \in Callers : pc'[c] = pc[c]
          /\ \A v \in Warmers : pc'[v] = IF v = w THEN "loop" ELSE pc[v]
      BY <2>2
    <3>2. TypeOK'
      <4>1. opens' \in 0..MaxOpens
        BY <1>1 DEF Open, StartWarmer
      <4>2. UNCHANGED <<alive, orphans, late, active, warm, lock, sbx, held,
                        want, opc, todo>> /\ clients' = TRUE
        BY <1>1 DEF Open, StartWarmer
      <4>3. QED BY <2>2, <3>1, <4>1, <4>2
    <3>3. HandlesTyped'
      BY <1>1, <2>2, <3>1 DEF Open, StartWarmer
    <3>4. QED BY <3>2, <3>3
  <2>3. QED BY <1>1, <2>1, <2>2 DEF Open, StartWarmer
<1>2. CASE CloseBegin BY <1>2 DEF CloseBegin
<1>3. CASE CloseJoin BY <1>3 DEF CloseJoin
<1>4. CASE CloseDrain BY <1>4 DEF CloseDrain
<1>5. CASE CloseList BY <1>5 DEF CloseList
<1>6. CASE \E s \in Sandboxes : CloseDelete(s)
  BY <1>6 DEF CloseDelete, Delete, DeleteRaises
<1>7. CASE CloseEnd BY <1>7 DEF CloseEnd
<1>8. QED BY <1>1, <1>2, <1>3, <1>4, <1>5, <1>6, <1>7 DEF Owner

\* A step of a caller keeps the types.
LEMMA TypedCaller == ASSUME NEW c \in Callers, Typed, Caller(c) PROVE Typed'
<1> USE ThreadsAssumption, SandboxAssumption, SizeAssumption
    DEF Typed, TypeOK, HandlesTyped, Threads, CallerHolds, WarmerHolds,
        CallerPC, WarmerPC, OwnerPC, service, owner, events, Goto
<1>1. CASE AcquireWarm(c)
  <2>1. Head(warm) \in Sandboxes /\ Tail(warm) \in Seq(Sandboxes)
    BY <1>1 DEF AcquireWarm
  <2>2. QED BY <1>1, <2>1 DEF AcquireWarm
<1>2. CASE AcquireSignal(c) BY <1>2 DEF AcquireSignal
<1>3. CASE AcquireCold(c) BY <1>3 DEF AcquireCold
<1>4. CASE AcquireCreate(c)
  <2>1. CASE \E s \in Sandboxes : Create(s) /\ Goto(c, "record", s)
    BY <1>4, <2>1 DEF AcquireCreate, Create
  <2>2. CASE CreateRaises /\ Goto(c, "idle", NoSandbox)
    BY <1>4, <2>2 DEF AcquireCreate, CreateRaises, Free
  <2>3. QED BY <1>4, <2>1, <2>2 DEF AcquireCreate
<1>5. CASE AcquireRecord(c) BY <1>5 DEF AcquireRecord
<1>6. CASE ReleaseBegin(c) BY <1>6 DEF ReleaseBegin
<1>7. CASE ReleaseDelete(c) BY <1>7 DEF ReleaseDelete, Delete, DeleteRaises
<1>8. CASE ReleaseEnd(c) BY <1>8 DEF ReleaseEnd
<1>9. CASE WaitBegin(c) BY <1>9 DEF WaitBegin
<1>10. CASE WaitReady(c) BY <1>10 DEF WaitReady
<1>11. CASE WaitEnd(c) BY <1>11 DEF WaitEnd
<1>12. QED BY <1>1, <1>2, <1>3, <1>4, <1>5, <1>6, <1>7, <1>8, <1>9, <1>10,
           <1>11 DEF Caller

\* A step of a warmer keeps the types.
LEMMA TypedWarmer == ASSUME NEW w \in Warmers, Typed, Warmer(w) PROVE Typed'
<1> USE ThreadsAssumption, SandboxAssumption, SizeAssumption
    DEF Typed, TypeOK, HandlesTyped, Threads, CallerHolds, WarmerHolds,
        CallerPC, WarmerPC, OwnerPC, service, owner, events, Goto
<1>1. CASE WarmerLoop(w) BY <1>1 DEF WarmerLoop
<1>2. CASE WarmerWake(w) BY <1>2 DEF WarmerWake
<1>3. CASE WarmerTimeout(w) BY <1>3 DEF WarmerTimeout
<1>4. CASE WarmerClear(w) BY <1>4 DEF WarmerClear
<1>5. CASE WarmerLock(w) BY <1>5 DEF WarmerLock
<1>6. CASE WarmerCreate(w) BY <1>6 DEF WarmerCreate, Create, Free
<1>7. CASE WarmerCreateRaises(w)
  BY <1>7 DEF WarmerCreateRaises, CreateRaises, Free
<1>8. CASE WarmerRecord(w) BY <1>8 DEF WarmerRecord
<1>9. CASE WarmerPut(w) BY <1>9 DEF WarmerPut
<1>10. QED BY <1>1, <1>2, <1>3, <1>4, <1>5, <1>6, <1>7, <1>8, <1>9 DEF Warmer

\* Every step keeps the types.
LEMMA TypedNext == Typed /\ [Next]_vars => Typed'
<1> SUFFICES ASSUME Typed, [Next]_vars PROVE Typed'
  OBVIOUS
<1>1. CASE UNCHANGED vars
  BY <1>1 DEF vars, Typed, TypeOK, HandlesTyped
<1>2. CASE Next
  BY <1>1, <1>2, TypedOwner, TypedCaller, TypedWarmer DEF Next, Done
<1>3. QED BY <1>1, <1>2

\* Every variable keeps its type, and no thread uses an id it does not have.
THEOREM TypeCorrect == Spec => []TypeOK
<1>1. Spec => []Typed
  BY TypedInit, TypedNext, PTL DEF Spec
<1>2. Typed => TypeOK
  BY DEF Typed
<1>3. QED BY <1>1, <1>2, PTL
-----------------------------------------------------------------------------
(* Exclusive leases.  ExclusiveLease is inductive on top of Typed: an id   *)
(* only ever moves from one place to another, and a new one is Free.       *)

\* What a step that leaves the three places alone keeps.
LEMMA ExclusiveFrame ==
  ASSUME ExclusiveLease, UNCHANGED <<warm, sbx, held>> PROVE ExclusiveLease'
BY DEF ExclusiveLease

\* Thread t lets go of its local id.
LEMMA ExclusiveDrop ==
  ASSUME Typed, ExclusiveLease, NEW t \in Threads,
         UNCHANGED <<warm, held>>, sbx' = [sbx EXCEPT ![t] = NoSandbox]
  PROVE  ExclusiveLease'
<1>1. \A u \in Threads : sbx'[u] = IF u = t THEN NoSandbox ELSE sbx[u]
  BY DEF Typed, TypeOK
<1>2. /\ \A c \in Callers : NoSandbox \notin held[c]
      /\ \A i \in DOMAIN warm : warm[i] # NoSandbox
  BY SandboxAssumption DEF Typed, TypeOK
<1>3. QED BY <1>1, <1>2 DEF ExclusiveLease

\* Thread t gets a fresh id.
LEMMA ExclusiveFresh ==
  ASSUME Typed, ExclusiveLease, NEW t \in Threads, NEW s \in Free,
         UNCHANGED <<warm, held>>, sbx' = [sbx EXCEPT ![t] = s]
  PROVE  ExclusiveLease'
<1>1. \A u \in Threads : sbx'[u] = IF u = t THEN s ELSE sbx[u]
  BY DEF Typed, TypeOK
<1>2. /\ \A u \in Threads : sbx[u] # s
      /\ \A c \in Callers : s \notin held[c]
      /\ \A i \in DOMAIN warm : warm[i] # s
  BY DEF Free, Referenced, Range, Typed, TypeOK
<1>3. QED BY <1>1, <1>2 DEF ExclusiveLease

\* The head of the queue goes to thread t, or nowhere.
LEMMA ExclusivePop ==
  ASSUME Typed, ExclusiveLease, warm # <<>>, warm' = Tail(warm),
         UNCHANGED held,
         \/ UNCHANGED sbx
         \/ \E t \in Threads : sbx' = [sbx EXCEPT ![t] = Head(warm)]
  PROVE  ExclusiveLease'
<1>1. /\ Head(warm) = warm[1] /\ 1 \in DOMAIN warm
      /\ \A i \in DOMAIN warm' : i + 1 \in DOMAIN warm /\ i + 1 # 1
                                /\ warm'[i] = warm[i + 1]
      /\ DOMAIN warm' \subseteq Nat
  BY DEF Typed, TypeOK
<1>2. \A i, j \in DOMAIN warm' : warm'[i] = warm'[j] => i = j
  BY <1>1 DEF ExclusiveLease
<1>3. \A i \in DOMAIN warm' : /\ warm'[i] # Head(warm)
                             /\ \A t \in Threads : warm'[i] # sbx[t]
                             /\ \A c \in Callers : warm'[i] \notin held'[c]
  BY <1>1 DEF ExclusiveLease
<1>4. CASE UNCHANGED sbx
  BY <1>2, <1>3, <1>4 DEF ExclusiveLease
<1>5. ASSUME NEW t \in Threads, sbx' = [sbx EXCEPT ![t] = Head(warm)]
      PROVE  ExclusiveLease'
  <2>1. \A u \in Threads : sbx'[u] = IF u = t THEN Head(warm) ELSE sbx[u]
    BY <1>5 DEF Typed, TypeOK
  <2>2. /\ \A u \in Threads : sbx[u] # Head(warm)
        /\ \A c \in Callers : Head(warm) \notin held[c]
    BY <1>1 DEF ExclusiveLease
  <2>3. QED BY <1>2, <1>3, <2>1, <2>2 DEF ExclusiveLease
<1>6. QED BY <1>4, <1>5

\* Thread t gives its id to the caller c.
LEMMA ExclusiveGive ==
  ASSUME Typed, ExclusiveLease, NEW c \in Callers, sbx[c] \in Sandboxes,
         UNCHANGED warm, sbx' = [sbx EXCEPT ![c] = NoSandbox],
         held' = [held EXCEPT ![c] = @ \cup {sbx[c]}]
  PROVE  ExclusiveLease'
<1>1. \A u \in Threads : sbx'[u] = IF u = c THEN NoSandbox ELSE sbx[u]
  BY DEF Typed, TypeOK
<1>2. \A d \in Callers :
         held'[d] = IF d = c THEN held[c] \cup {sbx[c]} ELSE held[d]
  BY DEF Typed, TypeOK
<1>3. c \in Threads /\ sbx[c] # NoSandbox
  BY SandboxAssumption DEF Threads
<1>4. /\ \A d \in Callers : NoSandbox \notin held'[d]
      /\ \A i \in DOMAIN warm : warm[i] # NoSandbox
  BY <1>2, <1>3, SandboxAssumption DEF Typed, TypeOK
<1>5. /\ \A t, u \in Threads : sbx'[t] = sbx'[u] /\ sbx'[t] # NoSandbox => t = u
      /\ \A t \in Threads, d \in Callers : sbx'[t] \notin held'[d]
  BY <1>1, <1>2, <1>3, <1>4 DEF ExclusiveLease
<1>6. \A d, e \in Callers : d # e => held'[d] \cap held'[e] = {}
  BY <1>2, <1>3 DEF ExclusiveLease
<1>7. \A i \in DOMAIN warm' : /\ \A t \in Threads : warm'[i] # sbx'[t]
                             /\ \A d \in Callers : warm'[i] \notin held'[d]
  BY <1>1, <1>2, <1>3, <1>4 DEF ExclusiveLease
<1>8. QED BY <1>5, <1>6, <1>7 DEF ExclusiveLease

\* The caller c takes one of its ids to release it.
LEMMA ExclusiveTake ==
  ASSUME Typed, ExclusiveLease, NEW c \in Callers, NEW s \in held[c],
         UNCHANGED warm, sbx' = [sbx EXCEPT ![c] = s],
         held' = [held EXCEPT ![c] = @ \ {s}]
  PROVE  ExclusiveLease'
<1>1. \A u \in Threads : sbx'[u] = IF u = c THEN s ELSE sbx[u]
  BY DEF Typed, TypeOK
<1>2. \A d \in Callers : held'[d] = IF d = c THEN held[c] \ {s} ELSE held[d]
  BY DEF Typed, TypeOK
<1>3. /\ \A t \in Threads : sbx[t] # s
      /\ \A i \in DOMAIN warm : warm[i] # s
      /\ \A d \in Callers : s \notin held'[d]
  BY <1>2 DEF ExclusiveLease
<1>4. \A d, e \in Callers : d # e => held'[d] \cap held'[e] = {}
  BY <1>2 DEF ExclusiveLease
<1>5. QED BY <1>1, <1>2, <1>3, <1>4 DEF ExclusiveLease

\* Thread t puts its id into the queue.
LEMMA ExclusivePut ==
  ASSUME Typed, ExclusiveLease, NEW t \in Threads, sbx[t] \in Sandboxes,
         UNCHANGED held, sbx' = [sbx EXCEPT ![t] = NoSandbox],
         warm' = Append(warm, sbx[t])
  PROVE  ExclusiveLease'
<1>1. \A u \in Threads : sbx'[u] = IF u = t THEN NoSandbox ELSE sbx[u]
  BY DEF Typed, TypeOK
<1>2. /\ \A i \in DOMAIN warm' : \/ i \in DOMAIN warm /\ warm'[i] = warm[i]
                                 \/ i = Len(warm) + 1 /\ warm'[i] = sbx[t]
      /\ Len(warm) + 1 \notin DOMAIN warm
  BY DEF Typed, TypeOK
<1>3. \A i \in DOMAIN warm : warm[i] # sbx[t]
  BY DEF ExclusiveLease
<1>4. sbx[t] # NoSandbox /\ \A c \in Callers : NoSandbox \notin held[c]
  BY SandboxAssumption DEF Typed, TypeOK
<1>5. \A i \in DOMAIN warm' : warm'[i] # NoSandbox
  BY <1>2, <1>4, SandboxAssumption DEF Typed, TypeOK
<1>6. \A i, j \in DOMAIN warm' : warm'[i] = warm'[j] => i = j
  BY <1>2, <1>3 DEF ExclusiveLease
<1>7. \A i \in DOMAIN warm' : /\ \A u \in Threads : warm'[i] # sbx'[u]
                             /\ \A c \in Callers : warm'[i] \notin held'[c]
  BY <1>1, <1>2, <1>4, <1>5 DEF ExclusiveLease
<1>8. QED BY <1>1, <1>4, <1>6, <1>7 DEF ExclusiveLease

LEMMA ExclusiveOwner ==
  ASSUME Typed, ExclusiveLease, Owner PROVE ExclusiveLease'
<1>1. CASE CloseDrain /\ warm # <<>>
  <2>1. warm' = Tail(warm) /\ UNCHANGED <<sbx, held>>
    BY <1>1 DEF CloseDrain, threads
  <2>2. QED BY <1>1, <2>1, ExclusivePop
<1>2. CASE ~(CloseDrain /\ warm # <<>>)
  <2>1. UNCHANGED <<warm, sbx, held>>
    BY <1>2 DEF Owner, Open, StartWarmer, CloseBegin, CloseJoin, CloseDrain, CloseList,
                CloseDelete, CloseEnd, threads
  <2>2. QED BY <2>1, ExclusiveFrame
<1>3. QED BY <1>1, <1>2

LEMMA ExclusiveCaller ==
  ASSUME NEW c \in Callers, Typed, ExclusiveLease, Caller(c)
  PROVE  ExclusiveLease'
<1> c \in Threads
  BY DEF Threads
<1>1. CASE AcquireWarm(c)
  BY <1>1, ExclusivePop DEF AcquireWarm, Goto
<1>2. CASE AcquireSignal(c)
  <2>1. sbx[c] \in Sandboxes
    BY <1>2 DEF AcquireSignal, Typed, HandlesTyped, CallerHolds
  <2>2. QED BY <1>2, <2>1, ExclusiveGive DEF AcquireSignal, Goto
<1>3. CASE AcquireCold(c)
  BY <1>3, ExclusiveDrop DEF AcquireCold, Goto
<1>4. CASE AcquireCreate(c)
  BY <1>4, ExclusiveDrop, ExclusiveFresh DEF AcquireCreate, Create, Goto
<1>5. CASE AcquireRecord(c)
  <2>1. sbx[c] \in Sandboxes
    BY <1>5 DEF AcquireRecord, Typed, HandlesTyped, CallerHolds
  <2>2. QED BY <1>5, <2>1, ExclusiveGive DEF AcquireRecord, Goto
<1>6. CASE ReleaseBegin(c)
  BY <1>6, ExclusiveTake DEF ReleaseBegin, Goto
<1>7. CASE ReleaseDelete(c)
  <2>1. UNCHANGED <<warm, held>> /\ sbx' = [sbx EXCEPT ![c] = sbx[c]]
    BY <1>7 DEF ReleaseDelete, Goto
  <2>2. sbx' = sbx
    BY <2>1 DEF Typed, TypeOK
  <2>3. QED BY <2>1, <2>2, ExclusiveFrame
<1>8. CASE ReleaseEnd(c)
  BY <1>8, ExclusiveDrop DEF ReleaseEnd, Goto
<1>9. CASE WaitBegin(c)
  BY <1>9, ExclusiveDrop DEF WaitBegin, Goto
<1>10. CASE WaitReady(c)
  BY <1>10, ExclusiveDrop DEF WaitReady, Goto
<1>11. CASE WaitEnd(c)
  BY <1>11, ExclusiveDrop DEF WaitEnd, Goto
<1>12. QED BY <1>1, <1>2, <1>3, <1>4, <1>5, <1>6, <1>7, <1>8, <1>9, <1>10,
           <1>11 DEF Caller

LEMMA ExclusiveWarmer ==
  ASSUME NEW w \in Warmers, Typed, ExclusiveLease, Warmer(w)
  PROVE  ExclusiveLease'
<1> w \in Threads
  BY DEF Threads
<1>1. CASE WarmerLoop(w) \/ WarmerWake(w) \/ WarmerTimeout(w)
           \/ WarmerClear(w) \/ WarmerLock(w) \/ WarmerCreateRaises(w)
  BY <1>1, ExclusiveDrop
  DEF WarmerLoop, WarmerWake, WarmerTimeout, WarmerClear, WarmerLock,
      WarmerCreateRaises, Goto
<1>2. CASE WarmerCreate(w)
  BY <1>2, ExclusiveFresh DEF WarmerCreate, Create, Goto
<1>3. CASE WarmerRecord(w)
  <2>1. UNCHANGED <<warm, held>> /\ sbx' = [sbx EXCEPT ![w] = sbx[w]]
    BY <1>3 DEF WarmerRecord, Goto
  <2>2. sbx' = sbx
    BY <2>1 DEF Typed, TypeOK
  <2>3. QED BY <2>1, <2>2, ExclusiveFrame
<1>4. CASE WarmerPut(w)
  <2>1. sbx[w] \in Sandboxes
    BY <1>4 DEF WarmerPut, Typed, HandlesTyped, WarmerHolds
  <2>2. QED BY <1>4, <2>1, ExclusivePut DEF WarmerPut, Goto
<1>5. QED BY <1>1, <1>2, <1>3, <1>4 DEF Warmer

LEMMA ExclusiveNext == Typed /\ ExclusiveLease /\ [Next]_vars => ExclusiveLease'
<1> SUFFICES ASSUME Typed, ExclusiveLease, [Next]_vars PROVE ExclusiveLease'
  OBVIOUS
<1>1. CASE UNCHANGED vars
  BY <1>1, ExclusiveFrame DEF vars
<1>2. CASE Next
  BY <1>1, <1>2, ExclusiveOwner, ExclusiveCaller, ExclusiveWarmer
  DEF Next, Done
<1>3. QED BY <1>1, <1>2

LEMMA ExclusiveInit == Init => ExclusiveLease
<1> SUFFICES ASSUME Init PROVE ExclusiveLease
  OBVIOUS
<1>1. /\ DOMAIN warm = {}
      /\ \A t \in Threads : sbx[t] = NoSandbox
      /\ \A c \in Callers : held[c] = {}
  BY DEF Init
<1>2. QED BY <1>1 DEF ExclusiveLease

\* No two callers ever hold the same sandbox, and none a caller holds is in
\* the warm queue or in another thread's hands: for every number of callers,
\* warmers and sandboxes, every warm_size, and through close() and open().
THEOREM ExclusiveLeases == Spec => []ExclusiveLease
<1>1. Spec => [](Typed /\ ExclusiveLease)
  BY TypedInit, TypedNext, ExclusiveInit, ExclusiveNext, PTL DEF Spec
<1>2. QED BY <1>1, PTL

-----------------------------------------------------------------------------
(* Nothing that bills is forgotten.                                        *)

\* Accounted is not inductive: release() drops the id from _active, which is
\* right because by then the delete has returned or has raised.
Dropped ==
    \A c \in Callers :
        pc[c] \in {"deleted", "raised"} => sbx[c] \notin alive \ orphans

AccountedInv == Typed /\ Accounted /\ Dropped

LEMMA AccountedInit == Init => Accounted /\ Dropped
<1> SUFFICES ASSUME Init PROVE Accounted /\ Dropped
  OBVIOUS
<1>1. alive = {}
  BY DEF Init
<1>2. QED BY <1>1 DEF Accounted, Dropped

\* What a thread other than t has created but not recorded stays so.
LEMMA UnrecordedFrame ==
  ASSUME Typed, NEW t \in Threads, NEW l, NEW s, Goto(t, l, s)
  PROVE  /\ pc[t] \notin {"record", "created"} => Unrecorded \subseteq Unrecorded'
         /\ Unrecorded \subseteq Unrecorded' \cup {sbx[t]}
         /\ l \in {"record", "created"} => s \in Unrecorded'
<1>1. \A u \in Threads : /\ pc'[u] = IF u = t THEN l ELSE pc[u]
                        /\ sbx'[u] = IF u = t THEN s ELSE sbx[u]
  BY DEF Goto, Typed, TypeOK
<1>2. QED BY <1>1 DEF Unrecorded

LEMMA AccountedOwner ==
  ASSUME AccountedInv, Owner PROVE Accounted' /\ Dropped'
<1> USE DEF AccountedInv
<1>1. CASE Open
  <2>1. /\ UNCHANGED <<alive, orphans, active, sbx>>
        /\ \A t \in Threads : pc'[t] # pc[t] => pc[t] = "off" /\ pc'[t] = "loop"
    <3>1. UNCHANGED <<alive, orphans, active, sbx>>
      BY <1>1 DEF Open, StartWarmer, service
    <3>2. \/ UNCHANGED pc
          \/ \E w \in Warmers : pc[w] = "off" /\ pc' = [pc EXCEPT ![w] = "loop"]
      BY <1>1 DEF Open, StartWarmer
    <3>3. pc \in [Threads -> CallerPC \cup WarmerPC] /\ Warmers \subseteq Threads
      BY DEF Typed, TypeOK, Threads
    <3>4. ASSUME NEW w \in Warmers, pc[w] = "off",
                 pc' = [pc EXCEPT ![w] = "loop"]
          PROVE  \A t \in Threads :
                    pc'[t] # pc[t] => pc[t] = "off" /\ pc'[t] = "loop"
      BY <3>3, <3>4
    <3>5. QED BY <3>1, <3>2, <3>4
  <2>2. Unrecorded' = Unrecorded
    BY <2>1 DEF Unrecorded
  <2>3. \A c \in Callers : pc'[c] \in {"deleted", "raised"} => pc[c] = pc'[c]
    BY <2>1 DEF Threads
  <2>4. QED BY <2>1, <2>2, <2>3 DEF Accounted, Dropped
<1>2. CASE CloseDrain
  <2>1. UNCHANGED <<alive, orphans, pc, sbx>> /\ active \subseteq active'
    BY <1>2 DEF CloseDrain, service, threads
  <2>2. QED BY <2>1 DEF Accounted, Dropped, Unrecorded
<1>3. CASE CloseBegin \/ CloseJoin \/ CloseList \/ CloseEnd
  <2>1. UNCHANGED <<alive, orphans, pc, sbx, active>>
    BY <1>3 DEF CloseBegin, CloseJoin, CloseList, CloseEnd, service, threads
  <2>2. QED BY <2>1 DEF Accounted, Dropped, Unrecorded
<1>4. ASSUME NEW s \in Sandboxes, CloseDelete(s) PROVE Accounted' /\ Dropped'
  <2>1. /\ UNCHANGED <<pc, sbx>> /\ active' = active \ {s}
        /\ alive' \subseteq alive
        /\ s \in alive' => s \in orphans'
        /\ \A r \in Sandboxes : r # s => (r \in orphans' <=> r \in orphans)
    BY <1>4 DEF CloseDelete, Delete, DeleteRaises, threads
  <2>2. Unrecorded' = Unrecorded
    BY <2>1 DEF Unrecorded
  <2>3. alive \subseteq Sandboxes
    BY DEF Typed, TypeOK
  <2>4. Accounted'
    BY <2>1, <2>2, <2>3 DEF Accounted
  <2>5. Dropped'
    BY <2>1, <2>3 DEF Dropped
  <2>6. QED BY <2>4, <2>5
<1>5. QED BY <1>1, <1>2, <1>3, <1>4 DEF Owner

LEMMA AccountedCaller ==
  ASSUME NEW c \in Callers, AccountedInv, Caller(c)
  PROVE  Accounted' /\ Dropped'
<1> USE DEF AccountedInv
<1> c \in Threads
  BY DEF Threads
<1> DEFINE Moved(l, s) ==
             \A u \in Threads : /\ pc'[u] = IF u = c THEN l ELSE pc[u]
                               /\ sbx'[u] = IF u = c THEN s ELSE sbx[u]
<1>0. ASSUME NEW l, NEW s, Goto(c, l, s)
      PROVE  /\ Moved(l, s)
             /\ pc[c] # "record" => Unrecorded \subseteq Unrecorded'
             /\ Unrecorded \subseteq Unrecorded' \cup {sbx[c]}
             /\ l = "record" => s \in Unrecorded'
  <2>1. Moved(l, s)
    BY <1>0 DEF Goto, Typed, TypeOK
  <2>2. pc[c] # "created"
    BY DEF Typed, TypeOK, CallerPC
  <2>3. QED BY <1>0, <2>1, <2>2, UnrecordedFrame
<1>1. CASE \/ AcquireWarm(c) \/ AcquireSignal(c) \/ AcquireCold(c)
           \/ ReleaseBegin(c) \/ WaitBegin(c) \/ WaitReady(c) \/ WaitEnd(c)
  <2>1. /\ UNCHANGED <<alive, orphans, active>>
        /\ \E l \in CallerPC \ {"record", "deleted", "raised"} :
              \E s : Goto(c, l, s)
        /\ pc[c] # "record"
    BY <1>1 DEF AcquireWarm, AcquireSignal, AcquireCold, ReleaseBegin,
                WaitBegin, WaitReady, WaitEnd, service, CallerPC
  <2>2. QED BY <1>0, <2>1 DEF Accounted, Dropped, Threads
<1>2. CASE AcquireCreate(c)
  <2>1. UNCHANGED active /\ pc[c] = "create"
    BY <1>2 DEF AcquireCreate
  <2>2. ASSUME NEW s \in Sandboxes, Create(s), Goto(c, "record", s)
        PROVE  Accounted' /\ Dropped'
    <3>1. \A d \in Callers : sbx[d] # s
      BY <2>2 DEF Create, Free, Referenced, Range, Threads, Typed, TypeOK
    <3>2. QED BY <1>0, <2>1, <2>2, <3>1
              DEF Accounted, Dropped, Create, Threads
  <2>3. ASSUME CreateRaises, Goto(c, "idle", NoSandbox)
        PROVE  Accounted' /\ Dropped'
    <3>1. alive \ orphans = alive' \ orphans' /\ alive' \subseteq alive \cup orphans'
          /\ orphans \subseteq orphans'
      BY <2>3 DEF CreateRaises, Free, Referenced, service
    <3>2. QED BY <1>0, <2>1, <2>3, <3>1 DEF Accounted, Dropped, Threads
  <2>4. QED BY <1>2, <2>2, <2>3 DEF AcquireCreate
<1>3. CASE AcquireRecord(c)
  <2>1. /\ UNCHANGED <<alive, orphans>> /\ active' = active \cup {sbx[c]}
        /\ Goto(c, "idle", NoSandbox)
    BY <1>3 DEF AcquireRecord, service
  <2>2. QED BY <1>0, <2>1 DEF Accounted, Dropped, Threads
<1>4. CASE ReleaseDelete(c)
  <2>1. /\ UNCHANGED active /\ pc[c] = "delete"
        /\ \E l \in {"deleted", "raised"} : Goto(c, l, sbx[c])
        /\ alive' \subseteq alive
        /\ sbx[c] \in alive' => sbx[c] \in orphans'
        /\ \A r : r # sbx[c] => (r \in orphans' <=> r \in orphans)
    BY <1>4 DEF ReleaseDelete, Delete, DeleteRaises
  <2>2. QED BY <1>0, <2>1 DEF Accounted, Dropped, Threads
<1>5. CASE ReleaseEnd(c)
  <2>1. /\ UNCHANGED <<alive, orphans>> /\ active' = active \ {sbx[c]}
        /\ pc[c] \in {"deleted", "raised"}
        /\ Goto(c, "idle", NoSandbox)
    BY <1>5 DEF ReleaseEnd, service
  <2>2. QED BY <1>0, <2>1 DEF Accounted, Dropped, Threads
<1>6. QED BY <1>1, <1>2, <1>3, <1>4, <1>5 DEF Caller

LEMMA AccountedWarmer ==
  ASSUME NEW w \in Warmers, AccountedInv, Warmer(w)
  PROVE  Accounted' /\ Dropped'
<1> USE DEF AccountedInv
<1> w \in Threads
  BY DEF Threads
<1>0. ASSUME NEW l, NEW s, Goto(w, l, s)
      PROVE  /\ \A c \in Callers : pc'[c] = pc[c] /\ sbx'[c] = sbx[c]
             /\ pc[w] # "created" => Unrecorded \subseteq Unrecorded'
             /\ Unrecorded \subseteq Unrecorded' \cup {sbx[w]}
             /\ l = "created" => s \in Unrecorded'
  <2>1. \A c \in Callers : pc'[c] = pc[c] /\ sbx'[c] = sbx[c]
    BY <1>0, ThreadsAssumption DEF Goto, Typed, TypeOK, Threads
  <2>2. pc[w] # "record"
    BY DEF Typed, TypeOK, WarmerPC
  <2>3. QED BY <1>0, <2>1, <2>2, UnrecordedFrame
<1>1. CASE \/ WarmerLoop(w) \/ WarmerWake(w) \/ WarmerTimeout(w)
           \/ WarmerClear(w) \/ WarmerLock(w) \/ WarmerPut(w)
  <2>1. /\ UNCHANGED <<alive, orphans, active>> /\ pc[w] # "created"
        /\ \E l, s : Goto(w, l, s)
    BY <1>1 DEF WarmerLoop, WarmerWake, WarmerTimeout, WarmerClear,
                WarmerLock, WarmerPut, service
  <2>2. QED BY <1>0, <2>1 DEF Accounted, Dropped
<1>2. ASSUME NEW s \in Sandboxes, Create(s), Goto(w, "created", s),
             UNCHANGED active, pc[w] = "create"
      PROVE  Accounted' /\ Dropped'
  <2>1. \A c \in Callers : sbx[c] # s
    BY <1>2 DEF Create, Free, Referenced, Range, Threads, Typed, TypeOK
  <2>2. QED BY <1>0, <1>2, <2>1 DEF Accounted, Dropped, Create
<1>3. CASE WarmerCreateRaises(w)
  <2>1. alive \ orphans = alive' \ orphans' /\ alive' \subseteq alive \cup orphans'
        /\ orphans \subseteq orphans'
    BY <1>3 DEF WarmerCreateRaises, CreateRaises, Free, Referenced, service
  <2>2. UNCHANGED active /\ pc[w] = "create" /\ \E l, s : Goto(w, l, s)
    BY <1>3 DEF WarmerCreateRaises
  <2>3. QED BY <1>0, <2>1, <2>2 DEF Accounted, Dropped
<1>4. CASE WarmerRecord(w)
  <2>1. /\ UNCHANGED <<alive, orphans>> /\ active' = active \cup {sbx[w]}
        /\ Goto(w, "put", sbx[w])
    BY <1>4 DEF WarmerRecord, service
  <2>2. QED BY <1>0, <2>1 DEF Accounted, Dropped
<1>5. CASE WarmerCreate(w)
  BY <1>2, <1>5 DEF WarmerCreate
<1>6. QED BY <1>1, <1>3, <1>4, <1>5 DEF Warmer

LEMMA AccountedNext == AccountedInv /\ [Next]_vars => AccountedInv'
<1> SUFFICES ASSUME AccountedInv, [Next]_vars PROVE AccountedInv'
  OBVIOUS
<1>1. Typed'
  BY TypedNext DEF AccountedInv
<1>2. CASE UNCHANGED vars
  BY <1>1, <1>2 DEF vars, AccountedInv, Accounted, Dropped, Unrecorded
<1>3. CASE Next
  BY <1>1, <1>2, <1>3, AccountedOwner, AccountedCaller, AccountedWarmer
  DEF Next, Done, AccountedInv
<1>4. QED BY <1>2, <1>3

\* A sandbox that exists is in _active, is about to be recorded there by the
\* thread whose create just returned, or a service call about it raised.
THEOREM EverySandboxAccounted == Spec => []Accounted
<1>1. Init => AccountedInv
  BY TypedInit, AccountedInit DEF AccountedInv
<1>2. AccountedInv => Accounted
  BY DEF AccountedInv
<1>3. QED BY <1>1, <1>2, AccountedNext, PTL DEF Spec

-----------------------------------------------------------------------------
(* Which warmers run, and what they were told.                             *)

\* A warmer on record has clients and no close() is past the join; one that is
\* off the record has been told to stop.
WarmerInv ==
    /\ warmThread # NoThread => clients /\ opc \in {"out", "join"}
    /\ opc = "join" => stop /\ warmThread # NoThread
    /\ opc # "out" => clients
    /\ warmThread = NoThread => stop \/ \A w \in Warmers : ~Running(w)

\* If no create outlives the join, the warmer on record is the only one.
Single == \A w \in Warmers : Running(w) => warmThread = w

\* Of the existing sandboxes _active knows, the sweep will delete those that
\* are not late; after it only those that are late remain.
Swept ==
    /\ opc \in {"list", "sweep"} \/ ~clients => warm = <<>>
    /\ opc = "sweep" => active \cap alive \subseteq todo \cup late
    /\ ~clients => active \cap alive \subseteq late

\* What is in the queue, or on its way there, exists.
Stocked ==
    /\ WarmIsLive
    /\ \A w \in Warmers : pc[w] \in WarmerHolds => sbx[w] \in alive

\* The event is set, or about to be, if a waiting warmer has something to do.
Awake ==
    \A w \in Warmers :
        pc[w] = "wait" /\ (Len(warm) < WarmSize \/ stop)
            => refill \/ \E c \in Callers : pc[c] = "signal"

LEMMA WarmerInvInit == Init => WarmerInv
BY ThreadsAssumption DEF Init, WarmerInv, Running, Threads

\* A warmer's step changes its own program counter; a warmer that is off stays
\* off, and no event but the refill.
LEMMA WarmerFrame ==
  ASSUME NEW w \in Warmers, Typed, Warmer(w)
  PROVE  /\ UNCHANGED <<clients, warmThread, opc, todo, opens, stop, held, late>>
         /\ \A v \in Warmers : v # w => pc'[v] = pc[v]
         /\ \A c \in Callers : pc'[c] = pc[c] /\ sbx'[c] = sbx[c]
         /\ pc[w] # "off"
<1> w \in Threads
  BY DEF Threads
<1>1. /\ UNCHANGED <<clients, warmThread, opc, todo, opens, stop, held, late>>
      /\ pc[w] # "off"
      /\ \E l, s : Goto(w, l, s)
  BY DEF Warmer, WarmerLoop, WarmerWake, WarmerTimeout, WarmerClear,
         WarmerLock, WarmerCreate, WarmerCreateRaises, WarmerRecord,
         WarmerPut, owner, events
<1>2. QED BY <1>1, ThreadsAssumption DEF Goto, Typed, TypeOK, Threads

\* A caller's step changes no warmer and nothing of the owner's.
LEMMA CallerFrame ==
  ASSUME NEW c \in Callers, Typed, Caller(c)
  PROVE  /\ UNCHANGED <<clients, warmThread, opc, todo, opens, stop>>
         /\ \A w \in Warmers : pc'[w] = pc[w] /\ sbx'[w] = sbx[w]
         /\ \A d \in Callers : d # c => pc'[d] = pc[d] /\ sbx'[d] = sbx[d]
<1> c \in Threads
  BY DEF Threads
<1>1. /\ UNCHANGED <<clients, warmThread, opc, todo, opens, stop>>
      /\ \E l, s : Goto(c, l, s)
  BY DEF Caller, AcquireWarm, AcquireSignal, AcquireCold, AcquireCreate,
         AcquireRecord, ReleaseBegin, ReleaseDelete, ReleaseEnd, WaitBegin,
         WaitReady, WaitEnd, owner, events
<1>2. QED BY <1>1, ThreadsAssumption DEF Goto, Typed, TypeOK, Threads

\* An owner's step changes no thread but the one Open starts.
LEMMA OwnerFrame ==
  ASSUME Typed, Owner
  PROVE  /\ UNCHANGED <<sbx, held, want, lock>>
         /\ \A c \in Callers : pc'[c] = pc[c]
         /\ \A w \in Warmers : pc'[w] # pc[w] => /\ Open /\ pc[w] = "off"
                                               /\ warmThread = NoThread
                                               /\ warmThread' = w
                                               /\ pc'[w] = "loop"
<1>1. CASE Open
  <2>1. UNCHANGED <<sbx, held, want, lock>>
    BY <1>1 DEF Open, StartWarmer
  <2>2. \/ UNCHANGED pc
        \/ \E w \in Warmers : /\ pc[w] = "off" /\ warmThread = NoThread
                             /\ warmThread' = w
                             /\ pc' = [pc EXCEPT ![w] = "loop"]
    BY <1>1 DEF Open, StartWarmer
  <2>3. /\ pc \in [Threads -> CallerPC \cup WarmerPC]
        /\ Warmers \subseteq Threads /\ Callers \subseteq Threads
    BY DEF Typed, TypeOK, Threads
  <2>4. ASSUME NEW w \in Warmers, pc[w] = "off", warmThread = NoThread,
               warmThread' = w, pc' = [pc EXCEPT ![w] = "loop"]
        PROVE  /\ \A c \in Callers : pc'[c] = pc[c]
               /\ \A v \in Warmers : pc'[v] # pc[v] => v = w /\ pc'[v] = "loop"
    BY <2>3, <2>4, ThreadsAssumption
  <2>5. QED BY <1>1, <2>1, <2>2, <2>4
<1>2. CASE ~Open
  BY <1>2 DEF Owner, CloseBegin, CloseJoin, CloseDrain, CloseList,
              CloseDelete, CloseEnd, threads
<1>3. QED BY <1>1, <1>2

LEMMA WarmerInvNext == Typed /\ WarmerInv /\ [Next]_vars => WarmerInv'
<1> SUFFICES ASSUME Typed, WarmerInv, [Next]_vars PROVE WarmerInv'
  OBVIOUS
<1>1. CASE UNCHANGED vars
  BY <1>1 DEF vars, WarmerInv, Running
<1>2. CASE Owner
  <2>1. CASE Open
    <3>1. warmThread = NoThread /\ WarmSize > 0 => warmThread' # NoThread
      BY <2>1, ThreadsAssumption DEF Open, StartWarmer
    <3>2. CASE UNCHANGED <<events, warmThread, pc>>
      BY <2>1, <3>2 DEF Open, StartWarmer, WarmerInv, Running, events
    <3>3. CASE warmThread' \in Warmers
      BY <2>1, <3>3, ThreadsAssumption DEF Open, StartWarmer, WarmerInv
    <3>4. QED BY <2>1, <3>2, <3>3 DEF Open, StartWarmer
  <2>2. CASE ~Open
    <3>1. \A w \in Warmers : pc'[w] = pc[w]
      BY <1>2, <2>2, OwnerFrame
    <3>2. QED BY <1>2, <2>2, <3>1
              DEF Owner, CloseBegin, CloseJoin, CloseDrain, CloseList,
                  CloseDelete, CloseEnd, WarmerInv, Running, events
  <2>3. QED BY <2>1, <2>2
<1>3. ASSUME NEW c \in Callers, Caller(c) PROVE WarmerInv'
  BY <1>3, CallerFrame DEF WarmerInv, Running
<1>4. ASSUME NEW w \in Warmers, Warmer(w) PROVE WarmerInv'
  BY <1>4, WarmerFrame DEF WarmerInv, Running
<1>5. QED BY <1>1, <1>2, <1>3, <1>4 DEF Next, Done

\* While a warmer runs and the stop event is not set the clients are there: a
\* warmer that passes its test under _warm_lock passes it on an open pool.
THEOREM WarmerFindsClients == Spec => []WarmerHasClients
<1>1. Spec => [](Typed /\ WarmerInv)
  BY TypedInit, TypedNext, WarmerInvInit, WarmerInvNext, PTL DEF Spec
<1>2. WarmerInv => WarmerHasClients
  BY DEF WarmerInv, WarmerHasClients
<1>3. QED BY <1>1, <1>2, PTL

-----------------------------------------------------------------------------
(* When join() waits for the warmer.                                       *)

LEMMA SingleNext ==
  Typed /\ WarmerInv /\ Single /\ ~CreateOutlivesJoin /\ [Next]_vars => Single'
<1> SUFFICES ASSUME Typed, WarmerInv, Single, ~CreateOutlivesJoin, [Next]_vars
             PROVE  Single'
  OBVIOUS
<1>1. CASE UNCHANGED vars
  BY <1>1 DEF vars, Single, Running
<1>2. CASE Owner
  <2>1. CASE Open \/ CloseJoin
    BY <1>2, <2>1, OwnerFrame, ThreadsAssumption
    DEF Open, StartWarmer, CloseJoin, Single, Running
  <2>2. CASE ~Open /\ ~CloseJoin
    <3>1. UNCHANGED warmThread
      BY <1>2, <2>2 DEF Owner, CloseBegin, CloseDrain, CloseList,
                        CloseDelete, CloseEnd
    <3>2. QED BY <1>2, <2>2, <3>1, OwnerFrame DEF Single, Running
  <2>3. QED BY <2>1, <2>2
<1>3. ASSUME NEW c \in Callers, Caller(c) PROVE Single'
  BY <1>3, CallerFrame DEF Single, Running
<1>4. ASSUME NEW w \in Warmers, Warmer(w) PROVE Single'
  BY <1>4, WarmerFrame DEF Single, Running
<1>5. QED BY <1>1, <1>2, <1>3, <1>4 DEF Next, Done

\* No warmer runs off the record; one that runs means close() is not past its
\* join.
LEMMA SingleOff ==
  ASSUME Typed, WarmerInv, Single
  PROVE  /\ warmThread = NoThread => \A w \in Warmers : ~Running(w)
         /\ (\E w \in Warmers : Running(w)) => clients /\ opc \in {"out", "join"}
BY ThreadsAssumption DEF WarmerInv, Single

\* Taking the head off a queue adds nothing to it.
LEMMA TailRange ==
  ASSUME NEW S, NEW q \in Seq(S), q # <<>>
  PROVE  Range(Tail(q)) \subseteq Range(q)
<1>1. /\ DOMAIN Tail(q) = 1..(Len(q) - 1) /\ DOMAIN q = 1..Len(q)
      /\ Len(q) \in Nat \ {0}
      /\ \A i \in 1..(Len(q) - 1) : Tail(q)[i] = q[i + 1]
  OBVIOUS
<1>2. \A i \in DOMAIN Tail(q) : i + 1 \in DOMAIN q /\ Tail(q)[i] = q[i + 1]
  BY <1>1
<1>3. QED BY <1>2 DEF Range

\* Appending to a queue adds the one element.
LEMMA AppendRange ==
  ASSUME NEW S, NEW q \in Seq(S), NEW e \in S
  PROVE  Range(Append(q, e)) = Range(q) \cup {e}
<1>1. /\ DOMAIN Append(q, e) = DOMAIN q \cup {Len(q) + 1}
      /\ \A i \in DOMAIN q : Append(q, e)[i] = q[i]
      /\ Append(q, e)[Len(q) + 1] = e
  OBVIOUS
<1>2. QED BY <1>1, Zenon DEF Range

LEMMA SweptNext ==
  Typed /\ WarmerInv /\ Single /\ Swept /\ [Next]_vars => Swept'
<1> SUFFICES ASSUME Typed, WarmerInv, Single, Swept, [Next]_vars PROVE Swept'
  OBVIOUS
<1>1. CASE UNCHANGED vars
  BY <1>1 DEF vars, Swept
<1>2. CASE Owner
  <2>1. CASE Open \/ CloseBegin \/ CloseJoin \/ CloseDrain \/ CloseList \/ CloseEnd
    BY <2>1 DEF Open, StartWarmer, CloseBegin, CloseJoin, CloseDrain, CloseList, CloseEnd,
                WarmerInv, Swept, service
  <2>2. ASSUME NEW s \in Sandboxes, CloseDelete(s) PROVE Swept'
    <3>1. /\ UNCHANGED <<opc, clients, warm>> /\ opc = "sweep"
          /\ active' = active \ {s} /\ todo' = todo \ {s}
          /\ alive' \subseteq alive /\ late \ {s} \subseteq late'
      BY <2>2 DEF CloseDelete, Delete, DeleteRaises
    <3>2. clients
      BY <3>1 DEF WarmerInv
    <3>3. QED BY <3>1, <3>2 DEF Swept
  <2>3. QED BY <1>2, <2>1, <2>2 DEF Owner
<1>3. ASSUME NEW c \in Callers, Caller(c) PROVE Swept'
  <2>1. UNCHANGED <<clients, opc, todo>>
    BY <1>3, CallerFrame
  <2>2. warm = <<>> => warm' = <<>>
    BY <1>3 DEF Caller, AcquireWarm, AcquireSignal, AcquireCold,
                AcquireCreate, AcquireRecord, ReleaseBegin, ReleaseDelete,
                ReleaseEnd, WaitBegin, WaitReady, WaitEnd
  <2>3. CASE AcquireRecord(c)
    BY <2>1, <2>2, <2>3 DEF AcquireRecord, Swept, service
  <2>4. CASE ~AcquireRecord(c)
    <3>1. active' \cap alive' \subseteq active \cap alive
      BY <1>3, <2>4
      DEF Caller, AcquireWarm, AcquireSignal, AcquireCold, AcquireCreate,
          ReleaseBegin, ReleaseDelete, ReleaseEnd, WaitBegin, WaitReady,
          WaitEnd, Create, CreateRaises, Delete, DeleteRaises, Free,
          Referenced, service
    <3>2. late \cap alive' \subseteq late'
      BY <1>3, <2>4
      DEF Caller, AcquireWarm, AcquireSignal, AcquireCold, AcquireCreate,
          ReleaseBegin, ReleaseDelete, ReleaseEnd, WaitBegin, WaitReady,
          WaitEnd, Delete, DeleteRaises
    <3>3. QED BY <2>1, <2>2, <3>1, <3>2 DEF Swept
  <2>5. QED BY <2>3, <2>4
<1>4. ASSUME NEW w \in Warmers, Warmer(w) PROVE Swept'
  BY <1>4, WarmerFrame, SingleOff DEF Swept, Running
<1>5. QED BY <1>1, <1>2, <1>3, <1>4 DEF Next, Done

LEMMA StockedNext ==
  Typed /\ ExclusiveLease /\ WarmerInv /\ Single /\ Swept /\ Stocked
    /\ [Next]_vars => Stocked'
<1> SUFFICES ASSUME Typed, ExclusiveLease, WarmerInv, Single, Swept, Stocked,
                    [Next]_vars
             PROVE  Stocked'
  OBVIOUS
<1>0. warm \in Seq(Sandboxes) /\ Range(warm) \subseteq alive
  BY DEF Typed, TypeOK, Stocked, WarmIsLive
<1>1. CASE UNCHANGED vars
  BY <1>1 DEF vars, Stocked, WarmIsLive
<1>2. CASE Owner
  <2>1. \A w \in Warmers : pc'[w] \in WarmerHolds => pc'[w] = pc[w] /\ sbx'[w] = sbx[w]
    BY <1>2, OwnerFrame DEF WarmerHolds
  <2>2. CASE CloseDrain
    <3>1. alive' = alive /\ (warm' = warm \/ (warm # <<>> /\ warm' = Tail(warm)))
      BY <2>2 DEF CloseDrain, service
    <3>2. Range(warm') \subseteq Range(warm)
      BY <1>0, <3>1, TailRange
    <3>3. QED BY <1>0, <2>1, <3>1, <3>2 DEF Stocked, WarmIsLive
  <2>3. ASSUME NEW s \in Sandboxes, CloseDelete(s) PROVE Stocked'
    <3>1. opc = "sweep" /\ warm' = warm
      BY <2>3 DEF CloseDelete
    <3>2. warm' = <<>> /\ \A w \in Warmers : pc[w] = "off"
      BY <3>1, SingleOff DEF Swept, Running
    <3>3. QED BY <2>1, <3>2 DEF Stocked, WarmIsLive, WarmerHolds, Range
  <2>4. CASE Open \/ CloseBegin \/ CloseJoin \/ CloseList \/ CloseEnd
    <3>1. UNCHANGED <<alive, warm>>
      BY <2>4 DEF Open, StartWarmer, CloseBegin, CloseJoin, CloseList, CloseEnd, service
    <3>2. QED BY <2>1, <3>1 DEF Stocked, WarmIsLive
  <2>5. QED BY <1>2, <2>2, <2>3, <2>4 DEF Owner
<1>3. ASSUME NEW c \in Callers, Caller(c) PROVE Stocked'
  <2>1. \A w \in Warmers : pc'[w] = pc[w] /\ sbx'[w] = sbx[w]
    BY <1>3, CallerFrame
  <2>2. CASE ReleaseDelete(c)
    <3>1. warm' = warm /\ alive \ {sbx[c]} \subseteq alive'
      BY <2>2 DEF ReleaseDelete, Delete, DeleteRaises
    <3>2. sbx[c] \in Sandboxes
      BY <2>2 DEF ReleaseDelete, Typed, HandlesTyped, CallerHolds
    <3>3. sbx[c] \notin Range(warm) /\ \A w \in Warmers : sbx[w] # sbx[c]
      BY <3>2, ThreadsAssumption, SandboxAssumption
      DEF ExclusiveLease, Range, Threads
    <3>4. QED BY <1>0, <2>1, <3>1, <3>3 DEF Stocked, WarmIsLive
  <2>3. CASE ~ReleaseDelete(c)
    <3>1. alive \subseteq alive'
      BY <1>3, <2>3
      DEF Caller, AcquireWarm, AcquireSignal, AcquireCold, AcquireCreate,
          AcquireRecord, ReleaseBegin, ReleaseEnd, WaitBegin, WaitReady,
          WaitEnd, Create, CreateRaises, service
    <3>2. warm' = warm \/ (warm # <<>> /\ warm' = Tail(warm))
      BY <1>3, <2>3
      DEF Caller, AcquireWarm, AcquireSignal, AcquireCold, AcquireCreate,
          AcquireRecord, ReleaseBegin, ReleaseEnd, WaitBegin, WaitReady,
          WaitEnd
    <3>3. Range(warm') \subseteq Range(warm)
      BY <1>0, <3>2, TailRange
    <3>4. QED BY <1>0, <2>1, <3>1, <3>3 DEF Stocked, WarmIsLive
  <2>4. QED BY <2>2, <2>3
<1>4. ASSUME NEW w \in Warmers, Warmer(w) PROVE Stocked'
  <2> w \in Threads
    BY DEF Threads
  <2>1. alive \subseteq alive'
    BY <1>4 DEF Warmer, WarmerLoop, WarmerWake, WarmerTimeout, WarmerClear,
                WarmerLock, WarmerCreate, WarmerCreateRaises, WarmerRecord,
                WarmerPut, Create, CreateRaises, service
  <2>2. \A l, s : Goto(w, l, s) =>
           /\ pc'[w] = l /\ sbx'[w] = s
           /\ \A v \in Warmers : v # w => pc'[v] = pc[v] /\ sbx'[v] = sbx[v]
    BY DEF Goto, Typed, TypeOK, Threads
  <2>3. CASE WarmerPut(w)
    <3>1. sbx[w] \in alive /\ sbx[w] \in Sandboxes
      BY <2>3 DEF WarmerPut, Stocked, WarmerHolds, Typed, HandlesTyped
    <3>2. Range(warm') = Range(warm) \cup {sbx[w]}
      BY <1>0, <2>3, <3>1, AppendRange DEF WarmerPut
    <3>3. \A v \in Warmers : pc'[v] \in WarmerHolds => pc'[v] = pc[v] /\ sbx'[v] = sbx[v]
      BY <2>2, <2>3 DEF WarmerPut, WarmerHolds
    <3>4. QED BY <1>0, <2>1, <3>1, <3>2, <3>3 DEF Stocked, WarmIsLive
  <2>4. CASE ~WarmerPut(w)
    <3>1. warm' = warm
      BY <1>4, <2>4
      DEF Warmer, WarmerLoop, WarmerWake, WarmerTimeout, WarmerClear,
          WarmerLock, WarmerCreate, WarmerCreateRaises, WarmerRecord
    <3>2. pc'[w] \in WarmerHolds => sbx'[w] \in alive'
      <4>1. CASE WarmerCreate(w)
        BY <2>2, <4>1 DEF WarmerCreate, Create
      <4>2. CASE WarmerRecord(w)
        BY <2>1, <2>2, <4>2 DEF WarmerRecord, Stocked, WarmerHolds
      <4>3. CASE ~WarmerCreate(w) /\ ~WarmerRecord(w)
        BY <1>4, <2>2, <2>4, <4>3
        DEF Warmer, WarmerLoop, WarmerWake, WarmerTimeout, WarmerClear,
            WarmerLock, WarmerCreateRaises, WarmerHolds
      <4>4. QED BY <4>1, <4>2, <4>3
    <3>3. \E l, s : Goto(w, l, s)
      BY <1>4, <2>4
      DEF Warmer, WarmerLoop, WarmerWake, WarmerTimeout, WarmerClear,
          WarmerLock, WarmerCreate, WarmerCreateRaises, WarmerRecord
    <3>4. QED BY <1>0, <2>1, <2>2, <3>1, <3>2, <3>3 DEF Stocked, WarmIsLive
  <2>5. QED BY <2>3, <2>4
<1>5. QED BY <1>1, <1>2, <1>3, <1>4 DEF Next, Done

LEMMA AwakeNext ==
  Typed /\ WarmerInv /\ Single /\ Awake /\ [Next]_vars => Awake'
<1> SUFFICES ASSUME Typed, WarmerInv, Single, Awake, [Next]_vars PROVE Awake'
  OBVIOUS
<1>1. CASE UNCHANGED vars
  BY <1>1 DEF vars, Awake
<1>2. CASE Owner
  <2>1. \A w \in Warmers : pc'[w] = "wait" => pc[w] = "wait"
    BY <1>2, OwnerFrame
  <2>2. \A c \in Callers : pc'[c] = pc[c]
    BY <1>2, OwnerFrame
  <2>3. CASE Open \/ CloseBegin
    BY <2>1, <2>2, <2>3 DEF Open, StartWarmer, CloseBegin, Awake, events
  <2>4. CASE CloseDrain
    <3>1. \A w \in Warmers : pc[w] # "wait"
      BY <2>4, SingleOff DEF CloseDrain, Running
    <3>2. QED BY <2>1, <3>1 DEF Awake
  <2>5. CASE CloseJoin \/ CloseList \/ CloseEnd
             \/ \E s \in Sandboxes : CloseDelete(s)
    BY <2>1, <2>2, <2>5
    DEF CloseJoin, CloseList, CloseEnd, CloseDelete, Awake, events
  <2>6. QED BY <1>2, <2>3, <2>4, <2>5 DEF Owner
<1>3. ASSUME NEW c \in Callers, Caller(c) PROVE Awake'
  <2>0. c \in Threads
    BY DEF Threads
  <2>1. /\ \A w \in Warmers : pc'[w] = pc[w]
        /\ \A d \in Callers : d # c => pc'[d] = pc[d]
        /\ stop' = stop
    BY <1>3, CallerFrame
  <2>2. CASE AcquireWarm(c)
    <3>1. pc'[c] = "signal"
      BY <2>0, <2>2 DEF AcquireWarm, Goto, Typed, TypeOK
    <3>2. QED BY <3>1 DEF Awake
  <2>3. CASE AcquireSignal(c)
    BY <2>3 DEF AcquireSignal, Awake
  <2>4. CASE ~AcquireWarm(c) /\ ~AcquireSignal(c)
    <3>1. CASE ReleaseEnd(c)
      <4>1. warm' = warm /\ pc[c] # "signal"
        BY <3>1 DEF ReleaseEnd
      <4>2. refill => refill'
        BY <3>1, Zenon DEF ReleaseEnd
      <4>3. QED BY <2>1, <4>1, <4>2 DEF Awake
    <3>2. CASE ~ReleaseEnd(c)
      <4>1. UNCHANGED <<warm, refill>> /\ pc[c] # "signal"
        BY <1>3, <2>4, <3>2
        DEF Caller, AcquireCold, AcquireCreate, AcquireRecord, ReleaseBegin,
            ReleaseDelete, WaitBegin, WaitReady, WaitEnd, events
      <4>2. QED BY <2>1, <4>1 DEF Awake
    <3>3. QED BY <3>1, <3>2
  <2>5. QED BY <2>2, <2>3, <2>4
<1>4. ASSUME NEW w \in Warmers, Warmer(w) PROVE Awake'
  <2>0. w \in Threads
    BY DEF Threads
  <2>1. /\ \A v \in Warmers : v # w => pc'[v] = pc[v]
        /\ \A c \in Callers : pc'[c] = pc[c]
        /\ stop' = stop /\ pc[w] # "off"
    BY <1>4, WarmerFrame
  <2>2. \A v \in Warmers : v # w => pc'[v] # "wait"
    BY <2>1, ThreadsAssumption DEF Single, Running
  <2>3. CASE WarmerLoop(w)
    <3>1. pc'[w] = "wait" => ~stop /\ Len(warm) >= WarmSize
      BY <2>0, <2>3 DEF WarmerLoop, Goto, Typed, TypeOK
    <3>2. warm' = warm
      BY <2>3 DEF WarmerLoop
    <3>3. Len(warm) \in Nat /\ WarmSize \in Nat
      BY SizeAssumption DEF Typed, TypeOK
    <3>4. QED BY <2>1, <2>2, <3>1, <3>2, <3>3 DEF Awake
  <2>4. CASE ~WarmerLoop(w)
    <3>1. \E l \in WarmerPC \ {"wait"} : \E s : Goto(w, l, s)
      BY <1>4, <2>4
      DEF Warmer, WarmerWake, WarmerTimeout, WarmerClear, WarmerLock,
          WarmerCreate, WarmerCreateRaises, WarmerRecord, WarmerPut, WarmerPC
    <3>2. pc'[w] # "wait"
      BY <2>0, <3>1 DEF Goto, Typed, TypeOK
    <3>3. QED BY <2>2, <3>2 DEF Awake
  <2>5. QED BY <2>3, <2>4
<1>5. QED BY <1>1, <1>2, <1>3, <1>4 DEF Next, Done

PunctualInv == /\ AccountedInv /\ ExclusiveLease /\ WarmerInv
               /\ Single /\ Swept /\ Stocked /\ Awake

LEMMA PunctualInit == Init => PunctualInv
<1> SUFFICES ASSUME Init PROVE PunctualInv
  OBVIOUS
<1>1. AccountedInv /\ ExclusiveLease /\ WarmerInv
  BY TypedInit, AccountedInit, ExclusiveInit, WarmerInvInit DEF AccountedInv
<1>2. /\ \A w \in Warmers : pc[w] = "off"
      /\ warm = <<>> /\ DOMAIN warm = {} /\ active = {} /\ opc = "out"
  BY ThreadsAssumption DEF Init, Threads
<1>3. Single /\ Swept /\ Stocked /\ Awake
  BY <1>2 DEF Single, Running, Swept, Stocked, WarmIsLive, Range,
              WarmerHolds, Awake
<1>4. QED BY <1>1, <1>3 DEF PunctualInv

LEMMA PunctualNext ==
  PunctualInv /\ ~CreateOutlivesJoin /\ [Next]_vars => PunctualInv'
<1> SUFFICES ASSUME PunctualInv, ~CreateOutlivesJoin, [Next]_vars
             PROVE  PunctualInv'
  OBVIOUS
<1>1. AccountedInv' /\ ExclusiveLease' /\ WarmerInv'
  BY AccountedNext, ExclusiveNext, WarmerInvNext DEF PunctualInv, AccountedInv
<1>2. Single' /\ Swept' /\ Stocked' /\ Awake'
  BY SingleNext, SweptNext, StockedNext, AwakeNext DEF PunctualInv, AccountedInv
<1>3. QED BY <1>1, <1>2 DEF PunctualInv

\* If join() waits for the warmer (no create outlasts its five seconds), then
\* close() leaves nothing that bills behind: what exists after it hides behind
\* a service call that raised or was brought in by a caller too late to sweep.
THEOREM CloseCleans == ASSUME ~CreateOutlivesJoin PROVE Spec => []ClosedClean
<1>1. Spec => []PunctualInv
  BY PunctualInit, PunctualNext, PTL DEF Spec
<1>2. PunctualInv => ClosedClean
  <2> SUFFICES ASSUME PunctualInv, ~clients
               PROVE  alive \subseteq orphans \cup late \cup InFlight
    BY DEF ClosedClean
  <2>1. \A w \in Warmers : pc[w] = "off"
    BY SingleOff DEF PunctualInv, AccountedInv, Running
  <2>2. \A c \in Callers : pc[c] # "created"
    BY DEF PunctualInv, AccountedInv, Typed, TypeOK, CallerPC
  <2>3. Unrecorded \subseteq InFlight
    BY <2>1, <2>2 DEF Unrecorded, InFlight, Threads
  <2>4. QED BY <2>3 DEF PunctualInv, AccountedInv, Accounted, Swept
<1>3. QED BY <1>1, <1>2, PTL

\* Under the same condition every id in the warm queue is a sandbox that
\* exists, also after the pool was closed and opened again.
THEOREM WarmQueueLive == ASSUME ~CreateOutlivesJoin PROVE Spec => []WarmIsLive
<1>1. Spec => []PunctualInv
  BY PunctualInit, PunctualNext, PTL DEF Spec
<1>2. PunctualInv => WarmIsLive
  BY DEF PunctualInv, Stocked
<1>3. QED BY <1>1, <1>2, PTL

\* Under the same condition the warmer never sleeps on work without an event
\* set, or about to be set, to wake it: its one-second timeout is not needed.
THEOREM WakeupKept == ASSUME ~CreateOutlivesJoin PROVE Spec => []NoLostWakeup
<1>1. Spec => []PunctualInv
  BY PunctualInit, PunctualNext, PTL DEF Spec
<1>2. PunctualInv => NoLostWakeup
  BY DEF PunctualInv, Awake, NoLostWakeup, Running
<1>3. QED BY <1>1, <1>2, PTL
-----------------------------------------------------------------------------
(* The size of the queue.  A warmer enters Filling only while the queue is *)
(* below warm_size, and until then the others are all that can be there.   *)

\* What is filling is a set of warmers.
LEMMA FillingSize ==
  ASSUME IsFiniteSet(Warmers)
  PROVE  /\ IsFiniteSet(Filling) /\ Cardinality(Filling) \in Nat
         /\ Cardinality(Warmers) \in Nat
         /\ Cardinality(Filling) <= Cardinality(Warmers)
BY FS_Subset, FS_CardinalityType DEF Filling

\* A step that makes neither the queue longer nor another warmer busy.
LEMMA WarmBoundFrame ==
  ASSUME IsFiniteSet(Warmers), Typed, WarmBound,
         Filling' \subseteq Filling, Len(warm') \in Nat, Len(warm') <= Len(warm)
  PROVE  WarmBound'
<1>1. Cardinality(Filling') <= Cardinality(Filling) /\ Cardinality(Filling') \in Nat
  BY FillingSize, FS_Subset, FS_CardinalityType
<1>2. Len(warm) \in Nat /\ WarmSize \in Nat
  BY SizeAssumption DEF Typed, TypeOK
<1>3. QED BY <1>1, <1>2, FillingSize DEF WarmBound

LEMMA WarmBoundOwner ==
  ASSUME IsFiniteSet(Warmers), Typed, WarmBound, Owner PROVE WarmBound'
<1>1. Filling' \subseteq Filling
  <2>1. CASE pc' = pc
    BY <2>1 DEF Filling
  <2>2. ASSUME NEW w \in Warmers, pc' = [pc EXCEPT ![w] = "loop"]
        PROVE  Filling' \subseteq Filling
    BY <2>2 DEF Filling, Typed, TypeOK, Threads
  <2>3. QED BY <2>1, <2>2 DEF Owner, Open, StartWarmer, CloseBegin, CloseJoin, CloseDrain,
                CloseList, CloseDelete, CloseEnd, threads
<1>2. CASE CloseDrain /\ warm # <<>>
  <2>1. warm' = Tail(warm) /\ Len(Tail(warm)) = Len(warm) - 1 /\ Len(warm) \in Nat \ {0}
    BY <1>2 DEF CloseDrain, Typed, TypeOK
  <2>2. QED BY <1>1, <2>1, WarmBoundFrame
<1>3. CASE ~(CloseDrain /\ warm # <<>>)
  <2>1. UNCHANGED warm
    BY <1>3 DEF Owner, Open, StartWarmer, CloseBegin, CloseJoin, CloseDrain, CloseList,
                CloseDelete, CloseEnd
  <2>2. Len(warm) \in Nat
    BY DEF Typed, TypeOK
  <2>3. QED BY <1>1, <2>1, <2>2, WarmBoundFrame
<1>4. QED BY <1>2, <1>3

LEMMA WarmBoundCaller ==
  ASSUME IsFiniteSet(Warmers), NEW c \in Callers, Typed, WarmBound, Caller(c)
  PROVE  WarmBound'
<1>1. \A w \in Warmers : pc'[w] = pc[w]
  BY ThreadsAssumption
  DEF Caller, AcquireWarm, AcquireSignal, AcquireCold, AcquireCreate, AcquireRecord,
      ReleaseBegin, ReleaseDelete, ReleaseEnd, WaitBegin, WaitReady, WaitEnd, Goto,
      Typed, TypeOK, Threads
<1>2. Filling' = Filling
  BY <1>1 DEF Filling
<1>3. Len(warm) \in Nat
  BY DEF Typed, TypeOK
<1>4. CASE AcquireWarm(c)
  <2>1. warm' = Tail(warm) /\ Len(Tail(warm)) = Len(warm) - 1 /\ Len(warm) \in Nat \ {0}
    BY <1>4 DEF AcquireWarm, Typed, TypeOK
  <2>2. QED BY <1>2, <2>1, WarmBoundFrame
<1>5. CASE ~AcquireWarm(c)
  <2>1. UNCHANGED warm
    BY <1>5
    DEF Caller, AcquireSignal, AcquireCold, AcquireCreate, AcquireRecord,
        ReleaseBegin, ReleaseDelete, ReleaseEnd, WaitBegin, WaitReady, WaitEnd
  <2>2. QED BY <1>2, <1>3, <2>1, WarmBoundFrame
<1>6. QED BY <1>4, <1>5

LEMMA WarmBoundWarmer ==
  ASSUME IsFiniteSet(Warmers), NEW w \in Warmers, Typed, WarmBound, Warmer(w)
  PROVE  WarmBound'
<1> USE DEF Goto
<1>1. /\ Len(warm) \in Nat /\ WarmSize \in Nat
      /\ \A l : pc' = [pc EXCEPT ![w] = l] =>
            \A v \in Warmers : pc'[v] = IF v = w THEN l ELSE pc[v]
  BY SizeAssumption DEF Typed, TypeOK, Threads
<1>2. CASE WarmerLoop(w) /\ Len(warm) < WarmSize
  <2>1. UNCHANGED warm
    BY <1>2 DEF WarmerLoop
  <2>2. /\ Cardinality(Filling') \in Nat /\ Cardinality(Warmers) \in Nat
        /\ Cardinality(Filling') <= Cardinality(Warmers)
    BY FS_Subset, FS_CardinalityType DEF Filling
  <2>3. QED BY <1>1, <1>2, <2>1, <2>2 DEF WarmBound
<1>3. CASE WarmerPut(w)
  <2>1. pc[w] = "put" /\ \A v \in Warmers : pc'[v] = IF v = w THEN "loop" ELSE pc[v]
    BY <1>1, <1>3 DEF WarmerPut
  <2>2. w \in Filling /\ Filling' = Filling \ {w}
    BY <2>1 DEF Filling
  <2>3. Len(warm') = Len(warm) + 1
    BY <1>3 DEF WarmerPut, Typed, TypeOK, HandlesTyped, WarmerHolds
  <2>4. Cardinality(Filling') = Cardinality(Filling) - 1
    BY <2>2, FillingSize, FS_RemoveElement
  <2>5. QED BY <1>1, <2>3, <2>4, FillingSize DEF WarmBound
<1>4. CASE ~WarmerPut(w) /\ ~(WarmerLoop(w) /\ Len(warm) < WarmSize)
  <2>1. UNCHANGED warm
    BY <1>4
    DEF Warmer, WarmerLoop, WarmerWake, WarmerTimeout, WarmerClear, WarmerLock,
        WarmerCreate, WarmerCreateRaises, WarmerRecord
  <2>2. Filling' \subseteq Filling
    <3> DEFINE Busy == {"lock", "create", "created", "put"}
    <3>1. /\ pc'[w] \in Busy => pc[w] \in Busy
          /\ \A v \in Warmers \ {w} : pc'[v] = pc[v]
      BY <1>1, <1>4
      DEF Warmer, WarmerLoop, WarmerWake, WarmerTimeout, WarmerClear, WarmerLock,
          WarmerCreate, WarmerCreateRaises, WarmerRecord, Typed, TypeOK, Threads
    <3>2. QED BY <3>1 DEF Filling
  <2>3. QED BY <1>1, <2>1, <2>2, WarmBoundFrame
<1>5. QED BY <1>2, <1>3, <1>4

\* The queue overshoots warm_size by at most one sandbox per straggler, for
\* every number of warmers at a time.
THEOREM WarmBounded ==
  ASSUME IsFiniteSet(Warmers), Warmers # {} PROVE Spec => []WarmBound
<1>1. Init => WarmBound
  <2> SUFFICES ASSUME Init PROVE WarmBound
    OBVIOUS
  <2>2. Filling = {} /\ Len(warm) = 0
    <3>1. \A w \in Warmers : pc[w] = "off"
      BY ThreadsAssumption DEF Init, Threads
    <3>2. QED BY <3>1 DEF Init, Filling
  <2>3. Cardinality(Warmers) \in Nat \ {0}
    BY FS_CardinalityType, FS_EmptySet
  <2>4. QED BY <2>2, <2>3, FS_EmptySet, SizeAssumption DEF WarmBound
<1>2. Typed /\ WarmBound /\ [Next]_vars => WarmBound'
  <2> SUFFICES ASSUME Typed, WarmBound, [Next]_vars PROVE WarmBound'
    OBVIOUS
  <2>2. CASE UNCHANGED vars
    <3>1. pc' = pc /\ warm' = warm /\ Len(warm) \in Nat
      BY <2>2 DEF vars, Typed, TypeOK
    <3>2. Filling' = Filling
      BY <3>1 DEF Filling
    <3>3. QED BY <3>1, <3>2, WarmBoundFrame
  <2>3. CASE Owner
    BY <2>3, WarmBoundOwner
  <2>4. CASE \E c \in Callers : Caller(c)
    BY <2>4, WarmBoundCaller
  <2>5. CASE \E w \in Warmers : Warmer(w)
    BY <2>5, WarmBoundWarmer
  <2>6. QED BY <2>2, <2>3, <2>4, <2>5 DEF Next, Done
<1>3. Spec => [](Typed /\ WarmBound)
  BY <1>1, <1>2, TypedInit, TypedNext, PTL DEF Spec
<1>4. QED BY <1>3, PTL
=============================================================================
