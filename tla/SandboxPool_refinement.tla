---------------------- MODULE SandboxPool_refinement ----------------------
(***************************************************************************)
(* SandboxPool implements SandboxLease, for every set of callers, warmers  *)
(* and ids: each step moves one id from place to place as SandboxLease     *)
(* allows, or nothing that SandboxLease knows of.                          *)
(***************************************************************************)
EXTENDS SandboxPool_proofs

\* Labels at which a caller's id is leased to it, a warmer's id is the pool's.
Given == {"signal", "record"}
Stocking == {"created", "put"}

-----------------------------------------------------------------------------
(* The mapping, element by element.                                        *)

\* What is leased to a caller.
LEMMA LeasedTo ==
  /\ Leased = [c \in Callers |-> held[c] \cup IF pc[c] \in Given THEN {sbx[c]} ELSE {}]
  /\ Leased' = [c \in Callers |->
                  held'[c] \cup IF pc'[c] \in Given THEN {sbx'[c]} ELSE {}]
BY DEF Leased, InHand, Given

\* What is idle.
LEMMA IdleIs ==
  /\ \A s : s \in Idle <=> \/ \E i \in DOMAIN warm : warm[i] = s
                           \/ \E w \in Warmers : pc[w] \in Stocking /\ sbx[w] = s
  /\ \A s : s \in Idle' <=> \/ \E i \in DOMAIN warm' : warm'[i] = s
                            \/ \E w \in Warmers : pc'[w] \in Stocking /\ sbx'[w] = s
BY DEF Idle, InHand, Stocking, Range

\* A Free id is nobody's, and does not exist.
LEMMA FreeIsNew == ASSUME Typed, NEW s \in Free
                   PROVE  s \in Sandboxes /\ s \notin alive \cup Lease!Kept
<1>1. s \in Sandboxes /\ s \notin alive
  BY DEF Free, Referenced
<1>2. /\ \A i \in DOMAIN warm : warm[i] # s
      /\ \A t \in Threads : sbx[t] # s
      /\ \A c \in Callers : s \notin held[c]
  BY DEF Free, Referenced, Range, Typed, TypeOK
<1>3. s \notin Idle
  BY <1>2, IdleIs DEF Threads
<1>4. \A c \in Callers : s \notin Leased[c]
  BY <1>2, LeasedTo DEF Threads
<1>5. QED BY <1>1, <1>3, <1>4 DEF Lease!Kept

\* A step that changes nothing of a warmer and of the queue.
LEMMA IdleFrame ==
  ASSUME UNCHANGED warm,
         \A w \in Warmers : \/ pc'[w] = pc[w] /\ sbx'[w] = sbx[w]
                            \/ pc[w] \notin Stocking /\ pc'[w] \notin Stocking
  PROVE  Idle' = Idle
BY IdleIs

\* A step that changes nothing of what is leased to any caller.
LEMMA LeasedFrame ==
  ASSUME UNCHANGED held,
         \A c \in Callers : \/ pc'[c] = pc[c] /\ sbx'[c] = sbx[c]
                            \/ pc[c] \notin Given /\ pc'[c] \notin Given
  PROVE  Leased' = Leased
<1>1. \A c \in Callers : (IF pc'[c] \in Given THEN {sbx'[c]} ELSE {})
                           = (IF pc[c] \in Given THEN {sbx[c]} ELSE {})
  OBVIOUS
<1>2. QED BY <1>1, LeasedTo

\* The head of the queue leaves it: it is idle no more.
LEMMA PopIdle ==
  ASSUME Typed, ExclusiveLease, warm # <<>>, warm' = Tail(warm),
         \A w \in Warmers : pc'[w] = pc[w] /\ sbx'[w] = sbx[w]
  PROVE  /\ Head(warm) \in Sandboxes /\ Head(warm) \in Idle
         /\ Idle' = Idle \ {Head(warm)}
<1>1. /\ Head(warm) = warm[1] /\ 1 \in DOMAIN warm /\ Head(warm) \in Sandboxes
      /\ DOMAIN warm \subseteq Nat
      /\ \A i \in DOMAIN warm' : i + 1 \in DOMAIN warm /\ i + 1 # 1 /\ warm'[i] = warm[i + 1]
      /\ \A i \in DOMAIN warm : i # 1 => i - 1 \in DOMAIN warm' /\ warm'[i - 1] = warm[i]
  BY DEF Typed, TypeOK
<1>2. \A w \in Warmers : sbx[w] # Head(warm)
  BY <1>1 DEF ExclusiveLease, Threads
<1>3. \A s : (\E i \in DOMAIN warm' : warm'[i] = s)
             <=> (s # Head(warm) /\ \E i \in DOMAIN warm : warm[i] = s)
  <2>1. ASSUME NEW i \in DOMAIN warm'
        PROVE  warm'[i] # Head(warm) /\ \E j \in DOMAIN warm : warm[j] = warm'[i]
    BY <1>1 DEF ExclusiveLease
  <2>2. ASSUME NEW i \in DOMAIN warm, warm[i] # Head(warm)
        PROVE  \E j \in DOMAIN warm' : warm'[j] = warm[i]
    <3>1. i # 1
      BY <1>1, <2>2
    <3>2. i - 1 \in DOMAIN warm' /\ warm'[i - 1] = warm[i]
      BY <1>1, <3>1
    <3>3. QED BY <3>2
  <2>3. QED BY <2>1, <2>2
<1>4. Head(warm) \in Idle
  BY <1>1, IdleIs
<1>5. \A s : s \in Idle' <=> s \in Idle /\ s # Head(warm)
  BY <1>2, <1>3, IdleIs
<1>6. QED BY <1>1, <1>4, <1>5

\* The same of a step of one caller, or of one warmer.
LEMMA OtherThreads ==
  ASSUME Typed, NEW t \in Threads, NEW l, NEW s, Goto(t, l, s)
  PROVE  /\ pc'[t] = l /\ sbx'[t] = s
         /\ \A u \in Threads \ {t} : pc'[u] = pc[u] /\ sbx'[u] = sbx[u]
BY DEF Typed, TypeOK, Goto

\* What nobody leased or stocked may be deleted, or anything while close() runs.
LEMMA DeleteAllowed ==
  ASSUME NEW s \in Sandboxes, Delete(s), UNCHANGED <<clients, opc, Idle, Leased>>,
         (clients /\ opc = "out") => s \notin Lease!Kept
  PROVE  [Lease!Next]_(Lease!vars)
<1>1. CASE s \in alive
  BY <1>1 DEF Delete, Lease!Next, Lease!Destroy
<1>2. CASE s \notin alive
  BY <1>2 DEF Delete, Lease!vars
<1>3. QED BY <1>1, <1>2

\* A create that raises: nothing, or a sandbox nobody knows of.
LEMMA LostAllowed ==
  ASSUME Typed, CreateRaises, UNCHANGED <<clients, opc, Idle, Leased>>
  PROVE  [Lease!Next]_(Lease!vars)
<1>1. CASE UNCHANGED alive
  BY <1>1 DEF Lease!vars
<1>2. ASSUME NEW s \in Free, alive' = alive \cup {s} PROVE Lease!Next
  <2>1. Lease!Lose(s)
    BY <1>2, FreeIsNew DEF Lease!Lose, Lease!Appear
  <2>2. QED BY <2>1, FreeIsNew DEF Lease!Next
<1>3. QED BY <1>1, <1>2 DEF CreateRaises, service

-----------------------------------------------------------------------------
(* One lemma per thread: every step is one of SandboxLease, or none.       *)

\* The owner's steps switch, withdraw and destroy.
LEMMA OwnerRefines ==
  ASSUME Typed, ExclusiveLease, Owner PROVE [Lease!Next]_(Lease!vars)
<1>1. CASE Open
  <2>1. \A t \in Threads : pc'[t] = pc[t] \/ (pc[t] = "off" /\ pc'[t] = "loop")
    BY <1>1 DEF Open, StartWarmer, Typed, TypeOK, Threads
  <2>2. UNCHANGED <<warm, sbx, held, alive>>
    BY <1>1 DEF Open, service
  <2>3. Idle' = Idle
    BY <2>1, <2>2, IdleFrame DEF Threads, Stocking
  <2>4. Leased' = Leased
    BY <2>1, <2>2, LeasedFrame DEF Threads, Given
  <2>5. QED BY <1>1, <2>2, <2>3, <2>4 DEF Open, Lease!Next, Lease!Switch
<1>2. CASE CloseBegin \/ CloseJoin \/ CloseList \/ CloseEnd
           \/ (CloseDrain /\ warm = <<>>)
  <2>1. UNCHANGED <<warm, sbx, pc, held, alive>>
    BY <1>2 DEF CloseBegin, CloseJoin, CloseList, CloseEnd, CloseDrain, service, threads
  <2>2. Idle' = Idle /\ Leased' = Leased
    BY <2>1, IdleFrame, LeasedFrame
  <2>3. (clients /\ opc = "out")' \in BOOLEAN
    OBVIOUS
  <2>4. QED BY <2>1, <2>2, <2>3 DEF Lease!Next, Lease!Switch
<1>3. CASE CloseDrain /\ warm # <<>>
  <2> DEFINE s == Head(warm)
  <2>1. /\ warm' = Tail(warm) /\ opc = "drain" /\ opc' = opc
        /\ UNCHANGED <<sbx, pc, held, alive, clients>>
    BY <1>3 DEF CloseDrain, service, threads
  <2>2. s \in Sandboxes /\ s \in Idle /\ Idle' = Idle \ {s}
    BY <1>3, <2>1, PopIdle
  <2>3. Leased' = Leased
    BY <2>1, LeasedFrame
  <2>4. Lease!Withdraw(s)
    BY <2>1, <2>2, <2>3 DEF Lease!Withdraw
  <2>5. QED BY <2>2, <2>4 DEF Lease!Next
<1>4. ASSUME NEW s \in Sandboxes, CloseDelete(s) PROVE [Lease!Next]_(Lease!vars)
  <2>1. UNCHANGED <<warm, sbx, pc, held, clients, opc>> /\ opc = "sweep"
    BY <1>4 DEF CloseDelete, threads
  <2>2. Idle' = Idle /\ Leased' = Leased
    BY <2>1, IdleFrame, LeasedFrame
  <2>3. CASE Delete(s)
    BY <2>1, <2>2, <2>3, DeleteAllowed
  <2>4. CASE UNCHANGED alive
    BY <2>1, <2>2, <2>4 DEF Lease!vars
  <2>5. QED BY <1>4, <2>3, <2>4 DEF CloseDelete, DeleteRaises
<1>5. QED BY <1>1, <1>2, <1>3, <1>4 DEF Owner

\* A caller's steps lend, make and return, and delete what was returned.
LEMMA CallerRefines ==
  ASSUME NEW c \in Callers, Typed, ExclusiveLease, Caller(c)
  PROVE  [Lease!Next]_(Lease!vars)
<1> USE DEF Given
<1> c \in Threads /\ (\A d \in Callers \ {c} : d \in Threads \ {c})
                 /\ (\A w \in Warmers : w \in Threads \ {c})
  BY ThreadsAssumption DEF Threads
<1>1. CASE AcquireWarm(c)
  <2> DEFINE s == Head(warm)
  <2>1. /\ pc[c] = "idle" /\ warm # <<>> /\ warm' = Tail(warm) /\ Goto(c, "signal", s)
        /\ UNCHANGED <<alive, held, clients, opc>>
    BY <1>1 DEF AcquireWarm, service, owner
  <2>2. /\ pc'[c] = "signal" /\ sbx'[c] = s
        /\ \A u \in Threads \ {c} : pc'[u] = pc[u] /\ sbx'[u] = sbx[u]
    BY <2>1, OtherThreads
  <2>3. s \in Sandboxes /\ s \in Idle /\ Idle' = Idle \ {s}
    BY <2>1, <2>2, PopIdle
  <2>4. Leased' = [Leased EXCEPT ![c] = @ \cup {s}]
    BY <2>1, <2>2, LeasedTo
  <2>5. Lease!Lend(c, s)
    BY <2>1, <2>3, <2>4 DEF Lease!Lend
  <2>6. QED BY <2>3, <2>5 DEF Lease!Next
<1>2. CASE AcquireSignal(c) \/ AcquireRecord(c)
  <2>1. /\ pc[c] \in Given /\ Goto(c, "idle", NoSandbox)
        /\ held' = [held EXCEPT ![c] = @ \cup {sbx[c]}]
        /\ UNCHANGED <<alive, warm, clients, opc>>
    BY <1>2 DEF AcquireSignal, AcquireRecord, service, owner
  <2>2. /\ pc'[c] = "idle"
        /\ \A u \in Threads \ {c} : pc'[u] = pc[u] /\ sbx'[u] = sbx[u]
    BY <2>1, OtherThreads
  <2>3. Idle' = Idle
    BY <2>1, <2>2, IdleFrame
  <2>4. \A d \in Callers : held'[d] = IF d = c THEN held[c] \cup {sbx[c]} ELSE held[d]
    BY <2>1 DEF Typed, TypeOK
  <2>5. Leased' = Leased
    <3>1. \A d \in Callers : held'[d] \cup (IF pc'[d] \in Given THEN {sbx'[d]} ELSE {})
                              = held[d] \cup (IF pc[d] \in Given THEN {sbx[d]} ELSE {})
      BY <2>1, <2>2, <2>4
    <3>2. QED BY <3>1, LeasedTo
  <2>6. QED BY <2>1, <2>3, <2>5 DEF Lease!vars
<1>3. ASSUME NEW s \in Sandboxes, AcquireCreate(c), Create(s), Goto(c, "record", s)
      PROVE  [Lease!Next]_(Lease!vars)
  <2>1. /\ pc[c] = "create" /\ s \in Free /\ alive' = alive \cup {s}
        /\ UNCHANGED <<warm, held, clients, opc>>
    BY <1>3 DEF AcquireCreate, Create, owner
  <2>2. /\ pc'[c] = "record" /\ sbx'[c] = s
        /\ \A u \in Threads \ {c} : pc'[u] = pc[u] /\ sbx'[u] = sbx[u]
    BY <1>3, OtherThreads
  <2>3. Idle' = Idle
    BY <2>1, <2>2, IdleFrame
  <2>4. Leased' = [Leased EXCEPT ![c] = @ \cup {s}]
    BY <2>1, <2>2, LeasedTo
  <2>5. Lease!Make(c, s)
    BY <2>1, <2>3, <2>4, FreeIsNew DEF Lease!Make, Lease!Appear
  <2>6. QED BY <2>5 DEF Lease!Next
<1>4. CASE AcquireCreate(c) /\ CreateRaises /\ Goto(c, "idle", NoSandbox)
  <2>1. pc[c] = "create" /\ UNCHANGED <<warm, held, clients, opc>>
    BY <1>4 DEF AcquireCreate, owner
  <2>2. /\ pc'[c] = "idle"
        /\ \A u \in Threads \ {c} : pc'[u] = pc[u] /\ sbx'[u] = sbx[u]
    BY <1>4, OtherThreads
  <2>3. Idle' = Idle /\ Leased' = Leased
    BY <2>1, <2>2, IdleFrame, LeasedFrame
  <2>4. QED BY <1>4, <2>1, <2>3, LostAllowed
<1>5. CASE ReleaseBegin(c)
  <2>1. PICK s \in held[c] : held' = [held EXCEPT ![c] = @ \ {s}] /\ Goto(c, "delete", s)
    BY <1>5 DEF ReleaseBegin
  <2>2. pc[c] = "idle" /\ UNCHANGED <<alive, warm, clients, opc>> /\ s \in Sandboxes
    BY <1>5 DEF ReleaseBegin, service, owner, Typed, TypeOK
  <2>3. /\ pc'[c] = "delete"
        /\ \A u \in Threads \ {c} : pc'[u] = pc[u] /\ sbx'[u] = sbx[u]
    BY <2>1, OtherThreads
  <2>4. Idle' = Idle
    BY <2>2, <2>3, IdleFrame
  <2>5. \A d \in Callers : held'[d] = IF d = c THEN held[c] \ {s} ELSE held[d]
    BY <2>1 DEF Typed, TypeOK
  <2>6. Leased' = [Leased EXCEPT ![c] = @ \ {s}] /\ s \in Leased[c]
    BY <2>2, <2>3, <2>5, LeasedTo
  <2>7. Lease!Return(c, s)
    BY <2>2, <2>4, <2>6 DEF Lease!Return
  <2>8. QED BY <2>2, <2>7 DEF Lease!Next
<1>6. CASE ReleaseDelete(c)
  <2>1. /\ pc[c] = "delete" /\ sbx[c] \in Sandboxes
        /\ UNCHANGED <<warm, held, clients, opc>>
    BY <1>6 DEF ReleaseDelete, owner, Typed, HandlesTyped, CallerHolds
  <2>2. /\ pc'[c] \in {"deleted", "raised"}
        /\ \A u \in Threads \ {c} : pc'[u] = pc[u] /\ sbx'[u] = sbx[u]
    BY <1>6, OtherThreads DEF ReleaseDelete
  <2>3. Idle' = Idle /\ Leased' = Leased
    BY <2>1, <2>2, IdleFrame, LeasedFrame
  <2>4. sbx[c] \notin Lease!Kept
    <3>1. sbx[c] # NoSandbox
      BY <2>1, SandboxAssumption
    <3>2. sbx[c] \notin Idle
      BY <3>1, IdleIs DEF ExclusiveLease
    <3>3. \A d \in Callers : sbx[c] \notin Leased[d]
      BY <2>1, <3>1, LeasedTo DEF ExclusiveLease
    <3>4. QED BY <3>2, <3>3 DEF Lease!Kept
  <2>5. CASE Delete(sbx[c])
    BY <2>1, <2>3, <2>4, <2>5, DeleteAllowed
  <2>6. CASE UNCHANGED alive
    BY <2>1, <2>3, <2>6 DEF Lease!vars
  <2>7. QED BY <1>6, <2>5, <2>6 DEF ReleaseDelete, DeleteRaises
<1>7. CASE AcquireCold(c) \/ ReleaseEnd(c) \/ WaitBegin(c) \/ WaitReady(c) \/ WaitEnd(c)
  <2>1. pc[c] \notin Given /\ UNCHANGED <<alive, warm, held, clients, opc>>
    BY <1>7 DEF AcquireCold, ReleaseEnd, WaitBegin, WaitReady, WaitEnd, service, owner
  <2>2. /\ pc'[c] \notin Given
        /\ \A u \in Threads \ {c} : pc'[u] = pc[u] /\ sbx'[u] = sbx[u]
    BY <1>7, OtherThreads DEF AcquireCold, ReleaseEnd, WaitBegin, WaitReady, WaitEnd
  <2>3. Idle' = Idle /\ Leased' = Leased
    BY <2>1, <2>2, IdleFrame, LeasedFrame
  <2>4. QED BY <2>1, <2>3 DEF Lease!vars
<1>8. QED BY <1>1, <1>2, <1>3, <1>4, <1>5, <1>6, <1>7 DEF Caller, AcquireCreate

\* A warmer's steps stock the pool.
LEMMA WarmerRefines ==
  ASSUME NEW w \in Warmers, Typed, ExclusiveLease, Warmer(w)
  PROVE  [Lease!Next]_(Lease!vars)
<1> USE DEF Stocking
<1> w \in Threads /\ (\A c \in Callers : c \in Threads \ {w})
                 /\ (\A v \in Warmers \ {w} : v \in Threads \ {w})
  BY ThreadsAssumption DEF Threads
<1>1. UNCHANGED <<held, clients, opc>> /\ Leased' = Leased
  <2>1. UNCHANGED <<held, clients, opc>> /\ \E l, s : Goto(w, l, s)
    BY DEF Warmer, WarmerLoop, WarmerWake, WarmerTimeout, WarmerClear, WarmerLock,
        WarmerCreate, WarmerCreateRaises, WarmerRecord, WarmerPut, owner
  <2>2. \A c \in Callers : pc'[c] = pc[c] /\ sbx'[c] = sbx[c]
    BY <2>1, OtherThreads
  <2>3. QED BY <2>1, <2>2, LeasedFrame
<1>2. ASSUME NEW s \in Sandboxes, WarmerCreate(w), Create(s), Goto(w, "created", s)
      PROVE  [Lease!Next]_(Lease!vars)
  <2>1. pc[w] = "create" /\ s \in Free /\ alive' = alive \cup {s} /\ UNCHANGED warm
    BY <1>2 DEF WarmerCreate, Create
  <2>2. /\ pc'[w] = "created" /\ sbx'[w] = s
        /\ \A u \in Threads \ {w} : pc'[u] = pc[u] /\ sbx'[u] = sbx[u]
    BY <1>2, OtherThreads
  <2>3. \A x : x \in Idle' <=> x \in Idle \/ x = s
    BY <2>1, <2>2, IdleIs
  <2>4. Idle' = Idle \cup {s}
    BY <2>3
  <2>5. Lease!Stock(s)
    BY <1>1, <2>1, <2>4, FreeIsNew DEF Lease!Stock, Lease!Appear
  <2>6. QED BY <2>5 DEF Lease!Next
<1>3. CASE WarmerRecord(w)
  <2>1. pc[w] = "created" /\ Goto(w, "put", sbx[w]) /\ UNCHANGED <<alive, warm>>
    BY <1>3 DEF WarmerRecord, service
  <2>2. /\ pc'[w] = "put" /\ sbx'[w] = sbx[w]
        /\ \A u \in Threads \ {w} : pc'[u] = pc[u] /\ sbx'[u] = sbx[u]
    BY <2>1, OtherThreads
  <2>3. \A x : x \in Idle' <=> x \in Idle
    BY <2>1, <2>2, IdleIs
  <2>4. QED BY <1>1, <2>1, <2>3 DEF Lease!vars
<1>4. CASE WarmerPut(w)
  <2>1. /\ pc[w] = "put" /\ Goto(w, "loop", NoSandbox) /\ UNCHANGED alive
        /\ warm' = Append(warm, sbx[w]) /\ sbx[w] \in Sandboxes
    BY <1>4 DEF WarmerPut, service, Typed, HandlesTyped, WarmerHolds
  <2>2. /\ pc'[w] = "loop"
        /\ \A u \in Threads \ {w} : pc'[u] = pc[u] /\ sbx'[u] = sbx[u]
    BY <2>1, OtherThreads
  <2>3. \A x : (\E i \in DOMAIN warm' : warm'[i] = x)
               <=> (x = sbx[w] \/ \E i \in DOMAIN warm : warm[i] = x)
    <3>1. /\ \A i \in DOMAIN warm : i \in DOMAIN warm' /\ warm'[i] = warm[i]
          /\ Len(warm) + 1 \in DOMAIN warm' /\ warm'[Len(warm) + 1] = sbx[w]
          /\ \A i \in DOMAIN warm' : i \in DOMAIN warm \/ i = Len(warm) + 1
      BY <2>1 DEF Typed, TypeOK
    <3>2. QED BY <3>1
  <2>4. \A x : x \in Idle' <=> x \in Idle
    BY <2>1, <2>2, <2>3, IdleIs
  <2>5. QED BY <1>1, <2>1, <2>4 DEF Lease!vars
<1>5. CASE WarmerLoop(w) \/ WarmerWake(w) \/ WarmerTimeout(w) \/ WarmerClear(w)
           \/ WarmerLock(w) \/ WarmerCreateRaises(w)
  <2>1. pc[w] \notin Stocking /\ UNCHANGED warm
    BY <1>5 DEF WarmerLoop, WarmerWake, WarmerTimeout, WarmerClear, WarmerLock,
                WarmerCreateRaises
  <2>2. /\ pc'[w] \notin Stocking
        /\ \A u \in Threads \ {w} : pc'[u] = pc[u] /\ sbx'[u] = sbx[u]
    BY <1>5, OtherThreads DEF WarmerLoop, WarmerWake, WarmerTimeout, WarmerClear,
                WarmerLock, WarmerCreateRaises
  <2>3. Idle' = Idle
    BY <2>1, <2>2, IdleFrame
  <2>4. CASE UNCHANGED alive
    BY <1>1, <2>3, <2>4 DEF Lease!vars
  <2>5. CASE CreateRaises
    BY <1>1, <2>3, <2>5, LostAllowed
  <2>6. QED BY <1>5, <2>4, <2>5 DEF WarmerLoop, WarmerWake, WarmerTimeout, WarmerClear,
                WarmerLock, WarmerCreateRaises, service
<1>6. QED BY <1>2, <1>3, <1>4, <1>5 DEF Warmer, WarmerCreate

\* Every step of the pool is one of SandboxLease, or changes nothing there.
LEMMA StepRefines ==
  Typed /\ ExclusiveLease /\ [Next]_vars => [Lease!Next]_(Lease!vars)
<1> SUFFICES ASSUME Typed, ExclusiveLease, [Next]_vars PROVE [Lease!Next]_(Lease!vars)
  OBVIOUS
<1>1. CASE UNCHANGED vars
  BY <1>1, IdleFrame, LeasedFrame DEF vars, Lease!vars
<1>2. CASE Next
  BY <1>1, <1>2, OwnerRefines, CallerRefines, WarmerRefines DEF Next, Done
<1>3. QED BY <1>1, <1>2

\* The pool starts with nothing, as SandboxLease does.
LEMMA InitRefines == Init => Lease!Init
<1> SUFFICES ASSUME Init PROVE Lease!Init
  OBVIOUS
<1>1. /\ DOMAIN warm = {}
      /\ \A c \in Callers : pc[c] = "idle" /\ held[c] = {}
      /\ \A w \in Warmers : pc[w] = "off"
  BY ThreadsAssumption DEF Init, Threads
<1>2. Idle = {} /\ Leased = [c \in Callers |-> {}]
  BY <1>1, IdleIs, LeasedTo DEF Given, Stocking
<1>3. QED BY <1>2 DEF Init, Lease!Init

\* For every number of callers, warmers and sandboxes, stragglers included, the
\* pool lends each sandbox to one caller at a time, never takes a used one back
\* into the queue, and deletes none that somebody has while it is open.
THEOREM PoolLeases == Spec => ImplementsLease
<1>1. Spec => [](Typed /\ ExclusiveLease)
  BY TypedInit, TypedNext, ExclusiveInit, ExclusiveNext, PTL DEF Spec
<1>2. Spec => Lease!Spec
  BY <1>1, InitRefines, StepRefines, PTL DEF Spec, Lease!Spec
<1>3. QED BY <1>2 DEF ImplementsLease
=============================================================================
