------------------------ MODULE Provisioning_proofs ------------------------
(***************************************************************************)
(* Theorems about Provisioning, for every set of processes and volumes and *)
(* every number of attempts.                                               *)
(***************************************************************************)
EXTENDS Provisioning, TLAPS

\* Every step is an action of one process, the endpoint's appearance, or
\* leaves the state alone.
LEMMA Steps ==
    ASSUME [Next]_vars
    PROVE  \/ \E p \in Procs : OpenStep(p)
           \/ \E p \in Procs : Ask(p)
           \/ \E p \in Procs : CreateStep(p)
           \/ EndpointAppears
           \/ UNCHANGED vars
  BY DEF Next, Done

-----------------------------------------------------------------------------
(* Types.                                                                  *)

\* A process about to create a volume has one in hand.
InHand == \A p \in Procs : pc[p] = "make" => vol[p] \in Volumes

Typed == TypeOK /\ InHand

LEMMA TypedInit == Init => Typed
  BY AttemptsAssumption
     DEF Init, Typed, TypeOK, InHand, Labels, Opening, Creating, Requests,
         NoRequest, Boxes, NoBox, Reasons

\* An exception leaves well-typed locals.
LEMMA TypedFail ==
    ASSUME Typed, NEW p \in Procs, NEW reason \in Reasons, Fail(p, reason)
    PROVE  /\ pc' \in [Procs -> Labels]
           /\ why' \in [Procs -> Reasons]
           /\ tries' \in [Procs -> 0..Attempts]
           /\ todo' \in [Procs -> SUBSET Volumes]
           /\ vol' \in [Procs -> Volumes \cup {NoVolume}]
           /\ InHand'
  BY AttemptsAssumption DEF Typed, TypeOK, InHand, Fail, GoTo, Labels

LEMMA TypedOpen ==
    ASSUME Typed, NEW p \in Procs, OpenStep(p)
    PROVE  Typed'
<1> USE AttemptsAssumption DEF Typed, TypeOK, InHand, service, GoTo, Fail, Wait,
                               PutGroup, Labels, Opening, Creating, Reasons
<1>1. CASE EnsureResourceGroup(p)  BY <1>1 DEF EnsureResourceGroup
<1>2. CASE GetGroup(p)             BY <1>2 DEF GetGroup
<1>3. CASE CreateGroup(p)          BY <1>3 DEF CreateGroup
<1>4. CASE Poll(p)                 BY <1>4 DEF Poll
<1>5. CASE GiveUp(p)               BY <1>5 DEF GiveUp
<1>6. CASE BuildClients(p)         BY <1>6 DEF BuildClients
<1>7. CASE OpenRaises(p)           BY <1>7 DEF OpenRaises
<1> QED  BY <1>1, <1>2, <1>3, <1>4, <1>5, <1>6, <1>7 DEF OpenStep

LEMMA TypedAsk ==
    ASSUME Typed, NEW p \in Procs, Ask(p)
    PROVE  Typed'
  BY DEF Ask, Typed, TypeOK, InHand, service, GoTo, Labels, Opening, Creating,
         Requests

LEMMA TypedCreate ==
    ASSUME Typed, NEW p \in Procs, CreateStep(p)
    PROVE  Typed'
<1> USE DEF Typed, TypeOK, InHand, service, GoTo, Fail, Ensured, Mounting,
            Labels, Opening, Creating, Reasons, Boxes, Requests
<1>1. CASE GetVolume(p)
  <2>1. PICK v \in todo[p] :
           \/ v \in volumes /\ Ensured(p, v) /\ UNCHANGED vol
           \/ vol' = [vol EXCEPT ![p] = v] /\ GoTo(p, "make") /\ UNCHANGED todo
    BY <1>1 DEF GetVolume
  <2>2. v \in Volumes /\ UNCHANGED <<service, tries, ask, box, why>>
    BY <1>1 DEF GetVolume
  <2>3. CASE Ensured(p, v) /\ UNCHANGED vol
    BY <2>2, <2>3
  <2>4. CASE vol' = [vol EXCEPT ![p] = v] /\ GoTo(p, "make") /\ UNCHANGED todo
    BY <2>2, <2>4
  <2> QED  BY <2>1, <2>3, <2>4
<1>2. CASE CreateVolume(p)          BY <1>2 DEF CreateVolume
<1>3. CASE CreateVolumeConflict(p)
  <2>1. Fail(p, "conflict") /\ UNCHANGED <<service, ask, box>>
    BY <1>3 DEF CreateVolumeConflict
  <2> QED  BY ONLY <2>1, TypedFail, Typed DEF Typed, TypeOK, service, Reasons
<1>4. CASE EnsureRaises(p)
  <2>1. Fail(p, "service") /\ UNCHANGED <<group, ask, box>>
    BY <1>4 DEF EnsureRaises
  <2>2. volumes' \subseteq Volumes
    BY <1>4 DEF EnsureRaises
  <2> QED  BY ONLY <2>1, <2>2, TypedFail, Typed DEF Typed, TypeOK, Reasons
<1>5. CASE Boot(p)
  <2>1. pc' \in [Procs -> Labels] /\ pc'[p] # "make"
    BY <1>5 DEF Boot
  <2>2. box' \in [Procs -> Boxes]
    <3>1. PICK restored \in SUBSET volumes :
             \/ box' = [box EXCEPT ![p] = [running |-> TRUE, policy |-> FALSE,
                                          mounts |-> restored]]
             \/ box' = [box EXCEPT ![p] = [running |-> TRUE, policy |-> ask[p].policy,
                                          mounts |-> ask[p].volumes]]
      BY <1>5 DEF Boot
    <3>2. ask[p].policy \in BOOLEAN /\ ask[p].volumes \subseteq Volumes
      OBVIOUS
    <3>3. /\ [running |-> TRUE, policy |-> FALSE, mounts |-> restored] \in Boxes
          /\ [running |-> TRUE, policy |-> ask[p].policy, mounts |-> ask[p].volumes] \in Boxes
      BY <3>2
    <3> QED  BY <3>1, <3>3 DEF TypeOK
  <2>3. todo' \in [Procs -> SUBSET Volumes]
    BY <1>5 DEF Boot
  <2>4. UNCHANGED <<service, tries, ask, vol, why>>
    BY <1>5 DEF Boot
  <2>5. InHand'
    BY <1>5, <2>1, <2>4 DEF Boot
  <2> QED  BY <2>1, <2>2, <2>3, <2>4, <2>5
<1>6. CASE BootRaises(p)
  <2>1. Fail(p, "service") /\ UNCHANGED <<service, ask, box>>
    BY <1>6 DEF BootRaises
  <2> QED  BY ONLY <2>1, TypedFail, Typed DEF Typed, TypeOK, service, Reasons
<1>7. CASE SetPolicy(p)             BY <1>7 DEF SetPolicy
<1>8. CASE SetPolicyRaises(p)
  <2>1. box' = box \/ box' = [box EXCEPT ![p].policy = TRUE]
    BY <1>8 DEF SetPolicyRaises
  <2>2. [box[p] EXCEPT !.policy = TRUE] \in Boxes
    OBVIOUS
  <2>3. box' \in [Procs -> Boxes]
    BY <2>1, <2>2 DEF TypeOK
  <2>4. Fail(p, "service") /\ UNCHANGED <<service, ask>>
    BY <1>8 DEF SetPolicyRaises
  <2> QED  BY ONLY <2>3, <2>4, TypedFail, Typed DEF Typed, TypeOK, service, Reasons
<1>9. CASE Mount(p)                 BY <1>9 DEF Mount
<1>10. CASE MountRaises(p)
  <2>1. PICK v \in todo[p] : box' = box \/ box' = [box EXCEPT ![p].mounts = @ \cup {v}]
    BY <1>10 DEF MountRaises
  <2>2. box' \in [Procs -> Boxes]
    BY <2>1
  <2>3. Fail(p, "service") /\ UNCHANGED <<service, ask>>
    BY <1>10 DEF MountRaises
  <2> QED  BY ONLY <2>2, <2>3, TypedFail, Typed DEF Typed, TypeOK, service, Reasons
<1> QED  BY <1>1, <1>2, <1>3, <1>4, <1>5, <1>6, <1>7, <1>8, <1>9, <1>10 DEF CreateStep

LEMMA TypedNext == Typed /\ [Next]_vars => Typed'
<1> SUFFICES ASSUME Typed, [Next]_vars PROVE Typed'
  OBVIOUS
<1>1. CASE EndpointAppears
  BY <1>1 DEF EndpointAppears, Typed, TypeOK, InHand
<1>2. CASE UNCHANGED vars
  BY <1>2 DEF vars, service, Typed, TypeOK, InHand
<1> QED  BY <1>1, <1>2, Steps, TypedOpen, TypedAsk, TypedCreate

\* Every variable keeps its type; in particular no wait reads the group more
\* often than its attempts allow.
THEOREM TypeCorrect == Spec => []TypeOK
<1>1. Typed => TypeOK
  BY DEF Typed
<1> QED  BY <1>1, TypedInit, TypedNext, PTL DEF Spec

-----------------------------------------------------------------------------
(* The endpoint.                                                           *)

\* A group with an endpoint keeps it, so what a process saw before it went on
\* to build its clients still holds.
LEMMA EndpointKept ==
    ASSUME [Next]_vars
    PROVE  group = "ready" => group' = "ready"
<1>1. ASSUME NEW p \in Procs, OpenStep(p)
      PROVE  group = "ready" => group' = "ready"
  BY <1>1 DEF OpenStep, EnsureResourceGroup, GetGroup, CreateGroup, Poll, GiveUp,
              BuildClients, OpenRaises, PutGroup, service
<1>2. ASSUME NEW p \in Procs, CreateStep(p)
      PROVE  group' = group
  BY <1>2 DEF CreateStep, GetVolume, CreateVolume, CreateVolumeConflict,
              EnsureRaises, Boot, BootRaises, SetPolicy, SetPolicyRaises, Mount,
              MountRaises, service
<1> QED  BY <1>1, <1>2, Steps DEF Ask, EndpointAppears, service, vars

LEMMA EndpointKnownNext ==
    ASSUME TypeOK, EndpointKnown, [Next]_vars
    PROVE  EndpointKnown'
<1> SUFFICES ASSUME NEW q \in Procs, pc'[q] = "clients"
             PROVE  pc[q] = "clients" \/ group = "ready"
  BY EndpointKept DEF EndpointKnown
<1>1. ASSUME NEW p \in Procs, OpenStep(p)
      PROVE  pc[q] = "clients" \/ group = "ready"
  BY <1>1 DEF TypeOK, OpenStep, EnsureResourceGroup, GetGroup, CreateGroup, Poll,
              GiveUp, BuildClients, OpenRaises, GoTo, Fail, Wait
<1>2. ASSUME NEW p \in Procs, CreateStep(p)
      PROVE  pc[q] = "clients"
  BY <1>2 DEF TypeOK, CreateStep, GetVolume, CreateVolume, CreateVolumeConflict,
              EnsureRaises, Boot, BootRaises, SetPolicy, SetPolicyRaises, Mount,
              MountRaises, GoTo, Fail, Ensured, Mounting
<1>3. ASSUME NEW p \in Procs, Ask(p)
      PROVE  pc[q] = "clients"
  BY <1>3 DEF TypeOK, Ask, GoTo
<1> QED  BY <1>1, <1>2, <1>3, Steps DEF EndpointAppears, vars

\* The clients are built only of a group with an endpoint, for any number of
\* processes that find, create and wait for the group at the same time.
THEOREM ClientsHaveEndpoint == Spec => []EndpointKnown
<1>1. Init => EndpointKnown
  BY DEF Init, EndpointKnown
<1>2. TypeOK /\ EndpointKnown /\ [Next]_vars => EndpointKnown'
  BY EndpointKnownNext
<1> QED  BY <1>1, <1>2, TypeCorrect, PTL DEF Spec

-----------------------------------------------------------------------------
(* The sandbox.                                                            *)

\* A sandbox exists only once the create has returned.
Booted ==
    \A p \in Procs :
        box[p].running => pc[p] \in {"policy", "mount", "held", "failed"}

\* From then on, what is not yet mounted is still to be mounted, and what is
\* mounted exists.
Progressed ==
    \A p \in Procs :
        /\ box[p].mounts \subseteq volumes
        /\ pc[p] \in {"policy", "mount", "held"} => box[p].running
        /\ pc[p] \in {"policy", "mount"} => ask[p].volumes \subseteq box[p].mounts \cup todo[p]
        /\ pc[p] = "held" => ask[p].volumes \subseteq box[p].mounts

BoxInv == Typed /\ Booted /\ Sealed /\ Progressed

LEMMA BoxInit == Init => BoxInv
  BY TypedInit DEF Init, BoxInv, Booted, Sealed, Progressed, NoBox

\* A step of open() or the request touches no sandbox.
LEMMA BoxBefore ==
    ASSUME BoxInv, NEW p \in Procs, OpenStep(p) \/ Ask(p)
    PROVE  (Booted /\ Sealed /\ Progressed)'
<1>1. ~box[p].running
  BY DEF BoxInv, Booted, OpenStep, Ask, EnsureResourceGroup, GetGroup, CreateGroup,
         Poll, GiveUp, BuildClients, OpenRaises, Opening
<1>2. box' = box /\ volumes' = volumes
  BY DEF OpenStep, Ask, EnsureResourceGroup, GetGroup, CreateGroup, Poll, GiveUp,
         BuildClients, OpenRaises, service
<1>3. /\ pc' \in [Procs -> Labels]
      /\ pc'[p] \notin {"policy", "mount", "held"}
  BY DEF BoxInv, Typed, TypeOK, OpenStep, Ask, EnsureResourceGroup, GetGroup,
         CreateGroup, Poll, GiveUp, BuildClients, OpenRaises, GoTo, Fail, Wait,
         Opening, Creating, Labels
<1>4. \A q \in Procs \ {p} : pc'[q] = pc[q] /\ ask'[q] = ask[q] /\ todo'[q] = todo[q]
  BY DEF BoxInv, Typed, TypeOK, OpenStep, Ask, EnsureResourceGroup, GetGroup,
         CreateGroup, Poll, GiveUp, BuildClients, OpenRaises, GoTo, Fail, Wait
<1>5. Booted'      BY <1>1, <1>2, <1>3, <1>4 DEF BoxInv, Booted
<1>6. Sealed'      BY <1>1, <1>2, <1>3, <1>4 DEF BoxInv, Sealed
<1>7. Progressed'  BY <1>2, <1>3, <1>4 DEF BoxInv, Progressed
<1> QED  BY <1>5, <1>6, <1>7

\* What a step of ensure_workspace_volume or create_sandbox leaves alone.
LEMMA CreateFrame ==
    ASSUME Typed, NEW p \in Procs, CreateStep(p)
    PROVE  /\ ask' = ask
           /\ volumes \subseteq volumes'
           /\ \A q \in Procs \ {p} : pc'[q] = pc[q] /\ box'[q] = box[q] /\ todo'[q] = todo[q]
  BY DEF Typed, TypeOK, CreateStep, GetVolume, CreateVolume, CreateVolumeConflict,
         EnsureRaises, Boot, BootRaises, SetPolicy, SetPolicyRaises, Mount,
         MountRaises, GoTo, Fail, Ensured, Mounting, service

\* So the invariant need only be looked at for the process that steps.
LEMMA BoxOwn ==
    ASSUME BoxInv, NEW p \in Procs, CreateStep(p),
           box'[p].running => pc'[p] \in {"policy", "mount", "held", "failed"},
           box'[p].running /\ ask[p].policy /\ ~box'[p].policy
               => ask[p].rehydrate /\ pc'[p] \in {"policy", "failed"},
           box'[p].mounts \subseteq volumes',
           pc'[p] \in {"policy", "mount", "held"} => box'[p].running,
           pc'[p] \in {"policy", "mount"} => ask[p].volumes \subseteq box'[p].mounts \cup todo'[p],
           pc'[p] = "held" => ask[p].volumes \subseteq box'[p].mounts
    PROVE  (Booted /\ Sealed /\ Progressed)'
<1> USE CreateFrame DEF BoxInv
<1>1. Booted'
  BY DEF Booted
<1>2. Sealed'
  BY DEF Sealed
<1>3. Progressed'
  BY DEF Progressed
<1> QED  BY <1>1, <1>2, <1>3

LEMMA BoxCreate ==
    ASSUME BoxInv, NEW p \in Procs, CreateStep(p)
    PROVE  (Booted /\ Sealed /\ Progressed)'
<1> USE BoxOwn DEF BoxInv, Typed, TypeOK, Boxes, service, GoTo, Fail
<1>1. CASE GetVolume(p) \/ CreateVolume(p) \/ CreateVolumeConflict(p)
           \/ EnsureRaises(p) \/ BootRaises(p)
  <2>1. ~box[p].running /\ box'[p] = box[p] /\ volumes \subseteq volumes'
    BY <1>1 DEF Booted, GetVolume, CreateVolume, CreateVolumeConflict, EnsureRaises,
                BootRaises
  <2>2. pc'[p] \notin {"policy", "mount", "held"}
    BY <1>1 DEF GetVolume, CreateVolume, CreateVolumeConflict, EnsureRaises,
                BootRaises, Ensured
  <2> QED  BY <2>1, <2>2 DEF Progressed
<1>2. CASE Boot(p)
  BY <1>2 DEF Boot, Deferred, Mounting
<1>3. CASE SetPolicy(p)
  <2>1. box'[p] = [box[p] EXCEPT !.policy = TRUE] /\ todo' = todo /\ volumes' = volumes
    BY <1>3 DEF SetPolicy
  <2>2. box[p].running /\ box'[p].running /\ box'[p].policy /\ box'[p].mounts = box[p].mounts
    BY <1>3, <2>1 DEF SetPolicy, Progressed
  <2>3. pc'[p] = Mounting(todo[p]) /\ ask[p].volumes \subseteq box[p].mounts \cup todo[p]
    BY <1>3 DEF SetPolicy, Progressed
  <2>4. pc'[p] = IF todo[p] = {} THEN "held" ELSE "mount"
    BY <2>3 DEF Mounting
  <2> QED  BY <2>1, <2>2, <2>3, <2>4 DEF Progressed
<1>4. CASE SetPolicyRaises(p)
  BY <1>4 DEF SetPolicyRaises, Sealed, Progressed
<1>5. CASE Mount(p)
  <2>1. PICK v \in todo[p] :
           /\ v \in volumes \cup box[p].mounts
           /\ box' = [box EXCEPT ![p].mounts = @ \cup {v}]
           /\ todo' = [todo EXCEPT ![p] = @ \ {v}]
           /\ GoTo(p, Mounting(todo[p] \ {v}))
    BY <1>5 DEF Mount
  <2>2. /\ box'[p].mounts = box[p].mounts \cup {v}
        /\ box'[p].running = box[p].running /\ box'[p].policy = box[p].policy
        /\ todo'[p] = todo[p] \ {v}
        /\ pc'[p] = IF todo'[p] = {} THEN "held" ELSE "mount"
    BY <2>1 DEF Mounting
  <2>3. pc[p] = "mount" /\ volumes' = volumes
    BY <1>5 DEF Mount
  <2>4. box[p].running /\ (ask[p].policy => box[p].policy)
    BY <2>3 DEF Progressed, Sealed
  <2>5. ask[p].volumes \subseteq box'[p].mounts \cup todo'[p] /\ box'[p].mounts \subseteq volumes'
    BY <2>1, <2>2, <2>3 DEF Progressed
  <2> QED  BY <2>2, <2>4, <2>5
<1>6. CASE MountRaises(p)
  BY <1>6 DEF MountRaises, Sealed, Progressed
<1> QED  BY <1>1, <1>2, <1>3, <1>4, <1>5, <1>6 DEF CreateStep

LEMMA BoxNext == BoxInv /\ [Next]_vars => BoxInv'
<1> SUFFICES ASSUME BoxInv, [Next]_vars PROVE BoxInv'
  OBVIOUS
<1>1. Typed'
  BY TypedNext DEF BoxInv
<1>2. CASE EndpointAppears \/ UNCHANGED vars
  BY <1>1, <1>2 DEF EndpointAppears, vars, service, BoxInv, Booted, Sealed, Progressed
<1> QED  BY <1>1, <1>2, Steps, BoxBefore, BoxCreate DEF BoxInv

LEMMA BoxInvariant == Spec => []BoxInv
  BY BoxInit, BoxNext, PTL DEF Spec

\* No sandbox that was asked for with a policy is handed out, or runs fresh,
\* without it.
THEOREM PolicyFirst == Spec => []Sealed
<1>1. BoxInv => Sealed
  BY DEF BoxInv
<1> QED  BY <1>1, BoxInvariant, PTL

\* create_sandbox returns a sandbox with every volume asked for mounted,
\* whatever the snapshot restored and however many volumes there are.
THEOREM SandboxEquipped == Spec => []Equipped
<1>1. BoxInv => Equipped
  BY DEF BoxInv, Progressed, Equipped
<1> QED  BY <1>1, BoxInvariant, PTL
=============================================================================
