---------------------------- MODULE Provisioning ----------------------------
(***************************************************************************)
(* What stands between a process that starts and its first sandbox: the    *)
(* bootstrap of SandboxPool.open (resource group, sandbox group, bounded   *)
(* wait for the group's endpoint), ensure_workspace_volume, and the        *)
(* adapter's create_sandbox, which passes the egress policy and the        *)
(* volumes to the service for a fresh sandbox and sets them afterwards for *)
(* one rehydrated from a snapshot.                                         *)
(*                                                                         *)
(* Several processes do this at once against one sandbox group.  Every     *)
(* request may raise, with or without its effect.  Nobody deletes the      *)
(* group or a volume meanwhile.                                            *)
(***************************************************************************)
EXTENDS Integers

CONSTANTS
    Procs,      \* processes
    Volumes,    \* workspace volumes
    Attempts,   \* attempts of _wait_for_management_endpoint (6 in the code)
    NoVolume

ASSUME AttemptsAssumption == Attempts \in Nat
ASSUME VolumeAssumption == NoVolume \notin Volumes

VARIABLES
    group,     \* the sandbox group: "absent", "new" or "ready" (has endpoint)
    volumes,   \* the volumes that exist
    pc,        \* how far each process is
    tries,     \* reads its wait has left
    ask,       \* the sandbox it asks for
    todo,      \* volumes still to be ensured, then still to be mounted
    vol,       \* the volume get_volume did not find
    box,       \* its sandbox
    why        \* ghost: why its open(), ensure or create_sandbox raised

service == <<group, volumes>>
vars == <<group, volumes, pc, tries, ask, todo, vol, box, why>>

\* A policy or a list of volumes is given or not; the coercions to the SDK's
\* types keep that, and make an empty list None.
Requests == [rehydrate : BOOLEAN, policy : BOOLEAN, volumes : SUBSET Volumes]
NoRequest == [rehydrate |-> FALSE, policy |-> FALSE, volumes |-> {}]

Boxes == [running : BOOLEAN, policy : BOOLEAN, mounts : SUBSET Volumes]
NoBox == [running |-> FALSE, policy |-> FALSE, mounts |-> {}]

Opening == {"start", "get", "create", "poll", "clients"}
Creating == {"ensure", "make", "boot", "policy", "mount"}
Labels == Opening \cup Creating \cup {"opened", "held", "failed"}
Reasons == {"none", "service", "timeout", "conflict"}

Init ==
    /\ group = "absent"
    /\ volumes = {}
    /\ pc = [p \in Procs |-> "start"]
    /\ tries = [p \in Procs |-> 0]
    /\ ask = [p \in Procs |-> NoRequest]
    /\ todo = [p \in Procs |-> {}]
    /\ vol = [p \in Procs |-> NoVolume]
    /\ box = [p \in Procs |-> NoBox]
    /\ why = [p \in Procs |-> "none"]

GoTo(p, label) == pc' = [pc EXCEPT ![p] = label]

\* The exception goes through to the caller, and the locals are gone.
Fail(p, reason) ==
    /\ GoTo(p, "failed")
    /\ why' = [why EXCEPT ![p] = reason]
    /\ tries' = [tries EXCEPT ![p] = 0]
    /\ todo' = [todo EXCEPT ![p] = {}]
    /\ vol' = [vol EXCEPT ![p] = NoVolume]

-----------------------------------------------------------------------------
(* open().                                                                 *)

EnsureResourceGroup(p) ==
    /\ pc[p] = "start"
    /\ GoTo(p, "get")
    /\ UNCHANGED <<service, tries, ask, todo, vol, box, why>>

\* _wait_for_management_endpoint begins.
Wait(p) ==
    /\ GoTo(p, "poll")
    /\ tries' = [tries EXCEPT ![p] = Attempts]

\* GET first: the group has its endpoint, has none yet, or is not there.
GetGroup(p) ==
    /\ pc[p] = "get"
    /\ \/ group = "ready" /\ GoTo(p, "clients") /\ UNCHANGED tries
       \/ group = "new" /\ Wait(p)
       \/ group = "absent" /\ GoTo(p, "create") /\ UNCHANGED tries
    /\ UNCHANGED <<service, ask, todo, vol, box, why>>

\* The PUT of the group changes nothing if it is there.
PutGroup == group' = IF group = "absent" THEN "new" ELSE group

\* Mutant: no wait after the group is created.
CreateGroupNoWait(p) ==
    /\ pc[p] = "create"
    /\ PutGroup
    /\ GoTo(p, "clients")
    /\ UNCHANGED <<volumes, tries, ask, todo, vol, box, why>>

CreateGroup(p) ==
    /\ pc[p] = "create"
    /\ PutGroup
    /\ Wait(p)
    /\ UNCHANGED <<volumes, ask, todo, vol, box, why>>

\* Mutant: "while True" over the attempts.
PollPastEnd(p) ==
    /\ pc[p] = "poll" /\ tries[p] >= 0
    /\ \/ group = "ready" /\ GoTo(p, "clients") /\ UNCHANGED tries
       \/ /\ group # "ready"
          /\ tries' = [tries EXCEPT ![p] = @ - 1]
          /\ UNCHANGED pc
    /\ UNCHANGED <<service, ask, todo, vol, box, why>>

\* One read, and a sleep if the endpoint is not there.
Poll(p) ==
    /\ pc[p] = "poll" /\ tries[p] > 0
    /\ \/ /\ group = "ready"
          /\ GoTo(p, "clients")
          /\ tries' = [tries EXCEPT ![p] = 0]
       \/ /\ group # "ready"
          /\ tries' = [tries EXCEPT ![p] = @ - 1]
          /\ UNCHANGED pc
    /\ UNCHANGED <<service, ask, todo, vol, box, why>>

\* Mutant: after the last attempt open() begins again.
GiveUpNever(p) ==
    /\ pc[p] = "poll" /\ tries[p] = 0
    /\ GoTo(p, "get")
    /\ UNCHANGED <<service, tries, ask, todo, vol, box, why>>

GiveUp(p) ==
    /\ pc[p] = "poll" /\ tries[p] = 0
    /\ Fail(p, "timeout")
    /\ UNCHANGED <<service, ask, box>>

\* make_sandbox_client reads the group again, for the endpoint.
BuildClients(p) ==
    /\ pc[p] = "clients"
    /\ group = "ready"
    /\ GoTo(p, "opened")
    /\ UNCHANGED <<service, tries, ask, todo, vol, box, why>>

\* A request of open() raises; a create may have had its effect.  Building the
\* clients of a group without endpoint raises.
OpenRaises(p) ==
    /\ pc[p] \in Opening
    /\ \/ UNCHANGED group
       \/ pc[p] = "create" /\ PutGroup
    /\ Fail(p, "service")
    /\ UNCHANGED <<volumes, ask, box>>

-----------------------------------------------------------------------------
(* ensure_workspace_volume, once for each volume.                          *)

\* The caller decides what it wants; auto_create decides whether the volumes
\* are ensured.
Ask(p) ==
    /\ pc[p] = "opened"
    /\ \E r \in Requests :
        /\ ask' = [ask EXCEPT ![p] = r]
        /\ \/ GoTo(p, "boot") /\ UNCHANGED todo
           \/ /\ r.volumes # {}
              /\ GoTo(p, "ensure")
              /\ todo' = [todo EXCEPT ![p] = r.volumes]
    /\ UNCHANGED <<service, tries, vol, box, why>>

\* Volume v is there: the next one, or the sandbox.
Ensured(p, v) ==
    /\ todo' = [todo EXCEPT ![p] = @ \ {v}]
    /\ GoTo(p, IF todo[p] = {v} THEN "boot" ELSE "ensure")

GetVolume(p) ==
    /\ pc[p] = "ensure"
    /\ \E v \in todo[p] :
        \/ v \in volumes /\ Ensured(p, v) /\ UNCHANGED vol
        \/ /\ v \notin volumes
           /\ vol' = [vol EXCEPT ![p] = v]
           /\ GoTo(p, "make")
           /\ UNCHANGED todo
    /\ UNCHANGED <<service, tries, ask, box, why>>

CreateVolume(p) ==
    /\ pc[p] = "make"
    /\ vol[p] \notin volumes
    /\ volumes' = volumes \cup {vol[p]}
    /\ Ensured(p, vol[p])
    /\ vol' = [vol EXCEPT ![p] = NoVolume]
    /\ UNCHANGED <<group, tries, ask, box, why>>

\* Another process was faster: the service answers 409.
CreateVolumeConflict(p) ==
    /\ pc[p] = "make"
    /\ vol[p] \in volumes
    /\ Fail(p, "conflict")
    /\ UNCHANGED <<service, ask, box>>

EnsureRaises(p) ==
    /\ pc[p] \in {"ensure", "make"}
    /\ \/ UNCHANGED volumes
       \/ pc[p] = "make" /\ volumes' = volumes \cup {vol[p]}
    /\ Fail(p, "service")
    /\ UNCHANGED <<group, ask, box>>

-----------------------------------------------------------------------------
(* GroupClientAdapter.create_sandbox.                                      *)

\* Mutant: policy and volumes are always set afterwards.
DeferAlways(p) == TRUE

\* Policy and volumes are left to the setters: the SDK refuses them together
\* with a snapshot_id.
Deferred(p) == ask[p].rehydrate

\* The label after create_sandbox has done all but the mounts ms.
Mounting(ms) == IF ms = {} THEN "held" ELSE "mount"

\* begin_create_sandbox and its result.  A snapshot may bring the mounts of its
\* session with it.  The service refuses to mount a volume that does not exist.
Boot(p) ==
    /\ pc[p] = "boot"
    /\ \E restored \in SUBSET volumes :
        /\ restored # {} => ask[p].rehydrate
        /\ \/ /\ Deferred(p)
              /\ box' = [box EXCEPT ![p] = [running |-> TRUE, policy |-> FALSE,
                                            mounts |-> restored]]
              /\ todo' = [todo EXCEPT ![p] = ask[p].volumes]
              /\ GoTo(p, IF ask[p].policy THEN "policy" ELSE Mounting(ask[p].volumes))
           \/ /\ ~Deferred(p)
              /\ ask[p].volumes \subseteq volumes
              /\ box' = [box EXCEPT ![p] = [running |-> TRUE, policy |-> ask[p].policy,
                                            mounts |-> ask[p].volumes]]
              /\ GoTo(p, "held")
              /\ UNCHANGED todo
    /\ UNCHANGED <<service, tries, ask, vol, why>>

\* The create raises; a sandbox made all the same is nobody's
\* (SandboxPool!CreateRaises).
BootRaises(p) ==
    /\ pc[p] = "boot"
    /\ Fail(p, "service")
    /\ UNCHANGED <<service, ask, box>>

SetPolicy(p) ==
    /\ pc[p] = "policy"
    /\ box' = [box EXCEPT ![p].policy = TRUE]
    /\ GoTo(p, Mounting(todo[p]))
    /\ UNCHANGED <<service, tries, ask, todo, vol, why>>

SetPolicyRaises(p) ==
    /\ pc[p] = "policy"
    /\ \/ UNCHANGED box
       \/ box' = [box EXCEPT ![p].policy = TRUE]
    /\ Fail(p, "service")
    /\ UNCHANGED <<service, ask>>

\* add_volume_mount; a 409 VolumeAlreadyMounted counts as success.
Mount(p) ==
    /\ pc[p] = "mount"
    /\ \E v \in todo[p] :
        /\ v \in volumes \cup box[p].mounts
        /\ box' = [box EXCEPT ![p].mounts = @ \cup {v}]
        /\ todo' = [todo EXCEPT ![p] = @ \ {v}]
        /\ GoTo(p, Mounting(todo[p] \ {v}))
    /\ UNCHANGED <<service, tries, ask, vol, why>>

\* Mutant: every HttpResponseError is taken for VolumeAlreadyMounted.
MountErrorIgnored(p) ==
    /\ pc[p] = "mount"
    /\ \E v \in todo[p] :
        /\ todo' = [todo EXCEPT ![p] = @ \ {v}]
        /\ GoTo(p, Mounting(todo[p] \ {v}))
    /\ UNCHANGED <<service, tries, ask, vol, box, why>>

\* Any other error, a volume that does not exist included.
MountRaises(p) ==
    /\ pc[p] = "mount"
    /\ \E v \in todo[p] :
        \/ UNCHANGED box
        \/ v \in volumes /\ box' = [box EXCEPT ![p].mounts = @ \cup {v}]
    /\ Fail(p, "service")
    /\ UNCHANGED <<service, ask>>

-----------------------------------------------------------------------------

\* External: the group gets its endpoint.
EndpointAppears ==
    /\ group = "new"
    /\ group' = "ready"
    /\ UNCHANGED <<volumes, pc, tries, ask, todo, vol, box, why>>

\* One step of open().
OpenStep(p) ==
    \/ EnsureResourceGroup(p) \/ GetGroup(p) \/ CreateGroup(p) \/ Poll(p)
    \/ GiveUp(p) \/ BuildClients(p) \/ OpenRaises(p)

\* One step of ensure_workspace_volume or create_sandbox.
CreateStep(p) ==
    \/ GetVolume(p) \/ CreateVolume(p) \/ CreateVolumeConflict(p) \/ EnsureRaises(p)
    \/ Boot(p) \/ BootRaises(p) \/ SetPolicy(p) \/ SetPolicyRaises(p)
    \/ Mount(p) \/ MountRaises(p)

\* Every process has its sandbox or an exception.
Done ==
    /\ \A p \in Procs : pc[p] \in {"held", "failed"}
    /\ UNCHANGED vars

Next ==
    \/ \E p \in Procs : OpenStep(p) \/ Ask(p) \/ CreateStep(p)
    \/ EndpointAppears
    \/ Done

Spec == Init /\ [][Next]_vars

\* A process in a call is scheduled and its requests return or raise.  That the
\* endpoint ever appears, or that a request ever succeeds, is not assumed.
Fairness == \A p \in Procs : WF_vars(OpenStep(p)) /\ WF_vars(CreateStep(p))

FairSpec == Spec /\ Fairness

-----------------------------------------------------------------------------
(* Properties.                                                             *)

\* Every variable has its type, and no wait exceeds its attempts.
TypeOK ==
    /\ group \in {"absent", "new", "ready"}
    /\ volumes \subseteq Volumes
    /\ pc \in [Procs -> Labels]
    /\ tries \in [Procs -> 0..Attempts]
    /\ ask \in [Procs -> Requests]
    /\ todo \in [Procs -> SUBSET Volumes]
    /\ vol \in [Procs -> Volumes \cup {NoVolume}]
    /\ box \in [Procs -> Boxes]
    /\ why \in [Procs -> Reasons]

\* When open() builds its clients, the group has its endpoint, whichever
\* process created the group and however far that one is: the RuntimeError of
\* resolve_regional_endpoint is never what a user of open() sees.
EndpointKnown == \A p \in Procs : pc[p] = "clients" => group = "ready"

\* A sandbox that runs without the egress policy it was asked for with is a
\* rehydrated one, and its caller does not have it: create_sandbox has still to
\* set the policy, or raised.
Sealed ==
    \A p \in Procs :
        box[p].running /\ ask[p].policy /\ ~box[p].policy
            => ask[p].rehydrate /\ pc[p] \in {"policy", "failed"}

\* A sandbox create_sandbox returns has every volume asked for, and all of them
\* exist, whether it is fresh or rehydrated, the snapshot restored some mounts,
\* and other processes create the same volumes.
Equipped ==
    \A p \in Procs :
        pc[p] = "held" => /\ box[p].running
                          /\ ask[p].volumes \subseteq box[p].mounts
                          /\ box[p].mounts \subseteq volumes

\* open(), ensure_workspace_volume and create_sandbox end, with a result or an
\* exception, also if the endpoint never appears.
CallsEnd ==
    \A p \in Procs : /\ pc[p] \in Opening ~> pc[p] \notin Opening
                     /\ pc[p] \in Creating ~> pc[p] \notin Creating

\* "Idempotently ensure volume exists" (workspace.py:129): a process whose
\* volume another one creates meanwhile does not fail because it exists.
EnsureIdempotent == \A p \in Procs : why[p] # "conflict"
=============================================================================
