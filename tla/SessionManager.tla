-------------------------- MODULE SessionManager --------------------------
(***************************************************************************)
(* acas_toolkit.session_manager.SessionManager over the file-backed        *)
(* SessionStore: named sessions that survive the process.  A session is a  *)
(* snapshot id in the store; open() makes a sandbox from it, checkpoint()  *)
(* and close() snapshot the sandbox back and rotate the snapshots.         *)
(*                                                                         *)
(* Every service call and every read and write of the store's file is a    *)
(* step; it succeeds or raises, a service call also after having had its   *)
(* effect, and the process may crash between any two.  A crash keeps what  *)
(* the service and the file hold and forgets the rest.                     *)
(*                                                                         *)
(* What a sandbox's disk or a snapshot holds is an image: the session it   *)
(* is of and the amount of work in it.                                     *)
(***************************************************************************)
EXTENDS Naturals, FiniteSets, Functions

CONSTANTS
    Ids,         \* session ids
    Sandboxes,   \* sandbox ids; their number is the service's quota
    Snapshots,   \* snapshot ids; likewise
    MaxWork,     \* bound on the work in one session
    MaxCrashes,  \* bound on crashes
    Serial,      \* one call at a time, or one call at a time per session?
    NoSandbox, NoSnapshot, NoEntry, NoId

ASSUME IdAssumption ==
    /\ NoSandbox \notin Sandboxes
    /\ NoSnapshot \notin Snapshots /\ NoEntry \notin Snapshots
    /\ NoEntry # NoSnapshot
    /\ NoId \notin Ids
ASSUME BoundAssumption == MaxWork \in Nat /\ MaxCrashes \in Nat
ASSUME SerialAssumption == Serial \in BOOLEAN

VARIABLES
    alive,      \* service: the sandboxes that exist
    image,      \* service: what is on the disk of each
    snaps,      \* service: the snapshots that exist
    shot,       \* service: the image in each
    store,      \* the file: snapshot_id of every session's entry
    pool,       \* the pool is open
    active,     \* SandboxPool._active
    live,       \* SessionManager._live
    op,         \* the call under way on each session
    pc,         \* and how far it is
    entry,      \* its local variable entry (the snapshot_id in it)
    new,        \* its local variable new_snap
    data,       \* the file as SessionStore.put / delete has loaded it
    saved,      \* ghost: the work in the last snapshot put into the store
    lost,       \* ghost: snapshots nobody will delete, for a failure
    strays,     \* ghost: sandboxes nobody will delete, for a failure
    discarded,  \* ghost: sessions whose discard is not (or not fully) done
    crashes     \* number of crashes so far

service == <<alive, image, snaps, shot>>
memory == <<pool, active, live>>
call == <<op, pc, entry, new, data>>
ghosts == <<saved, lost, strays, discarded>>
vars == <<alive, image, snaps, shot, store, pool, active, live, op, pc, entry,
          new, data, saved, lost, strays, discarded, crashes>>

Images == [of : Ids \cup {NoId}, work : 0..MaxWork]
Blank == [of |-> NoId, work |-> 0]
\* NoEntry also stands for the disk of a session that has no sandbox (Running).
ASSUME ImageAssumption == NoEntry \notin Images

\* What the store has of a session: no entry, an entry without a snapshot, or
\* an entry with one.
Entries == Snapshots \cup {NoSnapshot, NoEntry}

Ops == {"none", "open", "checkpoint", "close", "end", "discard"}
Steps == {"idle", "create", "snapshot", "load", "save", "rotate", "release",
          "free"}

-----------------------------------------------------------------------------
Init ==
    /\ alive = {} /\ image = [s \in Sandboxes |-> Blank]
    /\ snaps = {} /\ shot = [p \in Snapshots |-> Blank]
    /\ store = [i \in Ids |-> NoEntry]
    /\ pool = FALSE /\ active = {}
    /\ live = [i \in Ids |-> NoSandbox]
    /\ op = [i \in Ids |-> "none"]
    /\ pc = [i \in Ids |-> "idle"]
    /\ entry = [i \in Ids |-> NoEntry]
    /\ new = [i \in Ids |-> NoSnapshot]
    /\ data = [i \in Ids |-> [j \in Ids |-> NoEntry]]
    /\ saved = [i \in Ids |-> 0]
    /\ lost = {} /\ strays = {} /\ discarded = {}
    /\ crashes = 0

-----------------------------------------------------------------------------
(* The service.  Ids nothing refers to any more stand for fresh ones.      *)

FreeSandboxes == Sandboxes \ (alive \cup active \cup Range(live))
FreeSnapshots ==
    Snapshots \ (snaps \cup Range(store) \cup Range(entry) \cup Range(new)
                   \cup UNION {Range(data[i]) : i \in Ids})

\* A sandbox s comes to be with the image m on its disk.
MakeSandbox(s, m) ==
    /\ s \in FreeSandboxes
    /\ alive' = alive \cup {s}
    /\ image' = [image EXCEPT ![s] = m]
    /\ UNCHANGED <<snaps, shot>>

DropSandboxes(S) ==
    /\ alive' = alive \ S
    /\ strays' = strays \ S
    /\ image' = [s \in Sandboxes |-> IF s \in S THEN Blank ELSE image[s]]
    /\ UNCHANGED <<snaps, shot>>

\* A snapshot p of the sandbox s comes to be.
MakeSnapshot(p, s) ==
    /\ p \in FreeSnapshots /\ s \in alive
    /\ snaps' = snaps \cup {p}
    /\ shot' = [shot EXCEPT ![p] = image[s]]
    /\ UNCHANGED <<alive, image>>

DropSnapshot(p) ==
    /\ snaps' = snaps \ {p}
    /\ lost' = lost \ {p}
    /\ shot' = [shot EXCEPT ![p] = Blank]
    /\ UNCHANGED <<alive, image>>

-----------------------------------------------------------------------------
(* Steps of a call on session i.                                           *)

\* A call on session i may begin.
Ready(i) == pc[i] = "idle" /\ (Serial => \A j \in Ids : pc[j] = "idle")

\* The call o goes on with step l, having read the entry e.
Goto(i, o, l, e) ==
    /\ op' = [op EXCEPT ![i] = o]
    /\ pc' = [pc EXCEPT ![i] = l]
    /\ entry' = [entry EXCEPT ![i] = e]
    /\ data' = [data EXCEPT ![i] = [j \in Ids |-> NoEntry]]

Return(i) == Goto(i, "none", "idle", NoEntry) /\ new' = [new EXCEPT ![i] = NoSnapshot]

\* checkpoint() is over, with a result or an exception: close() goes on with
\* its `finally` either way.
EndCheckpoint(i) ==
    IF op[i] = "close"
    THEN Goto(i, "close", "release", NoEntry) /\ new' = [new EXCEPT ![i] = NoSnapshot]
    ELSE Return(i)

-----------------------------------------------------------------------------
(* open()                                                                  *)

\* A session that is not live is looked up in the store.
OpenBegin(i) ==
    /\ Ready(i) /\ live[i] = NoSandbox
    /\ Goto(i, "open", "create", store[i])
    /\ UNCHANGED <<service, store, memory, new, ghosts, crashes>>

\* Mutant: open() ignores the snapshot.
StartFresh(i) == [of |-> i, work |-> 0]

\* The image a new sandbox of session i starts with.
StartImage(i) ==
    IF entry[i] \in Snapshots THEN shot[entry[i]] ELSE [of |-> i, work |-> 0]

\* The create can work: the pool is open and the snapshot, if any, exists.
CanCreate(i) == pool /\ (entry[i] \in Snapshots => entry[i] \in snaps)

\* Mutant: _active gets what _live held before, None.
OpenTracksNone(i) ==
    /\ pc[i] = "create" /\ CanCreate(i)
    /\ \E s \in Sandboxes :
          /\ MakeSandbox(s, StartImage(i))
          /\ live' = [live EXCEPT ![i] = s]
          /\ active' = active \cup {live[i]}
    /\ Goto(i, "open", "load", entry[i])
    /\ UNCHANGED <<store, pool, new, ghosts, crashes>>

\* From the snapshot, or fresh through pool.acquire(): the sandbox is live
\* and in the pool's _active.
OpenCreate(i) ==
    /\ pc[i] = "create" /\ CanCreate(i)
    /\ \E s \in Sandboxes :
          /\ MakeSandbox(s, StartImage(i))
          /\ live' = [live EXCEPT ![i] = s]
          /\ active' = active \cup {s}
    /\ Goto(i, "open", "load", entry[i])
    /\ UNCHANGED <<store, pool, new, ghosts, crashes>>

\* The create raises.  It may have made the sandbox: the answer was lost, or a
\* policy or volume could not be set on it afterwards.
OpenRaises(i) ==
    /\ pc[i] = "create"
    /\ \/ UNCHANGED <<service, strays>>
       \/ /\ CanCreate(i)
          /\ \E s \in Sandboxes : /\ MakeSandbox(s, StartImage(i))
                                  /\ strays' = strays \cup {s}
    /\ Return(i)
    /\ UNCHANGED <<store, memory, saved, lost, discarded, crashes>>

-----------------------------------------------------------------------------
(* SessionStore.put() and delete(): load the file, then replace it.        *)

Load(i) ==
    /\ pc[i] = "load"
    /\ pc' = [pc EXCEPT ![i] = "save"]
    /\ data' = [data EXCEPT ![i] = store]
    /\ UNCHANGED <<service, store, memory, op, entry, new, ghosts, crashes>>

\* What the call under way writes into the entry of session i.
Written(i) ==
    CASE op[i] = "open" /\ entry[i] = NoEntry -> NoSnapshot
      [] op[i] = "open" /\ entry[i] # NoEntry -> entry[i]
      [] op[i] = "discard" -> NoEntry
      [] OTHER -> new[i]

\* Mutant: a checkpoint does not rotate.
SaveNoRotate(i) ==
    /\ pc[i] = "save"
    /\ store' = [data[i] EXCEPT ![i] = Written(i)]
    /\ IF op[i] \in {"checkpoint", "close"}
       THEN /\ saved' = [saved EXCEPT ![i] = shot[new[i]].work]
            /\ EndCheckpoint(i)
       ELSE /\ saved' = [saved EXCEPT ![i] = IF op[i] = "discard" THEN 0 ELSE @]
            /\ Return(i)
    /\ discarded' = IF op[i] = "open" THEN discarded ELSE discarded \ {i}
    /\ UNCHANGED <<service, memory, lost, strays, crashes>>

\* The rename puts the new file in the old one's place.
Save(i) ==
    /\ pc[i] = "save"
    /\ store' = [data[i] EXCEPT ![i] = Written(i)]
    /\ \/ /\ op[i] = "open"
          /\ Return(i)
          /\ UNCHANGED <<saved, discarded>>
       \/ /\ op[i] = "discard"
          /\ Return(i)
          /\ saved' = [saved EXCEPT ![i] = 0]
          /\ discarded' = discarded \ {i}
       \/ /\ op[i] \in {"checkpoint", "close"}
          /\ saved' = [saved EXCEPT ![i] = shot[new[i]].work]
          /\ discarded' = discarded \ {i}
          /\ IF entry[i] \in Snapshots
             THEN Goto(i, op[i], "rotate", entry[i]) /\ UNCHANGED new
             ELSE EndCheckpoint(i)
    /\ UNCHANGED <<service, memory, lost, strays, crashes>>

\* Mutant: checkpoint() swallows the exception and rotates all the same.
SaveSwallowed(i) ==
    /\ pc[i] \in {"load", "save"}
    /\ IF op[i] \in {"checkpoint", "close"} /\ entry[i] \in Snapshots
       THEN Goto(i, op[i], "rotate", entry[i]) /\ UNCHANGED new
       ELSE IF op[i] = "close" THEN EndCheckpoint(i) ELSE Return(i)
    /\ lost' = lost \cup ({new[i]} \cap Snapshots)
    /\ UNCHANGED <<service, store, memory, saved, strays, discarded, crashes>>

\* Reading or writing the file raises.  The sandbox of an open() stays live;
\* the new snapshot of a checkpoint() is forgotten.
SaveRaises(i) ==
    /\ pc[i] \in {"load", "save"}
    /\ IF op[i] = "close" THEN EndCheckpoint(i) ELSE Return(i)
    /\ lost' = lost \cup ({new[i]} \cap Snapshots)
    /\ UNCHANGED <<service, store, memory, saved, strays, discarded, crashes>>

-----------------------------------------------------------------------------
(* checkpoint() and close()                                                *)

\* checkpoint() by itself (o = "checkpoint") or by close() (o = "close").
\* Without an entry its assertion fails and close() goes on to its `finally`.
CheckpointBegin(i, o) ==
    /\ Ready(i) /\ live[i] # NoSandbox
    /\ \/ store[i] # NoEntry /\ Goto(i, o, "snapshot", store[i])
       \/ store[i] = NoEntry /\ o = "close" /\ Goto(i, o, "release", NoEntry)
    /\ UNCHANGED <<service, store, memory, new, ghosts, crashes>>

\* Mutant: the previous snapshot makes room for the new one.
SnapshotRotatesFirst(i) ==
    /\ pc[i] = "snapshot" /\ pool
    /\ \E p \in FreeSnapshots :
          /\ snaps' = (snaps \ {entry[i]}) \cup {p}
          /\ shot' = [shot EXCEPT ![p] = image[live[i]]]
          /\ new' = [new EXCEPT ![i] = p]
    /\ Goto(i, op[i], "load", entry[i])
    /\ UNCHANGED <<alive, image, store, memory, ghosts, crashes>>

Snapshot(i) ==
    /\ pc[i] = "snapshot" /\ pool
    /\ \E p \in Snapshots :
          /\ MakeSnapshot(p, live[i])
          /\ new' = [new EXCEPT ![i] = p]
    /\ Goto(i, op[i], "load", entry[i])
    /\ UNCHANGED <<store, memory, ghosts, crashes>>

\* create_snapshot raises, before or after the snapshot came to be.
SnapshotRaises(i) ==
    /\ pc[i] = "snapshot"
    /\ \/ UNCHANGED <<service, lost>>
       \/ /\ pool
          /\ \E p \in Snapshots : MakeSnapshot(p, live[i]) /\ lost' = lost \cup {p}
    /\ EndCheckpoint(i)
    /\ UNCHANGED <<store, memory, saved, strays, discarded, crashes>>

\* The rotation deletes the previous snapshot; that it raises is passed over.
Rotate(i) ==
    /\ pc[i] = "rotate"
    /\ \/ pool /\ DropSnapshot(entry[i])
       \/ lost' = lost \cup ({entry[i]} \cap snaps) /\ UNCHANGED service
    /\ EndCheckpoint(i)
    /\ UNCHANGED <<store, memory, saved, strays, discarded, crashes>>

\* close(checkpoint=False)
EndBegin(i) ==
    /\ Ready(i) /\ live[i] # NoSandbox
    /\ Goto(i, "end", "release", NoEntry)
    /\ UNCHANGED <<service, store, memory, new, ghosts, crashes>>

\* The `finally` of close(): the session is no longer live, whatever
\* pool.release() does; discard() goes on.
Release(i) ==
    /\ pc[i] = "release"
    /\ live' = [live EXCEPT ![i] = NoSandbox]
    /\ active' = active \ {live[i]}
    /\ \/ pool /\ DropSandboxes({live[i]})
       \/ strays' = strays \cup ({live[i]} \cap alive) /\ UNCHANGED service
    /\ IF op[i] = "discard" THEN Goto(i, "discard", "free", NoEntry) /\ UNCHANGED new
                            ELSE Return(i)
    /\ UNCHANGED <<store, pool, saved, lost, discarded, crashes>>

-----------------------------------------------------------------------------
(* discard()                                                               *)

DiscardBegin(i) ==
    /\ Ready(i)
    /\ Goto(i, "discard", IF live[i] = NoSandbox THEN "free" ELSE "release", NoEntry)
    /\ UNCHANGED <<service, store, memory, new, ghosts, crashes>>

\* The snapshot of the entry, if any, goes first; a failure is passed over.
Free(i) ==
    /\ pc[i] = "free"
    /\ \/ store[i] \notin Snapshots /\ UNCHANGED <<service, lost>>
       \/ store[i] \in Snapshots /\ pool /\ DropSnapshot(store[i])
       \/ /\ store[i] \in Snapshots
          /\ lost' = lost \cup ({store[i]} \cap snaps)
          /\ UNCHANGED service
    /\ discarded' = discarded \cup {i}
    /\ Goto(i, "discard", "load", NoEntry)
    /\ UNCHANGED <<store, memory, new, saved, strays, crashes>>

\* discard() cannot read the store: it raises with the entry untouched.
FreeRaises(i) ==
    /\ pc[i] = "free"
    /\ Return(i)
    /\ UNCHANGED <<service, store, memory, ghosts, crashes>>

-----------------------------------------------------------------------------
(* The pool, the work and the crash.                                       *)

\* `with SessionManager(...)`: __enter__ opens the pool.
Enter ==
    /\ ~pool /\ pool' = TRUE
    /\ UNCHANGED <<service, store, active, live, call, ghosts, crashes>>

\* __exit__, once every live session is closed: pool.close() deletes what
\* _active still has, passing over those whose delete raises.
Exit ==
    /\ pool /\ \A i \in Ids : pc[i] = "idle" /\ live[i] = NoSandbox
    /\ \E S \in SUBSET active :
          /\ alive' = alive \ S
          /\ image' = [s \in Sandboxes |-> IF s \in S THEN Blank ELSE image[s]]
          /\ strays' = (strays \ S) \cup (alive \cap (active \ S))
    /\ pool' = FALSE /\ active' = {}
    /\ UNCHANGED <<snaps, shot, store, live, call, saved, lost, discarded,
                   crashes>>

\* The program uses the sandbox of a live session.
Work(i) ==
    /\ Ready(i) /\ live[i] \in alive
    /\ image[live[i]].work < MaxWork
    /\ image' = [image EXCEPT ![live[i]].work = @ + 1]
    /\ UNCHANGED <<alive, snaps, shot, store, memory, call, ghosts, crashes>>

\* The process dies.  What only its memory knew is lost.
Crash ==
    /\ crashes < MaxCrashes
    /\ crashes' = crashes + 1
    /\ pool' = FALSE /\ active' = {}
    /\ live' = [i \in Ids |-> NoSandbox]
    /\ op' = [i \in Ids |-> "none"] /\ pc' = [i \in Ids |-> "idle"]
    /\ entry' = [i \in Ids |-> NoEntry] /\ new' = [i \in Ids |-> NoSnapshot]
    /\ data' = [i \in Ids |-> [j \in Ids |-> NoEntry]]
    /\ strays' = alive
    /\ lost' = lost \cup (snaps \ Range(store))
    /\ UNCHANGED <<service, store, saved, discarded>>

-----------------------------------------------------------------------------
Session(i) ==
    \/ OpenBegin(i) \/ OpenCreate(i) \/ OpenRaises(i)
    \/ Load(i) \/ Save(i) \/ SaveRaises(i)
    \/ CheckpointBegin(i, "checkpoint") \/ CheckpointBegin(i, "close")
    \/ Snapshot(i) \/ SnapshotRaises(i) \/ Rotate(i)
    \/ EndBegin(i) \/ Release(i) \/ DiscardBegin(i)
    \/ Free(i) \/ FreeRaises(i) \/ Work(i)

Next == Enter \/ Exit \/ Crash \/ \E i \in Ids : Session(i)

Spec == Init /\ [][Next]_vars

-----------------------------------------------------------------------------
(* Properties.                                                             *)

\* The type of every variable.
TypeOK ==
    /\ {alive, active, strays} \subseteq SUBSET Sandboxes
    /\ image \in [Sandboxes -> Images]
    /\ {snaps, lost} \subseteq SUBSET Snapshots
    /\ shot \in [Snapshots -> Images]
    /\ store \in [Ids -> Entries]
    /\ pool \in BOOLEAN
    /\ live \in [Ids -> Sandboxes \cup {NoSandbox}]
    /\ op \in [Ids -> Ops] /\ pc \in [Ids -> Steps]
    /\ entry \in [Ids -> Entries]
    /\ new \in [Ids -> Snapshots \cup {NoSnapshot}]
    /\ data \in [Ids -> [Ids -> Entries]]
    /\ saved \in [Ids -> 0..MaxWork]
    /\ discarded \in SUBSET Ids
    /\ crashes \in 0..MaxCrashes

\* The last checkpoint can be restored: the store's snapshot exists and holds
\* that session's work as of that checkpoint, whatever call failed and wherever
\* the process died, unless a discard of the session has begun.
Restorable ==
    \A i \in Ids : store[i] \in Snapshots /\ i \notin discarded =>
        /\ store[i] \in snaps
        /\ shot[store[i]] = [of |-> i, work |-> saved[i]]

\* A live session runs in a sandbox of its own that exists, that the pool will
\* delete, and that has all the work of the last checkpoint on its disk.
LiveCurrent ==
    \A i \in Ids : live[i] # NoSandbox =>
        /\ live[i] \in alive \cap active
        /\ image[live[i]].of = i
        /\ i \notin discarded => image[live[i]].work >= saved[i]
        /\ \A j \in Ids : live[j] = live[i] => j = i

\* A snapshot on its way into the store, or out of the service.
Rotating == {new[i] : i \in {j \in Ids : pc[j] \in {"load", "save"}}}
              \cup {entry[i] : i \in {j \in Ids : pc[j] = "rotate"}}

\* Snapshots and sandboxes bill: each that exists is known to the store or to
\* the pool, is being rotated, or is one a failure or a crash hid.
Accounted ==
    /\ snaps \subseteq Range(store) \cup Rotating \cup lost
    /\ alive \subseteq active \cup strays

\* checkpoint()'s assertion: a session that is live has an entry in the store.
\* session_manager.py:212 "assert entry is not None  # we set it on open()"
LiveHasEntry ==
    \A i \in Ids : live[i] # NoSandbox /\ pc[i] = "idle" => store[i] # NoEntry

-----------------------------------------------------------------------------
(* The refinement of DurableSession.                                       *)

\* What runs in session i, and what its next sandbox starts from.
Running(i) == IF live[i] = NoSandbox THEN NoEntry ELSE image[live[i]]
Committed(i) ==
    IF store[i] \in snaps THEN shot[store[i]] ELSE [of |-> i, work |-> 0]

Durable == INSTANCE DurableSession WITH
    NoImage <- NoEntry,
    running <- [i \in Ids |-> Running(i)],
    committed <- [i \in Ids |-> Committed(i)],
    ending <- {i \in Ids : op[i] = "discard"}

\* A session is durable: through failures between any two steps of a checkpoint
\* and its rotation (session_manager.py:222-262) and through crashes, a session
\* resumes from exactly what it last committed, and only discard() forgets that.
ImplementsDurable == Durable!Spec
=============================================================================
