-------------------- MODULE SessionManager_refinement --------------------
(***************************************************************************)
(* SessionManager implements DurableSession, for every set of sessions,    *)
(* every quota and every number of crashes, when the process makes one     *)
(* call at a time.                                                         *)
(***************************************************************************)
EXTENDS SessionManager_proofs

-----------------------------------------------------------------------------
(* The mapping, one session at a time.                                     *)

\* DurableSession sees nothing of session j change.
Same(j) ==
    /\ Running(j)' = Running(j) /\ Committed(j)' = Committed(j)
    /\ op'[j] = "discard" <=> op[j] = "discard"

\* The three variables of DurableSession when only session i changes.
LEMMA Moved ==
  ASSUME NEW i \in Ids, \A j \in Ids \ {i} : Same(j)
  PROVE  /\ [j \in Ids |-> Running(j)]'
              = [[j \in Ids |-> Running(j)] EXCEPT ![i] = Running(i)']
         /\ [j \in Ids |-> Committed(j)]'
              = [[j \in Ids |-> Committed(j)] EXCEPT ![i] = Committed(i)']
         /\ {j \in Ids : op'[j] = "discard"} \ {i} = {j \in Ids : op[j] = "discard"} \ {i}
BY DEF Same

LEMMA Stutters ==
  ASSUME \A j \in Ids : Same(j) PROVE UNCHANGED Durable!vars
BY DEF Same, Durable!vars

LEMMA Opens ==
  ASSUME NEW i \in Ids, \A j \in Ids \ {i} : Same(j), Running(i) = NoEntry,
         Running(i)' = Committed(i), Committed(i)' = Committed(i),
         op[i] # "discard", op'[i] # "discard"
  PROVE  Durable!Next
<1>1. Durable!Open(i)
  BY Moved DEF Durable!Open, Same
<1>2. QED BY <1>1 DEF Durable!Next

LEMMA Commits ==
  ASSUME NEW i \in Ids, \A j \in Ids \ {i} : Same(j), Running(i) # NoEntry,
         Running(i)' = Running(i), Committed(i)' = Running(i),
         op[i] # "discard", op'[i] # "discard"
  PROVE  Durable!Next
<1>1. Durable!Commit(i)
  BY Moved DEF Durable!Commit, Same
<1>2. QED BY <1>1 DEF Durable!Next

LEMMA Stops ==
  ASSUME NEW i \in Ids, \A j \in Ids \ {i} : Same(j), Running(i)' = NoEntry,
         Committed(i)' = Committed(i), op'[i] = "discard" <=> op[i] = "discard"
  PROVE  Durable!Next
<1>1. Durable!Stop(i)
  BY Moved DEF Durable!Stop, Same
<1>2. QED BY <1>1 DEF Durable!Next

LEMMA Discards ==
  ASSUME NEW i \in Ids, \A j \in Ids \ {i} : Same(j), Running(i)' = Running(i),
         Committed(i)' = Committed(i), op'[i] = "discard"
  PROVE  Durable!Next
<1>1. Durable!Discard(i)
  BY Moved DEF Durable!Discard, Same
<1>2. QED BY <1>1 DEF Durable!Next

LEMMA Forgets ==
  ASSUME NEW i \in Ids, \A j \in Ids \ {i} : Same(j), Running(i)' = Running(i),
         \/ Committed(i)' = Committed(i)
         \/ Committed(i)' = [of |-> i, work |-> 0],
         op[i] = "discard"
  PROVE  Durable!Next
<1>1. Durable!Forget(i)
  BY Moved DEF Durable!Forget, Durable!Fresh, Same
<1>2. QED BY <1>1 DEF Durable!Next

LEMMA Works ==
  ASSUME NEW i \in Ids, \A j \in Ids \ {i} : Same(j), Running(i) # NoEntry,
         Running(i)' = [Running(i) EXCEPT !.work = Running(i).work + 1],
         Committed(i)' = Committed(i), op'[i] = "discard" <=> op[i] = "discard"
  PROVE  Durable!Next
<1>1. Durable!Work(i)
  BY Moved DEF Durable!Work, Same
<1>2. QED BY <1>1 DEF Durable!Next

-----------------------------------------------------------------------------
(* What the steps leave of a session.                                      *)

\* A session whose sandbox and entry are left alone.
LEMMA SessionKept ==
  ASSUME NEW j \in Ids, live'[j] = live[j], store'[j] = store[j],
         live[j] # NoSandbox => image'[live[j]] = image[live[j]],
         store[j] \in snaps' <=> store[j] \in snaps,
         store[j] \in snaps => shot'[store[j]] = shot[store[j]]
  PROVE  Running(j)' = Running(j) /\ Committed(j)' = Committed(j)
BY DEF Running, Committed

\* The service, the entries and the live sandboxes are left alone.
LEMMA AllKept ==
  ASSUME UNCHANGED <<image, snaps, shot, store, live>>, NEW j \in Ids
  PROVE  Running(j)' = Running(j) /\ Committed(j)' = Committed(j)
BY DEF Running, Committed

\* The image on the disk of a live session is one.
LEMMA RunningIs ==
  ASSUME Inv, NEW i \in Ids, live[i] # NoSandbox
  PROVE  /\ Running(i) = image[live[i]] /\ live[i] \in Sandboxes
         /\ Running(i) \in Images /\ Running(i) # NoEntry
<1>1. live[i] \in Sandboxes
  BY DEF Inv, Typed, TypeOK
<1>2. image[live[i]] \in Images
  BY <1>1 DEF Inv, Typed, TypeOK
<1>3. QED BY <1>1, <1>2, ImageAssumption DEF Running

-----------------------------------------------------------------------------
(* One lemma per kind of action.                                           *)

\* A step that moves a call that is no discard, and nothing else.
LEMMA QuietRefines ==
  ASSUME Serial, Inv, NEW i \in Ids,
         \/ OpenBegin(i) \/ EndBegin(i) \/ Load(i)
         \/ CheckpointBegin(i, "checkpoint") \/ CheckpointBegin(i, "close")
  PROVE  UNCHANGED Durable!vars
<1>1. UNCHANGED <<image, snaps, shot, store, live>>
  BY DEF OpenBegin, EndBegin, Load, CheckpointBegin, service, memory
<1>2. \A j \in Ids : op'[j] = "discard" <=> op[j] = "discard"
  <2>1. CASE Load(i)
    BY <2>1 DEF Load
  <2>2. CASE ~Load(i)
    <3>1. op[i] = "none"
      BY <2>2, OthersSettled DEF Inv, Settled, OpenBegin, EndBegin, CheckpointBegin
    <3>2. op' \in {[op EXCEPT ![i] = o] : o \in {"open", "end", "checkpoint", "close"}}
      BY <2>2 DEF OpenBegin, EndBegin, CheckpointBegin, Goto
    <3>3. QED BY <3>1, <3>2 DEF Inv, Typed, TypeOK
  <2>3. QED BY <2>1, <2>2
<1>3. \A j \in Ids : Same(j)
  BY <1>1, <1>2, AllKept DEF Same
<1>4. QED BY <1>3, Stutters

LEMMA OpenCreateRefines ==
  ASSUME Serial, Inv, NEW i \in Ids, OpenCreate(i) PROVE Durable!Next
<1>1. TypeOK
  BY DEF Inv, Typed
<1>2. Opening(i) /\ pc[i] = "create"
  <2>1. pc[i] = "create" /\ InCall(i)
    BY DEF OpenCreate, Inv, Calls
  <2>2. QED BY <2>1 DEF InCall, Settled, Checkpointing, Dropping, Closing, Discarding
<1>3. PICK s \in Sandboxes : /\ MakeSandbox(s, StartImage(i))
                             /\ live' = [live EXCEPT ![i] = s]
  BY DEF OpenCreate
<1>4. /\ \A j \in Ids : live[j] # s
      /\ image'[s] = StartImage(i)
      /\ \A r \in Sandboxes : r # s => image'[r] = image[r]
      /\ snaps' = snaps /\ shot' = shot
  BY <1>1, <1>3, StartImageTyped, MakeSandboxTyped
<1>5. live'[i] = s /\ \A j \in Ids \ {i} : live'[j] = live[j]
  BY <1>1, <1>3 DEF TypeOK
<1>6. store' = store /\ op'[i] = "open" /\ \A j \in Ids \ {i} : op'[j] = op[j]
  BY <1>1 DEF OpenCreate, Goto, TypeOK
<1>7. \A j \in Ids \ {i} : Same(j)
  <2>1. ASSUME NEW j \in Ids \ {i} PROVE Same(j)
    <3>1. live[j] # NoSandbox => image'[live[j]] = image[live[j]]
      BY <1>1, <1>4 DEF TypeOK
    <3>2. QED BY <1>4, <1>5, <1>6, <3>1, SessionKept DEF Same
  <2>2. QED BY <2>1
<1>8. Running(i) = NoEntry /\ op[i] # "discard"
  BY <1>2 DEF Opening, Running
<1>9. Running(i)' = StartImage(i)
  BY <1>3, <1>4, <1>5, IdAssumption DEF Running
<1>10. Committed(i)' = Committed(i) /\ Committed(i) = StartImage(i)
  <2>1. entry[i] = store[i] /\ (entry[i] \in Snapshots => entry[i] \in snaps)
    BY <1>2 DEF Opening, OpenCreate, CanCreate
  <2>2. store[i] \in snaps <=> entry[i] \in Snapshots
    BY <1>1, <2>1 DEF TypeOK
  <2>3. QED BY <1>4, <1>6, <2>1, <2>2 DEF Committed, StartImage
<1>11. QED BY <1>6, <1>7, <1>8, <1>9, <1>10, Opens

LEMMA OpenRaisesRefines ==
  ASSUME Serial, Inv, NEW i \in Ids, OpenRaises(i) PROVE UNCHANGED Durable!vars
<1>1. TypeOK
  BY DEF Inv, Typed
<1>2. op[i] = "open"
  <2>1. pc[i] = "create" /\ InCall(i)
    BY DEF OpenRaises, Inv, Calls
  <2>2. QED BY <2>1 DEF InCall, Settled, Opening, Checkpointing, Dropping, Closing,
                        Discarding
<1>3. op'[i] = "none" /\ \A j \in Ids \ {i} : op'[j] = op[j]
  BY <1>1, ReturnIs DEF OpenRaises, Apart
<1>4. UNCHANGED <<store, live, snaps, shot>>
  BY DEF OpenRaises, memory, service, MakeSandbox
<1>5. \A j \in Ids : live[j] # NoSandbox => image'[live[j]] = image[live[j]]
  <2>1. CASE UNCHANGED <<service, strays>>
    BY <2>1 DEF service
  <2>2. CASE \E s \in Sandboxes : MakeSandbox(s, StartImage(i))
    BY <1>1, <2>2, StartImageTyped, MakeSandboxTyped DEF TypeOK
  <2>3. QED BY <2>1, <2>2 DEF OpenRaises
<1>6. \A j \in Ids : Same(j)
  BY <1>2, <1>3, <1>4, <1>5, SessionKept DEF Same
<1>7. QED BY <1>6, Stutters

LEMMA SaveRefines ==
  ASSUME Serial, Inv, NEW i \in Ids, Save(i) PROVE [Durable!Next]_(Durable!vars)
<1>1. TypeOK /\ snaps \subseteq Snapshots
  BY DEF Inv, Typed, TypeOK
<1>2. /\ store'[i] = Written(i)
      /\ \A j \in Ids \ {i} : store'[j] = store[j]
      /\ UNCHANGED <<image, snaps, shot, live>>
      /\ Opening(i) \/ Checkpointing(i) \/ Discarding(i)
  BY SaveWrites
<1>3. /\ op'[i] # "discard" /\ \A j \in Ids \ {i} : op'[j] = op[j]
  <2>1. CASE Return(i) \/ EndCheckpoint(i)
    BY <1>1, <2>1, ReturnIs, EndCheckpointIs DEF Apart
  <2>2. CASE op[i] \in Checkpoints /\ Goto(i, op[i], "rotate", entry[i])
    BY <1>1, <2>2 DEF Goto, Checkpoints, TypeOK
  <2>3. QED BY <2>1, <2>2 DEF Save, Checkpoints
<1>4. \A j \in Ids \ {i} : Same(j)
  BY <1>2, <1>3, SessionKept DEF Same
<1>5. Running(i)' = Running(i)
  BY <1>2 DEF Running
<1>6. CASE Opening(i)
  <2>1. store'[i] = store[i] \/ (store[i] = NoEntry /\ store'[i] = NoSnapshot)
    BY <1>2, <1>6 DEF Opening, Written
  <2>2. NoEntry \notin snaps /\ NoSnapshot \notin snaps
    BY <1>1, IdAssumption
  <2>3. Committed(i)' = Committed(i)
    BY <1>2, <2>1, <2>2 DEF Committed
  <2>4. \A j \in Ids : Same(j)
    BY <1>3, <1>4, <1>5, <1>6, <2>3 DEF Same, Opening
  <2>5. QED BY <2>4, Stutters
<1>7. CASE Discarding(i)
  <2>1. store'[i] = NoEntry
    BY <1>2, <1>7 DEF Discarding, Written
  <2>2. Committed(i)' = [of |-> i, work |-> 0]
    BY <1>1, <1>2, <2>1, IdAssumption DEF Committed
  <2>3. QED BY <1>4, <1>5, <1>7, <2>2, Forgets DEF Discarding
<1>8. CASE Checkpointing(i)
  <2>1. Shot(i) /\ live[i] # NoSandbox /\ op[i] # "discard"
    BY <1>8 DEF Save, Checkpointing, Checkpoints, Putting
  <2>2. store'[i] = new[i]
    BY <1>2, <1>8 DEF Checkpointing, Checkpoints, Written
  <2>3. Running(i) = image[live[i]] /\ Running(i) # NoEntry
    BY <2>1, RunningIs
  <2>4. Committed(i)' = Running(i)
    BY <1>2, <2>1, <2>2, <2>3 DEF Committed, Shot
  <2>5. QED BY <1>3, <1>4, <1>5, <2>1, <2>3, <2>4, Commits
<1>9. QED BY <1>2, <1>6, <1>7, <1>8

\* A discard that raises is over and has forgotten nothing; another call that
\* raises goes on or ends unseen.
LEMMA RaisesRefines ==
  ASSUME Serial, Inv, NEW i \in Ids, SaveRaises(i) \/ FreeRaises(i)
  PROVE  [Durable!Next]_(Durable!vars)
<1>1. TypeOK
  BY DEF Inv, Typed
<1>2. UNCHANGED <<image, snaps, shot, store, live>>
  BY DEF SaveRaises, FreeRaises, service, memory
<1>3. op'[i] # "discard" /\ \A j \in Ids \ {i} : op'[j] = op[j]
  BY <1>1, ReturnIs, EndCheckpointIs DEF SaveRaises, FreeRaises, Apart
<1>4. \A j \in Ids : Running(j)' = Running(j) /\ Committed(j)' = Committed(j)
  BY <1>2, AllKept
<1>5. \A j \in Ids \ {i} : Same(j)
  BY <1>3, <1>4 DEF Same
<1>6. CASE op[i] = "discard"
  BY <1>4, <1>5, <1>6, Forgets
<1>7. CASE op[i] # "discard"
  <2>1. \A j \in Ids : Same(j)
    BY <1>3, <1>4, <1>5, <1>7 DEF Same
  <2>2. QED BY <2>1, Stutters
<1>8. QED BY <1>6, <1>7

LEMMA SnapshotRefines ==
  ASSUME Serial, Inv, NEW i \in Ids, Snapshot(i) \/ SnapshotRaises(i)
  PROVE  UNCHANGED Durable!vars
<1>1. TypeOK
  BY DEF Inv, Typed
<1>2. op[i] # "discard"
  <2>1. pc[i] = "snapshot" /\ InCall(i)
    BY DEF Snapshot, SnapshotRaises, Inv, Calls
  <2>2. QED BY <2>1 DEF InCall, Settled, Opening, Checkpointing, Checkpoints, Dropping,
                        Closing, Discarding
<1>3. op'[i] # "discard" /\ \A j \in Ids \ {i} : op'[j] = op[j]
  BY <1>1, <1>2, EndCheckpointIs DEF Snapshot, SnapshotRaises, Goto, Apart, TypeOK
<1>4. /\ store' = store /\ live' = live /\ image' = image
      /\ \A j \in Ids : store[j] \in snaps' <=> store[j] \in snaps
      /\ \A j \in Ids : store[j] \in snaps => shot'[store[j]] = shot[store[j]]
  <2>1. store' = store /\ live' = live /\ snaps \subseteq Snapshots
    BY <1>1 DEF Snapshot, SnapshotRaises, memory, TypeOK
  <2>2. CASE UNCHANGED service
    BY <2>1, <2>2 DEF service
  <2>3. CASE \E p \in Snapshots : MakeSnapshot(p, live[i])
    <3>1. PICK p \in Snapshots : MakeSnapshot(p, live[i])
      BY <2>3
    <3>2. /\ snaps' = snaps \cup {p} /\ image' = image
          /\ \A j \in Ids : store[j] # p
          /\ \A q \in Snapshots : q # p => shot'[q] = shot[q]
      BY <1>1, <3>1, MakeSnapshotTyped
    <3>3. QED BY <2>1, <3>2
  <2>4. QED BY <2>2, <2>3 DEF Snapshot, SnapshotRaises
<1>5. \A j \in Ids : Same(j)
  BY <1>2, <1>3, <1>4, SessionKept DEF Same
<1>6. QED BY <1>5, Stutters

LEMMA RotateRefines ==
  ASSUME Serial, Inv, NEW i \in Ids, Rotate(i) PROVE UNCHANGED Durable!vars
<1>1. TypeOK
  BY DEF Inv, Typed
<1>2. Dropping(i)
  <2>1. pc[i] = "rotate" /\ InCall(i)
    BY DEF Rotate, Inv, Calls
  <2>2. QED BY <2>1 DEF InCall, Settled, Opening, Checkpointing, Closing, Discarding,
                        Putting
<1>3. /\ op[i] # "discard" /\ op'[i] # "discard"
      /\ \A j \in Ids \ {i} : op'[j] = op[j]
  BY <1>1, <1>2, EndCheckpointIs DEF Rotate, Dropping, Checkpoints, Apart
<1>4. /\ store' = store /\ live' = live /\ image' = image
      /\ \A j \in Ids : store[j] \in snaps' <=> store[j] \in snaps
      /\ \A j \in Ids : store[j] \in snaps => shot'[store[j]] = shot[store[j]]
  <2>1. store' = store /\ live' = live /\ snaps \subseteq Snapshots
    BY <1>1 DEF Rotate, memory, TypeOK
  <2>2. CASE UNCHANGED service
    BY <2>1, <2>2 DEF service
  <2>3. CASE DropSnapshot(entry[i])
    <3>1. /\ snaps' = snaps \ {entry[i]} /\ image' = image
          /\ \A q \in Snapshots : q # entry[i] => shot'[q] = shot[q]
      BY <1>1, <2>3, DropSnapshotTyped DEF TypeOK
    <3>2. \A j \in Ids : store[j] # entry[i]
      BY <1>2 DEF Dropping
    <3>3. QED BY <2>1, <3>1, <3>2
  <2>4. QED BY <2>2, <2>3 DEF Rotate
<1>5. \A j \in Ids : Same(j)
  BY <1>3, <1>4, SessionKept DEF Same
<1>6. QED BY <1>5, Stutters

LEMMA ReleaseRefines ==
  ASSUME Serial, Inv, NEW i \in Ids, Release(i) PROVE Durable!Next
<1>1. TypeOK
  BY DEF Inv, Typed
<1>2. live[i] # NoSandbox
  <2>1. pc[i] = "release" /\ InCall(i)
    BY DEF Release, Inv, Calls
  <2>2. QED BY <2>1 DEF InCall, Settled, Opening, Checkpointing, Dropping, Closing,
                        Discarding
<1>3. /\ op'[i] = "discard" <=> op[i] = "discard"
      /\ \A j \in Ids \ {i} : op'[j] = op[j]
  BY <1>1, ReturnIs DEF Release, Goto, Apart, TypeOK
<1>4. /\ live'[i] = NoSandbox /\ \A j \in Ids \ {i} : live'[j] = live[j]
      /\ store' = store
  BY <1>1 DEF Release, TypeOK
<1>5. /\ snaps' = snaps /\ shot' = shot
      /\ \A s \in Sandboxes \ {live[i]} : image'[s] = image[s]
  <2>1. CASE DropSandboxes({live[i]})
    BY <1>1, <2>1, DropSandboxesTyped
  <2>2. CASE UNCHANGED service
    BY <2>2 DEF service
  <2>3. QED BY <2>1, <2>2 DEF Release
<1>6. \A j \in Ids \ {i} : Same(j)
  <2>1. ASSUME NEW j \in Ids \ {i} PROVE Same(j)
    <3>1. live[j] # NoSandbox => live[j] \in Sandboxes \ {live[i]}
      BY <1>1, <1>2 DEF Inv, LiveCurrent, TypeOK
    <3>2. QED BY <1>3, <1>4, <1>5, <3>1, SessionKept DEF Same
  <2>2. QED BY <2>1
<1>7. Running(i)' = NoEntry /\ Committed(i)' = Committed(i)
  BY <1>4, <1>5 DEF Running, Committed
<1>8. QED BY <1>3, <1>6, <1>7, Stops

LEMMA DiscardBeginRefines ==
  ASSUME Serial, Inv, NEW i \in Ids, DiscardBegin(i) PROVE Durable!Next
<1>1. op'[i] = "discard" /\ \A j \in Ids \ {i} : op'[j] = op[j]
  BY DEF DiscardBegin, Goto, Inv, Typed, TypeOK
<1>2. UNCHANGED <<image, snaps, shot, store, live>>
  BY DEF DiscardBegin, service, memory
<1>3. \A j \in Ids : Running(j)' = Running(j) /\ Committed(j)' = Committed(j)
  BY <1>2, AllKept
<1>4. QED BY <1>1, <1>3, Discards DEF Same

LEMMA FreeRefines ==
  ASSUME Serial, Inv, NEW i \in Ids, Free(i) PROVE Durable!Next
<1>1. TypeOK /\ snaps \subseteq Snapshots /\ store[i] \in Entries
  BY DEF Inv, Typed, TypeOK
<1>2. op[i] = "discard"
  <2>1. pc[i] = "free" /\ InCall(i)
    BY DEF Free, Inv, Calls
  <2>2. QED BY <2>1 DEF InCall, Settled, Opening, Checkpointing, Dropping, Closing,
                        Discarding
<1>3. op'[i] = "discard" /\ \A j \in Ids \ {i} : op'[j] = op[j]
  BY <1>1 DEF Free, Goto, TypeOK
<1>4. store' = store /\ live' = live
  BY DEF Free, memory
<1>5. CASE UNCHANGED service
  <2>1. \A j \in Ids : Running(j)' = Running(j) /\ Committed(j)' = Committed(j)
    BY <1>4, <1>5, AllKept DEF service
  <2>2. QED BY <1>2, <1>3, <2>1, Forgets DEF Same
<1>6. CASE store[i] \in Snapshots /\ DropSnapshot(store[i])
  <2>1. /\ snaps' = snaps \ {store[i]} /\ image' = image
        /\ \A q \in Snapshots : q # store[i] => shot'[q] = shot[q]
    BY <1>1, <1>6, DropSnapshotTyped
  <2>2. \A j \in Ids \ {i} : store[j] # store[i]
    <3>1. Stored(i)
      BY DEF Inv, StoreInv
    <3>2. QED BY <1>6, <3>1 DEF Stored
  <2>3. \A j \in Ids \ {i} : Same(j)
    BY <1>1, <1>3, <1>4, <2>1, <2>2, SessionKept DEF Same
  <2>4. Running(i)' = Running(i) /\ Committed(i)' = [of |-> i, work |-> 0]
    BY <1>4, <2>1 DEF Running, Committed
  <2>5. QED BY <1>2, <2>3, <2>4, Forgets
<1>7. QED BY <1>5, <1>6 DEF Free

LEMMA WorkRefines ==
  ASSUME Serial, Inv, NEW i \in Ids, Work(i) PROVE Durable!Next
<1>1. live[i] # NoSandbox /\ live[i] \in Sandboxes
  BY IdAssumption DEF Work, Inv, Typed, TypeOK
<1>2. /\ image'[live[i]] = [of |-> image[live[i]].of, work |-> image[live[i]].work + 1]
      /\ \A s \in Sandboxes : s # live[i] => image'[s] = image[s]
  BY WorkTyped DEF Inv
<1>3. UNCHANGED <<snaps, shot, store, live, op>>
  BY DEF Work, memory, call
<1>4. Running(i) = image[live[i]] /\ Running(i) \in Images /\ Running(i) # NoEntry
  BY <1>1, RunningIs
<1>5. Running(i)' = [Running(i) EXCEPT !.work = Running(i).work + 1]
  <2>1. Running(i)' = [of |-> Running(i).of, work |-> Running(i).work + 1]
    BY <1>1, <1>2, <1>3, <1>4 DEF Running
  <2>2. [Running(i) EXCEPT !.work = Running(i).work + 1]
          = [of |-> Running(i).of, work |-> Running(i).work + 1]
    BY <1>4 DEF Images
  <2>3. QED BY <2>1, <2>2
<1>6. \A j \in Ids \ {i} : Same(j)
  <2>1. ASSUME NEW j \in Ids \ {i} PROVE Same(j)
    <3>1. live[j] # NoSandbox => live[j] \in Sandboxes /\ live[j] # live[i]
      BY <1>1 DEF Inv, Typed, TypeOK, LiveCurrent
    <3>2. QED BY <1>2, <1>3, <3>1, SessionKept DEF Same
  <2>2. QED BY <2>1
<1>7. Committed(i)' = Committed(i)
  BY <1>3 DEF Committed
<1>8. QED BY <1>3, <1>4, <1>5, <1>6, <1>7, Works

LEMMA EnterRefines == ASSUME Inv, Enter PROVE UNCHANGED Durable!vars
<1>1. UNCHANGED <<image, snaps, shot, store, live, op>>
  BY DEF Enter, service, call
<1>2. \A j \in Ids : Same(j)
  BY <1>1, AllKept DEF Same
<1>3. QED BY <1>2, Stutters

\* Exit deletes what _active still has, which is no session's.
LEMMA ExitRefines == ASSUME Inv, Exit PROVE UNCHANGED Durable!vars
<1>1. UNCHANGED <<snaps, shot, store, live, op>>
  BY DEF Exit, call
<1>2. \A j \in Ids : live[j] = NoSandbox
  BY DEF Exit
<1>3. \A j \in Ids : Same(j)
  BY <1>1, <1>2, SessionKept DEF Same
<1>4. QED BY <1>3, Stutters

LEMMA CrashRefines == ASSUME Inv, Crash PROVE Durable!Next
<1>1. \A j \in Ids : /\ Running(j)' = NoEntry /\ Committed(j)' = Committed(j)
                     /\ op'[j] = "none"
  BY DEF Crash, service, Running, Committed
<1>2. Durable!Crash
  BY <1>1 DEF Durable!Crash
<1>3. QED BY <1>2 DEF Durable!Next

-----------------------------------------------------------------------------
LEMMA SessionRefines ==
  ASSUME Serial, Inv, NEW i \in Ids, Session(i) PROVE [Durable!Next]_(Durable!vars)
<1>1. CASE OpenBegin(i) \/ EndBegin(i) \/ Load(i)
           \/ CheckpointBegin(i, "checkpoint") \/ CheckpointBegin(i, "close")
  BY <1>1, QuietRefines
<1>2. CASE OpenCreate(i) \/ OpenRaises(i)
  BY <1>2, OpenCreateRefines, OpenRaisesRefines
<1>3. CASE Save(i) \/ SaveRaises(i) \/ FreeRaises(i)
  BY <1>3, SaveRefines, RaisesRefines
<1>4. CASE Snapshot(i) \/ SnapshotRaises(i) \/ Rotate(i)
  BY <1>4, SnapshotRefines, RotateRefines
<1>5. CASE Release(i) \/ DiscardBegin(i) \/ Free(i) \/ Work(i)
  BY <1>5, ReleaseRefines, DiscardBeginRefines, FreeRefines, WorkRefines
<1>6. QED BY <1>1, <1>2, <1>3, <1>4, <1>5 DEF Session

LEMMA StepRefines ==
  ASSUME Serial PROVE Inv /\ [Next]_vars => [Durable!Next]_(Durable!vars)
<1> SUFFICES ASSUME Inv, [Next]_vars PROVE [Durable!Next]_(Durable!vars)
  OBVIOUS
<1>1. CASE Enter \/ Exit \/ Crash
  BY <1>1, EnterRefines, ExitRefines, CrashRefines
<1>2. CASE \E i \in Ids : Session(i)
  BY <1>2, SessionRefines
<1>3. CASE UNCHANGED vars
  <2>1. \A j \in Ids : Same(j)
    BY <1>3, AllKept DEF vars, Same
  <2>2. QED BY <2>1, Stutters
<1>4. QED BY <1>1, <1>2, <1>3 DEF Next

\* Nothing runs and nothing is committed at first.
LEMMA InitRefines == Init => Durable!Init
<1> SUFFICES ASSUME Init PROVE Durable!Init
  OBVIOUS
<1>1. \A i \in Ids : /\ Running(i) = NoEntry /\ op[i] = "none"
                     /\ Committed(i) = [of |-> i, work |-> 0]
  BY DEF Init, Running, Committed
<1>2. QED BY <1>1 DEF Durable!Init, Durable!Fresh

\* For every set of sessions, every quota and every number of crashes, a session
\* resumes from exactly what it last committed: the steps of checkpoint(), close()
\* and the rotation, with their failures, are one commit or none, and only
\* discard() forgets it.
THEOREM SessionsDurable == ASSUME Serial PROVE Spec => ImplementsDurable
<1>1. Spec => Durable!Spec
  BY InvHolds, InitRefines, StepRefines, PTL DEF Spec, Durable!Spec
<1>2. QED BY <1>1 DEF ImplementsDurable
=============================================================================
