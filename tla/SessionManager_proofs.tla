----------------------- MODULE SessionManager_proofs -----------------------
(***************************************************************************)
(* Proofs about SessionManager, for every set of sessions, every quota and *)
(* every number of crashes, when the process makes one call at a time.     *)
(***************************************************************************)
EXTENDS SessionManager, TLAPS

Checkpoints == {"checkpoint", "close"}
Putting == {"load", "save"}

\* A checkpoint that writes its entry has a snapshot to write there.
NewTyped ==
    \A i \in Ids : pc[i] \in Putting /\ op[i] \in Checkpoints => new[i] \in Snapshots

Typed == TypeOK /\ NewTyped

-----------------------------------------------------------------------------
(* What one step of the call on session i leaves of the others.            *)

\* The other calls are where they were.
Apart(i) ==
    \A j \in Ids \ {i} : /\ op'[j] = op[j] /\ pc'[j] = pc[j] /\ entry'[j] = entry[j]
                         /\ new'[j] = new[j]

\* Goto moves one call.
LEMMA GotoIs ==
  ASSUME TypeOK, NEW i \in Ids, NEW o \in Ops, NEW l \in Steps, NEW e \in Entries,
         Goto(i, o, l, e)
  PROVE  /\ op'[i] = o /\ pc'[i] = l /\ entry'[i] = e
         /\ \A j \in Ids \ {i} : op'[j] = op[j] /\ pc'[j] = pc[j] /\ entry'[j] = entry[j]
         /\ op' \in [Ids -> Ops] /\ pc' \in [Ids -> Steps] /\ entry' \in [Ids -> Entries]
         /\ data' \in [Ids -> [Ids -> Entries]]
BY DEF TypeOK, Goto, Entries

\* Return ends one call.
LEMMA ReturnIs ==
  ASSUME TypeOK, NEW i \in Ids, Return(i)
  PROVE  /\ op'[i] = "none" /\ pc'[i] = "idle" /\ entry'[i] = NoEntry /\ new'[i] = NoSnapshot
         /\ Apart(i)
         /\ op' \in [Ids -> Ops] /\ pc' \in [Ids -> Steps] /\ entry' \in [Ids -> Entries]
         /\ data' \in [Ids -> [Ids -> Entries]] /\ new' \in [Ids -> Snapshots \cup {NoSnapshot}]
<1>1. Goto(i, "none", "idle", NoEntry) /\ new' = [new EXCEPT ![i] = NoSnapshot]
  BY DEF Return
<1>2. "none" \in Ops /\ "idle" \in Steps /\ NoEntry \in Entries
  BY DEF Ops, Steps, Entries
<1>3. /\ \A j \in Ids \ {i} : new'[j] = new[j]
      /\ new'[i] = NoSnapshot /\ new' \in [Ids -> Snapshots \cup {NoSnapshot}]
  BY <1>1 DEF TypeOK
<1>4. QED BY <1>1, <1>2, <1>3, GotoIs DEF Apart

\* The end of a checkpoint is the end of its call, or the way to close()'s release.
LEMMA EndCheckpointIs ==
  ASSUME TypeOK, NEW i \in Ids, EndCheckpoint(i)
  PROVE  /\ \/ op'[i] = "none" /\ pc'[i] = "idle"
            \/ op[i] = "close" /\ op'[i] = "close" /\ pc'[i] = "release"
         /\ entry'[i] = NoEntry /\ new'[i] = NoSnapshot
         /\ Apart(i)
         /\ op' \in [Ids -> Ops] /\ pc' \in [Ids -> Steps] /\ entry' \in [Ids -> Entries]
         /\ data' \in [Ids -> [Ids -> Entries]] /\ new' \in [Ids -> Snapshots \cup {NoSnapshot}]
<1>1. CASE op[i] = "close"
  <2>1. Goto(i, "close", "release", NoEntry) /\ new' = [new EXCEPT ![i] = NoSnapshot]
    BY <1>1 DEF EndCheckpoint
  <2>2. "close" \in Ops /\ "release" \in Steps /\ NoEntry \in Entries
    BY DEF Ops, Steps, Entries
  <2>3. /\ \A j \in Ids \ {i} : new'[j] = new[j]
        /\ new'[i] = NoSnapshot /\ new' \in [Ids -> Snapshots \cup {NoSnapshot}]
    BY <2>1 DEF TypeOK
  <2>4. QED BY <1>1, <2>1, <2>2, <2>3, GotoIs DEF Apart
<1>2. CASE op[i] # "close"
  BY <1>2, ReturnIs DEF EndCheckpoint
<1>3. QED BY <1>1, <1>2

\* A step of session i keeps NewTyped if its own call does.
LEMMA NewTypedKept ==
  ASSUME NewTyped, NEW i \in Ids, Apart(i),
         pc'[i] \in Putting /\ op'[i] \in Checkpoints => new'[i] \in Snapshots
  PROVE  NewTyped'
BY DEF NewTyped, Apart

-----------------------------------------------------------------------------
(* Types, whatever the interleaving of the calls.                          *)

LEMMA OpenBeginTyped ==
  ASSUME Typed, NEW i \in Ids, OpenBegin(i) PROVE Typed'
<1>1. "open" \in Ops /\ "create" \in Steps /\ store[i] \in Entries
  BY DEF Typed, TypeOK, Ops, Steps
<1>2. Goto(i, "open", "create", store[i]) /\ TypeOK
  BY DEF OpenBegin, Typed
<1>3. /\ op'[i] = "open" /\ pc'[i] = "create" /\ Apart(i)
      /\ op' \in [Ids -> Ops] /\ pc' \in [Ids -> Steps] /\ entry' \in [Ids -> Entries]
      /\ data' \in [Ids -> [Ids -> Entries]]
  BY <1>1, <1>2, GotoIs DEF OpenBegin, Apart
<1>4. TypeOK'
  BY <1>3 DEF OpenBegin, Typed, TypeOK, service, memory, ghosts
<1>5. NewTyped'
  BY <1>3, NewTypedKept DEF Typed, Putting
<1>6. QED BY <1>4, <1>5 DEF Typed

LEMMA StartImageTyped ==
  ASSUME TypeOK, NEW i \in Ids PROVE StartImage(i) \in Images
<1>1. 0 \in 0..MaxWork
  BY BoundAssumption
<1>2. [of |-> i, work |-> 0] \in Images
  BY <1>1 DEF Images
<1>3. CASE entry[i] \in Snapshots
  BY <1>3 DEF TypeOK, StartImage
<1>4. CASE entry[i] \notin Snapshots
  BY <1>2, <1>4 DEF StartImage
<1>5. QED BY <1>3, <1>4

LEMMA BlankTyped == Blank \in Images
<1>1. 0 \in 0..MaxWork
  BY BoundAssumption
<1>2. QED BY <1>1 DEF Blank, Images

LEMMA MakeSandboxTyped ==
  ASSUME TypeOK, NEW s \in Sandboxes, NEW m \in Images, MakeSandbox(s, m)
  PROVE  /\ alive' = alive \cup {s} /\ s \notin alive /\ s \notin active
         /\ \A j \in Ids : live[j] # s
         /\ image' \in [Sandboxes -> Images] /\ image'[s] = m
         /\ \A r \in Sandboxes : r # s => image'[r] = image[r]
         /\ snaps' = snaps /\ shot' = shot
BY DEF TypeOK, MakeSandbox, FreeSandboxes, Range

LEMMA OpenCreateTyped ==
  ASSUME Typed, NEW i \in Ids, OpenCreate(i) PROVE Typed'
<1>1. PICK s \in Sandboxes : /\ MakeSandbox(s, StartImage(i))
                             /\ live' = [live EXCEPT ![i] = s]
                             /\ active' = active \cup {s}
  BY DEF OpenCreate
<1>2. "open" \in Ops /\ "load" \in Steps /\ entry[i] \in Entries /\ TypeOK
  BY DEF Typed, TypeOK, Ops, Steps
<1>3. /\ op'[i] = "open" /\ pc'[i] = "load" /\ Apart(i)
      /\ op' \in [Ids -> Ops] /\ pc' \in [Ids -> Steps] /\ entry' \in [Ids -> Entries]
      /\ data' \in [Ids -> [Ids -> Entries]]
  BY <1>2, GotoIs DEF OpenCreate, Apart
<1>4. TypeOK'
  <2>1. /\ alive' = alive \cup {s} /\ image' \in [Sandboxes -> Images]
        /\ snaps' = snaps /\ shot' = shot
    BY <1>1, <1>2, StartImageTyped, MakeSandboxTyped
  <2>2. live' \in [Ids -> Sandboxes \cup {NoSandbox}] /\ active' \subseteq Sandboxes
    BY <1>1, <1>2 DEF TypeOK
  <2>3. QED BY <1>2, <1>3, <2>1, <2>2 DEF OpenCreate, TypeOK, ghosts
<1>5. NewTyped'
  BY <1>3, NewTypedKept DEF Typed, Checkpoints
<1>6. QED BY <1>4, <1>5 DEF Typed

LEMMA OpenRaisesTyped ==
  ASSUME Typed, NEW i \in Ids, OpenRaises(i) PROVE Typed'
<1>1. /\ op'[i] = "none" /\ Apart(i)
      /\ op' \in [Ids -> Ops] /\ pc' \in [Ids -> Steps] /\ entry' \in [Ids -> Entries]
      /\ data' \in [Ids -> [Ids -> Entries]] /\ new' \in [Ids -> Snapshots \cup {NoSnapshot}]
  BY ReturnIs DEF OpenRaises, Typed
<1>2. /\ alive' \subseteq Sandboxes /\ strays' \subseteq Sandboxes
      /\ image' \in [Sandboxes -> Images]
      /\ snaps' = snaps /\ shot' = shot
  <2>1. CASE UNCHANGED <<service, strays>>
    BY <2>1 DEF service, Typed, TypeOK
  <2>2. CASE \E s \in Sandboxes : /\ MakeSandbox(s, StartImage(i))
                                  /\ strays' = strays \cup {s}
    BY <2>2, StartImageTyped, MakeSandboxTyped DEF Typed, TypeOK
  <2>3. QED BY <2>1, <2>2 DEF OpenRaises
<1>3. TypeOK'
  BY <1>1, <1>2 DEF OpenRaises, memory, Typed, TypeOK
<1>4. NewTyped'
  BY <1>1, NewTypedKept DEF Typed, Checkpoints
<1>5. QED BY <1>3, <1>4 DEF Typed

LEMMA LoadTyped ==
  ASSUME Typed, NEW i \in Ids, Load(i) PROVE Typed'
<1>1. "save" \in Steps
  BY DEF Steps
<1>2. pc' \in [Ids -> Steps] /\ data' \in [Ids -> [Ids -> Entries]]
  BY <1>1 DEF Load, Typed, TypeOK
<1>3. TypeOK'
  BY <1>2 DEF Load, Typed, TypeOK, service, memory, ghosts
<1>4. \A j \in Ids : pc'[j] \in Putting => pc[j] \in Putting
  BY DEF Load, Typed, TypeOK, Putting
<1>5. NewTyped'
  BY <1>4 DEF Load, Typed, NewTyped
<1>6. QED BY <1>3, <1>5 DEF Typed

LEMMA SaveTyped ==
  ASSUME Typed, NEW i \in Ids, Save(i) PROVE Typed'
<1>1. Written(i) \in Entries /\ data[i] \in [Ids -> Entries]
  BY DEF Typed, TypeOK, Written, Entries
<1>2. store' \in [Ids -> Entries]
  BY <1>1 DEF Save
<1>3. /\ Apart(i)
      /\ op' \in [Ids -> Ops] /\ pc' \in [Ids -> Steps] /\ entry' \in [Ids -> Entries]
      /\ data' \in [Ids -> [Ids -> Entries]] /\ new' \in [Ids -> Snapshots \cup {NoSnapshot}]
      /\ pc'[i] \notin Putting
  <2>1. CASE op[i] \in Checkpoints /\ entry[i] \in Snapshots
    <3>1. /\ op[i] \in Ops /\ "rotate" \in Steps /\ entry[i] \in Entries
          /\ Goto(i, op[i], "rotate", entry[i]) /\ UNCHANGED new
      BY <2>1 DEF Save, Checkpoints, Typed, TypeOK, Steps
    <3>2. QED BY <3>1, GotoIs DEF Typed, TypeOK, Apart, Putting
  <2>2. CASE op[i] \in Checkpoints /\ entry[i] \notin Snapshots
    <3>1. EndCheckpoint(i)
      BY <2>2 DEF Save, Checkpoints
    <3>2. QED BY <3>1, EndCheckpointIs DEF Typed, Putting
  <2>3. CASE op[i] \notin Checkpoints
    <3>1. Return(i)
      BY <2>3 DEF Save, Checkpoints
    <3>2. QED BY <3>1, ReturnIs DEF Typed, Putting
  <2>4. QED BY <2>1, <2>2, <2>3
<1>4. saved' \in [Ids -> 0..MaxWork] /\ discarded' \subseteq Ids
  <2>1. CASE op[i] \in Checkpoints
    <3>1. new[i] \in Snapshots
      BY <2>1 DEF Save, Typed, NewTyped, Putting
    <3>2. shot[new[i]].work \in 0..MaxWork
      BY <3>1 DEF Typed, TypeOK, Images
    <3>3. QED BY <2>1, <3>2 DEF Save, Checkpoints, Typed, TypeOK
  <2>2. CASE op[i] \notin Checkpoints
    <3>1. 0 \in 0..MaxWork
      BY BoundAssumption
    <3>2. QED BY <2>2, <3>1 DEF Save, Checkpoints, Typed, TypeOK
  <2>3. QED BY <2>1, <2>2
<1>5. TypeOK'
  BY <1>2, <1>3, <1>4 DEF Save, Typed, TypeOK, service, memory
<1>6. NewTyped'
  BY <1>3, NewTypedKept DEF Typed
<1>7. QED BY <1>5, <1>6 DEF Typed

LEMMA SaveRaisesTyped ==
  ASSUME Typed, NEW i \in Ids, SaveRaises(i) PROVE Typed'
<1>1. EndCheckpoint(i) \/ Return(i)
  BY DEF SaveRaises
<1>2. /\ Apart(i) /\ new'[i] = NoSnapshot /\ pc'[i] \notin Putting
      /\ op' \in [Ids -> Ops] /\ pc' \in [Ids -> Steps] /\ entry' \in [Ids -> Entries]
      /\ data' \in [Ids -> [Ids -> Entries]] /\ new' \in [Ids -> Snapshots \cup {NoSnapshot}]
  BY <1>1, EndCheckpointIs, ReturnIs DEF Typed, Putting
<1>3. TypeOK'
  BY <1>2 DEF SaveRaises, Typed, TypeOK, service, memory
<1>4. QED BY <1>2, <1>3, NewTypedKept DEF Typed

LEMMA CheckpointBeginTyped ==
  ASSUME Typed, NEW i \in Ids, NEW o \in Checkpoints, CheckpointBegin(i, o) PROVE Typed'
<1>1. /\ o \in Ops /\ {"snapshot", "release"} \subseteq Steps
      /\ store[i] \in Entries /\ NoEntry \in Entries
  BY DEF Typed, TypeOK, Ops, Steps, Entries, Checkpoints
<1>2. \/ Goto(i, o, "snapshot", store[i])
      \/ Goto(i, o, "release", NoEntry)
  BY DEF CheckpointBegin
<1>3. /\ Apart(i) /\ pc'[i] \notin Putting
      /\ op' \in [Ids -> Ops] /\ pc' \in [Ids -> Steps] /\ entry' \in [Ids -> Entries]
      /\ data' \in [Ids -> [Ids -> Entries]]
  BY <1>1, <1>2, GotoIs DEF CheckpointBegin, Typed, Apart, Putting
<1>4. TypeOK'
  BY <1>3 DEF CheckpointBegin, Typed, TypeOK, service, memory, ghosts
<1>5. QED BY <1>3, <1>4, NewTypedKept DEF Typed

LEMMA MakeSnapshotTyped ==
  ASSUME TypeOK, NEW p \in Snapshots, NEW s, MakeSnapshot(p, s)
  PROVE  /\ snaps' = snaps \cup {p} /\ p \notin snaps /\ s \in alive
         /\ \A j \in Ids : store[j] # p /\ entry[j] # p /\ new[j] # p
         /\ shot' \in [Snapshots -> Images] /\ shot'[p] = image[s]
         /\ \A q \in Snapshots : q # p => shot'[q] = shot[q]
         /\ alive' = alive /\ image' = image
BY DEF TypeOK, MakeSnapshot, FreeSnapshots, Range

LEMMA DropSnapshotTyped ==
  ASSUME TypeOK, NEW p \in Entries, DropSnapshot(p)
  PROVE  /\ snaps' = snaps \ {p} /\ lost' = lost \ {p}
         /\ shot' \in [Snapshots -> Images]
         /\ \A q \in Snapshots : q # p => shot'[q] = shot[q]
         /\ alive' = alive /\ image' = image
BY BlankTyped DEF TypeOK, DropSnapshot

LEMMA SnapshotTyped ==
  ASSUME Typed, NEW i \in Ids, Snapshot(i) PROVE Typed'
<1>1. PICK p \in Snapshots : MakeSnapshot(p, live[i]) /\ new' = [new EXCEPT ![i] = p]
  BY DEF Snapshot
<1>2. op[i] \in Ops /\ "load" \in Steps /\ entry[i] \in Entries /\ TypeOK
  BY DEF Typed, TypeOK, Steps
<1>3. /\ Apart(i) /\ new'[i] = p
      /\ op' \in [Ids -> Ops] /\ pc' \in [Ids -> Steps] /\ entry' \in [Ids -> Entries]
      /\ data' \in [Ids -> [Ids -> Entries]] /\ new' \in [Ids -> Snapshots \cup {NoSnapshot}]
  <2>1. /\ new'[i] = p /\ \A j \in Ids \ {i} : new'[j] = new[j]
        /\ new' \in [Ids -> Snapshots \cup {NoSnapshot}]
    BY <1>1, <1>2 DEF TypeOK
  <2>2. QED BY <2>1, <1>2, GotoIs DEF Snapshot, Apart
<1>4. TypeOK'
  <2>1. /\ snaps' \subseteq Snapshots /\ shot' \in [Snapshots -> Images]
        /\ alive' = alive /\ image' = image
    BY <1>1, <1>2, MakeSnapshotTyped DEF TypeOK
  <2>2. QED BY <1>2, <1>3, <2>1 DEF Snapshot, TypeOK, memory, ghosts
<1>5. QED BY <1>3, <1>4, NewTypedKept DEF Typed

LEMMA SnapshotRaisesTyped ==
  ASSUME Typed, NEW i \in Ids, SnapshotRaises(i) PROVE Typed'
<1>1. /\ Apart(i) /\ pc'[i] \notin Putting
      /\ op' \in [Ids -> Ops] /\ pc' \in [Ids -> Steps] /\ entry' \in [Ids -> Entries]
      /\ data' \in [Ids -> [Ids -> Entries]] /\ new' \in [Ids -> Snapshots \cup {NoSnapshot}]
  BY EndCheckpointIs DEF SnapshotRaises, Typed, Putting
<1>2. /\ snaps' \subseteq Snapshots /\ lost' \subseteq Snapshots
      /\ shot' \in [Snapshots -> Images] /\ alive' = alive /\ image' = image
  <2>1. CASE UNCHANGED <<service, lost>>
    BY <2>1 DEF service, Typed, TypeOK
  <2>2. CASE \E p \in Snapshots : MakeSnapshot(p, live[i]) /\ lost' = lost \cup {p}
    BY <2>2, MakeSnapshotTyped DEF Typed, TypeOK
  <2>3. QED BY <2>1, <2>2 DEF SnapshotRaises
<1>3. TypeOK'
  BY <1>1, <1>2 DEF SnapshotRaises, memory, Typed, TypeOK
<1>4. QED BY <1>1, <1>3, NewTypedKept DEF Typed

LEMMA RotateTyped ==
  ASSUME Typed, NEW i \in Ids, Rotate(i) PROVE Typed'
<1>1. /\ Apart(i) /\ pc'[i] \notin Putting
      /\ op' \in [Ids -> Ops] /\ pc' \in [Ids -> Steps] /\ entry' \in [Ids -> Entries]
      /\ data' \in [Ids -> [Ids -> Entries]] /\ new' \in [Ids -> Snapshots \cup {NoSnapshot}]
  BY EndCheckpointIs DEF Rotate, Typed, Putting
<1>2. /\ snaps' \subseteq Snapshots /\ lost' \subseteq Snapshots
      /\ shot' \in [Snapshots -> Images] /\ alive' = alive /\ image' = image
  <2>1. CASE DropSnapshot(entry[i])
    <3>1. entry[i] \in Entries
      BY DEF Typed, TypeOK
    <3>2. QED BY <2>1, <3>1, DropSnapshotTyped DEF Typed, TypeOK
  <2>2. CASE lost' = lost \cup ({entry[i]} \cap snaps) /\ UNCHANGED service
    BY <2>2 DEF service, Typed, TypeOK
  <2>3. QED BY <2>1, <2>2 DEF Rotate
<1>3. TypeOK'
  BY <1>1, <1>2 DEF Rotate, memory, Typed, TypeOK
<1>4. QED BY <1>1, <1>3, NewTypedKept DEF Typed

LEMMA BeginTyped ==
  ASSUME Typed, NEW i \in Ids, EndBegin(i) \/ DiscardBegin(i) PROVE Typed'
<1>1. /\ {"end", "discard"} \subseteq Ops /\ {"release", "free"} \subseteq Steps
      /\ NoEntry \in Entries
  BY DEF Ops, Steps, Entries
<1>2. \/ Goto(i, "end", "release", NoEntry)
      \/ Goto(i, "discard", "release", NoEntry)
      \/ Goto(i, "discard", "free", NoEntry)
  BY DEF EndBegin, DiscardBegin
<1>3. UNCHANGED <<service, store, memory, new, ghosts, crashes>>
  BY DEF EndBegin, DiscardBegin
<1>4. /\ Apart(i) /\ pc'[i] \notin Putting
      /\ op' \in [Ids -> Ops] /\ pc' \in [Ids -> Steps] /\ entry' \in [Ids -> Entries]
      /\ data' \in [Ids -> [Ids -> Entries]]
  BY <1>1, <1>2, <1>3, GotoIs DEF Typed, Apart, Putting
<1>5. TypeOK'
  BY <1>3, <1>4 DEF Typed, TypeOK, service, memory, ghosts
<1>6. QED BY <1>4, <1>5, NewTypedKept DEF Typed

LEMMA DropSandboxesTyped ==
  ASSUME TypeOK, NEW S, DropSandboxes(S)
  PROVE  /\ alive' = alive \ S /\ strays' = strays \ S
         /\ image' \in [Sandboxes -> Images]
         /\ \A s \in Sandboxes : s \notin S => image'[s] = image[s]
         /\ snaps' = snaps /\ shot' = shot
BY BlankTyped DEF TypeOK, DropSandboxes

LEMMA ReleaseTyped ==
  ASSUME Typed, NEW i \in Ids, Release(i) PROVE Typed'
<1>1. /\ Apart(i) /\ pc'[i] \notin Putting
      /\ op' \in [Ids -> Ops] /\ pc' \in [Ids -> Steps] /\ entry' \in [Ids -> Entries]
      /\ data' \in [Ids -> [Ids -> Entries]] /\ new' \in [Ids -> Snapshots \cup {NoSnapshot}]
  <2>1. CASE op[i] = "discard"
    <3>1. "discard" \in Ops /\ "free" \in Steps /\ NoEntry \in Entries
      BY DEF Ops, Steps, Entries
    <3>2. Goto(i, "discard", "free", NoEntry) /\ UNCHANGED new
      BY <2>1 DEF Release
    <3>3. QED BY <3>1, <3>2, GotoIs DEF Typed, TypeOK, Apart, Putting
  <2>2. CASE op[i] # "discard"
    BY <2>2, ReturnIs DEF Release, Typed, Putting
  <2>3. QED BY <2>1, <2>2
<1>2. /\ live' \in [Ids -> Sandboxes \cup {NoSandbox}] /\ active' \subseteq Sandboxes
  BY DEF Release, Typed, TypeOK
<1>3. /\ alive' \subseteq Sandboxes /\ strays' \subseteq Sandboxes
      /\ image' \in [Sandboxes -> Images] /\ snaps' = snaps /\ shot' = shot
  <2>1. CASE DropSandboxes({live[i]})
    BY <2>1, DropSandboxesTyped DEF Typed, TypeOK
  <2>2. CASE strays' = strays \cup ({live[i]} \cap alive) /\ UNCHANGED service
    BY <2>2 DEF service, Typed, TypeOK
  <2>3. QED BY <2>1, <2>2 DEF Release
<1>4. TypeOK'
  BY <1>1, <1>2, <1>3 DEF Release, Typed, TypeOK
<1>5. QED BY <1>1, <1>4, NewTypedKept DEF Typed

LEMMA FreeTyped ==
  ASSUME Typed, NEW i \in Ids, Free(i) PROVE Typed'
<1>1. "discard" \in Ops /\ "load" \in Steps /\ NoEntry \in Entries /\ store[i] \in Entries
  BY DEF Typed, TypeOK, Ops, Steps, Entries
<1>2. /\ Apart(i) /\ op'[i] = "discard"
      /\ op' \in [Ids -> Ops] /\ pc' \in [Ids -> Steps] /\ entry' \in [Ids -> Entries]
      /\ data' \in [Ids -> [Ids -> Entries]]
  BY <1>1, GotoIs DEF Free, Typed, Apart
<1>3. /\ snaps' \subseteq Snapshots /\ lost' \subseteq Snapshots
      /\ shot' \in [Snapshots -> Images] /\ alive' = alive /\ image' = image
  <2>1. CASE DropSnapshot(store[i])
    BY <1>1, <2>1, DropSnapshotTyped DEF Typed, TypeOK
  <2>2. CASE /\ lost' = lost \/ lost' = lost \cup ({store[i]} \cap snaps)
             /\ UNCHANGED service
    BY <2>2 DEF service, Typed, TypeOK
  <2>3. QED BY <2>1, <2>2 DEF Free
<1>4. TypeOK'
  BY <1>2, <1>3 DEF Free, memory, Typed, TypeOK
<1>5. QED BY <1>2, <1>4, NewTypedKept DEF Typed, Checkpoints

LEMMA FreeRaisesTyped ==
  ASSUME Typed, NEW i \in Ids, FreeRaises(i) PROVE Typed'
<1>1. /\ Apart(i) /\ pc'[i] \notin Putting
      /\ op' \in [Ids -> Ops] /\ pc' \in [Ids -> Steps] /\ entry' \in [Ids -> Entries]
      /\ data' \in [Ids -> [Ids -> Entries]] /\ new' \in [Ids -> Snapshots \cup {NoSnapshot}]
  BY ReturnIs DEF FreeRaises, Typed, Putting
<1>2. TypeOK'
  BY <1>1 DEF FreeRaises, Typed, TypeOK, service, memory, ghosts
<1>3. QED BY <1>1, <1>2, NewTypedKept DEF Typed

LEMMA WorkTyped ==
  ASSUME Typed, NEW i \in Ids, Work(i)
  PROVE  /\ Typed'
         /\ image'[live[i]] = [of |-> image[live[i]].of, work |-> image[live[i]].work + 1]
         /\ \A s \in Sandboxes : s # live[i] => image'[s] = image[s]
<1>1. live[i] \in Sandboxes /\ image[live[i]] \in Images
  BY DEF Work, Typed, TypeOK
<1>2. /\ image[live[i]].work + 1 \in 0..MaxWork
      /\ image[live[i]] = [of |-> image[live[i]].of, work |-> image[live[i]].work]
  BY <1>1, BoundAssumption DEF Work, Images
<1>3. image' = [image EXCEPT ![live[i]] =
                   [of |-> image[live[i]].of, work |-> image[live[i]].work + 1]]
  <2>1. [image[live[i]] EXCEPT !.work = image[live[i]].work + 1]
          = [of |-> image[live[i]].of, work |-> image[live[i]].work + 1]
    BY <1>1 DEF Images
  <2>2. image' = [image EXCEPT ![live[i]] =
                     [image[live[i]] EXCEPT !.work = image[live[i]].work + 1]]
    BY DEF Work
  <2>3. QED BY <2>1, <2>2
<1>4. [of |-> image[live[i]].of, work |-> image[live[i]].work + 1] \in Images
  BY <1>1, <1>2 DEF Images
<1>5. /\ image' \in [Sandboxes -> Images]
      /\ image'[live[i]] = [of |-> image[live[i]].of, work |-> image[live[i]].work + 1]
      /\ \A s \in Sandboxes : s # live[i] => image'[s] = image[s]
  BY <1>1, <1>3, <1>4 DEF Typed, TypeOK
<1>6. TypeOK'
  BY <1>5 DEF Work, Typed, TypeOK, memory, call, ghosts
<1>7. NewTyped'
  BY DEF Work, Typed, NewTyped, call
<1>8. QED BY <1>5, <1>6, <1>7 DEF Typed

LEMMA EnterTyped == ASSUME Typed, Enter PROVE Typed'
<1>1. TypeOK'
  BY DEF Enter, Typed, TypeOK, service, call, ghosts
<1>2. NewTyped'
  BY DEF Enter, Typed, NewTyped, call
<1>3. QED BY <1>1, <1>2 DEF Typed

LEMMA ExitTyped == ASSUME Typed, Exit PROVE Typed'
<1>1. PICK S \in SUBSET active :
         /\ alive' = alive \ S
         /\ image' = [s \in Sandboxes |-> IF s \in S THEN Blank ELSE image[s]]
         /\ strays' = (strays \ S) \cup (alive \cap (active \ S))
  BY DEF Exit
<1>2. /\ alive' \subseteq Sandboxes /\ strays' \subseteq Sandboxes
      /\ image' \in [Sandboxes -> Images]
  BY <1>1, BlankTyped DEF Typed, TypeOK
<1>3. TypeOK'
  BY <1>2 DEF Exit, Typed, TypeOK, call
<1>4. NewTyped'
  BY DEF Exit, Typed, NewTyped, call
<1>5. QED BY <1>3, <1>4 DEF Typed

LEMMA CrashTyped == ASSUME Typed, Crash PROVE Typed'
<1>1. /\ op' \in [Ids -> Ops] /\ pc' \in [Ids -> Steps] /\ entry' \in [Ids -> Entries]
      /\ new' \in [Ids -> Snapshots \cup {NoSnapshot}]
      /\ data' \in [Ids -> [Ids -> Entries]]
      /\ \A i \in Ids : pc'[i] = "idle"
  BY DEF Crash, Ops, Steps, Entries
<1>2. crashes' \in 0..MaxCrashes
  BY BoundAssumption DEF Crash, Typed, TypeOK
<1>3. /\ live' \in [Ids -> Sandboxes \cup {NoSandbox}] /\ strays' \subseteq Sandboxes
      /\ active' \subseteq Sandboxes /\ lost' \subseteq Snapshots /\ pool' \in BOOLEAN
  BY DEF Crash, Typed, TypeOK
<1>4. TypeOK'
  BY <1>1, <1>2, <1>3 DEF Crash, Typed, TypeOK, service
<1>5. NewTyped'
  BY <1>1 DEF NewTyped, Putting
<1>6. QED BY <1>4, <1>5 DEF Typed

LEMMA InitTyped == Init => Typed
<1>1. SUFFICES ASSUME Init PROVE Typed
  OBVIOUS
<1>2. "none" \in Ops /\ "idle" \in Steps /\ "idle" \notin Putting /\ NoEntry \in Entries
  BY DEF Ops, Steps, Putting, Entries
<1>3. 0 \in 0..MaxWork /\ 0 \in 0..MaxCrashes
  BY BoundAssumption
<1>4. TypeOK
  BY <1>1, <1>2, <1>3, BlankTyped DEF Init, TypeOK
<1>5. NewTyped
  BY <1>1, <1>2 DEF Init, NewTyped
<1>6. QED BY <1>4, <1>5 DEF Typed

LEMMA SessionTyped ==
  ASSUME Typed, NEW i \in Ids, Session(i) PROVE Typed'
<1>1. CASE OpenBegin(i) \/ OpenCreate(i) \/ OpenRaises(i)
  BY <1>1, OpenBeginTyped, OpenCreateTyped, OpenRaisesTyped
<1>2. CASE Load(i) \/ Save(i) \/ SaveRaises(i)
  BY <1>2, LoadTyped, SaveTyped, SaveRaisesTyped
<1>3. CASE CheckpointBegin(i, "checkpoint") \/ CheckpointBegin(i, "close")
  BY <1>3, CheckpointBeginTyped DEF Checkpoints
<1>4. CASE Snapshot(i) \/ SnapshotRaises(i) \/ Rotate(i)
  BY <1>4, SnapshotTyped, SnapshotRaisesTyped, RotateTyped
<1>5. CASE EndBegin(i) \/ Release(i) \/ DiscardBegin(i)
  BY <1>5, BeginTyped, ReleaseTyped
<1>6. CASE Free(i) \/ FreeRaises(i) \/ Work(i)
  BY <1>6, FreeTyped, FreeRaisesTyped, WorkTyped
<1>7. QED BY <1>1, <1>2, <1>3, <1>4, <1>5, <1>6 DEF Session

LEMMA StepTyped == ASSUME Typed, [Next]_vars PROVE Typed'
<1>1. CASE Enter \/ Exit \/ Crash
  BY <1>1, EnterTyped, ExitTyped, CrashTyped
<1>2. CASE \E i \in Ids : Session(i)
  BY <1>2, SessionTyped
<1>3. CASE UNCHANGED vars
  BY <1>3 DEF vars, Typed, TypeOK, NewTyped
<1>4. QED BY <1>1, <1>2, <1>3 DEF Next

\* Every variable of the session manager and of the service keeps its type,
\* also when the calls of several sessions interleave.
THEOREM TypeCorrect == Spec => []TypeOK
<1>1. Typed => TypeOK
  BY DEF Typed
<1>2. QED BY InitTyped, StepTyped, <1>1, PTL DEF Spec

-----------------------------------------------------------------------------
(* One call at a time: the inductive invariant.                            *)

\* No call is under way on session i.
Settled(i) == pc[i] = "idle" /\ op[i] = "none" /\ entry[i] = NoEntry /\ new[i] = NoSnapshot

\* In open(): the entry it read is the entry in the store.
Opening(i) ==
    /\ op[i] = "open" /\ pc[i] \in {"create", "load", "save"}
    /\ entry[i] = store[i] /\ new[i] = NoSnapshot
    /\ pc[i] = "create" => live[i] = NoSandbox

\* The new snapshot is nobody's yet and holds what is on the session's disk.
Shot(i) ==
    /\ new[i] \in snaps /\ shot[new[i]] = image[live[i]]
    /\ \A j \in Ids : store[j] # new[i]

\* In checkpoint() before the write of the entry.
Checkpointing(i) ==
    /\ op[i] \in Checkpoints /\ pc[i] \in {"snapshot", "load", "save"}
    /\ entry[i] = store[i] /\ live[i] # NoSandbox
    /\ pc[i] = "snapshot" => new[i] = NoSnapshot
    /\ pc[i] \in Putting => Shot(i)

\* In checkpoint() after it: nothing refers to the previous snapshot any more.
Dropping(i) ==
    /\ op[i] \in Checkpoints /\ pc[i] = "rotate" /\ live[i] # NoSandbox
    /\ entry[i] \in Snapshots /\ \A j \in Ids : store[j] # entry[i]

\* In the `finally` of close().
Closing(i) ==
    /\ op[i] \in {"close", "end"} /\ pc[i] = "release"
    /\ live[i] # NoSandbox /\ new[i] = NoSnapshot

\* In discard(): it stops the session, lets its snapshot go, writes the entry.
Discarding(i) ==
    /\ op[i] = "discard" /\ pc[i] \in {"release", "free", "load", "save"}
    /\ pc[i] = "release" <=> live[i] # NoSandbox
    /\ new[i] = NoSnapshot
    /\ pc[i] \in Putting => i \in discarded /\ (store[i] \in snaps => store[i] \in lost)

InCall(i) ==
    /\ Settled(i) \/ Opening(i) \/ Checkpointing(i) \/ Dropping(i) \/ Closing(i)
         \/ Discarding(i)
    /\ pc[i] = "save" => data[i] = store

\* At most one call is under way.
Calls ==
    /\ \A i \in Ids : InCall(i)
    /\ \A i, j \in Ids : i # j => Settled(i) \/ Settled(j)

\* What the store says of a session.
Stored(i) ==
    /\ store[i] \in Snapshots /\ i \notin discarded =>
          store[i] \in snaps /\ shot[store[i]] = [of |-> i, work |-> saved[i]]
    /\ store[i] \in snaps => shot[store[i]].of = i
    /\ store[i] \notin Snapshots /\ i \notin discarded => saved[i] = 0
    /\ store[i] \in Snapshots => \A j \in Ids : store[j] = store[i] => j = i

StoreInv == \A i \in Ids : Stored(i)

\* A snapshot has a reason to exist.
Kept(p) ==
    \/ p \in lost
    \/ \E j \in Ids : \/ store[j] = p
                      \/ pc[j] \in Putting /\ new[j] = p
                      \/ pc[j] = "rotate" /\ entry[j] = p

SnapsInv == \A p \in snaps : Kept(p)
BoxesInv == \A s \in alive : s \in active \/ s \in strays

Inv == Typed /\ Calls /\ StoreInv /\ LiveCurrent /\ SnapsInv /\ BoxesInv

-----------------------------------------------------------------------------
(* What a step that leaves a part alone keeps.                             *)

\* While one session's call goes on, or may begin, the others have none.
LEMMA OthersSettled ==
  ASSUME Serial, Calls, NEW i \in Ids, pc[i] # "idle" \/ Ready(i)
  PROVE  /\ \A j \in Ids \ {i} : Settled(j)
         /\ Ready(i) => Settled(i)
<1>1. \A j \in Ids : pc[j] = "idle" => Settled(j)
  BY DEF Calls, InCall, Opening, Checkpointing, Dropping, Closing, Discarding
<1>2. CASE pc[i] # "idle"
  BY <1>2 DEF Calls, Settled, Ready
<1>3. CASE Ready(i)
  BY <1>1, <1>3 DEF Ready
<1>4. QED BY <1>2, <1>3

LEMMA CallsKept ==
  ASSUME NEW i \in Ids, \A j \in Ids \ {i} : Settled(j), Apart(i), InCall(i)'
  PROVE  Calls'
<1>1. \A j \in Ids \ {i} : Settled(j)'
  BY DEF Settled, Apart
<1>2. \A j \in Ids \ {i} : InCall(j)'
  BY <1>1 DEF InCall, Settled
<1>3. QED BY <1>1, <1>2 DEF Calls

LEMMA StoreKept ==
  ASSUME StoreInv, UNCHANGED <<store, snaps, shot, saved>>, discarded \subseteq discarded'
  PROVE  StoreInv'
BY DEF StoreInv, Stored

LEMMA LiveKept ==
  ASSUME LiveCurrent, UNCHANGED <<alive, active, live, image, saved>>,
         discarded \subseteq discarded'
  PROVE  LiveCurrent'
BY DEF LiveCurrent

LEMMA BoxesKept ==
  ASSUME BoxesInv, UNCHANGED <<alive, active, strays>>
  PROVE  BoxesInv'
BY DEF BoxesInv

\* A snapshot stays accounted for unless the call of session i drops it.
LEMMA SnapsKept ==
  ASSUME NEW i \in Ids, \A j \in Ids \ {i} : Settled(j), Apart(i), SnapsInv,
         snaps' \subseteq snaps,
         \A p \in snaps' : p \in lost => p \in lost',
         \A j \in Ids : store[j] \in snaps' =>
             \/ store'[j] = store[j] \/ store[j] \in lost'
             \/ pc'[i] = "rotate" /\ entry'[i] = store[j],
         pc[i] \in Putting /\ new[i] \in snaps' =>
             \/ pc'[i] \in Putting /\ new'[i] = new[i]
             \/ new[i] \in lost' \/ store'[i] = new[i],
         pc[i] = "rotate" /\ entry[i] \in snaps' => entry[i] \in lost'
  PROVE  SnapsInv'
<1> SUFFICES ASSUME NEW p \in snaps' PROVE Kept(p)'
  BY DEF SnapsInv
<1>1. Kept(p)
  BY DEF SnapsInv
<1>2. CASE p \in lost \/ \E j \in Ids : store[j] = p
  BY <1>2 DEF Kept
<1>3. CASE \E j \in Ids : pc[j] \in Putting /\ new[j] = p
  <2>1. pc[i] \in Putting /\ new[i] = p
    BY <1>3 DEF Settled, Putting
  <2>2. QED BY <2>1 DEF Kept
<1>4. CASE \E j \in Ids : pc[j] = "rotate" /\ entry[j] = p
  <2>1. pc[i] = "rotate" /\ entry[i] = p
    BY <1>4 DEF Settled
  <2>2. QED BY <2>1 DEF Kept
<1>5. QED BY <1>1, <1>2, <1>3, <1>4 DEF Kept

\* An image is its two fields.
LEMMA ImageIs ==
  ASSUME NEW m \in Images PROVE m = [of |-> m.of, work |-> m.work] /\ m.work \in Nat
BY BoundAssumption DEF Images

-----------------------------------------------------------------------------
(* One lemma per action.                                                   *)

LEMMA OpenBeginStep ==
  ASSUME Serial, Inv, NEW i \in Ids, OpenBegin(i) PROVE Inv'
<1>1. Typed' /\ TypeOK
  BY OpenBeginTyped DEF Inv, Typed
<1>2. (\A j \in Ids \ {i} : Settled(j)) /\ Settled(i)
  BY OthersSettled DEF Inv, OpenBegin
<1>3. /\ op'[i] = "open" /\ pc'[i] = "create" /\ entry'[i] = store[i]
      /\ new' = new /\ Apart(i)
  <2>1. "open" \in Ops /\ "create" \in Steps /\ store[i] \in Entries
    BY <1>1 DEF TypeOK, Ops, Steps
  <2>2. QED BY <1>1, <2>1, GotoIs DEF OpenBegin, Apart
<1>4. Calls'
  <2>1. Opening(i)'
    BY <1>2, <1>3 DEF OpenBegin, Opening, Settled, memory
  <2>2. QED BY <1>2, <1>3, <2>1, CallsKept DEF InCall
<1>5. SnapsInv'
  BY <1>2, <1>3, SnapsKept DEF OpenBegin, Inv, Settled, Putting, service, ghosts
<1>6. StoreInv' /\ LiveCurrent' /\ BoxesInv'
  BY StoreKept, LiveKept, BoxesKept DEF OpenBegin, Inv, service, memory, ghosts
<1>7. QED BY <1>1, <1>4, <1>5, <1>6 DEF Inv

LEMMA OpenCreateStep ==
  ASSUME Serial, Inv, NEW i \in Ids, OpenCreate(i) PROVE Inv'
<1>1. Typed' /\ TypeOK
  BY OpenCreateTyped DEF Inv, Typed
<1>2. /\ \A j \in Ids \ {i} : Settled(j)
      /\ Opening(i)
  <2>1. pc[i] = "create"
    BY DEF OpenCreate
  <2>2. InCall(i)
    BY DEF Inv, Calls
  <2>3. QED BY <2>1, <2>2, OthersSettled DEF Inv, InCall, Settled, Checkpointing,
               Dropping, Closing, Discarding
<1>3. /\ op'[i] = "open" /\ pc'[i] = "load" /\ entry'[i] = entry[i]
      /\ new' = new /\ Apart(i)
  <2>1. "open" \in Ops /\ "load" \in Steps /\ entry[i] \in Entries
    BY <1>1 DEF TypeOK, Ops, Steps
  <2>2. QED BY <1>1, <2>1, GotoIs DEF OpenCreate, Apart
<1>4. PICK s \in Sandboxes : /\ MakeSandbox(s, StartImage(i))
                             /\ live' = [live EXCEPT ![i] = s]
                             /\ active' = active \cup {s}
  BY DEF OpenCreate
<1>5. /\ alive' = alive \cup {s} /\ s \notin alive /\ s \notin active
      /\ \A j \in Ids : live[j] # s
      /\ image'[s] = StartImage(i)
      /\ \A r \in Sandboxes : r # s => image'[r] = image[r]
      /\ snaps' = snaps /\ shot' = shot
  BY <1>1, <1>4, StartImageTyped, MakeSandboxTyped
<1>6. live'[i] = s /\ \A j \in Ids \ {i} : live'[j] = live[j]
  BY <1>1, <1>4 DEF TypeOK
<1>7. UNCHANGED <<store, saved, lost, strays, discarded>>
  BY DEF OpenCreate, ghosts
<1>8. Calls'
  <2>1. Opening(i)'
    BY <1>2, <1>3, <1>7 DEF Opening
  <2>2. QED BY <1>2, <1>3, <2>1, CallsKept DEF InCall
<1>9. SnapsInv'
  <2>1. pc[i] = "create"
    BY DEF OpenCreate
  <2>2. QED BY <1>2, <1>3, <1>5, <1>7, <2>1, SnapsKept DEF Inv, Putting
<1>10. StoreInv'
  BY <1>5, <1>7, StoreKept DEF Inv
<1>11. LiveCurrent'
  <2>1. entry[i] = store[i] /\ (entry[i] \in Snapshots => entry[i] \in snaps)
    BY <1>2 DEF Opening, OpenCreate, CanCreate
  <2>2. /\ StartImage(i).of = i
        /\ i \notin discarded => StartImage(i).work = saved[i]
    <3>1. Stored(i)
      BY DEF Inv, StoreInv
    <3>2. CASE entry[i] \in Snapshots
      BY <2>1, <3>1, <3>2 DEF Stored, StartImage
    <3>3. CASE entry[i] \notin Snapshots
      BY <2>1, <3>1, <3>3 DEF Stored, StartImage
    <3>4. QED BY <3>2, <3>3
  <2>3. saved[i] \in Nat
    BY <1>1, BoundAssumption DEF TypeOK
  <2>4. s # NoSandbox /\ s \in alive' \cap active'
    BY <1>4, <1>5, IdAssumption
  <2>5. ASSUME NEW j \in Ids \ {i}, live[j] # NoSandbox
        PROVE  /\ live[j] \in alive \cap active /\ live[j] # s /\ live[j] \in Sandboxes
               /\ image'[live[j]] = image[live[j]]
    BY <1>1, <1>5, <2>5 DEF Inv, LiveCurrent, TypeOK
  <2>6. QED BY <1>4, <1>5, <1>6, <1>7, <2>2, <2>3, <2>4, <2>5 DEF Inv, LiveCurrent
<1>12. BoxesInv'
  BY <1>4, <1>5, <1>7 DEF Inv, BoxesInv
<1>13. QED BY <1>1, <1>8, <1>9, <1>10, <1>11, <1>12 DEF Inv

LEMMA OpenRaisesStep ==
  ASSUME Serial, Inv, NEW i \in Ids, OpenRaises(i) PROVE Inv'
<1>1. Typed' /\ TypeOK
  BY OpenRaisesTyped DEF Inv, Typed
<1>2. pc[i] = "create" /\ \A j \in Ids \ {i} : Settled(j)
  BY OthersSettled DEF Inv, OpenRaises
<1>3. Settled(i)' /\ Apart(i)
  BY <1>1, ReturnIs DEF OpenRaises, Settled
<1>4. UNCHANGED <<store, active, live, saved, lost, discarded>>
  BY DEF OpenRaises, memory
<1>5. Calls'
  BY <1>2, <1>3, CallsKept DEF InCall, Settled
<1>6. CASE UNCHANGED <<service, strays>>
  <2>1. SnapsInv'
    BY <1>2, <1>3, <1>4, <1>6, SnapsKept DEF Inv, Putting, service
  <2>2. StoreInv' /\ LiveCurrent' /\ BoxesInv'
    BY <1>4, <1>6, StoreKept, LiveKept, BoxesKept DEF Inv, service
  <2>3. QED BY <1>1, <1>5, <2>1, <2>2 DEF Inv
<1>7. CASE \E s \in Sandboxes : /\ MakeSandbox(s, StartImage(i))
                                /\ strays' = strays \cup {s}
  <2>1. PICK s \in Sandboxes : /\ MakeSandbox(s, StartImage(i))
                               /\ strays' = strays \cup {s}
    BY <1>7
  <2>2. /\ alive' = alive \cup {s} /\ \A j \in Ids : live[j] # s
        /\ \A r \in Sandboxes : r # s => image'[r] = image[r]
        /\ snaps' = snaps /\ shot' = shot
    BY <1>1, <2>1, StartImageTyped, MakeSandboxTyped
  <2>3. SnapsInv'
    BY <1>2, <1>3, <1>4, <2>2, SnapsKept DEF Inv, Putting
  <2>4. StoreInv'
    BY <1>4, <2>2, StoreKept DEF Inv
  <2>5. LiveCurrent'
    BY <1>1, <1>4, <2>2 DEF Inv, LiveCurrent, TypeOK
  <2>6. BoxesInv'
    BY <1>4, <2>1, <2>2 DEF Inv, BoxesInv
  <2>7. QED BY <1>1, <1>5, <2>3, <2>4, <2>5, <2>6 DEF Inv
<1>8. QED BY <1>6, <1>7 DEF OpenRaises

LEMMA LoadStep ==
  ASSUME Serial, Inv, NEW i \in Ids, Load(i) PROVE Inv'
<1>1. Typed' /\ TypeOK
  BY LoadTyped DEF Inv, Typed
<1>2. pc[i] = "load" /\ \A j \in Ids \ {i} : Settled(j)
  BY OthersSettled DEF Inv, Load
<1>3. /\ pc'[i] = "save" /\ data'[i] = store /\ Apart(i)
      /\ UNCHANGED <<op, entry, new>>
  BY <1>1 DEF Load, TypeOK, Apart
<1>4. UNCHANGED <<alive, image, snaps, shot, store, active, live, saved, lost, strays,
                  discarded>>
  BY DEF Load, service, memory, ghosts
<1>5. Calls'
  <2>1. Opening(i) \/ Checkpointing(i) \/ Discarding(i)
    BY <1>2 DEF Inv, Calls, InCall, Settled, Dropping, Closing
  <2>2. Opening(i) => Opening(i)'
    BY <1>2, <1>3, <1>4 DEF Opening
  <2>3. Checkpointing(i) => Checkpointing(i)'
    BY <1>2, <1>3, <1>4 DEF Checkpointing, Shot, Putting
  <2>4. Discarding(i) => Discarding(i)'
    BY <1>2, <1>3, <1>4 DEF Discarding, Putting
  <2>5. InCall(i)'
    BY <1>3, <1>4, <2>1, <2>2, <2>3, <2>4 DEF InCall
  <2>6. QED BY <1>2, <1>3, <2>5, CallsKept
<1>6. SnapsInv'
  BY <1>2, <1>3, <1>4, SnapsKept DEF Inv, Putting
<1>7. StoreInv' /\ LiveCurrent' /\ BoxesInv'
  BY <1>4, StoreKept, LiveKept, BoxesKept DEF Inv
<1>8. QED BY <1>1, <1>5, <1>6, <1>7 DEF Inv

\* Only the entry of session i changes when its call writes the file.
LEMMA SaveWrites ==
  ASSUME Serial, Inv, NEW i \in Ids, Save(i)
  PROVE  /\ store'[i] = Written(i)
         /\ \A j \in Ids \ {i} : store'[j] = store[j]
         /\ UNCHANGED <<alive, image, snaps, shot, active, live, lost, strays>>
         /\ \A j \in Ids \ {i} : Settled(j)
         /\ Opening(i) \/ Checkpointing(i) \/ Discarding(i)
<1>1. pc[i] = "save"
  BY DEF Save
<1>2. data[i] = store /\ (Opening(i) \/ Checkpointing(i) \/ Discarding(i))
  BY <1>1 DEF Inv, Calls, InCall, Settled, Dropping, Closing
<1>3. store'[i] = Written(i) /\ \A j \in Ids \ {i} : store'[j] = store[j]
  BY <1>2 DEF Save, Inv, Typed, TypeOK
<1>4. UNCHANGED <<alive, image, snaps, shot, active, live, lost, strays>>
  BY DEF Save, service, memory
<1>5. QED BY <1>1, <1>2, <1>3, <1>4, OthersSettled DEF Inv

LEMMA SaveOfOpen ==
  ASSUME Serial, Inv, NEW i \in Ids, Save(i), Opening(i) PROVE Inv'
<1>1. Typed' /\ TypeOK
  BY SaveTyped DEF Inv, Typed
<1>2. Return(i) /\ UNCHANGED <<saved, discarded>>
  BY DEF Save, Opening
<1>3. Settled(i)' /\ Apart(i)
  BY <1>1, <1>2, ReturnIs DEF Settled
<1>4. store'[i] = store[i] \/ (store[i] = NoEntry /\ store'[i] = NoSnapshot)
  BY SaveWrites DEF Opening, Written
<1>5. NoEntry \notin snaps /\ NoSnapshot \notin snaps /\ snaps \subseteq Snapshots
  BY <1>1, IdAssumption DEF TypeOK
<1>6. Calls'
  BY <1>3, SaveWrites, CallsKept DEF InCall, Settled
<1>7. SnapsInv'
  BY <1>3, <1>4, <1>5, SaveWrites, SnapsKept DEF Inv, Opening
<1>8. StoreInv'
  <2>1. ASSUME NEW j \in Ids PROVE Stored(j)'
    <3>1. Stored(j) /\ Stored(i)
      BY DEF Inv, StoreInv
    <3>2. CASE j = i
      BY <1>2, <1>4, <3>1, <3>2, SaveWrites, IdAssumption, <1>5 DEF Stored
    <3>3. CASE j # i
      BY <1>2, <1>4, <3>1, <3>3, SaveWrites, IdAssumption, <1>5 DEF Stored
    <3>4. QED BY <3>2, <3>3
  <2>2. QED BY <2>1 DEF StoreInv
<1>9. LiveCurrent' /\ BoxesInv'
  BY <1>2, SaveWrites, LiveKept, BoxesKept DEF Inv
<1>10. QED BY <1>1, <1>6, <1>7, <1>8, <1>9 DEF Inv

LEMMA SaveOfDiscard ==
  ASSUME Serial, Inv, NEW i \in Ids, Save(i), Discarding(i) PROVE Inv'
<1>1. Typed' /\ TypeOK
  BY SaveTyped DEF Inv, Typed
<1>2. /\ Return(i) /\ saved' = [saved EXCEPT ![i] = 0]
      /\ discarded' = discarded \ {i}
  BY DEF Save, Discarding
<1>3. Settled(i)' /\ Apart(i)
  BY <1>1, <1>2, ReturnIs DEF Settled
<1>4. saved'[i] = 0 /\ \A j \in Ids \ {i} : saved'[j] = saved[j]
  BY <1>1, <1>2 DEF TypeOK
<1>5. store'[i] = NoEntry /\ live[i] = NoSandbox /\ new[i] = NoSnapshot
      /\ (store[i] \in snaps => store[i] \in lost)
  BY SaveWrites DEF Discarding, Written, Save, Putting
<1>6. NoEntry \notin Snapshots /\ NoSnapshot \notin Snapshots /\ snaps \subseteq Snapshots
  BY <1>1, IdAssumption DEF TypeOK
<1>7. Calls'
  BY <1>3, SaveWrites, CallsKept DEF InCall, Settled
<1>8. SnapsInv'
  <2>1. pc[i] # "rotate"
    BY DEF Save
  <2>2. QED BY <1>3, <1>5, <1>6, <2>1, SaveWrites, SnapsKept DEF Inv
<1>9. StoreInv'
  <2>1. ASSUME NEW j \in Ids PROVE Stored(j)'
    <3>1. Stored(j)
      BY DEF Inv, StoreInv
    <3>2. CASE j = i
      BY <1>4, <1>5, <1>6, <3>2, SaveWrites DEF Stored
    <3>3. CASE j # i
      BY <1>2, <1>4, <1>5, <1>6, <3>1, <3>3, SaveWrites DEF Stored
    <3>4. QED BY <3>2, <3>3
  <2>2. QED BY <2>1 DEF StoreInv
<1>10. LiveCurrent'
  BY <1>2, <1>4, <1>5, SaveWrites DEF Inv, LiveCurrent
<1>11. BoxesInv'
  BY SaveWrites, BoxesKept DEF Inv
<1>12. QED BY <1>1, <1>7, <1>8, <1>9, <1>10, <1>11 DEF Inv

LEMMA SaveOfCheckpoint ==
  ASSUME Serial, Inv, NEW i \in Ids, Save(i), Checkpointing(i) PROVE Inv'
<1>1. Typed' /\ TypeOK
  BY SaveTyped DEF Inv, Typed
<1>2. /\ discarded' = discarded \ {i}
      /\ saved'[i] = shot[new[i]].work
      /\ \A j \in Ids \ {i} : saved'[j] = saved[j]
  BY <1>1 DEF Save, Checkpointing, Checkpoints, TypeOK
<1>3. Shot(i) /\ live[i] # NoSandbox /\ entry[i] = store[i]
  BY DEF Save, Checkpointing, Putting
<1>4. store'[i] = new[i]
  BY SaveWrites DEF Checkpointing, Checkpoints, Written
<1>5. image[live[i]] = [of |-> i, work |-> saved'[i]] /\ saved'[i] \in Nat
  <2>1. live[i] \in Sandboxes /\ image[live[i]].of = i
    BY <1>1, <1>3 DEF Inv, LiveCurrent, TypeOK
  <2>2. image[live[i]] \in Images
    BY <1>1, <2>1 DEF TypeOK
  <2>3. QED BY <1>2, <1>3, <2>1, <2>2, ImageIs DEF Shot
<1>6. /\ Apart(i) /\ pc'[i] \notin Putting /\ pc'[i] # "save"
      /\ store[i] \in Snapshots => pc'[i] = "rotate" /\ entry'[i] = store[i]
      /\ Settled(i)' \/ Dropping(i)' \/ Closing(i)'
  <2>1. CASE entry[i] \in Snapshots
    <3>1. /\ op[i] \in Ops /\ "rotate" \in Steps /\ entry[i] \in Entries
          /\ Goto(i, op[i], "rotate", entry[i]) /\ UNCHANGED new
      BY <1>1, <2>1 DEF Save, Checkpointing, Checkpoints, TypeOK, Steps
    <3>2. /\ op'[i] = op[i] /\ pc'[i] = "rotate" /\ entry'[i] = entry[i] /\ Apart(i)
      BY <1>1, <3>1, GotoIs DEF Apart
    <3>3. \A j \in Ids : store'[j] # entry[i]
      <4>1. Stored(i)
        BY DEF Inv, StoreInv
      <4>2. QED BY <1>3, <1>4, <2>1, <4>1, SaveWrites DEF Stored, Shot
    <3>4. Dropping(i)'
      BY <1>3, <2>1, <3>2, <3>3, SaveWrites DEF Dropping, Checkpointing
    <3>5. QED BY <1>3, <3>2, <3>4 DEF Putting
  <2>2. CASE entry[i] \notin Snapshots
    <3>1. EndCheckpoint(i)
      BY <2>2 DEF Save, Checkpointing, Checkpoints
    <3>2. QED BY <1>1, <1>3, <2>2, <3>1, EndCheckpointIs, SaveWrites
              DEF Settled, Closing, Putting
  <2>3. QED BY <2>1, <2>2
<1>7. Calls'
  BY <1>6, SaveWrites, CallsKept DEF InCall
<1>8. SnapsInv'
  <2>1. snaps \subseteq Snapshots /\ pc[i] # "rotate"
    BY <1>1 DEF TypeOK, Save
  <2>2. QED BY <1>4, <1>6, <2>1, SaveWrites, SnapsKept DEF Inv
<1>9. StoreInv'
  <2>1. ASSUME NEW j \in Ids PROVE Stored(j)'
    <3>1. Stored(j)
      BY DEF Inv, StoreInv
    <3>2. CASE j = i
      BY <1>1, <1>3, <1>4, <1>5, <3>2, SaveWrites DEF Stored, Shot, TypeOK
    <3>3. CASE j # i
      BY <1>2, <1>3, <1>4, <3>1, <3>3, SaveWrites DEF Stored, Shot
    <3>4. QED BY <3>2, <3>3
  <2>2. QED BY <2>1 DEF StoreInv
<1>10. LiveCurrent'
  BY <1>2, <1>5, SaveWrites DEF Inv, LiveCurrent
<1>11. BoxesInv'
  BY SaveWrites, BoxesKept DEF Inv
<1>12. QED BY <1>1, <1>7, <1>8, <1>9, <1>10, <1>11 DEF Inv

LEMMA SaveStep ==
  ASSUME Serial, Inv, NEW i \in Ids, Save(i) PROVE Inv'
BY SaveWrites, SaveOfOpen, SaveOfDiscard, SaveOfCheckpoint

LEMMA SaveRaisesStep ==
  ASSUME Serial, Inv, NEW i \in Ids, SaveRaises(i) PROVE Inv'
<1>1. Typed' /\ TypeOK
  BY SaveRaisesTyped DEF Inv, Typed
<1>2. /\ pc[i] \in Putting /\ \A j \in Ids \ {i} : Settled(j)
      /\ op[i] = "close" => live[i] # NoSandbox
  <2>1. pc[i] \in Putting
    BY DEF SaveRaises, Putting
  <2>2. InCall(i)
    BY DEF Inv, Calls
  <2>3. QED BY <2>1, <2>2, OthersSettled DEF Inv, Putting, InCall, Settled, Opening,
               Checkpointing, Dropping, Closing, Discarding
<1>3. UNCHANGED <<alive, image, snaps, shot, store, active, live, saved, strays,
                  discarded>>
  BY DEF SaveRaises, service, memory
<1>4. /\ Settled(i)' \/ Closing(i)'
      /\ Apart(i) /\ pc'[i] # "save"
  <2>1. CASE op[i] = "close"
    BY <1>1, <1>2, <1>3, <2>1, EndCheckpointIs DEF SaveRaises, Settled, Closing
  <2>2. CASE op[i] # "close"
    BY <1>1, <2>2, ReturnIs DEF SaveRaises, Settled
  <2>3. QED BY <2>1, <2>2
<1>5. Calls'
  BY <1>2, <1>4, CallsKept DEF InCall
<1>6. SnapsInv'
  <2>1. snaps \subseteq Snapshots /\ lost' = lost \cup ({new[i]} \cap Snapshots)
    BY <1>1 DEF SaveRaises, TypeOK
  <2>2. QED BY <1>2, <1>3, <1>4, <2>1, SnapsKept DEF Inv, Putting
<1>7. StoreInv' /\ LiveCurrent' /\ BoxesInv'
  BY <1>3, StoreKept, LiveKept, BoxesKept DEF Inv
<1>8. QED BY <1>1, <1>5, <1>6, <1>7 DEF Inv

LEMMA CheckpointBeginStep ==
  ASSUME Serial, Inv, NEW i \in Ids, NEW o \in Checkpoints, CheckpointBegin(i, o)
  PROVE  Inv'
<1>1. Typed' /\ TypeOK
  BY CheckpointBeginTyped DEF Inv, Typed
<1>2. (\A j \in Ids \ {i} : Settled(j)) /\ Settled(i)
  BY OthersSettled DEF Inv, CheckpointBegin
<1>3. UNCHANGED <<alive, image, snaps, shot, store, active, live, saved, lost, strays,
                  discarded, new>>
  BY DEF CheckpointBegin, service, memory, ghosts
<1>4. /\ Apart(i) /\ pc'[i] \notin Putting /\ pc'[i] # "save"
      /\ Checkpointing(i)' \/ Closing(i)'
  <2>1. /\ o \in Ops /\ {"snapshot", "release"} \subseteq Steps
        /\ store[i] \in Entries /\ NoEntry \in Entries
    BY <1>1 DEF TypeOK, Ops, Steps, Entries, Checkpoints
  <2>2. CASE Goto(i, o, "snapshot", store[i])
    <3>1. op'[i] = o /\ pc'[i] = "snapshot" /\ entry'[i] = store[i] /\ Apart(i)
      BY <1>1, <1>3, <2>1, <2>2, GotoIs DEF Apart
    <3>2. Checkpointing(i)'
      BY <1>2, <1>3, <3>1 DEF Checkpointing, Settled, Putting, CheckpointBegin
    <3>3. QED BY <3>1, <3>2 DEF Putting
  <2>3. CASE o = "close" /\ Goto(i, o, "release", NoEntry)
    <3>1. op'[i] = o /\ pc'[i] = "release" /\ Apart(i)
      BY <1>1, <1>3, <2>1, <2>3, GotoIs DEF Apart
    <3>2. Closing(i)'
      BY <1>2, <1>3, <2>3, <3>1 DEF Closing, Settled, CheckpointBegin
    <3>3. QED BY <3>1, <3>2 DEF Putting
  <2>4. QED BY <2>2, <2>3 DEF CheckpointBegin
<1>5. Calls'
  BY <1>2, <1>4, CallsKept DEF InCall
<1>6. SnapsInv'
  BY <1>2, <1>3, <1>4, SnapsKept DEF Inv, Settled, Putting
<1>7. StoreInv' /\ LiveCurrent' /\ BoxesInv'
  BY <1>3, StoreKept, LiveKept, BoxesKept DEF Inv
<1>8. QED BY <1>1, <1>5, <1>6, <1>7 DEF Inv

\* A new snapshot, kept or hidden, leaves what the store has alone.
LEMMA MakeSnapshotKeeps ==
  ASSUME Inv, NEW p \in Snapshots, NEW s, MakeSnapshot(p, s),
         UNCHANGED <<store, active, live, saved, discarded, strays>>
  PROVE  StoreInv' /\ LiveCurrent' /\ BoxesInv'
<1>1. /\ snaps' = snaps \cup {p} /\ p \notin snaps
      /\ \A j \in Ids : store[j] # p
      /\ \A q \in Snapshots : q # p => shot'[q] = shot[q]
      /\ alive' = alive /\ image' = image
  BY MakeSnapshotTyped DEF Inv, Typed
<1>2. StoreInv'
  <2>1. ASSUME NEW j \in Ids PROVE Stored(j)'
    <3>1. Stored(j) /\ snaps \subseteq Snapshots
      BY DEF Inv, StoreInv, Typed, TypeOK
    <3>2. QED BY <1>1, <3>1 DEF Stored
  <2>2. QED BY <2>1 DEF StoreInv
<1>3. QED BY <1>1, <1>2, LiveKept, BoxesKept DEF Inv

LEMMA SnapshotStep ==
  ASSUME Serial, Inv, NEW i \in Ids, Snapshot(i) PROVE Inv'
<1>1. Typed' /\ TypeOK
  BY SnapshotTyped DEF Inv, Typed
<1>2. (\A j \in Ids \ {i} : Settled(j)) /\ Checkpointing(i) /\ pc[i] = "snapshot"
  <2>1. pc[i] = "snapshot" /\ InCall(i)
    BY DEF Inv, Calls, Snapshot
  <2>2. QED BY <2>1, OthersSettled DEF Inv, InCall, Settled, Opening, Dropping,
               Closing, Discarding
<1>3. UNCHANGED <<store, active, live, saved, lost, strays, discarded>>
  BY DEF Snapshot, memory, ghosts
<1>4. PICK p \in Snapshots : MakeSnapshot(p, live[i]) /\ new' = [new EXCEPT ![i] = p]
  BY DEF Snapshot
<1>5. /\ snaps' = snaps \cup {p} /\ p \notin snaps
      /\ \A j \in Ids : store[j] # p
      /\ shot'[p] = image[live[i]] /\ image' = image
  BY <1>1, <1>4, MakeSnapshotTyped
<1>6. /\ op'[i] = op[i] /\ pc'[i] = "load" /\ entry'[i] = entry[i] /\ new'[i] = p
      /\ Apart(i)
  <2>1. op[i] \in Ops /\ "load" \in Steps /\ entry[i] \in Entries
    BY <1>1 DEF TypeOK, Steps
  <2>2. new'[i] = p /\ \A j \in Ids \ {i} : new'[j] = new[j]
    BY <1>1, <1>4 DEF TypeOK
  <2>3. QED BY <1>1, <2>1, <2>2, GotoIs DEF Snapshot, Apart
<1>7. Calls'
  <2>1. Checkpointing(i)'
    BY <1>2, <1>3, <1>5, <1>6 DEF Checkpointing, Shot
  <2>2. QED BY <1>2, <1>6, <2>1, CallsKept DEF InCall
<1>8. SnapsInv'
  <2>1. ASSUME NEW q \in snaps PROVE Kept(q)'
    <3>1. Kept(q)
      BY DEF Inv, SnapsInv
    <3>2. \A j \in Ids : pc[j] \notin Putting /\ pc[j] # "rotate"
      BY <1>2 DEF Settled, Putting
    <3>3. QED BY <1>3, <3>1, <3>2 DEF Kept
  <2>2. Kept(p)'
    BY <1>6 DEF Kept, Putting
  <2>3. QED BY <1>5, <2>1, <2>2 DEF SnapsInv
<1>9. StoreInv' /\ LiveCurrent' /\ BoxesInv'
  BY <1>3, <1>4, MakeSnapshotKeeps
<1>10. QED BY <1>1, <1>7, <1>8, <1>9 DEF Inv

LEMMA SnapshotRaisesStep ==
  ASSUME Serial, Inv, NEW i \in Ids, SnapshotRaises(i) PROVE Inv'
<1>1. Typed' /\ TypeOK
  BY SnapshotRaisesTyped DEF Inv, Typed
<1>2. (\A j \in Ids \ {i} : Settled(j)) /\ Checkpointing(i) /\ pc[i] = "snapshot"
  <2>1. pc[i] = "snapshot" /\ InCall(i)
    BY DEF Inv, Calls, SnapshotRaises
  <2>2. QED BY <2>1, OthersSettled DEF Inv, InCall, Settled, Opening, Dropping,
               Closing, Discarding
<1>3. UNCHANGED <<store, active, live, saved, strays, discarded>>
  BY DEF SnapshotRaises, memory
<1>4. Apart(i) /\ pc'[i] # "save" /\ (Settled(i)' \/ Closing(i)')
  BY <1>1, <1>2, <1>3, EndCheckpointIs DEF SnapshotRaises, Settled, Closing, Checkpointing
<1>5. Calls'
  BY <1>2, <1>4, CallsKept DEF InCall
<1>6. CASE UNCHANGED <<service, lost>>
  <2>1. SnapsInv'
    BY <1>2, <1>3, <1>4, <1>6, SnapsKept DEF Inv, Putting, service
  <2>2. StoreInv' /\ LiveCurrent' /\ BoxesInv'
    BY <1>3, <1>6, StoreKept, LiveKept, BoxesKept DEF Inv, service
  <2>3. QED BY <1>1, <1>5, <2>1, <2>2 DEF Inv
<1>7. CASE \E p \in Snapshots : MakeSnapshot(p, live[i]) /\ lost' = lost \cup {p}
  <2>1. PICK p \in Snapshots : MakeSnapshot(p, live[i]) /\ lost' = lost \cup {p}
    BY <1>7
  <2>2. snaps' = snaps \cup {p}
    BY <1>1, <2>1, MakeSnapshotTyped
  <2>3. SnapsInv'
    <3>1. \A j \in Ids : pc[j] \notin Putting /\ pc[j] # "rotate"
      BY <1>2 DEF Settled, Putting
    <3>2. QED BY <1>3, <2>1, <2>2, <3>1 DEF Inv, SnapsInv, Kept
  <2>4. StoreInv' /\ LiveCurrent' /\ BoxesInv'
    BY <1>3, <2>1, MakeSnapshotKeeps
  <2>5. QED BY <1>1, <1>5, <2>3, <2>4 DEF Inv
<1>8. QED BY <1>6, <1>7 DEF SnapshotRaises

LEMMA RotateStep ==
  ASSUME Serial, Inv, NEW i \in Ids, Rotate(i) PROVE Inv'
<1>1. Typed' /\ TypeOK
  BY RotateTyped DEF Inv, Typed
<1>2. (\A j \in Ids \ {i} : Settled(j)) /\ Dropping(i) /\ pc[i] = "rotate"
  <2>1. pc[i] = "rotate" /\ InCall(i)
    BY DEF Inv, Calls, Rotate
  <2>2. QED BY <2>1, OthersSettled DEF Inv, InCall, Settled, Opening, Checkpointing,
               Closing, Discarding, Putting
<1>3. UNCHANGED <<store, active, live, saved, strays, discarded>>
  BY DEF Rotate, memory
<1>4. Apart(i) /\ pc'[i] # "save" /\ (Settled(i)' \/ Closing(i)')
  BY <1>1, <1>2, <1>3, EndCheckpointIs DEF Rotate, Settled, Closing, Dropping
<1>5. Calls'
  BY <1>2, <1>4, CallsKept DEF InCall
<1>6. CASE DropSnapshot(entry[i])
  <2>1. /\ snaps' = snaps \ {entry[i]} /\ lost' = lost \ {entry[i]}
        /\ \A q \in Snapshots : q # entry[i] => shot'[q] = shot[q]
        /\ alive' = alive /\ image' = image
    BY <1>1, <1>6, DropSnapshotTyped DEF TypeOK
  <2>2. SnapsInv'
    BY <1>2, <1>3, <1>4, <2>1, SnapsKept DEF Inv, Putting
  <2>3. StoreInv'
    <3>1. ASSUME NEW j \in Ids PROVE Stored(j)'
      <4>1. Stored(j) /\ store[j] # entry[i] /\ snaps \subseteq Snapshots
        BY <1>1, <1>2 DEF Inv, StoreInv, Dropping, TypeOK
      <4>2. QED BY <1>3, <2>1, <4>1 DEF Stored
    <3>2. QED BY <3>1 DEF StoreInv
  <2>4. LiveCurrent' /\ BoxesInv'
    BY <1>3, <2>1, LiveKept, BoxesKept DEF Inv
  <2>5. QED BY <1>1, <1>5, <2>2, <2>3, <2>4 DEF Inv
<1>7. CASE lost' = lost \cup ({entry[i]} \cap snaps) /\ UNCHANGED service
  <2>1. SnapsInv'
    BY <1>2, <1>3, <1>4, <1>7, SnapsKept DEF Inv, Putting, service
  <2>2. StoreInv' /\ LiveCurrent' /\ BoxesInv'
    BY <1>3, <1>7, StoreKept, LiveKept, BoxesKept DEF Inv, service
  <2>3. QED BY <1>1, <1>5, <2>1, <2>2 DEF Inv
<1>8. QED BY <1>6, <1>7 DEF Rotate

LEMMA BeginStep ==
  ASSUME Serial, Inv, NEW i \in Ids, EndBegin(i) \/ DiscardBegin(i) PROVE Inv'
<1>1. Typed' /\ TypeOK
  BY BeginTyped DEF Inv, Typed
<1>2. (\A j \in Ids \ {i} : Settled(j)) /\ Settled(i)
  BY OthersSettled DEF Inv, EndBegin, DiscardBegin
<1>3. UNCHANGED <<alive, image, snaps, shot, store, active, live, saved, lost, strays,
                  discarded, new>>
  BY DEF EndBegin, DiscardBegin, service, memory, ghosts
<1>4. Apart(i) /\ pc'[i] # "save" /\ (Closing(i)' \/ Discarding(i)')
  <2>1. /\ {"end", "discard"} \subseteq Ops /\ {"release", "free"} \subseteq Steps
        /\ NoEntry \in Entries
    BY DEF Ops, Steps, Entries
  <2>2. CASE EndBegin(i)
    <3>1. op'[i] = "end" /\ pc'[i] = "release" /\ Apart(i)
      BY <1>1, <1>3, <2>1, <2>2, GotoIs DEF EndBegin, Apart
    <3>2. QED BY <1>2, <1>3, <2>2, <3>1 DEF EndBegin, Closing, Settled
  <2>3. CASE DiscardBegin(i)
    <3>1. /\ op'[i] = "discard" /\ Apart(i)
          /\ pc'[i] = IF live[i] = NoSandbox THEN "free" ELSE "release"
      BY <1>1, <1>3, <2>1, <2>3, GotoIs DEF DiscardBegin, Apart
    <3>2. QED BY <1>2, <1>3, <3>1 DEF Discarding, Settled, Putting
  <2>4. QED BY <2>2, <2>3
<1>5. Calls'
  BY <1>2, <1>4, CallsKept DEF InCall
<1>6. SnapsInv'
  BY <1>2, <1>3, <1>4, SnapsKept DEF Inv, Settled, Putting
<1>7. StoreInv' /\ LiveCurrent' /\ BoxesInv'
  BY <1>3, StoreKept, LiveKept, BoxesKept DEF Inv
<1>8. QED BY <1>1, <1>5, <1>6, <1>7 DEF Inv

LEMMA ReleaseStep ==
  ASSUME Serial, Inv, NEW i \in Ids, Release(i) PROVE Inv'
<1>1. Typed' /\ TypeOK
  BY ReleaseTyped DEF Inv, Typed
<1>2. /\ \A j \in Ids \ {i} : Settled(j)
      /\ pc[i] = "release" /\ live[i] # NoSandbox /\ new[i] = NoSnapshot
  <2>1. pc[i] = "release" /\ InCall(i)
    BY DEF Inv, Calls, Release
  <2>2. QED BY <2>1, OthersSettled DEF Inv, InCall, Settled, Opening, Checkpointing,
               Dropping, Closing, Discarding
<1>3. UNCHANGED <<store, saved, lost, discarded>>
  BY DEF Release
<1>4. /\ live'[i] = NoSandbox /\ \A j \in Ids \ {i} : live'[j] = live[j]
      /\ active' = active \ {live[i]}
  BY <1>1 DEF Release, TypeOK
<1>5. Apart(i) /\ pc'[i] # "save" /\ (Settled(i)' \/ Discarding(i)')
  <2>1. CASE op[i] = "discard"
    <3>1. "discard" \in Ops /\ "free" \in Steps /\ NoEntry \in Entries
      BY DEF Ops, Steps, Entries
    <3>2. op'[i] = "discard" /\ pc'[i] = "free" /\ new' = new /\ Apart(i)
      BY <1>1, <2>1, <3>1, GotoIs DEF Release, Apart
    <3>3. QED BY <1>2, <1>4, <3>2 DEF Discarding, Putting
  <2>2. CASE op[i] # "discard"
    BY <1>1, <2>2, ReturnIs DEF Release, Settled
  <2>3. QED BY <2>1, <2>2
<1>6. Calls'
  BY <1>2, <1>5, CallsKept DEF InCall
<1>7. /\ snaps' = snaps /\ shot' = shot
      /\ \A s \in Sandboxes \ {live[i]} : /\ s \in alive' <=> s \in alive
                                          /\ s \in strays => s \in strays'
                                          /\ image'[s] = image[s]
      /\ live[i] \in alive' => live[i] \in strays'
  <2>1. CASE DropSandboxes({live[i]})
    BY <1>1, <2>1, DropSandboxesTyped
  <2>2. CASE strays' = strays \cup ({live[i]} \cap alive) /\ UNCHANGED service
    BY <2>2 DEF service
  <2>3. QED BY <2>1, <2>2 DEF Release
<1>8. SnapsInv'
  BY <1>2, <1>3, <1>5, <1>7, SnapsKept DEF Inv, Putting
<1>9. StoreInv'
  BY <1>3, <1>7, StoreKept DEF Inv
<1>10. LiveCurrent'
  <2>1. ASSUME NEW j \in Ids \ {i}, live[j] # NoSandbox
        PROVE  live[j] \in Sandboxes \ {live[i]} /\ live[j] \in alive' \cap active'
    BY <1>1, <1>2, <1>4, <1>7, <2>1 DEF Inv, LiveCurrent, TypeOK
  <2>2. QED BY <1>3, <1>4, <1>7, <2>1 DEF Inv, LiveCurrent
<1>11. BoxesInv'
  BY <1>1, <1>4, <1>7 DEF Inv, BoxesInv, Typed, TypeOK
<1>12. QED BY <1>1, <1>6, <1>8, <1>9, <1>10, <1>11 DEF Inv

LEMMA FreeStep ==
  ASSUME Serial, Inv, NEW i \in Ids, Free(i) PROVE Inv'
<1>1. Typed' /\ TypeOK
  BY FreeTyped DEF Inv, Typed
<1>2. (\A j \in Ids \ {i} : Settled(j)) /\ Discarding(i) /\ pc[i] = "free"
  <2>1. pc[i] = "free" /\ InCall(i)
    BY DEF Inv, Calls, Free
  <2>2. QED BY <2>1, OthersSettled DEF Inv, InCall, Settled, Opening, Checkpointing,
               Dropping, Closing
<1>3. /\ UNCHANGED <<store, active, live, saved, strays, new>>
      /\ discarded' = discarded \cup {i}
  BY DEF Free, memory
<1>4. op'[i] = "discard" /\ pc'[i] = "load" /\ Apart(i)
  <2>1. "discard" \in Ops /\ "load" \in Steps /\ NoEntry \in Entries
    BY DEF Ops, Steps, Entries
  <2>2. QED BY <1>1, <1>3, <2>1, GotoIs DEF Free, Apart
<1>5. /\ alive' = alive /\ image' = image /\ snaps' \subseteq snaps
      /\ \A p \in snaps : p # store[i] => p \in snaps'
      /\ \A p \in snaps' : p \in lost => p \in lost'
      /\ store[i] \in snaps' => store[i] \in lost'
      /\ \A p \in Snapshots : p # store[i] => shot'[p] = shot[p]
      /\ store[i] \in snaps' => shot' = shot
  <2>1. snaps \subseteq Snapshots /\ store[i] \in Entries
    BY <1>1 DEF TypeOK
  <2>2. CASE store[i] \notin Snapshots /\ UNCHANGED <<service, lost>>
    BY <2>1, <2>2 DEF service
  <2>3. CASE DropSnapshot(store[i])
    BY <1>1, <2>1, <2>3, DropSnapshotTyped
  <2>4. CASE lost' = lost \cup ({store[i]} \cap snaps) /\ UNCHANGED service
    BY <2>4 DEF service
  <2>5. QED BY <2>2, <2>3, <2>4 DEF Free
<1>6. Calls'
  <2>1. Discarding(i)'
    BY <1>2, <1>3, <1>4, <1>5 DEF Discarding, Putting
  <2>2. QED BY <1>2, <1>4, <2>1, CallsKept DEF InCall
<1>7. SnapsInv'
  BY <1>2, <1>3, <1>4, <1>5, SnapsKept DEF Inv, Putting
<1>8. StoreInv'
  <2>1. ASSUME NEW j \in Ids PROVE Stored(j)'
    <3>1. Stored(j) /\ snaps \subseteq Snapshots
      BY <1>1 DEF Inv, StoreInv, TypeOK
    <3>2. CASE j = i
      BY <1>3, <1>5, <3>1, <3>2 DEF Stored
    <3>3. CASE j # i
      BY <1>3, <1>5, <3>1, <3>3 DEF Stored
    <3>4. QED BY <3>2, <3>3
  <2>2. QED BY <2>1 DEF StoreInv
<1>9. LiveCurrent' /\ BoxesInv'
  BY <1>3, <1>5, LiveKept, BoxesKept DEF Inv
<1>10. QED BY <1>1, <1>6, <1>7, <1>8, <1>9 DEF Inv

LEMMA FreeRaisesStep ==
  ASSUME Serial, Inv, NEW i \in Ids, FreeRaises(i) PROVE Inv'
<1>1. Typed' /\ TypeOK
  BY FreeRaisesTyped DEF Inv, Typed
<1>2. (\A j \in Ids \ {i} : Settled(j)) /\ pc[i] = "free"
  BY OthersSettled DEF Inv, FreeRaises
<1>3. Settled(i)' /\ Apart(i)
  BY <1>1, ReturnIs DEF FreeRaises, Settled
<1>4. UNCHANGED <<alive, image, snaps, shot, store, active, live, saved, lost, strays,
                  discarded>>
  BY DEF FreeRaises, service, memory, ghosts
<1>5. Calls'
  BY <1>2, <1>3, CallsKept DEF InCall, Settled
<1>6. SnapsInv'
  BY <1>2, <1>3, <1>4, SnapsKept DEF Inv, Putting
<1>7. StoreInv' /\ LiveCurrent' /\ BoxesInv'
  BY <1>4, StoreKept, LiveKept, BoxesKept DEF Inv
<1>8. QED BY <1>1, <1>5, <1>6, <1>7 DEF Inv

\* Work starts between calls, so no snapshot is under way.
LEMMA WorkStep ==
  ASSUME Serial, Inv, NEW i \in Ids, Work(i) PROVE Inv'
<1>1. Typed' /\ TypeOK
  BY WorkTyped DEF Inv, Typed
<1>2. \A j \in Ids : Settled(j)
  BY OthersSettled DEF Inv, Work
<1>3. UNCHANGED <<alive, snaps, shot, store, active, live, op, pc, entry, new, data,
                  saved, lost, strays, discarded>>
  BY DEF Work, memory, call, ghosts
<1>4. Calls'
  BY <1>2, <1>3 DEF Calls, InCall, Settled
<1>5. SnapsInv' /\ StoreInv' /\ BoxesInv'
  BY <1>3 DEF Inv, SnapsInv, Kept, StoreInv, Stored, BoxesInv
<1>6. LiveCurrent'
  <2>1. live[i] \in Sandboxes /\ live[i] # NoSandbox /\ image[live[i]] \in Images
    BY <1>1, IdAssumption DEF Work, TypeOK
  <2>2. image[live[i]].work \in Nat /\ saved[i] \in Nat
    BY <1>1, <2>1, ImageIs, BoundAssumption DEF TypeOK
  <2>3. /\ image'[live[i]].of = image[live[i]].of
        /\ image'[live[i]].work = image[live[i]].work + 1
        /\ \A s \in Sandboxes : s # live[i] => image'[s] = image[s]
    <3>1. /\ image'[live[i]] = [of |-> image[live[i]].of, work |-> image[live[i]].work + 1]
          /\ \A s \in Sandboxes : s # live[i] => image'[s] = image[s]
      BY WorkTyped DEF Inv
    <3>2. QED BY <3>1
  <2>4. ASSUME NEW j \in Ids, live[j] # NoSandbox
        PROVE  /\ live[j] \in alive \cap active /\ image'[live[j]].of = j
               /\ j \notin discarded => image'[live[j]].work >= saved[j]
               /\ \A k \in Ids : live[k] = live[j] => k = j
    <3>1. /\ live[j] \in alive \cap active /\ image[live[j]].of = j
          /\ j \notin discarded => image[live[j]].work >= saved[j]
          /\ \A k \in Ids : live[k] = live[j] => k = j
          /\ live[j] \in Sandboxes
      BY <1>1, <2>4 DEF Inv, LiveCurrent, TypeOK
    <3>2. CASE j = i
      BY <2>2, <2>3, <3>1, <3>2
    <3>3. CASE j # i
      BY <2>3, <3>1, <3>3
    <3>4. QED BY <3>2, <3>3
  <2>5. QED BY <1>3, <2>4 DEF LiveCurrent
<1>7. QED BY <1>1, <1>4, <1>5, <1>6 DEF Inv

LEMMA EnterStep == ASSUME Inv, Enter PROVE Inv'
<1>1. UNCHANGED <<alive, image, snaps, shot, store, active, live, op, pc, entry, new,
                  data, saved, lost, strays, discarded>>
  BY DEF Enter, service, call, ghosts
<1>2. Calls' /\ SnapsInv' /\ StoreInv'
  BY <1>1 DEF Inv, Calls, InCall, Settled, Opening, Checkpointing, Shot, Dropping, Closing,
              Discarding, SnapsInv, Kept, StoreInv, Stored
<1>3. LiveCurrent' /\ BoxesInv'
  BY <1>1, LiveKept, BoxesKept DEF Inv
<1>4. QED BY <1>2, <1>3, EnterTyped DEF Inv

LEMMA ExitStep == ASSUME Inv, Exit PROVE Inv'
<1>1. UNCHANGED <<snaps, shot, store, live, op, pc, entry, new, data, saved, lost,
                  discarded>>
  BY DEF Exit, call
<1>2. \A i \in Ids : Settled(i) /\ live[i] = NoSandbox
  BY DEF Exit, Inv, Calls, InCall, Opening, Checkpointing, Dropping, Closing, Discarding
<1>3. Calls'
  BY <1>1, <1>2 DEF Calls, InCall, Settled
<1>4. SnapsInv' /\ StoreInv'
  BY <1>1 DEF Inv, SnapsInv, Kept, StoreInv, Stored
<1>5. LiveCurrent'
  BY <1>1, <1>2 DEF LiveCurrent
<1>6. BoxesInv'
  BY DEF Exit, Inv, BoxesInv
<1>7. QED BY <1>3, <1>4, <1>5, <1>6, ExitTyped DEF Inv

\* A crash leaves the store and what it names; the rest is nobody's.
LEMMA CrashStep == ASSUME Inv, Crash PROVE Inv'
<1>1. UNCHANGED <<alive, image, snaps, shot, store, saved, discarded>>
  BY DEF Crash, service
<1>2. \A i \in Ids : Settled(i)' /\ live'[i] = NoSandbox
  BY DEF Crash, Settled
<1>3. Calls'
  BY <1>2 DEF Calls, InCall, Settled
<1>4. StoreInv'
  BY <1>1, StoreKept DEF Inv
<1>5. LiveCurrent'
  BY <1>2 DEF LiveCurrent
<1>6. SnapsInv'
  <2>1. \A p \in snaps : p \in Range(store) => \E j \in Ids : store[j] = p
    BY DEF Inv, Typed, TypeOK, Range
  <2>2. lost' = lost \cup (snaps \ Range(store))
    BY DEF Crash
  <2>3. QED BY <1>1, <2>1, <2>2 DEF SnapsInv, Kept
<1>7. BoxesInv'
  BY DEF Crash, BoxesInv, service
<1>8. QED BY <1>3, <1>4, <1>5, <1>6, <1>7, CrashTyped DEF Inv

LEMMA InitInv == Init => Inv
<1> SUFFICES ASSUME Init PROVE Inv
  OBVIOUS
<1>1. Typed
  BY InitTyped
<1>2. \A i \in Ids : Settled(i) /\ store[i] = NoEntry /\ saved[i] = 0 /\ live[i] = NoSandbox
  BY DEF Init, Settled
<1>3. alive = {} /\ snaps = {}
  BY DEF Init
<1>4. Calls
  BY <1>2 DEF Calls, InCall, Settled
<1>5. StoreInv
  BY <1>2, <1>3, IdAssumption DEF StoreInv, Stored
<1>6. LiveCurrent /\ SnapsInv /\ BoxesInv
  BY <1>2, <1>3 DEF LiveCurrent, SnapsInv, BoxesInv
<1>7. QED BY <1>1, <1>4, <1>5, <1>6 DEF Inv

LEMMA SessionStep ==
  ASSUME Serial, Inv, NEW i \in Ids, Session(i) PROVE Inv'
<1>1. CASE OpenBegin(i) \/ OpenCreate(i) \/ OpenRaises(i)
  BY <1>1, OpenBeginStep, OpenCreateStep, OpenRaisesStep
<1>2. CASE Load(i) \/ Save(i) \/ SaveRaises(i)
  BY <1>2, LoadStep, SaveStep, SaveRaisesStep
<1>3. CASE CheckpointBegin(i, "checkpoint") \/ CheckpointBegin(i, "close")
  BY <1>3, CheckpointBeginStep DEF Checkpoints
<1>4. CASE Snapshot(i) \/ SnapshotRaises(i) \/ Rotate(i)
  BY <1>4, SnapshotStep, SnapshotRaisesStep, RotateStep
<1>5. CASE EndBegin(i) \/ Release(i) \/ DiscardBegin(i)
  BY <1>5, BeginStep, ReleaseStep
<1>6. CASE Free(i) \/ FreeRaises(i) \/ Work(i)
  BY <1>6, FreeStep, FreeRaisesStep, WorkStep
<1>7. QED BY <1>1, <1>2, <1>3, <1>4, <1>5, <1>6 DEF Session

LEMMA InvStep == ASSUME Serial, Inv, [Next]_vars PROVE Inv'
<1>1. CASE Enter \/ Exit \/ Crash
  BY <1>1, EnterStep, ExitStep, CrashStep
<1>2. CASE \E i \in Ids : Session(i)
  BY <1>2, SessionStep
<1>3. CASE UNCHANGED vars
  <2>1. Typed' /\ LiveCurrent'
    BY <1>3, StepTyped, LiveKept DEF Inv, vars
  <2>2. Calls'
    BY <1>3 DEF vars, Inv, Calls, InCall, Settled, Opening, Checkpointing, Shot, Dropping,
                Closing, Discarding
  <2>3. StoreInv' /\ SnapsInv' /\ BoxesInv'
    BY <1>3 DEF vars, Inv, StoreInv, Stored, SnapsInv, Kept, BoxesInv
  <2>4. QED BY <2>1, <2>2, <2>3 DEF Inv
<1>4. QED BY <1>1, <1>2, <1>3 DEF Next

-----------------------------------------------------------------------------
(* The theorems.                                                           *)

LEMMA InvHolds == ASSUME Serial PROVE Spec => []Inv
BY InitInv, InvStep, PTL DEF Spec

\* A process that makes one call at a time can restore the last checkpoint of
\* every session: a new snapshot is in the store before the previous one goes
\* (checkpoint), through any failures and crashes.
THEOREM LastCheckpointRestorable == ASSUME Serial PROVE Spec => []Restorable
<1>1. Inv => Restorable
  BY DEF Inv, StoreInv, Stored, Restorable
<1>2. QED BY <1>1, InvHolds, PTL

\* A live session has a sandbox of its own with all its committed work.
THEOREM LiveSessionsCurrent == ASSUME Serial PROVE Spec => []LiveCurrent
<1>1. Inv => LiveCurrent
  BY DEF Inv
<1>2. QED BY <1>1, InvHolds, PTL

\* No snapshot and no sandbox is forgotten but through a failure or a crash.
THEOREM EverythingAccounted == ASSUME Serial PROVE Spec => []Accounted
<1>1. ASSUME Inv PROVE Accounted
  <2>1. ASSUME NEW p \in snaps
        PROVE  p \in Range(store) \cup Rotating \cup lost
    <3>1. Kept(p)
      BY <1>1 DEF Inv, SnapsInv
    <3>2. CASE \E j \in Ids : store[j] = p
      BY <1>1, <3>2 DEF Inv, Typed, TypeOK, Range
    <3>3. CASE p \in lost
      BY <3>3
    <3>4. CASE \E j \in Ids : \/ pc[j] \in Putting /\ new[j] = p
                              \/ pc[j] = "rotate" /\ entry[j] = p
      BY <3>4 DEF Rotating, Putting
    <3>5. QED BY <3>1, <3>2, <3>3, <3>4 DEF Kept
  <2>2. QED BY <1>1, <2>1 DEF Inv, BoxesInv, Accounted
<1>2. QED BY <1>1, InvHolds, PTL
=============================================================================
