------------------------------ MODULE Scripts ------------------------------
(***************************************************************************)
(* The programs of the repository, examples/ and probes/, on top of the    *)
(* pool and the session manager: each is the sequence of its calls, run by *)
(* a small machine that knows what `with`, try and an exception do.  Every *)
(* call may raise, before or after it had its effect.                      *)
(*                                                                         *)
(* Several scripts run one after the other on one sandbox group and one    *)
(* session store.  The warmer ends within the join of close() here (what   *)
(* happens otherwise is SandboxPool's matter), and a call of the session   *)
(* manager is one step (SessionManager has its steps, and crashes).        *)
(***************************************************************************)
EXTENDS Integers, Sequences, FiniteSets, Functions

CONSTANTS
    MaxRuns,   \* bound on the scripts run
    MaxBoxes,  \* the warmer makes a sandbox only while fewer than these were made
    EnvSizes,  \* warm sizes ACAS_WARM_SIZE may ask for
    ShotIds    \* ids of snapshots

ASSUME BoundAssumption == MaxRuns \in Nat /\ MaxBoxes \in Nat
ASSUME SizeAssumption == EnvSizes \subseteq Nat
ASSUME ShotAssumption == ShotIds \subseteq Nat \ {0}

VARIABLES
    script, at,  \* the script that runs, and its next call
    mode,        \* "idle", "call", "raise" (an exception is under way)
    ended,       \* the last script and how it ended
    frames,      \* the `with` and try blocks entered
    var,         \* the script's variables for sandbox ids
    open, size,  \* SandboxPool: opened; config.warm_size
    active, warm,  \* _active, _warm
    live,        \* SessionManager._live
    store,       \* the session store
    disk,        \* service: of each sandbox that exists, what is written on it
    shot,        \* service: likewise of each snapshot
    volume,      \* service: the volumes
    made,        \* service: the sandboxes made during this run, 1..made
    strays,      \* ghost: sandboxes whose create or delete raised
    hidden,      \* ghost: snapshots whose create, delete or recording raised
    wrote,       \* ghost: the script's write was made and returned
    seen,        \* ghost: what the script has read back, and where
    kept,        \* ghost: runs of "install" that returned 0
    runs

service == <<disk, shot, volume, made, strays, hidden>>
pool == <<open, size, active, warm>>
control == <<at, mode, frames>>
fixed == <<script, ended, kept, runs>>
ghosts == <<wrote, seen>>
vars == <<script, at, mode, ended, frames, var, open, size, active, warm, live,
          store, disk, shot, volume, made, strays, hidden, wrote, seen, kept, runs>>

-----------------------------------------------------------------------------
(* Calls.  A field says what a call works on: v a variable, on the disk or *)
(* a volume; checked, whether the script looks at the outcome; quiet,      *)
(* whether an exception is caught at once; sizes, of a pool; over, how far *)
(* behind a try the script goes on.                                        *)

NoName == "none"   \* no variable, no script

Ins(do, v) == [do |-> do, v |-> v, on |-> "disk", checked |-> FALSE,
               quiet |-> FALSE, sizes |-> {0}, over |-> 0]

Quietly(i) == [i EXCEPT !.quiet = TRUE]
Checked(i) == [i EXCEPT !.checked = TRUE]
On(name, i) == [i EXCEPT !.on = name]

Pool(sizes) == [Ins("pool", NoName) EXCEPT !.sizes = sizes]
Manager(sizes) == [Ins("manager", NoName) EXCEPT !.sizes = sizes]
Try(v, n) == [Ins("try", v) EXCEPT !.over = n]
Lease(v) == Ins("lease", v)
Session(v) == Ins("session", v)
Acquire(v) == Ins("acquire", v)
Release(v) == Ins("release", v)
Exec(v) == Ins("exec", v)      \* any call on a sandbox that changes nothing
Write(v) == Ins("write", v)
Read(v) == Ins("read", v)
Agent(v) == Ins("exec", v)     \* agent.run(), which may raise
Take(v) == Ins("snapshot", v)
Rehydrate(v) == Ins("rehydrate", v)
Track(v) == Ins("track", v)
Drop == Ins("drop", NoName)
Ensure(name) == On(name, Ins("ensure", NoName))
WaitWarm == Ins("wait", NoName)
Discard == Ins("discard", NoName)
End == Ins("end", NoName)

-----------------------------------------------------------------------------
(* The scripts.                                                            *)

\* Mutant: nobody waits for the warmer.
WarmPoolHasty ==
    <<Pool({2}), Acquire("a"), Acquire("b"), Acquire("c"), Exec("a"),
      Exec("b"), Exec("c"), Release("a"), Release("b"), Release("c"), End>>

WarmPool ==
    <<Pool({2}), WaitWarm, Acquire("a"), Acquire("b"), Acquire("c"), Exec("a"),
      Exec("b"), Exec("c"), Release("a"), Release("b"), Release("c"), End>>

\* A variant runs two commands and asks for the audit log; two of the three.
Workload(v) == <<Exec(v), Exec(v)>>
AuditLog(v) == Quietly(Exec(v))
EgressVariant == <<On("cold", Lease("a"))>> \o Workload("a") \o <<AuditLog("a"), End>>
EgressDemo == <<Pool({0})>> \o EgressVariant \o EgressVariant \o <<End>>

\* A turn of the volume demo: a pool and a lease with the volume mounted.
Turn(ensure, work) ==
    <<Pool({0})>> \o ensure \o <<On("demo", Lease("a"))>> \o work \o <<End, End>>

WriteTurn == Turn(<<Ensure("demo")>>, <<Checked(On("demo", Write("a")))>>)

\* Mutant: the turn reads what it wrote itself.
ReadTurnWrites ==
    Turn(<<>>, <<On("demo", Write("a")), Checked(On("demo", Read("a")))>>)

\* auto_create is off: nothing is ensured.
ReadTurn == Turn(<<>>, <<Checked(On("demo", Read("a")))>>)

BothTurns == WriteTurn \o ReadTurn

\* run_turn(): the agent's tool calls do not raise, the agent may.
Install == <<Manager(EnvSizes), Session("a"), Quietly(Write("a")), Agent("a"), End, End>>
DiscardTurn == <<Pool(EnvSizes), Discard, End>>

\* execute() catches what its calls raise.
ConsoleTrace ==
    <<Pool(EnvSizes), On("cold", Lease("a")), Quietly(Exec("a")), Quietly(Exec("a")),
      Quietly(Exec("a")), End, End>>

InsightsTrace ==
    <<Pool({0}), Lease("a"), Exec("a"), Exec("a"), Exec("a"), End, End>>

CodeAct ==
    <<Pool(EnvSizes), Lease("a"), Quietly(Exec("a")), Quietly(Exec("a")), Agent("a"),
      End, End>>

\* The battery of commands in a sandbox; its last one reads the marker back.
Battery(v) == Quietly(Exec(v))
MarkerProbe(v) == Quietly(Read(v))
SdkDump(v) == Exec(v)

\* Mutant: the rehydrated sandbox is not made known to the pool.
IntrospectUntracked ==
    <<Pool(EnvSizes), Acquire("a"), Write("a"), SdkDump("a"), Battery("a"), Take("a"),
      Release("a"), Rehydrate("b"), SdkDump("b"), MarkerProbe("b"), Quietly(Drop), End>>

\* Mutant: the original goes before the snapshot is taken.
IntrospectEarly ==
    <<Pool(EnvSizes), Acquire("a"), Write("a"), SdkDump("a"), Battery("a"), Release("a"),
      Take("a"), Rehydrate("b"), Track("b"), SdkDump("b"), MarkerProbe("b"), Quietly(Drop), End>>

Introspect ==
    <<Pool(EnvSizes), Acquire("a"), Write("a"), SdkDump("a"), Battery("a"), Take("a"),
      Release("a"), Rehydrate("b"), Track("b"), SdkDump("b"), MarkerProbe("b"), Quietly(Drop), End>>

\* Two variants of the twelve, two requests of the ten; then the audit log.
Requests(v) == <<Exec(v), Exec(v)>>
AuditVariant ==
    <<Try("a", 6), On("cold", Acquire("a"))>> \o Requests("a") \o <<Exec("a"), End>>
EgressAudit == <<Pool({0})>> \o AuditVariant \o AuditVariant \o <<End>>

VolumeProbe ==
    <<Pool(EnvSizes), Manager(EnvSizes), Ensure("probe"),
      On("probe", Session("a")), Checked(On("probe", Write("a"))), End,
      On("probe", Session("a")), Checked(On("probe", Read("a"))), End,
      Discard, End, End>>

Scripts == {"warm_pool", "egress_demo", "write", "read", "both", "install",
            "discard", "console", "insights", "code_act", "introspect",
            "egress_audit", "volume_probe"}

Code(name) ==
    CASE name = "warm_pool" -> WarmPool
      [] name = "egress_demo" -> EgressDemo
      [] name = "write" -> WriteTurn
      [] name = "read" -> ReadTurn
      [] name = "both" -> BothTurns
      [] name = "install" -> Install
      [] name = "discard" -> DiscardTurn
      [] name = "console" -> ConsoleTrace
      [] name = "insights" -> InsightsTrace
      [] name = "code_act" -> CodeAct
      [] name = "introspect" -> Introspect
      [] name = "egress_audit" -> EgressAudit
      [] name = "volume_probe" -> VolumeProbe

-----------------------------------------------------------------------------
(* State.                                                                  *)

Variables == {"a", "b", "c", "snap"}
Volumes == {"demo", "probe"}

\* Ids are numbers from 1, for sandboxes afresh in every run.
NoId == 0
NoEntry == -1       \* the store has no entry of a session; 0: one without snapshot
NoVolume == [run |-> -1, by |-> NoId]
EmptyVolume == [run |-> 0, by |-> NoId]

\* The examples share one session; a run of the probe has its own.
SessionIds == 0..MaxRuns
Sid == IF script = "volume_probe" THEN runs ELSE 0

Init ==
    /\ script = NoName /\ at = 1 /\ mode = "idle" /\ frames = <<>>
    /\ ended = [script |-> NoName, ok |-> TRUE]
    /\ var = [v \in Variables |-> NoId]
    /\ open = FALSE /\ size = 0 /\ active = {} /\ warm = <<>>
    /\ live = [i \in SessionIds |-> NoId]
    /\ store = [i \in SessionIds |-> NoEntry]
    /\ disk = <<>> /\ shot = <<>>
    /\ volume = [n \in Volumes |-> NoVolume]
    /\ made = 0 /\ strays = {} /\ hidden = {}
    /\ seen = {} /\ wrote = FALSE /\ kept = {} /\ runs = 0

\* A script starts.  What an earlier one left behind for a failure is out of
\* its reach.
Start(name) ==
    /\ mode = "idle" /\ runs < MaxRuns
    /\ script' = name /\ at' = 1 /\ mode' = "call" /\ runs' = runs + 1
    /\ var' = [v \in Variables |-> NoId]
    /\ disk' = <<>> /\ made' = 0 /\ strays' = {} /\ hidden' = {} /\ seen' = {} /\ wrote' = FALSE
    /\ shot' = Restrict(shot, Range(store) \cap DOMAIN shot)
    /\ UNCHANGED <<ended, frames, open, size, active, warm, live, store, volume, kept>>

I == Code(script)[at]
Call(do) == mode = "call" /\ at <= Len(Code(script)) /\ I.do = do

\* The call returns; it raises, and that is caught at once or not.
Returns == at' = at + 1 /\ UNCHANGED <<mode, frames>>
Raises == IF I.quiet THEN Returns
                     ELSE mode' = "raise" /\ UNCHANGED <<at, frames>>
Enter(kind) ==
    /\ frames' = Append(frames, [kind |-> kind, v |-> I.v, after |-> at + I.over])
    /\ at' = at + 1 /\ UNCHANGED mode

\* The script is over, with 0 or with an exception.
Finish ==
    /\ \/ mode = "call" /\ at > Len(Code(script))
       \/ mode = "raise" /\ frames = <<>>
    /\ mode' = "idle" /\ at' = 1 /\ script' = NoName
    /\ ended' = [script |-> script, ok |-> mode = "call"]
    /\ kept' = IF mode = "call" /\ script = "install" /\ wrote
               THEN kept \cup {runs} ELSE kept
    /\ UNCHANGED <<frames, var, pool, live, store, service, ghosts, runs>>

-----------------------------------------------------------------------------
(* The service.                                                            *)

Fresh == [marks |-> {}, base |-> NoId]

\* A sandbox with this content comes to be; its id is made + 1.
Make(content) ==
    /\ made' = made + 1
    /\ disk' = [s \in DOMAIN disk \cup {made + 1} |->
                   IF s = made + 1 THEN content ELSE disk[s]]

\* A create that raises, and leaves a sandbox or not.
MakeRaises(content) ==
    \/ UNCHANGED <<disk, made, strays>>
    \/ Make(content) /\ strays' = strays \cup {made + 1}

Delete(S) == disk' = Restrict(disk, DOMAIN disk \ S) /\ UNCHANGED <<made, strays>>
DeleteRaises(S) ==
    \/ Delete(S)
    \/ strays' = strays \cup (S \cap DOMAIN disk) /\ UNCHANGED <<disk, made>>

\* What can be mounted: nothing to mount, or a volume that exists.
Mountable == I.on \in Volumes => volume[I.on] # NoVolume

\* A snapshot gets an id that nothing refers to; without one no snapshot is made.
FreeShots == ShotIds \ (DOMAIN shot \cup Range(store))
NewShot == CHOOSE p \in FreeShots : TRUE
AddShot(s) ==
    /\ FreeShots # {}
    /\ shot' = [p \in DOMAIN shot \cup {NewShot} |->
                  IF p = NewShot THEN [marks |-> disk[s].marks, base |-> s] ELSE shot[p]]
DropShot(p) == shot' = Restrict(shot, DOMAIN shot \ {p})

-----------------------------------------------------------------------------
(* Opening, closing and waiting.                                           *)

\* pool.open(), also by the manager and then on an open pool.
OpenPool ==
    /\ Call("pool") \/ Call("manager")
    /\ \/ /\ open' = TRUE /\ size' \in (IF open THEN {size} ELSE I.sizes)
          /\ Enter(I.do)
       \/ Raises /\ UNCHANGED <<open, size>>
    /\ UNCHANGED <<fixed, var, active, warm, live, store, service, ghosts>>

\* The warmer's iteration.
Warmer ==
    /\ open /\ Len(warm) < size /\ made < MaxBoxes
    /\ \/ /\ Make(Fresh)
          /\ active' = active \cup {made + 1} /\ warm' = Append(warm, made + 1)
          /\ UNCHANGED strays
       \/ /\ Make(Fresh) /\ strays' = strays \cup {made + 1}
          /\ UNCHANGED <<active, warm>>
    /\ UNCHANGED <<fixed, control, var, open, size, live, store, shot, volume, hidden, ghosts>>

WaitForWarm ==
    /\ Call("wait")
    /\ IF Len(warm) >= size THEN Returns ELSE Raises
    /\ UNCHANGED <<fixed, var, pool, live, store, service, ghosts>>

EnsureVolume ==
    /\ Call("ensure")
    /\ \/ volume[I.on] # NoVolume /\ Returns /\ UNCHANGED volume
       \/ /\ volume[I.on] = NoVolume /\ (Returns \/ Raises)
          /\ volume' = [volume EXCEPT ![I.on] = EmptyVolume]
       \/ Raises /\ UNCHANGED volume
    /\ UNCHANGED <<fixed, var, pool, live, store, disk, shot, made, strays, hidden, ghosts>>

-----------------------------------------------------------------------------
(* Getting a sandbox and giving it back.                                   *)

\* acquire() gives a warm sandbox to a call that asks for nothing special, and
\* makes one otherwise.
Given(s, content) ==
    \/ /\ I.on = "disk" /\ warm # <<>> /\ s = Head(warm)
       /\ warm' = Tail(warm) /\ UNCHANGED <<active, disk, made>>
    \/ /\ I.on # "disk" \/ warm = <<>>
       /\ Mountable /\ s = made + 1 /\ Make(content)
       /\ active' = active \cup {s} /\ UNCHANGED warm

AcquireOne ==
    /\ Call("acquire") \/ Call("lease")
    /\ \/ /\ \E s \in 1..(made + 1) : Given(s, Fresh) /\ var' = [var EXCEPT ![I.v] = s]
          /\ IF I.do = "lease" THEN Enter("lease") ELSE Returns
          /\ UNCHANGED strays
       \/ /\ I.on # "disk" \/ warm = <<>>
          /\ MakeRaises(Fresh) /\ Raises
          /\ UNCHANGED <<var, active, warm>>
    /\ UNCHANGED <<fixed, open, size, live, store, shot, volume, hidden, ghosts>>

\* Mutant: a sandbox given back is kept for the next acquire(), and forgotten.
ReleaseToWarm ==
    /\ Call("release") /\ Returns
    /\ active' = active \ {var[I.v]} /\ warm' = Append(warm, var[I.v])
    /\ UNCHANGED <<fixed, var, open, size, live, store, service, ghosts>>

\* release() forgets the sandbox whether or not its delete raises.
ReleaseOne ==
    /\ Call("release")
    /\ active' = active \ {var[I.v]}
    /\ \/ Delete({var[I.v]}) /\ Returns
       \/ DeleteRaises({var[I.v]}) /\ Raises
    /\ UNCHANGED <<fixed, var, open, size, warm, live, store, shot, volume, hidden, ghosts>>

\* create_sandbox(snapshot_id=...) behind the pool's back; _active.add().
RehydrateOne ==
    /\ Call("rehydrate")
    /\ LET p == var["snap"]
       IN  \/ /\ p \in DOMAIN shot /\ Make(shot[p]) /\ Returns
              /\ var' = [var EXCEPT ![I.v] = made + 1] /\ UNCHANGED strays
           \/ /\ IF p \in DOMAIN shot THEN MakeRaises(shot[p])
                                      ELSE UNCHANGED <<disk, made, strays>>
              /\ Raises /\ UNCHANGED var
    /\ UNCHANGED <<fixed, pool, live, store, shot, volume, hidden, ghosts>>

TrackOne ==
    /\ Call("track") /\ Returns
    /\ active' = active \cup {var[I.v]}
    /\ UNCHANGED <<fixed, var, open, size, warm, live, store, service, ghosts>>

TakeSnapshot ==
    /\ Call("snapshot")
    /\ \/ /\ AddShot(var[I.v]) /\ var' = [var EXCEPT !["snap"] = NewShot]
          /\ Returns /\ UNCHANGED hidden
       \/ /\ Raises /\ UNCHANGED var
          /\ \/ UNCHANGED <<shot, hidden>>
             \/ AddShot(var[I.v]) /\ hidden' = hidden \cup {NewShot}
    /\ UNCHANGED <<fixed, pool, live, store, disk, volume, made, strays, ghosts>>

\* Mutant: the delete names no snapshot.
DropNothing ==
    /\ Call("drop") /\ Returns
    /\ UNCHANGED <<fixed, var, pool, live, store, service, ghosts>>

DropSnapshot ==
    /\ Call("drop")
    /\ \/ DropShot(var["snap"]) /\ Returns /\ UNCHANGED hidden
       \/ hidden' = hidden \cup {var["snap"]} /\ Raises /\ UNCHANGED shot
    /\ UNCHANGED <<fixed, var, pool, live, store, disk, volume, made, strays, ghosts>>

-----------------------------------------------------------------------------
(* Using a sandbox.                                                        *)

ExecOne ==
    /\ Call("exec") /\ (Returns \/ Raises)
    /\ UNCHANGED <<fixed, var, pool, live, store, service, ghosts>>

Mark == [run |-> runs, by |-> var[I.v]]

Put ==
    IF I.on = "disk"
    THEN disk' = [disk EXCEPT ![var[I.v]].marks = @ \cup {Mark}] /\ UNCHANGED volume
    ELSE volume' = [volume EXCEPT ![I.on] = Mark] /\ UNCHANGED disk

\* The command fails with an exit code, which the script checks or not; or the
\* call raises.
WriteOne ==
    /\ Call("write")
    /\ \/ Put /\ Returns /\ wrote' = TRUE
       \/ /\ Put \/ UNCHANGED <<disk, volume>>
          /\ Raises \/ (~I.checked /\ Returns)
          /\ UNCHANGED wrote
    /\ UNCHANGED <<fixed, var, pool, live, store, shot, made, strays, hidden, seen>>

\* What a read finds: what this run wrote, or on the demo's volume any note.
Found ==
    CASE I.on = "disk" -> {m \in disk[var[I.v]].marks : m.run = runs}
      [] I.on = "demo" -> {volume["demo"]} \ {NoVolume, EmptyVolume}
      [] I.on = "probe" -> {m \in {volume["probe"]} : m.run = runs}

ReadOne ==
    /\ Call("read")
    /\ \/ /\ Found # {} \/ ~I.checked
          /\ seen' = seen \cup {[mark |-> m, on |-> var[I.v], base |-> disk[var[I.v]].base] :
                                m \in Found}
          /\ Returns
       \/ Raises /\ UNCHANGED seen
    /\ UNCHANGED <<fixed, var, pool, live, store, service, wrote>>

-----------------------------------------------------------------------------
(* Sessions.                                                               *)

\* SessionManager.open(), then the body of `with mgr.session(...)`.  When the
\* entry cannot be written the session stays live, and the body is not run.
OpenSession ==
    /\ Call("session")
    /\ LET p == store[Sid]
           content == IF p \in DOMAIN shot THEN shot[p] ELSE Fresh
       IN  \/ /\ \/ p <= 0 /\ \E s \in 1..(made + 1) :
                       Given(s, Fresh) /\ var' = [var EXCEPT ![I.v] = s]
                 \/ /\ p \in DOMAIN shot /\ Make(content)
                    /\ active' = active \cup {made + 1} /\ UNCHANGED warm
                    /\ var' = [var EXCEPT ![I.v] = made + 1]
              /\ live' = [live EXCEPT ![Sid] = var'[I.v]]
              /\ \/ store' = [store EXCEPT ![Sid] = IF p = NoEntry THEN 0 ELSE p] /\ Enter("session")
                 \/ Raises /\ UNCHANGED store
              /\ UNCHANGED strays
           \/ /\ IF p <= 0 \/ p \in DOMAIN shot
                 THEN MakeRaises(content) ELSE UNCHANGED <<disk, made, strays>>
              /\ Raises
              /\ UNCHANGED <<var, active, warm, live, store>>
    /\ UNCHANGED <<fixed, open, size, shot, volume, hidden, ghosts>>

\* checkpoint() of session i; saved tells whether it returned.
Checkpoint(i, saved) ==
    \/ /\ ~saved /\ UNCHANGED <<store, shot, hidden>>
    \/ /\ ~saved /\ store[i] # NoEntry
       /\ AddShot(live[i]) /\ hidden' = hidden \cup {NewShot} /\ UNCHANGED store
    \/ /\ saved /\ store[i] # NoEntry /\ FreeShots # {}
       /\ store' = [store EXCEPT ![i] = NewShot]
       /\ \/ /\ shot' = [p \in (DOMAIN shot \cup {NewShot}) \ {store[i]} |->
                  IF p = NewShot THEN [marks |-> disk[live[i]].marks, base |-> live[i]]
                                 ELSE shot[p]]
             /\ UNCHANGED hidden
          \/ /\ store[i] \in DOMAIN shot
             /\ AddShot(live[i]) /\ hidden' = hidden \cup {store[i]}

\* Mutant: close() without a checkpoint.
CloseUnsaved(i, saved) ==
    /\ saved /\ live' = [live EXCEPT ![i] = NoId]
    /\ active' = active \ {live[i]}
    /\ Delete({live[i]})
    /\ UNCHANGED <<store, shot, hidden>>

\* close(): whatever the checkpoint does, the sandbox is released.
CloseSession(i, saved) ==
    /\ Checkpoint(i, saved)
    /\ live' = [live EXCEPT ![i] = NoId]
    /\ active' = active \ {live[i]}
    /\ DeleteRaises({live[i]})

\* discard() of a session that is not live.
DiscardOne ==
    /\ Call("discard")
    /\ kept' = IF Sid = 0 THEN {} ELSE kept
    /\ \/ DropShot(store[Sid]) /\ UNCHANGED hidden
       \/ hidden' = hidden \cup ({store[Sid]} \cap DOMAIN shot) /\ UNCHANGED shot
    /\ \/ store' = [store EXCEPT ![Sid] = NoEntry] /\ Returns
       \/ Raises /\ UNCHANGED store
    /\ UNCHANGED <<script, ended, runs, var, pool, live, disk, volume, made, strays, ghosts>>

-----------------------------------------------------------------------------
(* Leaving a block, at its end or for an exception.                        *)

Leaving(kind) ==
    /\ frames # <<>> /\ frames[Len(frames)].kind = kind
    /\ Call("end") \/ mode = "raise"

F == frames[Len(frames)]
Pop == frames' = SubSeq(frames, 1, Len(frames) - 1)

\* The exit itself raises, or not.
Left(raised) ==
    /\ Pop
    /\ IF raised \/ mode = "raise" THEN mode' = "raise" /\ UNCHANGED at
                                   ELSE at' = at + 1 /\ UNCHANGED mode

LeaveLease ==
    /\ Leaving("lease")
    /\ active' = active \ {var[F.v]}
    /\ \/ Delete({var[F.v]}) /\ Left(FALSE)
       \/ DeleteRaises({var[F.v]}) /\ Left(TRUE)
    /\ UNCHANGED <<fixed, var, open, size, warm, live, store, shot, volume, hidden, ghosts>>

\* `finally` of the audit's variant: a sandbox it got is released; no exception
\* leaves the block.
LeaveTry ==
    /\ Leaving("try")
    /\ Pop /\ mode' = "call" /\ at' = F.after
    /\ DeleteRaises({var[F.v]})
    /\ active' = active \ {var[F.v]} /\ var' = [var EXCEPT ![F.v] = NoId]
    /\ UNCHANGED <<fixed, open, size, warm, live, store, shot, volume, hidden, ghosts>>

LeaveSession ==
    /\ Leaving("session")
    /\ \E saved \in BOOLEAN : CloseSession(Sid, saved) /\ Left(~saved)
    /\ UNCHANGED <<fixed, var, open, size, warm, volume, ghosts>>

\* SessionManager.__exit__ closes what is live first, then the pool.
LeaveManagerLive ==
    /\ Leaving("manager") /\ live[Sid] # NoId
    /\ \E saved \in BOOLEAN : CloseSession(Sid, saved)
    /\ UNCHANGED <<fixed, control, var, open, size, warm, volume, ghosts>>

\* close() deletes the warm ones and all of _active; that one raises is passed
\* over.
LeavePool ==
    /\ Leaving("pool") \/ (Leaving("manager") /\ live[Sid] = NoId)
    /\ Left(FALSE)
    /\ open' = FALSE /\ size' = 0 /\ active' = {} /\ warm' = <<>>
    /\ \E S \in SUBSET active :
          /\ disk' = Restrict(disk, DOMAIN disk \ (active \ S))
          /\ strays' = strays \cup (S \cap DOMAIN disk)
    /\ UNCHANGED <<fixed, var, live, store, shot, volume, made, hidden, ghosts>>

EnterTry ==
    /\ Call("try") /\ Enter("try")
    /\ UNCHANGED <<fixed, var, pool, live, store, service, ghosts>>

-----------------------------------------------------------------------------
Next ==
    \/ \E name \in Scripts : Start(name)
    \/ Finish \/ OpenPool \/ Warmer \/ WaitForWarm \/ EnsureVolume
    \/ AcquireOne \/ ReleaseOne \/ RehydrateOne \/ TrackOne
    \/ TakeSnapshot \/ DropSnapshot \/ ExecOne \/ WriteOne \/ ReadOne
    \/ OpenSession \/ DiscardOne \/ EnterTry
    \/ LeaveLease \/ LeaveTry \/ LeaveSession \/ LeaveManagerLive \/ LeavePool

Spec == Init /\ [][Next]_vars

-----------------------------------------------------------------------------
(* Properties.                                                             *)

\* The calls that enter a block; a note on a disk or a volume; a disk.
Entering == {"pool", "manager", "lease", "session", "try"}
Marks == [run : -1..MaxRuns, by : Nat]
Contents == [marks : SUBSET Marks, base : Nat]

\* The type of every variable, and that a script stays within its calls and
\* blocks.
TypeOK ==
    /\ script \in Scripts \cup {NoName} /\ mode \in {"idle", "call", "raise"}
    /\ at \in 1..(IF script = NoName THEN 1 ELSE Len(Code(script)) + 1)
    /\ (mode = "idle") = (script = NoName)
    /\ ended \in [script : Scripts \cup {NoName}, ok : BOOLEAN]
    /\ frames \in Seq([kind : Entering, v : Variables \cup {NoName}, after : Nat])
    /\ mode = "idle" => frames = <<>>
    /\ Call("end") => frames # <<>>
    /\ var \in [Variables -> Nat]
    /\ open \in BOOLEAN /\ size \in Nat
    /\ active \subseteq DOMAIN disk /\ warm \in Seq(active)
    /\ live \in [SessionIds -> 0..made]
    /\ store \in [SessionIds -> {NoEntry, 0} \cup ShotIds]
    /\ made \in Nat /\ DOMAIN disk \subseteq 1..made
    /\ \A s \in DOMAIN disk : disk[s] \in Contents
    /\ DOMAIN shot \subseteq ShotIds /\ \A p \in DOMAIN shot : shot[p] \in Contents
    /\ volume \in [Volumes -> Marks]
    /\ strays \subseteq DOMAIN disk /\ hidden \subseteq ShotIds
    /\ wrote \in BOOLEAN
    /\ seen \subseteq [mark : Marks, on : 1..made, base : Nat]
    /\ runs \in 0..MaxRuns /\ kept \subseteq 1..runs

\* A script that is over, however it ended, has no sandbox left but those whose
\* create or delete raised: sandbox_egress_audit.py:33 "deletes every sandbox
\* it creates", sandbox_introspect.py:216, 02_warm_pool.py:52.
CleanExit ==
    mode = "idle" => /\ DOMAIN disk \subseteq strays
                     /\ ~open /\ active = {} /\ \A i \in SessionIds : live[i] = NoId

\* The sandboxes a script is about to address, or to give back in the end.
Addressed ==
    {var[I.v] : do \in {x \in {"exec", "write", "read", "snapshot", "release"} : Call(x)}}
        \cup {var[f.v] : f \in {g \in Range(frames) : g.kind \in {"lease", "session"}}}

\* A script only addresses sandboxes that were handed out to it and that still
\* exist: what SandboxPool takes for granted of its callers.
OwnSandbox == Addressed \subseteq DOMAIN disk \ Range(warm)

\* A turn of 05_session_snapshots.py that returned 0 left its work in the
\* store's snapshot, and later turns, failed ones too, keep it there.
SavedOnSuccess ==
    mode = "idle" /\ kept # {} =>
        /\ store[0] \in DOMAIN shot
        /\ kept \subseteq {m.run : m \in shot[store[0]].marks}

\* A script that reports success saw what it claims: the demo's reader got the
\* note from another sandbox; the probe's second turn ran in a sandbox that was
\* rehydrated from the snapshot of the first, with the volume mounted; the
\* marker of the introspection was read in a rehydrated sandbox.
VerdictHonest ==
    mode = "idle" /\ ended.ok =>
        /\ ended.script \in {"read", "both", "volume_probe"} => seen # {}
        /\ \A x \in seen :
              IF ended.script \in {"volume_probe", "introspect"}
              THEN x.base = x.mark.by
              ELSE x.base = NoId /\ x.mark # [run |-> runs, by |-> x.on]

\* Snapshots bill: a script that returned 0 leaves none behind but the store's
\* and those whose delete or recording raised.
NoSnapshotLeft ==
    mode = "idle" /\ ended.ok => DOMAIN shot \subseteq Range(store) \cup hidden

\* 02_warm_pool.py:6 "The first two should hit the warm pool".
FirstTwoWarm ==
    script = "warm_pool" /\ Call("acquire") /\ I.v \in {"a", "b"} => warm # <<>>
=============================================================================
