# A TLA+ model of acas-toolkit

acas-toolkit (`src/acas_toolkit/`) is a Python layer over a cloud service that
runs code in *sandboxes* (small VMs) and takes *snapshots* of them. Sandboxes
and snapshots cost money while they exist, a session must survive the process
that served it, and a sandbox must never be shared by two users. This
directory models the parts of the toolkit that keep those promises, checks them
with TLC on small instances and proves some of them with TLAPS for every
instance.

## 1. Inventory

| Component | State it keeps | Operations | Hard behaviour | What makes it correct |
|---|---|---|---|---|
| **SandboxPool** `sandbox_pool.py` | `_clients`, `_active`, the queue `_warm`, the events `_warm_stop` and `_warm_refill`, `_warm_thread`, `_warm_lock` | `open`, `close`, `acquire`, `release`, `lease`, `wait_warm`; the warmer thread | callers, owner and warmer threads interleave at every service call; `close()` gives up on its warmer after 5 s; calls raise with or without effect | no sandbox is handed out twice; none that exists is forgotten; `close()` leaves nothing behind; the warm queue holds only sandboxes that exist and is refilled; `close()` returns |
| **SessionManager** `session_manager.py` | `_live`, over the pool's `_active` | `open`, `checkpoint`, `close`, `discard`, `session`, `__enter__`, `__exit__` | create snapshot, write entry, delete old snapshot: each may fail, and the process may die in between | the last checkpoint can be restored; a live session has its work; every snapshot and sandbox is accounted for |
| **SessionStore** `session_store.py` | a JSON file | `get`, `put`, `delete`, `items` | `put` and `delete` load the whole file and replace it, with no lock | an update of one session leaves the others alone |
| **GroupClientAdapter** `data_client.py`, `sandbox_factory.py` | a cache of per-sandbox clients | create / delete sandbox, exec, files, snapshots, volumes | on a rehydrate the egress policy and the volumes are set *after* the sandbox runs, and any of these calls may raise | a create that returns has policy and volumes set |
| **Executor, result types** `executor.py`, `types.py` | none; a snippet file per call in the sandbox | `execute`; exit code to status | concurrent calls on one sandbox; exit codes 124 and 137 are re-read as TIMEOUT and OOM | each call runs its own code; the status says what happened |
| **Agent Framework tools** `integrations/agent_framework/` | none; files in the sandbox | `execute_code`, `run_python`, `run_shell`, `run_pytest` | concurrent tool calls; `run_python` uses one fixed path | as the executor |
| **EgressPolicyBuilder** `egress.py` | its default action and two lists of dicts | builder calls, `build`, `pip_allowlist` | dicts and lists are shared by reference between the program, the builder and the adapter | the policy built is the policy described, and stays it; the sandbox gets the policy that was asked for |
| **Workspace volumes** `workspace.py` | none | `ensure_workspace_volume` | get, then create, by several processes | the volume exists afterwards |
| **Pool bootstrap** `sandbox_pool.py` (`open`, first half), `control_client.py` | none in the process | create group, wait for its endpoint | several processes; bounded wait | `open()` ends with an endpoint or an error |
| **Telemetry** `_telemetry.py` | tracer | spans | none | not modelled: no effect on control |
| **Examples, probes** `src/examples/`, `src/probes/` | variables for ids; what earlier runs left in the store and on a volume | 13 scripts: sequences of calls on pool and manager in `with` and `try` blocks | an exception after any call, with or without its effect; sandboxes made behind the pool's back; success claimed without evidence | no sandbox or snapshot is left behind; only sandboxes at hand are addressed; a script that says PASS saw what it claims |
| **Bicep templates** `src/infra/` | - | - | - | not modelled: declarations |

How they interact: `SessionManager` calls `SandboxPool.acquire/release/open/close`
*and* writes the pool's private `_active` itself (the snapshot branch of `open()`
creates its sandbox directly on the client). `SessionStore` is called only by
`SessionManager`. Pool and manager call the service through
`GroupClientAdapter`. The executor and the tools call `SandboxPool.write_file`
and `exec` with a sandbox id they were given and do not own. A policy that
`EgressPolicyBuilder` built is passed by the program to the pool or the manager
and read by the adapter. The scripts sit on top; one of them,
`sandbox_introspect.py`, also writes `_active` itself. Nothing calls back into
the toolkit; the only thread it starts is the warmer.

`PROJECT.json` lists the components with their status and, under `hazards`,
what is hard to test in each, at its line, with the properties that watch it.

## 2. Modules

| Module | What it is |
|---|---|
| `SandboxLease` | what the pool promises: who has which sandbox, abstractly |
| `SandboxPool` | the pool: owner, callers, warmers, and the service's sandboxes; it implements `SandboxLease` |
| `MCSandboxPool` | its symmetry sets for TLC |
| `SandboxPool_proofs` | its theorems |
| `SandboxPool_refinement` | the theorem that it implements `SandboxLease` |
| `DurableSession` | what the manager promises: running and committed work, abstractly |
| `SessionManager` | sessions, the store's file, and the service's sandboxes and snapshots, with crashes; it implements `DurableSession` |
| `SessionManager_proofs` | its theorems |
| `SessionManager_refinement` | the theorem that it implements `DurableSession` |
| `MCSessionManager` | its symmetry sets for TLC |
| `SandboxTools` | the agent's tools and the executor: overlapping calls and their processes in one sandbox |
| `SandboxTools_proofs` | its theorems |
| `Provisioning` | from nothing to the first sandbox: the bootstrap of `open`, `ensure_workspace_volume`, `create_sandbox`, by several processes |
| `Provisioning_proofs` | its theorems |
| `EgressPolicy` | the policy builder, the policies it built, and how they reach a sandbox, over a heap of dicts and lists |
| `EgressPolicy_proofs` | its theorems |
| `MCEgressPolicy` | the argument lists TLC tries |
| `Scripts` | the example and probe scripts, on a coarse pool and session manager |
| `Scripts_proofs` | its theorems |

Definitions whose comment begins with "Mutant:" are variants of the operation
that follows them, each with a plausible bug. `Next` does not use them; they
exist to show that a property would notice the bug (PROJECT.json, `mutants`).

### SandboxPool

The threads are one **owner** (`open`, `close`), any number of **Callers**
(`acquire`, `release`, `wait_warm`) and the slots **Warmers**, one of which each
`_start_warmer` takes. Each has a program counter; `sbx[t]` is the local variable
holding a sandbox id. A caller's `held` is what `acquire` returned to it, so
that callers release only what they acquired, and only once.

| Code | Actions |
|---|---|
| `open` from `make_sandbox_client` on, `_start_warmer` | `Open`, `StartWarmer` |
| `close`, `_stop_warmer` | `CloseBegin` (stop, wake), `CloseJoin`, `CloseDrain` (one `get_nowait`), `CloseList` (`list(self._active)`), `CloseDelete` (one delete), `CloseEnd` |
| `acquire` | `AcquireWarm`, `AcquireSignal`; `AcquireCold`, `AcquireCreate`, `AcquireRecord` |
| `release` | `ReleaseBegin`, `ReleaseDelete`, `ReleaseEnd` |
| `wait_warm` | `WaitBegin`, `WaitReady`, `WaitEnd` |
| `_warmer_loop` | `WarmerLoop` (the two tests), `WarmerWake` / `WarmerTimeout` and `WarmerClear`, `WarmerLock`, `WarmerCreate` / `WarmerCreateRaises`, `WarmerRecord` (`_active.add`), `WarmerPut` (`_warm.put`) |
| the service | `Create`, `CreateRaises`, `Delete`, `DeleteRaises`: `...Raises` with or without the effect |

Each step holds at most one access to state other threads change, with these
exceptions:

- `Open` and `CloseEnd` are one step each. `open` writes `_clients`, the events
  and `_warm_thread` with no service call in between. Of these, another thread
  reads the events, which only the warmer not yet started waits on, and
  `_clients` / `_warm_thread`, which a caller tests alone.
- `WarmerLoop` tests the stop event and the queue size together. A warmer
  that read the first before `close()` set it tests it again in `WarmerLock`,
  before it creates.
- `WarmerLock` joins the second test of the stop event and the dereference of
  `_clients`. A warmer that sleeps between the two for longer than the join of
  `close()` waits finds `None` there; the loop catches the `AttributeError` as it
  catches a failed create, so this is a `WarmerCreateRaises` without effect.
- `CloseDelete` deletes and discards: `_active` is read only by `close()`.
- An id that nothing refers to any more is issued again (`Free`). The service
  never reissues an id; nothing in the state can tell the two apart, and the
  number of ids becomes a quota on sandboxes that exist or are remembered
  rather than on creates.
- Egress policies, disks, volumes are not in the model: an acquire with a
  disk or arguments that no warm sandbox fits is an acquire that may take
  `AcquireCold` although the queue has an id.

Ghost variables record only what properties speak about: `orphans` (the call
that made or deleted the sandbox raised, so the pool cannot know), `late` (a
caller's `acquire` recorded it after `close()` had listed what to delete) and
`held`.

**`SandboxLease`** has no threads: a sandbox id is idle (the pool's), leased to a
caller, or neither; it may be deleted when nobody has it or once `close()` has
begun. `ImplementsLease` maps the queue and what a warmer is about to put there
to *idle*, and what a caller holds or is about to be given to *leased*. What it
says beyond `ExclusiveLease` is about steps: a sandbox passes from the pool to
one caller, from a caller to nobody (a used sandbox never goes back into the
queue), and is not deleted under its holder while the pool is open.

### SessionManager

Each session id has at most one call under way (`op`, `pc`, its locals `entry`,
`new`, and `data`, the file as `SessionStore` loaded it). What is on a disk or in
a snapshot is an *image*: whose session it is, and how much work it has. `saved`
is a ghost: the work in the last snapshot that reached the store.

| Code | Actions |
|---|---|
| `open` | `OpenBegin` (`store.get`), `OpenCreate` / `OpenRaises`, then `Load`, `Save` |
| `checkpoint` | `CheckpointBegin(i, "checkpoint")`, `Snapshot` / `SnapshotRaises`, `Load`, `Save` / `SaveRaises`, `Rotate` |
| `close` | `CheckpointBegin(i, "close")` and the steps of `checkpoint`, or `EndBegin` (`checkpoint=False`); then `Release` |
| `discard` | `DiscardBegin`, `Release` if live, `Free` / `FreeRaises`, `Load`, `Save` |
| `SessionStore.put`, `delete` | `Load`, `Save` / `SaveRaises`; `Written` is the entry |
| `__enter__`, `__exit__` | `Enter`; the closes of the live sessions, then `Exit` |
| the program; the process | `Work`; `Crash` |

`Crash` may come between any two steps: it keeps the service and the file and
forgets everything else. `_save` writes a temporary file and renames it, so the
file is the old one or the new one. The pool is reduced to what the manager uses
of it: open or closed, `_active`, create, release and the sweep of its `close()`;
a warm sandbox is as fresh as a cold one. `open` registers its sandbox in
`_active` and in `_live` in one step: no other step reads either for this
session in between. `Exit` is enabled only when no session is live, because
`__exit__` closes each first and `close` always ends with the session not live.

**`DurableSession`** is a register per session: *committed*, and a *running* copy
that starts from it, grows with work, may be committed and may be lost at any
time. `ImplementsDurable` maps *running* to the disk of the live sandbox and
*committed* to the snapshot the store names. The three steps of a checkpoint
thereby become one `Commit`, at the write of the entry, and stutters: the old
snapshot goes only when nothing is committed to it any more. A discard
(*ending*) may lose what was committed from its beginning to its end, because
`discard` deletes the snapshot first and the entry after.

### SandboxTools

A tool call is a thread that sends a write request (if its tool writes a file)
and an exec request; the exec request becomes a process in the sandbox. The two
sides are separate actions, so a request can raise while its process starts or
goes on. `files` is `/tmp`, which is all the calls share that the tools write to;
`Calls` name the calls, their source code and, for `execute`, their `uuid4` path.

| Code | Actions |
|---|---|
| `execute_code`, `execute` | `BeginExecute`, `Write`, `ExecReturns`; `Raised` for the `except` |
| `run_python` | `BeginPython`, `Write`, `ExecReturns` |
| `run_shell`, `run_pytest` | `BeginShell`, `ExecReturns`: one tool, a command and no file |
| `pool.write_file`, `pool.exec` | `Write` / `WriteRaises`, `Start`, `ExecReturns` / `ExecRaises` |
| the exit code's translation, `from_exit_code` | `Translate`, `FromExitCode` |
| `pool.lease` ending | `Release` |
| external: the interpreter, the kernel, `timeout(1)` | `Read`, `Exit`, `OomKill`, `TimedOut` |

`timeout(1)` is external. It is modelled as coreutils documents it for the
command line the code builds, without `--kill-after`: SIGTERM once, then wait,
124 in the end; a duration of 0 is no limit. Programs are assumed to leave
`/tmp/exec_*.py` and `/tmp/snippet.py` alone; output and durations are left out.

### Provisioning

Each process runs `open`, asks for one sandbox, ensures its volumes or not, and
calls `create_sandbox`. They share the service: one sandbox group, which is
absent, new (no `managementEndpoint` yet) or ready, and the volumes that exist.
`SandboxPool` and `SessionManager` begin where this module ends: their `Create`
is all of `create_sandbox`, with `CreateRaises` for the steps that raise here.

| Code | Actions |
|---|---|
| `open` up to the clients | `EnsureResourceGroup`, `GetGroup`, `CreateGroup` |
| `_wait_for_management_endpoint` | `Poll` (one read), `GiveUp` after the last |
| `make_sandbox_client`, `resolve_regional_endpoint` | `BuildClients`; without an endpoint only `OpenRaises` is left |
| the arguments, `normalize_workspace_volume`, `auto_create` | `Ask` |
| `ensure_workspace_volume` | `GetVolume`, `CreateVolume` / `CreateVolumeConflict` (409) / `EnsureRaises` |
| `create_sandbox` | `Boot` (`begin_create_sandbox` and its result; `Deferred` says what waits for the setters), `SetPolicy`, `Mount` (the 409 `VolumeAlreadyMounted` included) and `...Raises` |
| external: the service | `PutGroup`, `EndpointAppears`; in `Boot`, that a snapshot may bring mounts with it |

A request is a record: rehydrated or fresh, with a policy or without, and a set
of volumes; the order in which the code walks its list of volumes is left open.
What a policy says is not modelled. External assumptions: a PUT of a group that
exists changes nothing; `create_volume` of a volume that exists is refused with
409; a volume that does not exist cannot be mounted; nobody deletes the group
or a volume meanwhile (the toolkit never does). So `get_group` in the wait does
not raise `ResourceNotFoundError`, which inside the `try` of `open` would lead to
the create.

### EgressPolicy

Dicts and lists are cells of `heap`, an address is a position; a policy, a rule,
its match and its list of methods are cells of their own, as in Python, so that
a missing copy is a shared cell. `told` records what the calls on the builder
said, `meant` what they had said when a policy was built.

| Code | Actions |
|---|---|
| `EgressPolicyBuilder()`, `pip_allowlist()` | `Init` |
| `deny_by_default`, `allow_by_default` | `ByDefault` |
| `allow_host(s)`, `deny_host(s)` | `AddHost` |
| `allow_rule`, `deny_rule`, `_add_rule` | `AddRule` |
| `build`, `_deep_copy_rule` | `Build`, with the copies `CopyHosts` and `CopyRules` |
| `create_sandbox`: `_coerce_egress_policy`, the create, `set_egress_policy` | `Create` and, from a snapshot, `SetPolicy` |
| external: the program changes a dict or list it has | `Tamper` |
| external: the SDK reads the policy object into a request | `Serialize` |

`Coerce` copies the host rules and keeps the caller's list of per-request rules;
on a rehydrate that list is read only after the sandbox runs. Hence the condition
in `AppliedAsAsked`. An empty list of rules and none at all are the same policy.
`Build` writes the copies down in closed form: the cells of the new policy lie behind those
there were, sorted by what they are, so that the position of each is known. A rule
without methods leaves the cells of its lists unused, as does a policy without
rules; nothing refers to those. Creates follow one another, each with any of the
policies; the next one begins when the last has handed over its policy.
Hosts and paths are strings and need no copy; the list of methods is one the
program may change later (`args`).

### Scripts

A script is a sequence of its calls (`Code`), and a small machine runs it: `mode`
is *call* or *raise*, `frames` are the `with` and `try` blocks entered. Every call
may return or raise, and one that raises may have had its effect. `quiet` calls
are those whose exceptions the script or `execute` catches at once, `checked`
ones those whose outcome the script tests.

| Code | Definitions |
|---|---|
| `examples/02` to `08` | `WarmPool`, `EgressDemo`, `WriteTurn` / `ReadTurn` / `BothTurns`, `Install` / `DiscardTurn`, `ConsoleTrace`, `InsightsTrace`, `CodeAct` |
| `probes/` | `Introspect`, `EgressAudit`, `VolumeProbe` |
| `SandboxPool`, coarsely | `OpenPool`, `Warmer`, `WaitForWarm`, `AcquireOne`, `ReleaseOne`, `LeaveLease`, `LeavePool` |
| `SessionManager`, coarsely | `OpenSession`, `Checkpoint`, `CloseSession`, `DiscardOne`, `LeaveSession`, `LeaveManagerLive` |
| commands that write and read, all through `pool.exec` | `WriteOne` (`Put`), `ReadOne` (`Found`); any other command is `ExecOne` |
| the client itself | `RehydrateOne` and `TrackOne` (the introspection's raw create), `TakeSnapshot`, `DropSnapshot` |

What is coarser than in the modules above: a call of the session manager is one
step with each of its outcomes, and the warmer ends within the join of `close()`.
Of the loops over variants and requests two rounds are kept (3 variants and 12
in the code): a round ends as it began, with no sandbox. Sandbox ids are
numbered afresh in each run, and what an earlier run left behind by a failed
delete is dropped when the next starts: no script can reach it. The examples share
one session, a run of the probe has its own: its id is made from `int(time.time())`,
and two runs do not begin in one second.

## 3. Runs

Every bound is a constant of the module:

| Constant | Meaning | Why the value is enough |
|---|---|---|
| `Callers` | threads in acquire/release/wait | two race for one queue; a third adds no new pair. With stragglers one, for the size of the state space: the theorems are for any number of both |
| `Warmers` | warmers at a time | two: the present one and a straggler. With both busy a further `Open` waits for one to end |
| `Sandboxes`, `Snapshots` | the service's quotas | at least one more than the steady state, so that creates overlap deletes; the quota also runs out |
| `WarmSize` | `warm_size` | 1 (every acquire empties the queue), and 2 (partly full) |
| `WaitTargets` | the `n` of `wait_warm` | the whole queue |
| `MaxOpens` | calls of `open` | 2: a reopened pool meets what the first left |
| `CreateOutlivesJoin` | may the warmer miss `join(timeout=5.0)` | both values are run |
| `MaxWork` | work in one session | 2: work before and after a checkpoint |
| `MaxCrashes` | crashes | 1: a crash at any step, then a full recovery |
| `Serial` | one call at a time in the process, or one per session | both values are run |
| `Calls` | tool calls | 2: what one call can do to another's file; the theorems are for any number |
| `Procs` | processes that provision | 2: the one that creates and the one that finds half of it; the theorems are for any number |
| `Volumes` | volumes one sandbox may mount | 2: one of several mounts failing |
| `Attempts` | reads of the endpoint | 6, the code's number |
| `Hosts`, `Paths`, `Names`, `Methods` | arguments of the builder | one of each: what is shared does not depend on their values; a rule with methods and one without |
| `MaxCalls`, `MaxBuilds`, `MaxTampers` | rules the builder is told (`pip_allowlist` begins with one), policies, changes by the program | 3, 2 and 1: host rules and per-request rules before, between and after two builds, and one change anywhere |
| `MaxRuns` | scripts run | 2: every ordered pair, the writer before the reader among them |
| `MaxBoxes` | sandboxes made in a run before the warmer stops making more | 3: two warm and one more |
| `ShotIds` | ids of snapshots | 5: two runs never use them up |
| `EnvSizes` | `ACAS_WARM_SIZE` | 0 and 1: off and on; `02_warm_pool.py` sets 2 itself |
| `Limits`, `Codes`, `Stubborn` | time limits, exit codes, calls that ignore SIGTERM | one of each kind the code tells apart: 0 and 60 s, and None; success, failure, and the two codes it translates |

| Run | Shows |
|---|---|
| `pool_punctual` | if the join sees the warmer end: `ExclusiveLease`, `ClosedClean`, `WarmIsLive`, `NoLostWakeup`, `ImplementsLease` |
| `pool_liveness` | with stragglers and failing creates: `Accounted`, `WarmBound` (the queue overshoots `warm_size` by at most one sandbox per straggler), `WarmerHasClients` (no warmer passes its stop test under `_warm_lock` while `_clients` is `None`), `CloseReturns`, `WarmerEnds`, `Refilled` |
| `pool_leak` | *violated*: a warmer whose create outlasts the join leaves a sandbox nobody deletes |
| `sessions` | serial calls, failures and a crash anywhere: `Restorable`, `LiveCurrent`, `Accounted`, `ImplementsDurable` |
| `sessions_assert` | *violated*: the assertion in `checkpoint` that a live session has an entry |
| `sessions_race` | *violated*: `Restorable` with two threads on two sessions |
| `tools` | two overlapping calls: `OwnCode`, `Honest`, `Answered` |
| `tools_timeout` | *violated*: a call with a time limit returns (`TimeoutKills`) |
| `provisioning` | two processes from nothing to a sandbox: `EndpointKnown`, `Sealed` (no sandbox is handed out without its policy, and a fresh one never runs without), `Equipped` (it has all its volumes), `CallsEnd` |
| `provisioning_volume` | *violated*: `ensure_workspace_volume` is idempotent for two processes |
| `egress` | `BuilderIntact`, `PoliciesApart`, `AppliedAsAsked`, whatever the program does to the dicts and lists it can reach |
| `scripts` | any two scripts in a row: `CleanExit` (no sandbox left), `OwnSandbox`, `SavedOnSuccess`, `VerdictHonest`, `NoSnapshotLeft`, `FirstTwoWarm` |

The pool really stops in one state only, closed with no call under way and
`MaxOpens` used up; the action `Done` stutters there, so that TLC's deadlock
check stays on and would report a thread stuck anywhere else. The session runs
have no such state: a session can always be opened. The tools stop when all calls are
over and no process is left, and provisioning when every process has a sandbox or
an exception, again an action `Done` in each.
The builder and the scripts stop when their bounds are used up, in states that are
many and of no interest: these two runs do without the deadlock check.

**Fairness** (`FairSpec`). Weak fairness of the owner's `close()` and of each
warmer: a thread of a running process is scheduled, service calls return or
raise, and `wait(timeout=1.0)` returns after a second whatever the event says.
Strong fairness of a create that succeeds: the service does not fail every
create for ever, without which nothing refills the queue. Callers and `open`
have none: a program may stop using the pool. `CloseReturns` needs nothing of
the service but that calls end: `CloseJoin` is fair, in the code because of its
timeout. For the tools (`SandboxTools!FairSpec`): requests to a sandbox that
exists take effect and answer once the process has ended, requests to one that
does not are refused, and `timeout(1)` keeps its time; that a program ends by
itself is not assumed, so only calls with a time limit are promised an answer.
For provisioning, that a process in a call goes on and its requests return or
raise; not that the endpoint ever appears.

## 4. Findings

The five runs marked *violated* are findings in `PROJECT.json`, each with the
text of the repository it contradicts.

1. `close()` gives up on its warmer after 5 s, less than a cold create takes by
   the project's own figures. The sandbox that create returns is added to the
   closed pool's `_active` and is never deleted (`sandbox_pool.py:487`).
   The same straggler, between `_active.add` and `_warm.put` (line 506) while
   `close()` sweeps, queues an id whose sandbox is gone, for the `acquire` after
   the next `open`.
2. `SessionManager.open` makes the session live before its entry is written. If
   that write raises, the next `open` returns the sandbox, and `checkpoint`
   fails on its assertion (`session_manager.py:181`).
3. `SessionStore.put` is a load and a replace of the whole file with no lock, so
   two threads on two sessions can undo each other's rotation
   (`session_store.py:112`).
4. `execute` relies on `timeout(1)` killing a program that ignores SIGTERM after
   10 s. The command it builds does not ask for that: the call does not return
   (`executor.py:112`).
5. `ensure_workspace_volume` gets, then creates. Two processes can both find the
   volume missing, and the slower one's create is refused: its caller gets the
   exception, where the docstring says "idempotently" (`workspace.py:161`).

Seen on the way, plain from the text and without a run: `close` of a session
deletes the sandbox also when its checkpoint raised (`session_manager.py:285`);
`run_python` tells the model of "a fresh /tmp on each call" and runs in the
shared one (`run_python.py:45`); the policy of a rehydrated sandbox, which
`session_manager.py:85` says is applied "at sandbox creation", is set after it
(`data_client.py:233`), which is why `Sealed` makes an exception for it; a volume's
`read_only` flag is passed on for a fresh sandbox and not after a rehydrate
(`data_client.py:238`); a policy's per-request rules go on by reference
(`data_client.py:100`), so a program that edits the dict while a rehydrate is
under way changes what is applied. In the scripts: `sandbox_introspect.py`
deletes its snapshot only if nothing raised since line 201, and leaks it
otherwise, which is why `NoSnapshotLeft` speaks of runs that returned 0; its
verdict "survived: NO" may also mean that the write of the marker or the read
failed, since neither is checked; `sandbox_snapshot_with_volume.py` stops at a
failed check with its session's entry and snapshot in place, under an id that
nobody uses again; and `05_session_snapshots.py` prints that a session was
discarded although the delete of its snapshot failed.

## 5. Proofs

`SandboxPool_proofs` proves, for every number of callers, warmers, sandboxes and
opens and every warm size:

| Theorem | States | Rests on |
|---|---|---|
| `TypeCorrect` | `Spec => []TypeOK` | `Typed`: also, a thread has an id in hand exactly at the labels where the code has one |
| `ExclusiveLeases` | `Spec => []ExclusiveLease` | inductive with `Typed`; one lemma per way an id moves (pop, give, take, put, fresh, drop) |
| `EverySandboxAccounted` | `Spec => []Accounted` | `Dropped`: what `release` is about to discard is gone or its delete raised |
| `WarmerFindsClients` | `Spec => []WarmerHasClients` | `WarmerInv`: a warmer on record implies clients; a running warmer not on record implies the stop event |
| `CloseCleans` | `Spec => []ClosedClean` | `PunctualInv` |
| `WarmQueueLive` | `Spec => []WarmIsLive` | `PunctualInv` |
| `WakeupKept` | `Spec => []NoLostWakeup` | `PunctualInv` |
| `WarmBounded` | `Spec => []WarmBound` | a warmer goes on to a create only below `warm_size`, so what queues and what is on its way there outgrow it by one id per other warmer; cardinality lemmas of the library; assumes a finite, non-empty set of warmers |
| `PoolLeases` (in `SandboxPool_refinement`) | `Spec => ImplementsLease` | `Typed` and `ExclusiveLease`: each step moves an id between *idle*, *leased* and neither, or nothing |

`CloseCleans`, `WarmQueueLive` and `WakeupKept` assume `~CreateOutlivesJoin`, the
assumption `pool_leak` shows to be needed. Then `Single` holds, the only running warmer is the one on
record, and from it follow `Swept` (while `close()` sweeps, `_active` is what is
still to do or came late), `Stocked` (queued and soon-to-be-queued ids exist
and are in `_active`) and `Awake` (the wake-up argument for each label of the
warmer). `PunctualInv` is their conjunction with the earlier invariants. The
constants' assumptions are those of `SandboxPool`: the thread sets are disjoint,
the "none" values are not members, the bounds are naturals.

None of the invariants is inductive as the runs check it. `Accounted`, for
instance, says nothing of a `release` whose delete has returned but which has
not yet discarded the id: `Dropped` is exactly that step. Each strengthening
was model-checked before it was proved.

`SessionManager_proofs` and `SessionManager_refinement` prove, for every set of
sessions, every quota of sandboxes and snapshots and every number of crashes:

| Theorem | States | Rests on |
|---|---|---|
| `TypeCorrect` | `Spec => []TypeOK` | `NewTyped`: a checkpoint about to write its entry has a snapshot to write |
| `LastCheckpointRestorable` | `Serial` implies `Spec => []Restorable` | `Inv` |
| `LiveSessionsCurrent` | `Serial` implies `Spec => []LiveCurrent` | `Inv` |
| `EverythingAccounted` | `Serial` implies `Spec => []Accounted` | `Inv` |
| `SessionsDurable` | `Serial` implies `Spec => ImplementsDurable` | `Inv`, and one lemma per step of `DurableSession` that says what of one session has to change for it |

`TypeCorrect` holds also when calls interleave. The others need `Serial`, one
call at a time in the process: `sessions_race` shows what happens otherwise.
`Inv` is `Typed`, `LiveCurrent` and four parts. `Calls` says where in which call the
session can be and what its locals are worth there: the entry read is still the
entry in the store (`Opening`, `Checkpointing`), the new snapshot exists, holds the
disk and is nobody's yet (`Shot`), the snapshot about to be deleted is nobody's any
more (`Dropping`), a discard about to write the entry has deleted its snapshot
or given it up (`Discarding`); and it says that the file as loaded is the file. `StoreInv`
strengthens `Restorable`: it also speaks of sessions without a snapshot (no work
was saved) and of snapshots a half-done discard left, and says that no two
entries name one snapshot. `SnapsInv` and `BoxesInv` are `Accounted`. `Restorable`
alone is not inductive: nothing in it keeps the rotation from deleting the
snapshot just committed; `Dropping` does. Every part was model-checked first. Of the
constants the proofs assume what `SessionManager` does: the "none" values are no
members, `NoEntry` is no image, the bounds are naturals.

`SandboxTools_proofs` proves, for any set of calls:

| Theorem | States | Rests on |
|---|---|---|
| `TypeCorrect` | `Spec => []TypeOK` | inductive as it stands |
| `ExecuteRunsOwnCode` | `Spec => []OwnCode` | `Ordered` (no process before the exec request; none about to start in a released sandbox) and `Written` (from the end of its write on, an `execute`'s file holds its code, for no other call has the path) |
| `StatusHonest` | `Spec => []Honest` | `Fated` (how a process ended fits its exit code), `Reported` (a result comes from an exit code the service reported, or from none), and `StatusOf`, the statuses of the exit codes 0..255 |

`Provisioning_proofs` proves, for any processes, volumes and number of attempts:

| Theorem | States | Rests on |
|---|---|---|
| `TypeCorrect` | `Spec => []TypeOK` | `InHand`: a process about to create a volume has one in hand |
| `ClientsHaveEndpoint` | `Spec => []EndpointKnown` | `EndpointKept`: a group with an endpoint keeps it |
| `PolicyFirst` | `Spec => []Sealed` | `BoxInv`: `Booted` (a sandbox exists only after its create returned) and `Progressed` |
| `SandboxEquipped` | `Spec => []Equipped` | `Progressed`: what is not mounted yet is still in the list, and what is mounted exists |

`EgressPolicy_proofs` proves, for any hosts, paths, names and lists of methods, and any
number of rules, policies, creates and changes by the program:

| Theorem | States | Rests on |
|---|---|---|
| `PolicyTypes` | `Spec => []TypeOK` | `IInv` |
| `BuilderUntouched` | `Spec => []BuilderIntact` | `IInv`: what the program can reach is not the builder's |
| `PoliciesIndependent` | `Spec => []PoliciesApart` | `IInv`: nor is it another policy's; and `BuiltValue`, that a new policy is by value what the builder holds |
| `SandboxGetsPolicyAsked` | `Spec => []AppliedAsAsked` | `IInv`: `Sending` |

`IInv` is the four properties, `Separate` and `Sending`. `Separate` says that every cell
can be given an owner, the builder, the k-th policy or the program, so that a cell
refers to cells of its owner only (`Owning`), the two lists are the builder's,
each policy its own and each list of methods the program passed the program's. So
what `Tamper` reaches from a policy has that policy as owner (`ReachOwner`), and
what has another owner reads as before (`OwnerFrame`, `PolicyFrame`). Without it none of
the properties is inductive: they speak of values, and a cell shared by two
policies shows only once it is changed. `Sending` says that what a create has
in hand is by value what it was asked for, its rules as long as the program has
left that policy alone. `Build` is the long case: where each new cell lies (`Places`), what it
holds (`Built`), that it refers to new cells only (`BuiltPlaced`), and that it
reads like the builder's (`BuiltRuleAt`, `BuiltValue`). Assumed: `None` is no
number, the bounds are naturals, the hosts of `pip_allowlist` are a list.

`Scripts_proofs` proves, for any number of runs, sandboxes and snapshots and whatever
`ACAS_WARM_SIZE` says:

| Theorem | States | Rests on |
|---|---|---|
| `FlowAlways` | `Spec => []Flow` | `AllSound` |
| `DataAlways` | `Spec => []Data` | `Flow` |
| `ExitsClean` | `Spec => []CleanExit` | `Closed` and `Stock` |
| `AddressesItsOwn` | `Spec => []OwnSandbox` | `Users` |
| `FirstTwoFromQueue` | `Spec => []FirstTwoWarm` | `WarmedUp`: what the queue holds at each call of `warm_pool` up to its second `acquire` |
| `NoSnapshotLost` | `Spec => []NoSnapshotLeft` | `Billed`: unless a script has raised, a snapshot is one the store names, a hidden one or the one `introspect` has yet to delete |
| `WorkSaved` | `Spec => []SavedOnSuccess` | `Secured`: the work due, that of the turn under way included, is in the live session's sandbox, and otherwise in the store's snapshot; `Single`: no two sessions share a snapshot, and `introspect` deletes none of theirs |
| `VerdictsHonest` | `Spec => []VerdictHonest` | `NoteRead`, `ProbeRead` and `MarkerRead`: for each script that reads, what is on its volume, in its snapshot and in its sandboxes call by call; `Blind`: the others read nothing |
| `TypeCorrect` | `Spec => []TypeOK` | `Typed`: the place in the calls and blocks from `Flow`, sandboxes from `Data`, the store and its snapshots from `Shots`, contents and volumes from `Kinds`, the rest from `Tallied` |

The argument has three layers. The first is about the texts of the scripts, which are
constants: `Nest`, `Depth` and `Has` are, for each script, tables of the blocks around
each call, their number, and the variables that name a sandbox there. `Sound` says
what makes a table right (a call that enters a block has one more around the next
call, the `end` of a block is inside it, a `try` knows where it goes on, a call
addresses only a variable the table gives it), and is proved call by call for
each of the thirteen scripts (`AllSound`). The second is `Flow`: the blocks a run has entered are
those of the table at its place, also while an exception is on its way out. The third is `Data`,
proved from `Flow` action by action and not script by script: `Stock` (every sandbox on the service is in `_active`,
or its create or delete raised, or it was rehydrated a call ago and is not yet
tracked; the queue is part of `_active`, without repetition), `Users` (the variables that name a sandbox
name distinct ones which exist and are not queued; the live session is the
script's own, its sandbox is in `_active`, and it is live only inside the manager's block) and `Closed`
(outside all blocks the pool is closed and `_active` empty). `CleanExit` speaks of
the idle state only, and `OwnSandbox` of the call at hand only: neither says what a `with` block that is
still open will find when it is left, which is what `Flow` and `Users` are for.

`WorkSaved` and `VerdictsHonest` speak of what is written where. For each thing that holds it one lemma
says, over all actions, how a step may change it: a sandbox (`DiskMoves`: kept,
written to, or new with nothing or a snapshot's content), a snapshot (`ShotMoves`), the
store (`StoreMoves`: an entry made, removed, or moved on to a snapshot just taken of the
live sandbox), a volume (`VolumeMoves`), the live session (`LiveMoves`) and what a script
has read (`SeenMoves`). `Kinds` types their contents. The properties themselves hold
between runs and say nothing of a run under way, so each gets an invariant for all states that becomes the
property once the script is over. In `Secured` the place where the work is kept changes hands:
with `OpenSession` from the snapshot to the sandbox (`OpensSaved`), with a checkpoint that returns back to a
new snapshot (`SavedAnew`), and a checkpoint that fails leaves the older snapshot, which the work kept
before is still in (`SavedKept`); the turn that was to be saved has then raised and
its work is not due. `MarkerRead` follows the marker from the sandbox it is written in through
the snapshot to the rehydrated one, which nothing is written to any more.

`TypeCorrect` types all 22 variables. `Tallied` has what no other invariant speaks of: how the last
script ended, the warm size (each pool's `sizes`, which is why the tables carry them), the ghosts,
and what was read, which is a mark together with a sandbox of this run. For `hidden` it
needs to know that what `introspect` deletes is the snapshot it took (`Noted`).
Assumed: the bounds and warm sizes are naturals, ids of snapshots are positive.

Only model-checked: the liveness properties, which as formulas about fairness
and ENABLED are outside what the prover handles.

## 6. Not modelled

Telemetry, logging, exception texts, the az CLI and Bicep; what the egress proxy
makes of patterns, paths and methods; the approval round-trip of the agent
framework; `01_minimal.py`, an offline check that spans cost nothing, whose
acquire, exec and release run against a stub that makes no sandbox; argument parsing, prompts and the reports and diffs the scripts print. Two owners that open and close one pool
concurrently: the pool is used as a `with` block. A `release` of an id by a caller
that did not acquire it. Two calls at once on the *same* session. Two processes
on one store file, which `session_store.py:35-36` excludes.

## 7. Plan

Done: the pool and its promise (`SandboxPool`, `SandboxLease`, both joined by a
proof), sessions and theirs (`SessionManager`, `DurableSession`, likewise), the
tools, provisioning, egress policies, the scripts.

Every safety property that a passing run checks is also proved.

What stays with TLC in any case: liveness, and what a recursive definition
computes for every input.
