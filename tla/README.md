# Freezeit daemon: TLA+ specifications

Freezeit freezes Android background apps. A root daemon (Rust, `src/freezeitDaemon`)
looks every second at the processes of the apps its user configured and freezes, stops or
kills those in the background; a hook inside `system_server` (Java, `src/freezeitApp/.../hook`)
tells it what is in the foreground; a manager app configures it over a socket. This directory
holds the TLA+ models of the daemon's own logic, the TLC runs that check them and the TLAPS
proofs about them.

Paths without a directory below are relative to `src/freezeitDaemon/src`.

## 1. Inventory

| component | source | state | operations |
|---|---|---|---|
| SIGSTOP ledger | `sys/procfs.rs` 42-335, 671-876 | main file (pid, start time) lines; sidecar file with lines bound to the main file's inode | record, take, promote, look up |
| signal backend | `sys/signal.rs` | none of its own | SIGSTOP then record, undone on error; take then SIGCONT |
| restart recovery | `app/controller.rs` 2487-2647 | none | visit the managed processes before the server starts; SIGCONT, or cgroup and Binder thaw too |
| control pass | `app/controller.rs` 513-1949, `sys/socket.rs` 385-480 | `RuntimeControlState`: tracked identities and their ownership, pending freezes, blocked signatures, network requests, audit times | one pass over the configured uids; thaw of everything when control is disabled |
| transactions | `app/controller.rs` 829-966, 1957-2192; `sys/socket.rs` 553-627 | what has been applied so far | freezer, signal, fallback, terminate, thaw; validated first, rolled back on a failure |
| backend decision | `app/freezer_backend.rs` | a capability cache of 30 s | freezer, signal fallback or nothing |
| timers | `app/controller.rs` 1390-1475, 1859-1890; `app/download_deferral.rs` | deadlines and counters per identity | freeze delay, download deferral, periodic wakeup, refreeze audit |
| control loop | `sys/socket.rs` 629-700, 797-907 | policy action gate, state mutex, hook health, config revision | hook health check, config synchronisation, pass, hand-over of logs and network breaks |
| manager protocol | `protocol/manager_v1.rs`, `manager_v2.rs` | the shared `ReadOnlyState` | accept connections; read state, clear the log; change the config: persist, send to the hook, commit or roll back |
| config files | `config/loader.rs`, `migration.rs` | files | atomic write, merge, restore |
| logs | `app/logging.rs`, `operation_log.rs` | two rings and a clear cut-off | append, deduplicate, clear, read |
| command runner | `app/command_runner.rs` | a child process, its group and two pipes | run with a deadline and an output bound; kill the group |
| cgroup and Binder drivers | `sys/cgroup.rs`, `binder.rs` | the kernel's | freeze and thaw one process |
| policy, health, foreground parsing, scheduler | `domain/`, `app/health.rs`, `compatibility.rs`, `foreground.rs`, `scheduler.rs` | none | pure functions and reports |
| Xposed hook | `FreezeitService.java` (`src/freezeitApp/.../hook/android`) | configuration, runtime snapshot (foreground, pending uids and their times) | serve one request at a time: set the configuration, scan the foreground, take the pending list, break a network, report health; suppress background work of frozen apps |
| manager app, scripts | Java, shell | | outside the daemon |

**How they interact.** The control loop takes the policy action gate, synchronises the hook,
takes the state mutex and runs one pass. A pass reads the processes and the foreground once,
then visits the records of the app config; every decision of the pass is taken from that view
while processes go on forking and exiting. A visit runs at most one transaction, which calls
`freeze_process` or `unfreeze_process` for each process, and those call the cgroup file, the
Binder ioctl or `send_signal`, which keeps the ledger. A manager command that changes the
policy takes the gate too, so it falls between passes. Nothing of `RuntimeControlState`
survives the daemon: after a restart the ledger and the cgroup files alone say what is held.

**What is hard.** Crashes between a signal and its record, between two files of the ledger,
between the Binder and the cgroup half of a freeze; failure of one process of an app;
long histories over several passes (freeze, audit, policy change, other backend) that decide whether
SIGCONT alone is enough to thaw; a view that is stale when it is used; retries. `PROJECT.json`
lists each such point with its line under `hazards`.

**What makes each component correct.**

* ledger: no process loses its record by an operation on another; a `SignalOnly` claim never appears
  without a promotion, whatever is cut short;
* signal backend and recovery: a completed stop is known to the next daemon and resumed by it;
* control pass: the foreground runs, the background is held, what is held is known, what leaves control is thawed,
  and an ownership which may hide a freezer residual never becomes `SignalOnly`;
* control loop, manager, config files, hook: a synchronisation the daemon claims is true; memory and files agree when a command
  has returned, whatever failed; a pass never acts on a configuration that has been replaced; neither thread undoes
  what the other wrote; the hook suppresses only what the daemon knows to be in the background; the two sides come
  together again after failures;
* timers: no freeze, wakeup or audit before its time, whatever the clock and the settings do; a download candidate is frozen
  on a measured rate only;
* logs: bounds and order are kept; nothing evicted or cleared comes back; no pass that fits in the ring is lost;
* command runner: a call returns; a successful one has the whole output, a failed one leaves nothing running.

## 2. Modules

| module | what it is |
|---|---|
| `StopOwnership` | the abstract ledger: a set of owned processes and the claims among them |
| `SignalLedger` | the two ledger files, one action per file operation; implements `StopOwnership` |
| `SignalRecovery` | `send_signal` and the restart recovery around an instance of `SignalLedger` |
| `Control` | `RuntimeControlState`, the control pass, its transactions, the disabled pass, the world |
| `HookSync` | the loop's iteration, configuration commands, the bridge and the hook: one configuration in memory, on disk and in the hook |
| `PassTimers` | the deadlines of a pass for one app, on a wall clock that may step back |
| `ManagerLog` | the operation ring, the manager log and its clear, and what the loop copies from one to the other |
| `CommandRunner` | one call of `run_command_with_limits` beside the command and its helpers |
| `SignalLedgerProofs`, `SignalRecoveryProofs`, `ControlProofs`, `HookSyncProofs`, `HookAgreementProofs` (also about `HookSync`), `PassTimersProofs`, `ManagerLogProofs`, `CommandRunnerProofs` | theorems about the module they are named after, for all values of its constants |
| `MCSignalRecovery`, `MCControl`, `MCHookSync`, `MCPassTimers`, `MCManagerLog` | model values, symmetry and instances for TLC |

`SignalRecovery` extends `SignalLedger` and composes it with the signals: `RecoverySpec` takes steps of the ledger only
where the daemon calls it, and is proved to imply the ledger's own `Spec`. `Control` sees the ledger as
`StopOwnership` does (`None`, `SignalOnly` or `ResidualUnknown` for each process, with the weakening step
of a failed write as `LedgerWeakens`): the refinement proved in
`SignalLedgerProofs` is what allows that.

### SignalLedger

`main`, `inode`, `sidecar` and `untrusted` are what the two files amount to for the parser: a main line is
canonical (two fields, once), or anything else that still names the process; a sidecar line names the
inode it was written for, or does not parse. `call` is the ledger call in progress: a call
reads both files and computes their next contents (`Begin`), then removes the sidecar, renames the new main
file into place and writes the sidecar again with the claims of the other processes bound to the new
inode. Each of these is an action, any of them may fail (`WriteFails`), and the daemon may die
between any two (`Crash`). A new main file gets any inode number but that of the file it replaces, which
still exists at the rename. `Init` is any ledger an earlier version may have left, with no effective
claim.

### SignalRecovery

The module's specification is `RecoverySpec`; its variables are those of the ledger and these:
`stopper` says who stopped a process, `task` is the signal operation in progress, `phase` and `todo` the
recovery. `SendStop`, `RecordStop`, `LedgerStep`, `StopSucceeds` or `StopUndone` are the
steps of `send_signal(Stop)`; `Resume`, `LedgerStep`, `SendCont` or `ResumeFails` those of
`send_signal(Continue)`. Debuggers and other tools stop and resume processes at any time. The
history variables `held` and `interrupted` record which stops were reported successful and whose last operation
was cut short.

### Control

An identity `(package, uid)` is written as its package, numbered in name order because a pass takes
the first name it finds. `cgroup`, `binder` and `sigstop` are the processes Freezeit holds in each
freezer. A pass is `PassBegin` (snapshot, reconciliation of the running states, foreground, drop of uids that left
control), one `Record(u)` for each controlled uid, and `PassEnd`. The actions of `Record(u)` are the
branches of the loop body: no process, protected package, blocked signature, foreground, wakeup,
frozen and quiet, delay, postponed, freeze, refusal. A branch that freezes, stops, kills or thaws starts a
transaction `tx`, whose steps are `FreezeOne`, `KillOne`, `ThawOne`, their failures, the roll back and
the bookkeeping at the end (`FreezerDone`, `FallbackDone`, `SignalDone`, `KillDone`,
`ThawDone`, `FreezerUndone`, `StopUndone`). `DisabledBegin` to `DisabledEnd` is `thaw_all_frozen`.
`Crash` is the death of the daemon, its restart and its whole restart recovery: the new daemon
serves nobody before the recovery is over.

What is to be done with an app is `Decisions`: the backend its mode and the settings ask for (`Requested`), and for the freezer
what the probe, the cgroup files and the Binder traffic of its processes leave of it (`CanFreeze`), with `FallbackDecision` for the rest.

What the world and the device may do is the constant `Features`; each run names its own.

Abstractions of `Control`, besides the identity:

* deadlines are abstract: a pending freeze falls due at some time, an audit or a wakeup is due or not (`PassTimers` has the arithmetic);
* the records of a pass are visited in any order, the code's order being that of the config file;
* the discovery of processes is exact (the code skips a live process whose status cannot be read);
* the ledger is atomic here: crashes inside it belong to `SignalLedger` and `SignalRecovery`;
  `Torn` is the crash inside a freeze or a thaw of one process;
* a process is a (pid, start time) pair, so a reused pid is another process;
* the operation log, statuses and wording are left out.

### HookSync

`st` is the part of `ReadOnlyState` that matters here: policy, settings, `config_revision`,
`hook_config_synced`, hook health and freeze status. `disk` holds the two files, `gate` the
policy action gate. The policy is, for each app, the rows it has in `appcfg.txt` or the records it has in memory (`Rows`): at most one
by package name, and any number by uid. A start resolves the names by the package inventory it gets (`listed`) and drops the rows it cannot
resolve from memory, not from the file (`Loaded`); a command changes every record of an app (`Merged`), and writes the file row by row: the rows memory
knows are rewritten, others stay, and an app without a known row gets one by uid (`Rewritten`). `loop` and `manager` are the locals of the two threads and their place in the code; whatever
a thread does while it holds the state mutex is one action, so the mutex needs no variable. The loop takes the gate and prepares its
configuration (`LoopPrepares`), asks for the hook's health, writes the verdict back (`LoopApplies`), runs a pass or the disabled
thaw, sends the pending list, breaks networks, and puts what failed back into the queue (`LoopFinishes`).
A command takes the gate, copies the state, writes the file, sends the configuration, commits or rolls back, and
replaces the whole state by its copy (`ManagerCommits`).

A request is an entry of `inbox`, which the hook serves in order of arrival, one at a time, and its answer is `reply[thread]`. A deadline that passes in
the daemon (`RequestTimesOut`) leaves the request in the inbox, addressed to nobody: the hook still acts on it.
`HookRestarts` loses the inbox and the hook's state, `DaemonRestarts` the daemon's memory. A daemon that starts loads its files
(`Readings`, `Fresh`; a policy file that cannot be read counts as an empty policy, as in the code, and that policy goes to the hook), asks the hook whether it is there
(`StartAsks`), sends it the configuration (`StartSyncs`) and then serves (`StartServes`).

Abstractions of `HookSync`:

* the mode of an app is whether it is controlled; the configuration a hook gets is the set of controlled uids and one setting;
* a uid is one package's, and the file names a package once, before the rows by its uid, which commands append. The token that memory keeps for a record is not a variable: it is that of the last row
  loaded or written, so it is the name exactly when the app has no record by uid;
* `control_allowed` is `loop.allowed`, any value that a ready hook permits, chosen anew when an iteration has asked for the hook's health: what the
  device says of cgroups, root and verified targets is not modelled;
* a pass is what it leaves in the pending list and in the network queue, any choice consistent with its foreground (`LoopPasses`);
  what it does to processes is `Control`'s;
* the runtime snapshots of the hook have no age: after 15 s the code stops suppressing, which only ends suppression earlier;
* commands that change only the log, labels or nothing at all are left out;
* a restore that fails after its rename counts as done: the file is as it was, and only the log differs.

History variables: `delivered` (breaks carried out since the loop took the list), `torn` (a restore failed, or the last start could not read a file)
and `listed` (the apps in the inventory of the last start).

### PassTimers

One app, and one action for each way a pass may end for it: gone, foreground, woken, left frozen, delayed, waiting, downloading,
not measurable, frozen, failed, postponed, disabled. `pending`, `frozenSince`, `sample`, `auditStarted` and `nextAudit` are the
fields of `RuntimeControlState` and of the download deferral, as times of the wall clock. Between passes the clock goes on (`Tick`), is stepped back, the app moves, its byte
counter grows or restarts, a process comes loose, the settings change.

What the daemon owes is history, in spans of real time: `wait` of the delay promised when a pass first sees the app in the background (or when the
manager's countdown last told it), `hold` of the wakeup interval, `rest` of the interval between two audits; `gap` says that a
sample failed after the last good one. A clock stepped forward is not modelled: it makes every deadline of the code come early.

### ManagerLog

`ring` is `RuntimeControlState.operation_log`, `copy` what the loop has copied out of it after a pass, `incoming` what is pushed into `records` under
the state mutex; `Admit`, `Evict` and the rejection of what is stale are the steps of a push. A record is its operation number,
its time, its size and whether it is an operation or a text; `retained`, `highest` and `cutoff` are the fields of the code.
A clear may fall anywhere outside a push, also between the copy and its publication. History: `first`, `shown`, `forgotten`.

### CommandRunner

The runner's loop (`turn`, `poll`, `read`, `kill`, `reap`) against a command and helpers that write to
bounded pipes, close them, fork, leave the group and exit at any moment. Bytes are counted, not stored. `DeadlinePasses` is the
deadline; `KillGroup` signals the members the group has then, and a process killed is `doomed` until the kernel has torn it down.

## 3. Runs

| run | question and bounds | states |
|---|---|---|
| `recovery_faulty` | Is every completed stop resumed after a restart, and does the ledger keep what it promises, with crashes, I/O failures and foreign signals anywhere? Two processes, three inode numbers, any ledger an earlier version may have left. | 267,628 |
| `control_freezer` | Does a pass free the foreground, a disabled pass and a restart everything, and do foreground apps, and all apps when control is switched off, run in the end? One app, two processes, both backends, delay, Binder traffic, edits, switching, crashes, external thaws. | 85,992 |
| `control_faults` | With every operation failing at will, audit, wakeups and downloads: is what is held known, and is SIGCONT alone used only where it is enough? One process with a cgroup file and one without, so both backends meet in one app. | 546,808 |
| `control_shared` | Is a uid of three packages, one protected, killed or frozen, with failures, and control switched on and off, ever held under two of them? | 895,624 |
| `control_refreeze` | Is a background app held in the end, with processes that start after the freeze? | 7,036 |
| `control_policy_removed` | Is an app that leaves control thawed? Violated. | |
| `control_audit_strands` | Does a foreground app run in the end with the audit and Binder traffic? Violated. | |
| `hook_sync` | Do memory, files and hook tell the truth about each other and agree in the end? One app, two values of a setting, two commands (`MaxEdits`) and two failures or restarts (`MaxFaults`). | 866,335 |
| `hook_unpaired` | Is an app suppressed only when the last pass found it in the background? Violated. | |
| `timers` | Does anything come before its time? One app, seven moments of the clock (`MaxTime`), one step back (`MaxStepsBack`), a counter up to two thresholds (`MaxBytes`), a start phase of four with audits three apart, settings edited between passes. | 1,231,102 |
| `manager_log` | Do the logs keep bounds, order and what must stay away? Rings of two, retained size of three, records of one, two and four, three operations (`MaxOperations`), two texts (`MaxTexts`), two moments of the clock and one step back. | 2,395,155 |
| `command_runner` | Does a call return, with what it should have, and leave nothing behind? The command and one helper, pipes and reads of two bytes, a limit of three, four bytes written (`MaxBytes`). | 109,680 |

**Why the bounds are enough.** Transactions treat one process at a time, so two processes give every
pair of done, failed and untouched; the ledger treats "the process of the call" and "each
other process", the latter with and without a claim, so three suffice. A pass never relates two uids except by dropping
those not controlled, for which two uids are used. Runs are not bounded in length: processes start and die
once, everything else may repeat for ever, so no counter needs a cap in the ledger, the recovery and `Control`. In `HookSync` `MaxEdits` and `MaxFaults` bound commands and failures: two
commands let the second fall on whatever the first left behind (a request still in the inbox, a claim, a failed restore), and two failures are a
failed request and a failed roll back, or a timeout and a restart. An inventory that lacks the app counts as one failure at the first start; a later start
is a failure itself, whatever its inventory. The first files are none, one row by name or by uid, and a row by name that is free with a changed setting; a row of each
kind, and two by uid, come about through commands and starts. The same properties also hold with three
commands and two failures, with two commands and three failures, and with two apps, two commands and one failure; these
larger instances take too long to be kept as runs.

In `PassTimers` the start phase ends inside `MaxTime` and is longer than one of its intervals, so both kinds of interval and the passage from
one to the other happen; the theorems cover the real lengths. In `ManagerLog` the record of size four fits nowhere and one of size two fits only with one of size one,
so eviction by count, eviction by size and refusal all happen, and three operations are one more than a ring holds. In `CommandRunner` the limit
is one byte short of what can be written, and a pipe is full with half of it, so that the limit, a full pipe and the deadline can each come first.

**Why the features are split.** Some properties do not hold for every combination, and the split is part
of what the runs say. With the audit and a switched-off control together `HeldIsTracked` does not hold: the audit detaches a
partly running identity, its refreeze fails, and a disabled pass thaws `frozen_apps` and drops
the detached ownerships without a thaw (`controller.rs:715`). `ForegroundRuns` and `ForegroundResumes` do not
hold with the audit (section 6), nor for an app of a shared uid when a second package starts after
its freeze. With the audit and a protected package sharing the uid of another, `HeldIsTracked` does not hold either: the
audit detaches the other, a process of the protected package starts, and the visit of a protected record thaws only what is in
`frozen_apps`. `RestartFrees` does not hold with the audit: an app is stopped with SIGSTOP, one more process of it
starts, the audit detaches the app, and the refreeze takes the freezer backend, whose first step freezes Binder; if the daemon dies
before the cgroup follows, the recovery sees a `SignalOnly` record and a thawed cgroup and sends SIGCONT only. Nor does it
hold if calls may fail during the recovery itself. Section 5 turns this list into hypotheses under which the properties are theorems.

Symmetry is used over processes and inode numbers where no property is temporal beyond an
action property. Only `command_runner` does without the deadlock check: it is one call, and stops when the call has returned and the processes are
gone. Everywhere else the daemon always has a next step.

## 4. Fairness

`FairSpec` asks for weak fairness of `Daemon` as a whole: the control loop is an endless loop with a
sleep of one second and no step of it waits for another actor (an error of the hook or of a
lock skips the pass). It asks that a freeze that is waiting falls due, since its deadline is a point of time.
`AuditedSpec` adds strong fairness of a pass that begins with an audit due. The code's audit timer expires
again and again for ever only when the audit setting is enabled; without it audits stop a quarter of an hour
after the start, and a process started after the freeze of its app may then run as long as the app stays in the
background.
Nothing is assumed of the world in `Control`: apps, the hook and other tools do as they like.

`CommandRunner` asks for weak fairness of the runner, which is a thread in a loop; strong fairness of a poll that reports, since a stream that is
readable again and again is reported; and that a killed process dies. Nothing makes the command
or its helpers do anything. The deadline is fair only inside `CallReturns`, where the claim is what follows from it; `NoStall` is checked without, for a deadline that must come would
hide a stall. `SignalRecovery`, `PassTimers` and `ManagerLog` have safety and action properties only, and no fairness.

`HookSync`'s `FairSpec` is weak fairness of the loop, of a command that has begun and of the hook's accepting thread. All three are threads of
their own; each waits for the gate, which its holder gives back in bounded time, and for an answer, which
comes or times out after three seconds. Weak fairness of a thread suffices for the gate because commands are finitely many.
`Resynchronises` is about what follows once failures stop, so the bound on failures is part of its claim; a hook that never
recovers promises nothing.

## 5. Proofs

`SignalLedgerProofs` proves, for every set of processes and inode numbers and from `InodesAssumption` alone
(the two model values are not inode numbers):

* `TypeCorrect`: `Spec => []TypeOK`;
* `RewriteIsConservative`: `Spec => []NoClaimDuringRewrite`;
* `OthersStayOwnedCorrect`: `Spec => OthersStayOwned`;
* `Refinement`: `Spec => ImplementsStopOwnership`, the two-file ledger implements the abstract one.

None of these is inductive alone. The invariant is `LedgerInv`: types, what an unfinished call has in hand
(`CallInv`: the claims it carries over belong to processes it will write records of), and that the
sidecar names nobody from its removal until it is written again (`SidecarInv`); without the last the new main file could get an
inode number an old claim names. `BeginInv` and `ReturnInv` are the two halves of a call shared by
record and take. The refinement maps the abstract claims to `PendingClaims`: those on disk, or during a
rewrite those about to be written, so that the abstract step of a record or take happens at the rename.

`HookSyncProofs` proves, for any apps, settings, bounds and files from `BoundsAssumption`, `DefaultAssumption` and `InstalledAssumption`:

* `TypeCorrect`: `Spec => []TypeOK`;
* `NothingLostCorrect`: `Spec => NothingLost`, although a command writes its whole copy of the state back;
* `BreaksAreKeptCorrect`: `Spec => BreaksAreKept`, although the hook may still serve what the daemon has given up.

The invariant is `Inv`. `RevisionInv` bounds the revision by the commands begun, which makes `TypeOK` inductive; `GateInv`
says that a thread in the middle of something holds the gate, and that the copy of a command agrees with the state in what
only the loop writes; `BreakingInv` that a break under way is one of those left; `MergeInv` that a command keeps a record of every app it finds, so that what it writes for one is never
nothing. `LoopStepInv` and
`CommandStepInv` say what a step of the loop, or of a command, needs to keep it; each action is then shown to be such a step.
For the breaks, `AskInv` says that at most one request in the inbox is the loop's, that the loop waits for it and that it is the
break the loop has come to; `DeliveryInv` that a break answered `ok` has been carried out, and that what was taken is carried out, failed or still
to be asked. A late answer cannot be taken for that of a later break, because a request that timed out is addressed to nobody.

`HookAgreementProofs` (also from `NoFileAssumption`: a policy is not the missing file) proves the four
invariants of `hook_sync` about the configuration in its three places:

* `SyncedMeansHookAgreesCorrect`, `PassUsesOnePolicyCorrect`, `DiskIsMemoryCorrect`, `SuppressesOnlyBackgroundCorrect`.

`Agrees(p)` says that the hook has `p` or nothing and that no other configuration is under way to it. A daemon thread cannot see that; it
concludes it from the answer to its own `SetConfig`. The conclusion is right because of `LastInv`: the request a
thread waits for is the last that arrived, since the gate keeps the other thread from asking, so that whatever timed out before it has been served by the time it is
answered. `AnswerInv` states the conclusion at each place that draws it (start, loop, command), `MemoryInv` carries it into the claim, the
loop's snapshot and the command's copy. `DiskInv` says at each step of a command which records the file stands for, and, until the hook has
accepted, that the previous file is at hand. To stand for records is `Agree`, app by app: as many rows of each kind, and the last the same. Equality would not be
inductive, because a rewrite takes the last record for all rows; `RewrittenAgrees` shows that one rewrite keeps `Agree` whether the package is in the
inventory or not, provided that a command changes all records of an app or none (`Changes`). For `SuppressesOnlyBackground` an answer of the hook means moreover that nothing is under way at all
(`QuietInv`), so a pass that got its foreground has seen what the hook last published, and no late scan can replace it until the next
configuration empties the snapshot (`StatusInv`). A skipped pass is what the invariant cannot carry; it is the finding of `hook_unpaired`.

`SignalRecoveryProofs` (from `InodesAssumption` and `RecoveryAssumption`: `None` is no process) proves

* `RecoveryUsesLedger`: `RecoverySpec => Spec`, the daemon uses the ledger only as `SignalLedger` says, so that
* `RecoveryKeepsOwnership`: `RecoverySpec => OthersStayOwned /\ ImplementsStopOwnership` follows from the theorems about the ledger;
* `RecoveryTypeCorrect`, `HeldStaysOwnedCorrect`, `CompletedStopsAreResumedCorrect`.

`RecoveryTypeOK` includes that nobody is served while a discovered process is still to be visited. `HeldInv` extends "what was reported is recorded" to what a ledger call in progress is about to write; without it a rewrite for one
process might drop a reported one at its rename. `StopInv` accounts for every stop of Freezeit: reported, of the operation in progress, or
interrupted. `TodoInv` says that a recovery without failures still has all of the reported ones before it, which at its end are none.

`ControlProofs` (from `ControlAssumption`: finitely many processes and packages, packages numbered) proves, for all
modes and all `Features` together, shared uids included,

* `TypeCorrect`, `HeldOfOnePackageCorrect`, `ResidualPrecedenceCorrect`.

`TypeOK` includes that every identity in `frozen_apps` has its entry in `frozen_ownership`, which only `TrackFrozen` and `ClearFrozen` together keep in step. The rest of the
invariant is about what a pass knows. `ViewInv`: while records are visited, everything held of a controlled uid is in the snapshot, because
only this pass freezes and what was held when it began was alive. `TxInv`: a transaction that freezes is about processes of the snapshot, of a uid
with one package there; one that promotes began without a residual and the ownership has not changed since. So a check of the
snapshot is a check of all that is held. `TornFacts` shows that a daemon that dies inside a freeze adds only the process the transaction had come to.

Under a hypothesis it proves more. The conjuncts of `Accountable` rule out the ways in which the controller forgets what it holds:

* `StaysControlled`: no edit makes an app free (a mode of 0), or else the pass lets go of it without a thaw (`control_policy_removed`);
* `DetachedStay`: if there is an audit, control is not switched off and a uid is protected as a whole, for the disabled pass and the visit of a
  protected record drop what an audit has detached;
* `CleanRestarts`: if the daemon may crash, calls do not fail and there is no audit.

Everything else stays allowed: starts and exits, thaws by others, edits between the controlled modes, settings, shared uids, failed freezes with
failed roll backs and fallbacks, Binder traffic, wake-ups and downloads. From `ControlAssumption` and `Accountable` follow

* `HeldIsTrackedCorrect`, `SignalOnlyIsCompleteCorrect` and `RestartFreesCorrect`, from the inductive invariant `Accounts`.

None of the three properties is inductive. `TrackInv` says at any step, not only between passes, that whatever is held has an ownership or is of the
transaction under way, and that what the cgroup or Binder freezer holds has an ownership with a residual or is of a freezer transaction. `CoverInv`: a thaw or a
kill has everything that is held of its package before it, and what could not be thawed marks it as failed, so that its end forgets nothing.
`LedgerInv`: a stop has its record, and without an audit a `SignalOnly` record is never of a process the freezer holds, so the recovery may trust it. `AboutInv` and
`HoldableInv` say what a transaction is about and what can be held at all; `ControlledInv`, `SwitchInv`, `AuditOff` and `NoneDetached` carry the hypotheses from step to step.

With `Exact` (`StaysControlled`, one package a uid, no failures, no audit; starts, exits, edits, switching off, crashes and thaws by others stay) it proves what a pass promises,

* `ForegroundRunsCorrect` and `DisabledThawsCorrect`, from the invariant `Serves`: during a pass, whatever is held of an app that was found in the
  foreground is of a uid still to be visited or waits in the thaw under way (`ForegroundInv`), and in a disabled pass all that is held is still in the queue or
  in that thaw (`DisabledInv`). At the end of a pass nothing is left in either. `UnblockedInv` says that no app is given up.

The instances of the runs satisfy the hypotheses they need: `control_faults` is `Accountable`, `control_freezer` is `Accountable` and `Exact`. For each
hypothesis TLC finds a violation of a property that needs it once it is dropped (section 3).

`PassTimersProofs` (from `TimersAssumption`) proves all properties of `timers` for any settings, phases and retry times.
A deadline is a time of the wall clock and what was promised is a span of real time; `DelayInv`, `HoldInv` and `RestInv` say that what is left of a promise is never
more than what is left to its deadline. A tick shortens both, a step back only the promise. `SampleInv`: a failed sample leaves none.

`ManagerLogProofs` (from `LogAssumption`) proves `TypeCorrect`, `InOrderCorrect`, `NothingReturnsCorrect` and `PassIsPublishedCorrect` for any capacities and sizes. The
ring is the last operations without gaps (`RingInv`); `LoopInv` and `IncomingInv` say what may be incoming at each place of
the loop; `ForgottenInv` that what a clear put behind is kept out by its number or by its time; `PublishedInv` that an operation of the
pass is incoming, pushed, or rightly kept out. `TypeOK` bounds the bytes of the records the log has, and the code only keeps a counter of them, from which an
eviction subtracts with saturation; `BytesInv` says that the counter is the sum and so never saturates. The sum is a recursive function: `SumExists` shows that there
is one, and `TotalAppend` and `TotalTail` how it changes, each by the least exception (`UpTo`), as the provers have no induction of their own.

`CommandRunnerProofs` (from `SizesAssumption`) proves `TypeCorrect`, `WholeOutputCorrect` and `NothingLeftRunningCorrect`. `StreamInv`
counts the bytes: until the call is given up, written is what is in the pipes plus what was read. `GroupInv` says that after the kill no member runs, and that nothing that runs can join
the group any more.

**Only model-checked.** Everything under fairness (`ForegroundResumes`, `DisabledResumes`, `BackgroundFreezes`, `Resynchronises`, `NoStall`,
`CallReturns`), because the prover cannot reason about `ENABLED`. Every other property of the passing runs is a theorem as well, those of `Control`
that do not hold for all features under the hypotheses above. What no theorem and no run goes beyond are the bounds a model builds in (`MaxEdits`,
`MaxFaults`, `MaxStepsBack`): the theorems hold for any value of them.

## 6. What the code does otherwise

* `control_policy_removed`: the start of a pass thaws what left control by way of the pass's own
  discovery closure, which knows controlled uids only. It finds no process, clears the tracking and thaws nothing.
* `control_audit_strands`: the audit takes a partly running identity off `frozen_apps` before it is
  known whether the refreeze goes ahead; when Binder traffic postpones it and the app comes to the foreground, that branch
  thaws only what is in `frozen_apps`.
* `hook_unpaired`: when `GetForeground` times out in the daemon there is no pass, yet the loop sends `UpdatePending` with the list of
  the cycle before. The hook serves the late scan first and this list after it, so it has two fresh halves of
  two cycles: an app that left the foreground in between is suppressed though the daemon has not frozen it. The
  hook's own comment says it fails open until the pending list of the same cycle has come.
  (`SuppressesOnlyBackground` shows that a skipped pass is the only way.)

More facts that no property states, because no document says what should happen, or because the models leave them out on purpose:

* `send_signal` stops the process before the ledger knows. A daemon killed in between leaves it stopped; its recovery passes over stops without
  a record, as it must for those of other tools. A ledger write that fails inside a resume is the same: record gone, no SIGCONT.
  `CompletedStopsAreResumed` leaves out the operation that was cut short (`interrupted`) and shows that these are the only ways;
* `DiskIsMemory` compares the records in memory with the rows that the inventory of the last start could resolve, and does not say that they are
  equal: when an app has more than one, only the last counts for a rewrite, so there are as many of both, the last of them are the same, and the
  others may differ. A row that could not be resolved may say anything. That a package is not installed is one reason, a failure of both package
  commands another, and then a start has no policy by name at all, and the hook is told so;
* a row that a start dropped may come back. Let the file have `com.app 30`, and a start not find the package in its inventory. A command for the uid then
  appends a row by uid. The next start finds the package and loads both rows, but keeps the token of the last only
  (`source_tokens_from_legacy_config`, `protocol/manager_v1.rs:896-910`): setting the app free rewrites the row by uid, leaves the one by name as
  it was and reports success, and the start after that controls the app again. In `HookSync` this takes two commands and one restart after a first start without
  the package. The comment at `protocol/manager_v1.rs:804-807` speaks of unmatched rows as those of unavailable packages, and its test (2108) has a package that stays uninstalled;
* a roll back that cannot restore the policy file leaves the new policy on disk and the old one in memory; sending the same
  records again then counts as durable without a write (`protocol/manager_v1.rs:760`), and a restart loads what the hook had refused;
* a policy file that cannot be read at the start is an empty policy, which is then sent to the hook;
* a network break that failed is tried again by a later pass, even if the app is in the foreground by then;
* with more than 128 pending uids the hook refuses the whole list and suppresses nothing;
* the comment at `app/controller.rs:1877-1878` says of the next audit `Do not leave this as None`, and the code then sets `None` when the
  audit setting is off: enabling it again audits at once. `AuditsKeepApart` counts that as the beginning of a new interval;
* the baseline of a download sample survives stretches in the foreground and in the freezer, though the comment at
  `app/download_deferral.rs:50-52` says that an old baseline would dilute a burst;
* with the delay switched off a pass freezes at once, whatever pending deadline, countdown or 30 s retry there was;
* a wall clock stepped forward makes every deadline come early (not modelled);
* a panic while the gate or the state mutex is held poisons it, and the loop then skips every iteration
  (`sys/socket.rs:811-815`); an error of `accept` ends the server (`sys/socket.rs:776`).

## 7. Plan and what is left out

Done: the ledger, the signal backend, the restart recovery, the control pass, the loop with commands, bridge and hook, the timers, both logs and the
command runner; theorems about each of them, and one for each property of a passing run that is not a liveness property.

What could follow: that each step of a pass brings it nearer to its end, the part of its liveness that is not about fairness; an abstract
specification of what the controller holds, which `Control` would implement under `Accountable`; a discovery in `Control` that misses live
processes; pids of their own, with reuse, in `Control`; two apps in `PassTimers`.

Not modelled, and why:

* parsing and formatting (manager protocols, config syntax, `/proc` text, foreground output), ioctl encodings, package name tables: data without
  state; the models take what was parsed, and what cannot be read is a failure where the code has a branch for it;
* the acceptance of manager connections and their read and write deadlines: one request at a time, and a deadline only drops the connection;
* the age of the capability cache (30 s) and of the hook's snapshots (15 s);
* pid reuse between the validation of a process and the signal;
* what health and compatibility reports say and how they come about. The loop reads two of their results: the hook's health, which is modelled, and
  `control_allowed` (`sys/socket.rs:538`), which is any value that a ready hook permits. The scheduler, which the loop does not use;
* the manager app, the boot scripts and the framework methods the hook replaces: outside the daemon.
