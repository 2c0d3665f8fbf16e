------------------------------- MODULE Control -------------------------------
(***************************************************************************)
(* The control loop of the daemon: RuntimeControlState and the control     *)
(* pass of app/controller.rs, with the freeze and thaw primitives of       *)
(* sys/socket.rs acting on the processes and the ledger seen through       *)
(* StopOwnership.  One pass takes a snapshot of the processes and of the   *)
(* foreground uids, then visits the configured uids; processes start, exit *)
(* and are thawed by others between any two steps, and the daemon may die. *)
(*                                                                         *)
(* An identity (package, uid) is written as its package: a package has one *)
(* uid.  Deadlines are abstract: a pending freeze becomes due, an audit or *)
(* a periodic wakeup is due, whenever the clock may say so.                *)
(***************************************************************************)
EXTENDS Naturals, FiniteSets, Sequences, FiniteSetsExt

CONSTANTS
  Procs,                \* process identities, (pid, start time) pairs
  Uids,
  Packages,             \* numbered in the order of their names
  PackageOf,            \* package of each process
  UidOf,                \* uid of each package
  Protected,            \* packages the policy must never control
  CgroupProcs,          \* processes with a cgroup.freeze file
  Modes,                \* modes the app config gives to a uid
  Features              \* what the device, the settings and the world may do

FeatureNames ==
  {"binder",            \* the device has a Binder freezer
   "delay",             \* a freeze waits for its delay
   "download",          \* a download may postpone a freeze
   "busy",              \* processes may be in a Binder transaction
   "stopping",          \* the settings may replace the freezer by SIGSTOP
   "audit",             \* the refreeze audit may be due
   "wakeup",            \* periodic wakeups may be due
   "edits",             \* the manager changes the app config
   "toggle",            \* the hook comes and goes, control is switched
   "failures",          \* operations on live processes may fail
   "crashes",           \* the daemon may die
   "meddling"}          \* others thaw what Freezeit froze

ASSUME ControlAssumption ==
  /\ Packages \subseteq Nat \ {0} /\ IsFiniteSet(Packages) /\ IsFiniteSet(Procs)
  /\ PackageOf \in [Procs -> Packages]
  /\ UidOf \in [Packages -> Uids]
  /\ Modes \subseteq {0, 10, 20, 21, 30, 31}
  /\ Features \subseteq FeatureNames

VARIABLES
  life,                 \* "unborn", "alive" or "dead"
  cgroup, binder, sigstop,  \* live processes Freezeit holds in each freezer
  ledger,               \* durable ownership of each stop
  policy,               \* mode of each uid; 0 is not controlled
  foreground,           \* uids in the foreground
  allowed,              \* control is allowed, the hook active and in sync
  frozen_apps,          \* identities tracked as frozen
  frozen_ownership,     \* what is known of each freeze, "None" for no entry
  pending_freezes,      \* delay of each identity's freeze
  blocked,              \* blocked_process_signatures, {} for no entry
  network,              \* network_restriction_requests
  pc,                   \* "idle", "records" or "disabled" pass
  left,                 \* uids whose record is still to be visited
  queue,                \* identities still to be thawed one by one
  snapshot,             \* processes discovered by this pass
  running,              \* those of them observed running
  foreground_uids,      \* the foreground as queried by this pass
  audit_due,
  tx                    \* the transaction in progress

kernel == <<life, cgroup, binder, sigstop, ledger>>
world == <<policy, foreground, allowed>>
tracking == <<frozen_apps, frozen_ownership>>
memory == <<tracking, pending_freezes, blocked, network>>
view == <<snapshot, running, foreground_uids, audit_due>>
pass == <<pc, left, queue, view, tx>>
vars == <<kernel, world, memory, pass>>

Ownership == {"None", "SignalOnly", "CgroupBinder", "ResidualUnknown"}
Claim == {"None", "SignalOnly", "ResidualUnknown"}
Pending == {"none", "waiting", "due"}
TxKind == {"none", "freezer", "fallback", "signal", "kill", "thaw", "wakeup"}

NoTx == [kind |-> "none", at |-> "none", pkg |-> 0, todo |-> {}, done |-> {},
         promote |-> FALSE, bad |-> FALSE]

\* The types, and two collections in step: every identity tracked as frozen has
\* an entry in frozen_ownership, so the doubt of a missing one is never needed.
TypeOK ==
  /\ life \in [Procs -> {"unborn", "alive", "dead"}]
  /\ cgroup \subseteq Procs /\ binder \subseteq Procs /\ sigstop \subseteq Procs
  /\ ledger \in [Procs -> Claim]
  /\ policy \in [Uids -> Modes] /\ foreground \subseteq Uids /\ allowed \in BOOLEAN
  /\ frozen_apps \subseteq Packages
  /\ frozen_ownership \in [Packages -> Ownership]
  /\ \A k \in frozen_apps : frozen_ownership[k] # "None"
  /\ pending_freezes \in [Packages -> Pending]
  /\ blocked \in [Packages -> SUBSET Procs]
  /\ network \subseteq Uids
  /\ pc \in {"idle", "records", "disabled"}
  /\ left \subseteq Uids /\ queue \subseteq Packages
  /\ snapshot \subseteq Procs /\ running \subseteq snapshot
  /\ foreground_uids \subseteq Uids /\ audit_due \in BOOLEAN
  /\ tx \in [kind : TxKind, at : {"none", "apply", "undo"}, pkg : Packages \cup {0},
             todo : SUBSET Procs, done : SUBSET Procs, promote : BOOLEAN, bad : BOOLEAN]

On(feature) == feature \in Features

Alive == {p \in Procs : life[p] = "alive"}
Uid(p) == UidOf[PackageOf[p]]
PackagesOf(u) == {k \in Packages : UidOf[k] = u}
Held == cgroup \cup binder \cup sigstop

\* is_control_policy_mode
Controlled(u) == policy[u] \in {10, 20, 21, 30, 31}
ControlledUids == {u \in Uids : Controlled(u)}

Init ==
  /\ life \in [Procs -> {"unborn", "alive"}]
  /\ cgroup = {} /\ binder = {} /\ sigstop = {}
  /\ ledger = [p \in Procs |-> "None"]
  /\ policy \in [Uids -> Modes] /\ foreground = {} /\ allowed = TRUE
  /\ frozen_apps = {} /\ frozen_ownership = [k \in Packages |-> "None"]
  /\ pending_freezes = [k \in Packages |-> "none"]
  /\ blocked = [k \in Packages |-> {}]
  /\ network = {}
  /\ pc = "idle" /\ left = {} /\ queue = {}
  /\ snapshot = {} /\ running = {} /\ foreground_uids = {} /\ audit_due = FALSE
  /\ tx = NoTx

-----------------------------------------------------------------------------
(* RuntimeControlState *)

\* track_frozen: a residual or an unknown ownership has precedence.
TrackFrozen(k, ownership) ==
  /\ frozen_apps' = frozen_apps \cup {k}
  /\ frozen_ownership' = [frozen_ownership EXCEPT ![k] =
       IF @ = "ResidualUnknown" \/ (k \in frozen_apps /\ @ = "None")
         THEN "ResidualUnknown" ELSE ownership]

\* Mutant: only the ownership entry is removed.
OwnershipCleared(ks) ==
  /\ frozen_ownership' = [k \in Packages |-> IF k \in ks THEN "None" ELSE frozen_ownership[k]]
  /\ UNCHANGED frozen_apps

\* clear_frozen
ClearFrozen(ks) ==
  /\ frozen_apps' = frozen_apps \ ks
  /\ frozen_ownership' = [k \in Packages |-> IF k \in ks THEN "None" ELSE frozen_ownership[k]]

\* Mutant: every entry counts as SignalOnly.
OwnershipOfEntry(k) == IF frozen_ownership[k] = "None" THEN "ResidualUnknown" ELSE "SignalOnly"

\* frozen_ownership: an identity without an entry is ResidualUnknown.
OwnershipOf(k) ==
  IF frozen_ownership[k] = "None" THEN "ResidualUnknown" ELSE frozen_ownership[k]

\* Mutant: a completed freezer transaction is taken for a signal stop.
DetachedClean(k) == IF OwnershipOf(k) # "ResidualUnknown" THEN "SignalOnly" ELSE "ResidualUnknown"

\* mark_abnormal_thaw_for_refreeze: the ownership outlives the frozen entry.
Detached(k) == IF OwnershipOf(k) = "SignalOnly" THEN "SignalOnly" ELSE "ResidualUnknown"

\* clear_transient_control_state_for_uid
ClearTransient(u) ==
  /\ pending_freezes' = [k \in Packages |-> IF UidOf[k] = u THEN "none" ELSE pending_freezes[k]]
  /\ blocked' = [k \in Packages |-> IF UidOf[k] = u THEN {} ELSE blocked[k]]
  /\ network' = network \ {u}

-----------------------------------------------------------------------------
(* The start of a pass *)

\* discover_managed_uid_processes
Discovered(uids) == {p \in Alive : Uid(p) \in uids}
Live(u) == Discovered({u})

\* reconcile_live_process_control_states: neither its cgroup nor its state says
\* frozen; a read that fails leaves the process unknown.
ObservedRunning(S) ==
  LET thawed == S \ (cgroup \cup sigstop)
  IN  IF On("failures") THEN SUBSET thawed ELSE {thawed}

\* The entries of uids that are no longer controlled are dropped.  Their frozen
\* identities are handed to thaw_frozen_identities with the pass's discovery
\* closure, which holds controlled uids only: no process, nothing to thaw.
DropUncontrolled ==
  /\ frozen_apps' = {k \in frozen_apps : Controlled(UidOf[k])}
  /\ frozen_ownership' =
       [k \in Packages |-> IF Controlled(UidOf[k]) THEN frozen_ownership[k] ELSE "None"]
  /\ pending_freezes' =
       [k \in Packages |-> IF Controlled(UidOf[k]) THEN pending_freezes[k] ELSE "none"]
  /\ blocked' = [k \in Packages |-> IF Controlled(UidOf[k]) THEN blocked[k] ELSE {}]
  /\ network' = {u \in network : Controlled(u)}

\* run_live_control_pass when control may run: snapshot, reconcile, query the
\* foreground.  A failed foreground query skips the pass, a stuttering step.
PassBegin ==
  /\ pc = "idle" /\ allowed /\ ControlledUids # {}
  /\ snapshot' = Discovered(ControlledUids)
  /\ running' \in ObservedRunning(snapshot')
  /\ foreground_uids' = foreground
  /\ audit_due' \in IF On("audit") THEN BOOLEAN ELSE {FALSE}
  /\ pc' = "records" /\ left' = ControlledUids
  /\ DropUncontrolled
  /\ UNCHANGED <<kernel, world, queue, tx>>

ViewDropped == snapshot' = {} /\ running' = {} /\ foreground_uids' = {} /\ audit_due' = FALSE

\* The network breaks are sent to the hook; the failed ones are requeued.
PassEnd ==
  /\ pc = "records" /\ left = {} /\ queue = {} /\ tx = NoTx
  /\ pc' = "idle"
  /\ network' \in IF On("failures") THEN SUBSET network ELSE {{}}
  /\ ViewDropped
  /\ UNCHANGED <<kernel, world, tracking, pending_freezes, blocked, left, queue, tx>>

\* Mutant: only signal stops are thawed.
DisabledBeginSignalOnly ==
  /\ pc = "idle" /\ ~(allowed /\ ControlledUids # {})
  /\ pc' = "disabled" /\ queue' = {k \in frozen_apps : frozen_ownership[k] = "SignalOnly"}
  /\ UNCHANGED <<kernel, world, memory, left, view, tx>>

\* thaw_all_frozen: every tracked identity, one by one.
DisabledBegin ==
  /\ pc = "idle" /\ ~(allowed /\ ControlledUids # {})
  /\ pc' = "disabled" /\ queue' = frozen_apps
  /\ UNCHANGED <<kernel, world, memory, left, view, tx>>

DisabledEnd ==
  /\ pc = "disabled" /\ queue = {} /\ tx = NoTx
  /\ pc' = "idle"
  /\ frozen_ownership' =
       [k \in Packages |-> IF k \in frozen_apps THEN frozen_ownership[k] ELSE "None"]
  /\ pending_freezes' = [k \in Packages |-> "none"]
  /\ blocked' = [k \in Packages |-> {}]
  /\ network' = {}
  /\ UNCHANGED <<kernel, world, frozen_apps, left, queue, view, tx>>

-----------------------------------------------------------------------------
(* Transactions are validated as a whole when they begin and process by process
   as they go. *)

PackagesIn(S) == {PackageOf[p] : p \in S}
Mixed(S) == Cardinality(PackagesIn(S)) > 1
Here(u) == {p \in snapshot : Uid(p) = u}

\* recheck_process_identity: a pid, its uid, name and start time are what they were.
Validated(p) == p \in Alive

\* The identity of a uid is the first of the package names found.
Id(u) == Min(PackagesIn(Here(u)))

Launch(kind, k, S, promote) ==
  tx' = [kind |-> kind, at |-> "apply", pkg |-> k, todo |-> S, done |-> {},
         promote |-> promote, bad |-> FALSE]

\* unfreeze_identity_processes refuses processes of another package.
TryThaw(kind, k, S) ==
  IF PackagesIn(S) = {k} THEN Launch(kind, k, S, FALSE) ELSE UNCHANGED tx

\* Mutant: a shared uid is not refused.
FitsAlive(S) == S \subseteq Alive

Fits(S) == ~Mixed(S) /\ \A p \in S : Validated(p)
MayRefuse(S) == ~Fits(S) \/ On("failures")

\* One identity of thaw_frozen_identities.
QueuedThaw(k) ==
  /\ tx = NoTx /\ k \in queue
  /\ queue' = queue \ {k}
  /\ LET S == IF pc = "disabled" THEN Live(UidOf[k]) ELSE Here(UidOf[k])
     IN \/ S = {} /\ ClearFrozen({k}) /\ UNCHANGED tx
        \/ S # {} /\ TryThaw("thaw", k, S) /\ UNCHANGED tracking
  /\ UNCHANGED <<kernel, world, pending_freezes, blocked, network, pc, left, view>>

\* The discovery of a disabled pass fails: the identity stays tracked.
QueuedThawFails(k) ==
  /\ On("failures") /\ pc = "disabled"
  /\ tx = NoTx /\ k \in queue
  /\ queue' = queue \ {k}
  /\ UNCHANGED <<kernel, world, memory, pc, left, view, tx>>

-----------------------------------------------------------------------------
(* The visit of one record of the app config *)

Visit(u) ==
  /\ pc = "records" /\ tx = NoTx /\ queue = {}
  /\ u \in left
  /\ left' = left \ {u}
  /\ UNCHANGED <<kernel, world, pc, view>>

NoProcesses(u) ==
  /\ Visit(u) /\ Here(u) = {}
  /\ ClearTransient(u)
  /\ ClearFrozen(PackagesOf(u))
  /\ UNCHANGED <<queue, tx>>

\* managed_app_from_record: a system app, or one of the protected names.
IsProtected(k) == k \in Protected

\* is_control_allowed_for
ControlAllowed(u) == ~IsProtected(Id(u)) /\ Controlled(u)

\* The policy protects the package: what is frozen of the uid is to be thawed.
ProtectedRecord(u) ==
  /\ Visit(u) /\ Here(u) # {} /\ ~ControlAllowed(u)
  /\ ClearTransient(u)
  /\ queue' = frozen_apps \cap PackagesOf(u)
  /\ frozen_ownership' = [k \in Packages |->
       IF k \in PackagesOf(u) \ frozen_apps THEN "None" ELSE frozen_ownership[k]]
  /\ UNCHANGED <<frozen_apps, tx>>

Manageable(u) == Visit(u) /\ Here(u) # {} /\ ControlAllowed(u) /\ UNCHANGED queue

\* The processes are those of an earlier refusal.
BlockedRecord(u) ==
  /\ Manageable(u)
  /\ blocked[Id(u)] = Here(u)
  /\ UNCHANGED <<memory, tx>>

\* A refusal of other processes is forgotten.
Unblocked(u) == [blocked EXCEPT ![Id(u)] = {}]
Fresh(u) == Manageable(u) /\ blocked[Id(u)] # Here(u)

SetPending(k, state) == pending_freezes' = [pending_freezes EXCEPT ![k] = state]

Foreground(u) ==
  /\ Fresh(u) /\ u \in foreground_uids
  /\ SetPending(Id(u), "none")
  /\ IF Id(u) \in frozen_apps THEN TryThaw("thaw", Id(u), Here(u)) ELSE UNCHANGED tx
  /\ blocked' = Unblocked(u)
  /\ UNCHANGED <<tracking, network>>

\* Mutant: the foreground check is missing.
BackgroundAny(u) == Fresh(u)

Background(u) == Fresh(u) /\ u \notin foreground_uids

WakeupThaw(u) ==
  /\ On("wakeup")
  /\ Background(u) /\ Id(u) \in frozen_apps
  /\ TryThaw("wakeup", Id(u), Here(u))
  /\ blocked' = Unblocked(u)
  /\ UNCHANGED <<tracking, pending_freezes, network>>

\* Mutant: the audit wants every process running.
AbnormalIfAllRun(u) == Id(u) \in frozen_apps /\ audit_due /\ Here(u) \subseteq running

\* The audit is due and finds a running process.
Abnormal(u) == Id(u) \in frozen_apps /\ audit_due /\ running \cap Here(u) # {}

StaysFrozen(u) ==
  /\ Background(u) /\ Id(u) \in frozen_apps /\ ~Abnormal(u)
  /\ blocked' = Unblocked(u)
  /\ UNCHANGED <<tracking, pending_freezes, network, tx>>

Delay(u) ==
  /\ On("delay")
  /\ Background(u) /\ Id(u) \notin frozen_apps /\ pending_freezes[Id(u)] # "due"
  /\ SetPending(Id(u), "waiting")
  /\ blocked' = Unblocked(u)
  /\ UNCHANGED <<tracking, network, tx>>

\* The freeze may be decided; an abnormally thawed identity does not wait.
Ready(u) ==
  /\ Background(u)
  /\ Abnormal(u) \/ (Id(u) \notin frozen_apps /\ (On("delay") => pending_freezes[Id(u)] = "due"))

\* Ownership with which the decision goes on.
Owner(u) == IF Abnormal(u) THEN Detached(Id(u)) ELSE frozen_ownership[Id(u)]

\* mark_abnormal_thaw_for_refreeze
DetachIfAbnormal(u) ==
  /\ frozen_apps' = frozen_apps \ {Id(u)}
  /\ frozen_ownership' = [frozen_ownership EXCEPT ![Id(u)] = Owner(u)]

-----------------------------------------------------------------------------
(* The backend decision *)

\* requested_control_backend.  The settings may change between two passes; with
\* one uid that is a new value at each visit.
Requested(u) ==
  CASE policy[u] = 10 -> {"kill"}
    [] policy[u] \in {20, 21} -> {"signal"}
    [] policy[u] \in {30, 31} -> {"freezer"} \cup (IF On("stopping") THEN {"signal"} ELSE {})

\* policy_from_record
FallbackStrategy == <<"signal", "skip">>

\* fallback_decision
FallbackDecision == Head(FallbackStrategy)

\* fallback_after_freeze_apply_error
FallbackAfterError == FallbackDecision

\* backend_environment: one process without a cgroup file rules the freezer out.
CgroupAvailable(S) == S # {} /\ S \subseteq CgroupProcs

\* detect_binder_freezer_capability: the probe with pid 0 tells whether the
\* kernel knows the ioctl.
BinderAvailable == On("binder")

\* idle_blocker, for the processes the snapshot saw in a Binder transaction.
IdleBlocked(S, active) == S \cap active # {}
Evidence(S) == IF On("busy") THEN SUBSET S ELSE {{}}

CanFreeze(S, active) ==
  IF IdleBlocked(S, active) THEN "postpone"
  ELSE IF CgroupAvailable(S) /\ BinderAvailable THEN "freezer"
  ELSE FallbackDecision

\* What may be decided: the evidence is asked for the freezer only.
Decisions(u) ==
  UNION {IF requested = "freezer"
           THEN {CanFreeze(Here(u), active) : active \in Evidence(Here(u))}
           ELSE {requested} : requested \in Requested(u)}

\* A download sets a new deadline; Binder traffic leaves the old one.
Postpone(u) ==
  /\ Ready(u)
  /\ \/ On("download") /\ SetPending(Id(u), "waiting")
     \/ "postpone" \in Decisions(u) /\ UNCHANGED pending_freezes
  /\ DetachIfAbnormal(u)
  /\ blocked' = Unblocked(u)
  /\ UNCHANGED <<network, tx>>

\* signal_stop_ledger_promotion: a residual, in memory or in the ledger, may
\* not become SignalOnly.
MayPromote(u) ==
  /\ Owner(u) \notin {"CgroupBinder", "ResidualUnknown"}
  /\ \A p \in Here(u) : ledger[p] # "ResidualUnknown"

\* A freezer transaction that is refused goes on as its signal fallback.
FreezeBegins(u) ==
  /\ Ready(u) /\ Fits(Here(u))
  /\ \E decision \in Decisions(u) :
       \/ decision = "signal" /\ Launch("signal", Id(u), Here(u), MayPromote(u))
       \/ decision = "signal" /\ On("failures") /\ Launch("signal", Id(u), Here(u), FALSE)
       \/ decision \in {"freezer", "kill"} /\ Launch(decision, Id(u), Here(u), FALSE)
       \/ /\ decision = "freezer" /\ On("failures") /\ FallbackAfterError = "signal"
          /\ Launch("fallback", Id(u), Here(u), FALSE)
  /\ DetachIfAbnormal(u)
  /\ blocked' = Unblocked(u)
  /\ UNCHANGED <<pending_freezes, network>>

\* A shared uid is not tried again until its processes change.
FreezeRefused(u) ==
  /\ Ready(u) /\ Decisions(u) \cap {"freezer", "signal"} # {} /\ MayRefuse(Here(u))
  /\ SetPending(Id(u), "none")
  /\ blocked' = [blocked EXCEPT ![Id(u)] = IF Mixed(Here(u)) THEN Here(u) ELSE {}]
  /\ DetachIfAbnormal(u)
  /\ UNCHANGED <<network, tx>>

KillRefused(u) ==
  /\ Ready(u) /\ "kill" \in Decisions(u) /\ MayRefuse(Here(u))
  /\ DetachIfAbnormal(u)
  /\ blocked' = Unblocked(u)
  /\ UNCHANGED <<pending_freezes, network, tx>>

Record(u) ==
  \/ NoProcesses(u) \/ ProtectedRecord(u) \/ BlockedRecord(u)
  \/ Foreground(u) \/ WakeupThaw(u) \/ StaysFrozen(u)
  \/ Delay(u) \/ Postpone(u)
  \/ FreezeBegins(u) \/ FreezeRefused(u) \/ KillRefused(u)

-----------------------------------------------------------------------------
(* The transaction in progress, one process at a time *)

TxUnchanged == UNCHANGED <<world, pc, left, queue, view>>

Stops == {"fallback", "signal"}
Freezes == Stops \cup {"freezer"}
Thaws == {"thaw", "wakeup"}

Applying(kinds) == tx.at = "apply" /\ tx.kind \in kinds
Step(p) == [tx EXCEPT !.todo = @ \ {p}, !.done = @ \cup {p}]
AllApplied(kinds) == Applying(kinds) /\ tx.todo = {}

\* freeze_process: Binder and cgroup, or SIGSTOP and its residual record.
FreezeOne(p) ==
  /\ Applying(Freezes) /\ p \in tx.todo /\ Validated(p)
  /\ \/ /\ tx.kind = "freezer"
        /\ cgroup' = cgroup \cup {p} /\ binder' = binder \cup {p}
        /\ UNCHANGED <<sigstop, ledger>>
     \/ /\ tx.kind \in Stops
        /\ sigstop' = sigstop \cup {p}
        /\ ledger' = [ledger EXCEPT ![p] = "ResidualUnknown"]
        /\ UNCHANGED <<cgroup, binder>>
  /\ tx' = Step(p)
  /\ UNCHANGED <<life, memory>> /\ TxUnchanged

\* The process is gone, or an operation fails: the Binder freeze may remain, or
\* the record of a stop that was taken back.  What was applied is undone.
FreezeOneFails(p) ==
  /\ Applying(Freezes) /\ p \in tx.todo
  /\ ~Validated(p) \/ On("failures")
  /\ binder' \in {binder} \cup
       (IF p \in Alive /\ tx.kind = "freezer" THEN {binder \cup {p}} ELSE {})
  /\ ledger' \in {ledger} \cup
       (IF p \in Alive /\ tx.kind \in Stops THEN {[ledger EXCEPT ![p] = "ResidualUnknown"]} ELSE {})
  /\ sigstop' \in {sigstop, IF ledger' = ledger THEN sigstop ELSE sigstop \ {p}}
  /\ tx' = [tx EXCEPT !.at = "undo", !.todo = tx.done, !.done = {}]
  /\ UNCHANGED <<life, cgroup, memory>> /\ TxUnchanged

KillOne(p) ==
  /\ Applying({"kill"}) /\ p \in tx.todo /\ Validated(p)
  /\ life' = [life EXCEPT ![p] = "dead"]
  /\ cgroup' = cgroup \ {p} /\ binder' = binder \ {p} /\ sigstop' = sigstop \ {p}
  /\ tx' = Step(p)
  /\ UNCHANGED <<ledger, memory>> /\ TxUnchanged

KillOneFails(p) ==
  /\ Applying({"kill"}) /\ p \in tx.todo
  /\ ~Validated(p) \/ On("failures")
  /\ tx' = NoTx
  /\ UNCHANGED <<kernel, memory>> /\ TxUnchanged

\* The plan of a thaw comes from the ownership; a stop is undone with SIGCONT.
SignalPlan == tx.kind \in Stops \/ (tx.kind \in Thaws /\ OwnershipOf(tx.pkg) = "SignalOnly")

Thawing(p) == (Applying(Thaws) \/ tx.at = "undo") /\ p \in tx.todo

\* unfreeze_process: cgroup and Binder unless the plan is SIGCONT only, then
\* SIGCONT, before which the record is taken.  Without a Binder freezer the
\* Binder step fails, the others are done all the same.
ThawOne(p) ==
  /\ Thawing(p) /\ Validated(p)
  /\ IF SignalPlan
       THEN UNCHANGED <<cgroup, binder>>
       ELSE cgroup' = cgroup \ {p} /\ binder' = binder \ {p}
  /\ sigstop' = sigstop \ {p}
  /\ ledger' = [ledger EXCEPT ![p] = "None"]
  /\ tx' = [Step(p) EXCEPT !.bad = @ \/ ~(SignalPlan \/ p \notin CgroupProcs \/ BinderAvailable)]
  /\ UNCHANGED <<life, memory>> /\ TxUnchanged

\* The process is gone or not what it was, or some of the steps fail.
ThawOneFails(p) ==
  /\ Thawing(p)
  /\ ~Validated(p) \/ On("failures")
  /\ \E done \in IF p \in Alive THEN SUBSET {"cgroup", "binder", "record", "resume"} ELSE {{}} :
       /\ SignalPlan => done \subseteq {"record", "resume"}
       /\ "resume" \in done => "record" \in done
       /\ cgroup' = IF "cgroup" \in done THEN cgroup \ {p} ELSE cgroup
       /\ binder' = IF "binder" \in done THEN binder \ {p} ELSE binder
       /\ sigstop' = IF "resume" \in done THEN sigstop \ {p} ELSE sigstop
       /\ ledger' = IF "record" \in done THEN [ledger EXCEPT ![p] = "None"] ELSE ledger
  /\ tx' = [Step(p) EXCEPT !.bad = TRUE]
  /\ UNCHANGED <<life, memory>> /\ TxUnchanged

\* mode_has_network_restriction
NetworkRestricted(u) == policy[u] \in {21, 31}

\* A frozen identity is tracked, its network is to be broken if the mode says so.
Frozen(ownership) ==
  /\ TrackFrozen(tx.pkg, ownership)
  /\ network' = IF NetworkRestricted(UidOf[tx.pkg]) THEN network \cup {UidOf[tx.pkg]} ELSE network
  /\ SetPending(tx.pkg, "none")
  /\ tx' = NoTx
  /\ UNCHANGED blocked /\ TxUnchanged

\* The rescan after the freeze reads the snapshot again and finds nothing new.
FreezerDone == AllApplied({"freezer"}) /\ Frozen("CgroupBinder") /\ UNCHANGED kernel

FallbackDone == AllApplied({"fallback"}) /\ Frozen("ResidualUnknown") /\ UNCHANGED kernel

\* The processes whose stop is promoted, if the transaction promotes at all.
Promotions == IF ~tx.promote THEN {{}} ELSE IF On("failures") THEN SUBSET tx.done ELSE {tx.done}

\* SignalStopTransactionOutcome::frozen_ownership
StopOwnership(promoted) ==
  IF tx.promote /\ promoted = tx.done THEN "SignalOnly" ELSE "ResidualUnknown"

\* Each stop is promoted; one that is refused leaves the whole identity residual.
SignalDone ==
  /\ AllApplied({"signal"})
  /\ \E promoted \in Promotions :
       /\ ledger' = [p \in Procs |-> IF p \in promoted THEN "SignalOnly" ELSE ledger[p]]
       /\ Frozen(StopOwnership(promoted))
  /\ UNCHANGED <<life, cgroup, binder, sigstop>>

KillDone ==
  /\ AllApplied({"kill"})
  /\ SetPending(tx.pkg, "none")
  /\ ClearFrozen({tx.pkg})
  /\ tx' = NoTx
  /\ UNCHANGED <<kernel, blocked, network>> /\ TxUnchanged

\* The identity is cleared when every process was thawed.
ThawDone ==
  /\ AllApplied(Thaws)
  /\ IF tx.bad THEN UNCHANGED tracking ELSE ClearFrozen({tx.pkg})
  /\ IF tx.kind = "wakeup" /\ ~tx.bad
       THEN SetPending(tx.pkg, "waiting") ELSE UNCHANGED pending_freezes
  /\ tx' = NoTx
  /\ UNCHANGED <<kernel, blocked, network>> /\ TxUnchanged

Undone(kinds) == tx.at = "undo" /\ tx.kind \in kinds /\ tx.todo = {}

\* Mutant: a rollback without failures is trusted.
FreezerUndoneTrusting ==
  /\ Undone({"freezer"})
  /\ IF tx.bad THEN TrackFrozen(tx.pkg, "ResidualUnknown") ELSE UNCHANGED tracking
  /\ LET S == Here(UidOf[tx.pkg])
     IN \/ Fits(S) /\ Launch("fallback", tx.pkg, S, FALSE) /\ UNCHANGED pending_freezes
        \/ MayRefuse(S) /\ tx' = NoTx /\ SetPending(tx.pkg, "none")
  /\ UNCHANGED <<kernel, blocked, network>> /\ TxUnchanged

\* A failed freezer transaction may leave a residual, whatever its rollback did;
\* the fallback stops the processes that were to be frozen.
FreezerUndone ==
  /\ Undone({"freezer"})
  /\ TrackFrozen(tx.pkg, "ResidualUnknown")
  /\ LET S == Here(UidOf[tx.pkg])
     IN \/ Fits(S) /\ Launch("fallback", tx.pkg, S, FALSE) /\ UNCHANGED pending_freezes
        \/ MayRefuse(S) /\ tx' = NoTx /\ SetPending(tx.pkg, "none")
  /\ UNCHANGED <<kernel, blocked, network>> /\ TxUnchanged

\* Mutant: a failed rollback leaves no mark.
StopUndoneForgets ==
  /\ Undone(Stops)
  /\ SetPending(tx.pkg, "none")
  /\ tx' = NoTx
  /\ UNCHANGED <<kernel, tracking, blocked, network>> /\ TxUnchanged

StopUndone ==
  /\ Undone(Stops)
  /\ IF tx.bad THEN TrackFrozen(tx.pkg, "ResidualUnknown") ELSE UNCHANGED tracking
  /\ SetPending(tx.pkg, "none")
  /\ tx' = NoTx
  /\ UNCHANGED <<kernel, blocked, network>> /\ TxUnchanged

Transaction ==
  \/ \E p \in Procs :
       \/ FreezeOne(p) \/ FreezeOneFails(p) \/ KillOne(p) \/ KillOneFails(p)
       \/ ThawOne(p) \/ ThawOneFails(p)
  \/ FreezerDone \/ FallbackDone \/ SignalDone \/ KillDone \/ ThawDone
  \/ FreezerUndone \/ StopUndone

-----------------------------------------------------------------------------
(* The world around the daemon *)

Outside == UNCHANGED <<world, memory, pass>>

Spawn(p) ==
  /\ life[p] = "unborn"
  /\ life' = [life EXCEPT ![p] = "alive"]
  /\ UNCHANGED <<cgroup, binder, sigstop, ledger>> /\ Outside

Exit(p) ==
  /\ life[p] = "alive"
  /\ life' = [life EXCEPT ![p] = "dead"]
  /\ cgroup' = cgroup \ {p} /\ binder' = binder \ {p} /\ sigstop' = sigstop \ {p}
  /\ UNCHANGED ledger /\ Outside

\* The system or another tool thaws a process.
OthersThaw(p) ==
  /\ On("meddling")
  /\ \/ p \in cgroup /\ cgroup' = cgroup \ {p} /\ UNCHANGED sigstop
     \/ p \in sigstop /\ sigstop' = sigstop \ {p} /\ UNCHANGED cgroup
  /\ UNCHANGED <<life, binder, ledger>> /\ Outside

\* A failed write of the ledger forgets a claim.
LedgerWeakens(p) ==
  /\ On("failures") /\ ledger[p] = "SignalOnly"
  /\ ledger' = [ledger EXCEPT ![p] = "ResidualUnknown"]
  /\ UNCHANGED <<life, cgroup, binder, sigstop>> /\ Outside

ForegroundChanges(u) ==
  /\ foreground' = IF u \in foreground THEN foreground \ {u} ELSE foreground \cup {u}
  /\ UNCHANGED <<kernel, policy, allowed, memory, pass>>

ControlToggles ==
  /\ On("toggle")
  /\ allowed' = ~allowed
  /\ UNCHANGED <<kernel, policy, foreground, memory, pass>>

\* The policy action gate keeps the manager out of a pass.
PolicyEdited(u) ==
  /\ On("edits") /\ pc = "idle"
  /\ \E m \in Modes : policy' = [policy EXCEPT ![u] = m]
  /\ UNCHANGED <<kernel, foreground, allowed, memory, pass>>

FreezeFallsDue(k) ==
  /\ pending_freezes[k] = "waiting"
  /\ SetPending(k, "due")
  /\ UNCHANGED <<kernel, world, tracking, blocked, network, pass>>

\* A freeze is Binder first, a thaw is cgroup first; the daemon may die between.
Torn ==
  {[cgroup |-> cgroup, binder |-> binder]}
    \cup {[cgroup |-> cgroup, binder |-> binder \cup {p}] :
            p \in {q \in tx.todo \cap Alive : Applying({"freezer"})}}
    \cup {[cgroup |-> cgroup \ {p}, binder |-> binder] :
            p \in {q \in Alive : Thawing(q) /\ ~SignalPlan}}

\* Mutant: only recorded stops are recovered.
CleanedIfOwned(visited, owned, frozen) == owned \cap CgroupProcs

\* The processes whose recovery includes the cgroup and the Binder freeze: a
\* SignalOnly stop of a process with a thawed cgroup gets SIGCONT only.
Cleaned(visited, owned, frozen) ==
  {p \in visited \cap CgroupProcs :
     ~(p \in owned /\ ledger[p] = "SignalOnly" /\ p \notin frozen)}

\* The daemon dies, is restarted and runs
\* recover_stopped_managed_processes_after_restart over the controlled uids.
Crash ==
  /\ On("crashes")
  /\ \E torn \in Torn, skipped, stuck \in IF On("failures") THEN SUBSET Alive ELSE {{}} :
       LET visited == {p \in Alive : Controlled(Uid(p))} \ skipped
           owned == {p \in visited \cap sigstop : ledger[p] # "None"}
           cleaned == Cleaned(visited, owned, torn.cgroup)
       IN /\ cgroup' = torn.cgroup \ cleaned
          /\ binder' = torn.binder \ (cleaned \ stuck)
          /\ sigstop' = sigstop \ owned
          /\ ledger' = [p \in Procs |-> IF p \in owned THEN "None" ELSE ledger[p]]
  /\ frozen_apps' = {} /\ frozen_ownership' = [k \in Packages |-> "None"]
  /\ pending_freezes' = [k \in Packages |-> "none"]
  /\ blocked' = [k \in Packages |-> {}]
  /\ network' = {}
  /\ pc' = "idle" /\ left' = {} /\ queue' = {} /\ tx' = NoTx
  /\ ViewDropped
  /\ UNCHANGED <<life, world>>

Daemon ==
  \/ PassBegin \/ PassEnd \/ DisabledBegin \/ DisabledEnd
  \/ \E k \in Packages : QueuedThaw(k) \/ QueuedThawFails(k)
  \/ \E u \in Uids : Record(u)
  \/ Transaction

World ==
  \/ \E p \in Procs : Spawn(p) \/ Exit(p) \/ OthersThaw(p) \/ LedgerWeakens(p)
  \/ \E u \in Uids : ForegroundChanges(u) \/ PolicyEdited(u)
  \/ ControlToggles
  \/ \E k \in Packages : FreezeFallsDue(k)
  \/ Crash

Next == Daemon \/ World

Spec == Init /\ [][Next]_vars

\* The control loop runs for ever, a second between two passes, and none of its
\* steps blocks; a deadline comes when its time is over.
FairSpec ==
  /\ Spec
  /\ WF_vars(Daemon)
  /\ \A k \in Packages : WF_vars(FreezeFallsDue(k))

\* The audit timer expires again and again: after the first quarter of an hour
\* this takes a setting that enables the audit.
AuditedSpec == FairSpec /\ SF_vars(PassBegin /\ audit_due')

-----------------------------------------------------------------------------
(* Properties *)

\* "ResidualUnknown has precedence over later signal success": an identity whose
\* freezer may have left something behind never turns into SignalOnly.
ResidualStays ==
  \A k \in Packages :
    frozen_ownership[k] \in {"CgroupBinder", "ResidualUnknown"} => frozen_ownership'[k] # "SignalOnly"
ResidualPrecedence == [][ResidualStays]_vars

\* An identity the controller thaws with SIGCONT alone has nothing of the cgroup
\* or Binder freezer left.
SignalOnlyIsComplete ==
  \A p \in Alive :
    PackageOf[p] \in frozen_apps /\ frozen_ownership[PackageOf[p]] = "SignalOnly"
      => p \notin cgroup \cup binder

\* The restart recovery frees every process of the managed apps, "so that these
\* apps can be used normally" until a pass decides to freeze them.
RestartFreed == Crash => \A p \in Alive : Controlled(Uid(p)) => p \notin Held'
RestartFrees == [][RestartFreed]_vars

\* Between two passes every process Freezeit holds belongs to an identity the
\* controller knows, so that a later pass thaws it or freezes it again.
HeldIsTracked ==
  pc = "idle" => \A p \in Held : frozen_ownership[PackageOf[p]] # "None"

\* Processes of a shared uid are never held under two identities.
HeldOfOnePackage == \A p, q \in Held : Uid(p) = Uid(q) => PackageOf[p] = PackageOf[q]

\* A pass ends with every process it found in the foreground running.
ForegroundFreed ==
  (pc = "records" /\ pc' = "idle") =>
    \A p \in snapshot \cap Alive : Uid(p) \in foreground_uids => p \notin Held'
ForegroundRuns == [][ForegroundFreed]_vars

\* A pass that finds control disabled ends with nothing held.
DisabledFreed == (pc = "disabled" /\ pc' = "idle") => Held' = {}
DisabledThaws == [][DisabledFreed]_vars

\* A pass thaws what is no longer under its control ("a record that became Free
\* or was removed ... thaw it before processing the remaining records").
UncontrolledFreed ==
  (pc = "records" /\ pc' = "idle") => \A p \in Alive : ~Controlled(Uid(p)) => p \notin Held'
UncontrolledThaws == [][UncontrolledFreed]_vars

\* An app that stays in the foreground, with control allowed, ends up running.
ForegroundResumes ==
  \A u \in Uids :
    <>[](u \in foreground /\ allowed /\ Controlled(u)) => <>[](\A p \in Live(u) : p \notin Held)

\* With control switched off for good, everything ends up running.
DisabledResumes == <>[](~allowed) => <>[](Held = {})

\* An app that stays in the background has every one of its processes held in
\* the end: those started after the freeze too, which only the audit notices.
BackgroundFreezes ==
  \A u \in Uids :
    <>[](u \notin foreground /\ allowed /\ Controlled(u)) => <>[](Live(u) \subseteq Held)
=============================================================================
