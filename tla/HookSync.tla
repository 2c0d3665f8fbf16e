------------------------------ MODULE HookSync ------------------------------
(* One configuration in three places: the daemon's memory, its files and the *)
(* Xposed hook in system_server.  Two daemon threads change it, the control  *)
(* loop (sys/socket.rs, spawn_control_loop) and the manager server           *)
(* (run_manager_server_forever), under a policy gate and a state mutex.  The *)
(* hook serves one request at a time; a request that timed out in the daemon *)
(* is still served.  Both sides crash, every file write and request can fail *)
(*                                                                           *)
(* A step that holds the state mutex is one action.  The mode of an app is   *)
(* abstracted to whether it is controlled, a file to the rows of each app,   *)
(* and the pass to what it leaves in the pending and the network lists       *)
(* (Control has the rest of it).                                             *)
EXTENDS Integers, Sequences, FiniteSets

CONSTANTS
  Apps,       \* uids in the policy
  Settings,   \* values of the setting byte that changes
  Default,    \* the value legacy_default_settings gives it
  NoFile,     \* no policy file yet
  NoConfig,   \* a hook that has had no configuration since it started
  Installed,  \* the files that the first start may find
  MaxEdits,   \* bound: manager mutations
  MaxFaults   \* bound: failures and restarts

ASSUME BoundsAssumption == MaxEdits \in Nat /\ MaxFaults \in Nat
ASSUME DefaultAssumption == Default \in Settings

\* The rows that appcfg.txt or the memory has for one app: one with its package name, if
\* any, then those with its uid, in order.
Modes == {"free", "controlled"}
Rows == [name : {"none"} \cup Modes, uids : Seq(Modes)]
Blank == [name |-> "none", uids |-> <<>>]
Policies == [Apps -> Rows]

\* A policy that was written is not a missing file.
ASSUME NoFileAssumption == NoFile \notin Policies

Files == [policy : {NoFile} \cup Policies, settings : Settings]
ASSUME InstalledAssumption == Installed \subseteq Files

VARIABLES
  st,       \* ReadOnlyState behind the state mutex
  disk,     \* appcfg.txt and settings.db
  gate,     \* who holds policy_action_gate
  loop,     \* locals of the control loop's iteration
  manager,  \* locals of the manager server's request
  pending,  \* uids of RuntimeControlState.pending_freezes
  network,  \* RuntimeControlState.network_restriction_requests
  inbox,    \* connections the hook has not served yet, in order of arrival
  reply,    \* reply[a]: what daemon thread a got for its request
  hook,     \* configuration and runtime snapshot of the hook
  delivered, \* history: breaks carried out since the loop last took the list
  torn,     \* history: a policy file could not be restored, or not be read
  listed,   \* history: the apps in the package inventory of the last start
  edits, faults

vars == <<st, disk, gate, loop, manager, pending, network, inbox, reply, hook,
          delivered, torn, listed, edits, faults>>

Threads == {"loop", "manager"}
Payloads == [managed : SUBSET Apps, settings : Settings]
States == [records : Policies, settings : Settings, revision : 0..MaxEdits, synced : BOOLEAN,
           health : {"active", "degraded"}, status : SUBSET Apps]

\* One controlled record of a uid is enough, for the payload as for the pass.
ControlledIn(rows) == rows.name = "controlled" \/ \E i \in DOMAIN rows.uids : rows.uids[i] = "controlled"
Controlled(records) == {a \in Apps : ControlledIn(records[a])}

\* encode_xposed_config_payload: the settings and the controlled uids.
Payload(s) == [managed |-> Controlled(s.records), settings |-> s.settings]

Commands == {"SetConfig", "GetHookHealth", "GetForeground", "UpdatePending", "BreakNetwork"}
Requests ==
  [cmd : {"SetConfig"}, uids : SUBSET Apps, settings : Settings, from : Threads \cup {"gone"}]
  \cup [cmd : Commands \ {"SetConfig"}, uids : SUBSET Apps, settings : {NoConfig},
        from : Threads \cup {"gone"}]

Idle == [is |-> "idle", uids |-> {}]
Waiting == [is |-> "waiting", uids |-> {}]
Answer(is, uids) == [is |-> is, uids |-> uids]
Replies == [is : {"idle", "waiting", "ok", "rejected", "error"}, uids : SUBSET Apps]

BlankHook == [cfg |-> NoConfig, foreground |-> {}, pending |-> {},
              foregroundFresh |-> FALSE, pendingFresh |-> FALSE]
Managed == IF hook.cfg = NoConfig THEN {} ELSE hook.cfg.managed

\* shouldSuppressBackgroundWork; the snapshots' age of 15 s only ends it earlier.
Suppresses(u) ==
  /\ u \in Managed \ (hook.foreground \cup hook.pending)
  /\ hook.foregroundFresh /\ hook.pendingFresh

LoopLocals ==
  [pc : {"start", "startHealth", "startConfig", "sleep", "config", "health", "pass",
         "foreground", "drain", "pending", "break", "breaking"},
   work : Payloads, revision : 0..MaxEdits, accepted : BOOLEAN, snapshot : States,
   allowed : BOOLEAN, passed : BOOLEAN, taken : SUBSET Apps, todo : SUBSET Apps, failed : SUBSET Apps]
ManagerLocals ==
  [pc : {"idle", "app", "settings", "send", "rollback", "commit"},
   copy : States, records : Policies, settings : Settings, file : {NoFile} \cup Policies]
HookStates ==
  [cfg : {NoConfig} \cup Payloads, foreground : SUBSET Apps, pending : SUBSET Apps,
   foregroundFresh : BOOLEAN, pendingFresh : BOOLEAN]

TypeOK ==
  /\ st \in States
  /\ disk \in Files
  /\ gate \in Threads \cup {"none"}
  /\ loop \in LoopLocals /\ manager \in ManagerLocals
  /\ pending \subseteq Apps /\ network \subseteq Apps
  /\ inbox \in Seq(Requests) /\ reply \in [Threads -> Replies]
  /\ hook \in HookStates
  /\ delivered \subseteq Apps /\ torn \in BOOLEAN /\ listed \subseteq Apps
  /\ edits \in 0..MaxEdits /\ faults \in 0..MaxFaults

-----------------------------------------------------------------------------
(* The daemon starts from its files *)

\* read_optional_text and read_optional_bytes, whose errors load_policy_files_recovering
\* drops: a file that cannot be read counts as missing.
Read(contents, missing) == {contents, missing}

\* Missing settings are the defaults (normalize_settings).
Readings(files) ==
  [policy : Read(files.policy, NoFile), settings : Read(files.settings, Default)]

\* atomic_write and restore_file: a temporary file and a rename.  An error before the
\* rename leaves the old contents, one after it the new.
Written(old, new) == {old, new}

\* A missing appcfg.txt has no rows.
Contents(file) == IF file = NoFile THEN [a \in Apps |-> Blank] ELSE file

\* load_manager_app_config_records: rows whose package name is not in the inventory are
\* dropped from memory.  The inventory of load_package_records lacks what is not installed
\* yet, and everything when both package commands fail.
Loaded(file, inventory) ==
  [a \in Apps |-> IF a \in inventory THEN Contents(file)[a]
                  ELSE [Contents(file)[a] EXCEPT !.name = "none"]]

Fresh(files, inventory) ==
  [records |-> Loaded(files.policy, inventory), settings |-> files.settings, revision |-> 0,
   synced |-> FALSE, health |-> "degraded", status |-> {}]

SleepingLoop(s) ==
  [pc |-> "sleep", work |-> Payload(s), revision |-> 0, accepted |-> FALSE, snapshot |-> s,
   allowed |-> FALSE, passed |-> TRUE, taken |-> {}, todo |-> {}, failed |-> {}]

\* run_with_paths: the daemon has one thread until the hook has been asked.  The
\* gate, which exists later, is written as held by the loop until then.
Starting(s) == [SleepingLoop(s) EXCEPT !.pc = "start"]

IdleManager(s) ==
  [pc |-> "idle", copy |-> s, records |-> s.records, settings |-> s.settings, file |-> NoFile]

\* An app that the first inventory lacks counts as a failure.
Init ==
  /\ disk \in Installed /\ listed \in SUBSET Apps
  /\ faults = (IF listed = Apps THEN 0 ELSE 1) /\ faults <= MaxFaults
  /\ st = Fresh(disk, listed)
  /\ gate = "loop" /\ loop = Starting(st) /\ manager = IdleManager(st)
  /\ pending = {} /\ network = {}
  /\ inbox = <<>> /\ reply = [t \in Threads |-> Idle] /\ hook = BlankHook
  /\ delivered = {} /\ torn = FALSE /\ edits = 0

Fault == faults < MaxFaults /\ faults' = faults + 1

-----------------------------------------------------------------------------
(* The bridge: one connection per request, answered within 3 s or not at all *)

\* connect_abstract_socket: nobody listens, or the peer is neither root nor
\* system_server (authenticate_hook_peer).
CannotConnect(t) ==
  /\ Fault
  /\ reply' = [reply EXCEPT ![t] = Answer("error", {})]
  /\ UNCHANGED inbox

\* xposed_bridge::request_bytes: the request is queued, or the connection fails.
Send(t, cmd, uids, settings) ==
  \/ /\ inbox' = Append(inbox, [cmd |-> cmd, uids |-> uids, settings |-> settings, from |-> t])
     /\ reply' = [reply EXCEPT ![t] = Waiting]
     /\ UNCHANGED faults
  \/ CannotConnect(t)

SendConfig(t, payload) == Send(t, "SetConfig", payload.managed, payload.settings)

Answered(t) == reply[t].is \notin {"idle", "waiting"}
Consume(t) == reply' = [reply EXCEPT ![t] = Idle] /\ UNCHANGED <<inbox, faults>>

Orphaned(t) == [i \in DOMAIN inbox |->
                 IF inbox[i].from = t THEN [inbox[i] EXCEPT !.from = "gone"] ELSE inbox[i]]

\* The deadline passes in the daemon; the hook serves the request later.
RequestTimesOut(t) ==
  /\ reply[t].is = "waiting" /\ Fault
  /\ reply' = [reply EXCEPT ![t] = Answer("error", {})]
  /\ inbox' = Orphaned(t)
  /\ UNCHANGED <<st, disk, gate, loop, manager, pending, network, hook, delivered, torn, listed,
                edits>>

-----------------------------------------------------------------------------
(* The hook: acceptHandle serves the connections one after the other *)

Request == Head(inbox)

\* handleClient: one request, its answer to whoever still waits.
Serves(cmd, answer) ==
  /\ inbox # <<>> /\ Request.cmd = cmd
  /\ inbox' = Tail(inbox)
  /\ reply' = [t \in Threads |-> IF t = Request.from THEN answer ELSE reply[t]]

DaemonUnchanged ==
  UNCHANGED <<st, disk, gate, loop, manager, pending, network, torn, listed, edits>>

\* Mutant: a new configuration leaves the runtime snapshot alone.
ConfiguredKeepingSnapshot(cfg) == [hook EXCEPT !.cfg = cfg]

\* handleConfig: the configuration and an empty runtime snapshot, at once.
Configured(cfg) == [BlankHook EXCEPT !.cfg = cfg]

HookConfigures ==
  /\ Serves("SetConfig", Answer("ok", {}))
  /\ hook' = Configured([managed |-> Request.uids, settings |-> Request.settings])
  /\ UNCHANGED <<delivered, faults>> /\ DaemonUnchanged

\* handleHookHealth: degraded until the first configuration has come.
HookReportsHealth ==
  /\ Serves("GetHookHealth", Answer(IF hook.cfg = NoConfig THEN "rejected" ELSE "ok", {}))
  /\ UNCHANGED <<hook, delivered, faults>> /\ DaemonUnchanged

\* handleForeground: the scan is published and the pending list is no longer fresh.
HookScansForeground ==
  /\ hook.cfg # NoConfig
  /\ \E uids \in SUBSET Managed :
       /\ Serves("GetForeground", Answer("ok", uids))
       /\ hook' = [hook EXCEPT !.foreground = uids, !.foregroundFresh = TRUE,
                               !.pendingFresh = FALSE]
  /\ UNCHANGED <<delivered, faults>> /\ DaemonUnchanged

\* handleForeground throws when the hook's fields have not been set up.
HookCannotScan ==
  /\ hook.cfg = NoConfig /\ Serves("GetForeground", Answer("error", {}))
  /\ UNCHANGED <<hook, delivered, faults>> /\ DaemonUnchanged

\* handlePendingApp: every uid has to be managed, or nothing is published.
HookTakesPending ==
  /\ Serves("UpdatePending", Answer("ok", {}))
  /\ hook.cfg # NoConfig /\ Request.uids \subseteq Managed
  /\ hook' = [hook EXCEPT !.pending = Request.uids, !.pendingFresh = TRUE]
  /\ UNCHANGED <<delivered, faults>> /\ DaemonUnchanged

HookRefusesPending ==
  /\ Serves("UpdatePending", Answer("rejected", {}))
  /\ hook.cfg = NoConfig \/ ~ Request.uids \subseteq Managed
  /\ UNCHANGED <<hook, delivered, faults>> /\ DaemonUnchanged

\* handleDestroySocket: the sockets of a managed uid.
HookBreaksNetwork ==
  /\ \E is \in {"ok", "rejected"} :
       /\ Serves("BreakNetwork", Answer(is, {}))
       /\ (is = "ok") <=> (Request.uids \subseteq Managed)
  /\ delivered' = delivered \cup (Request.uids \cap Managed)
  /\ UNCHANGED <<hook, faults>> /\ DaemonUnchanged

\* Any handler's exception: nothing is published and the answer is a failure.
HookFails ==
  /\ \E cmd \in Commands : Serves(cmd, Answer("rejected", {}))
  /\ Fault
  /\ UNCHANGED <<hook, delivered>> /\ DaemonUnchanged

HookServes ==
  \/ HookConfigures \/ HookReportsHealth \/ HookScansForeground \/ HookCannotScan
  \/ HookTakesPending \/ HookRefusesPending \/ HookBreaksNetwork

\* system_server restarts: a new hook, no connection survives.
HookRestarts ==
  /\ Fault
  /\ hook' = BlankHook /\ inbox' = <<>>
  /\ reply' = [t \in Threads |-> IF reply[t].is = "waiting" THEN Answer("error", {}) ELSE reply[t]]
  /\ UNCHANGED delivered /\ DaemonUnchanged

-----------------------------------------------------------------------------
(* The control loop *)

LoopOnly == UNCHANGED <<disk, manager, pending, network, hook, delivered, torn, listed, edits>>

\* Mutant: the loop does not wait for the gate.
OnlyManagerWaits(t) == t = "loop" \/ gate = "none"

\* Mutant: a command that changes the policy does not wait for the gate.
OnlyLoopWaits(t) == t = "manager" \/ gate = "none"

\* policy_action_gate.lock()
GateFree(t) == gate = "none"

\* A second later: the gate, then prepare_hook_health_work and its SetConfig.
LoopPrepares ==
  /\ loop.pc = "sleep" /\ GateFree("loop")
  /\ gate' = "loop"
  /\ loop' = [loop EXCEPT !.pc = "config", !.work = Payload(st), !.revision = st.revision]
  /\ SendConfig("loop", Payload(st))
  /\ UNCHANGED st /\ LoopOnly

LoopConfigAnswered ==
  /\ loop.pc = "config" /\ Answered("loop")
  /\ loop' = [loop EXCEPT !.pc = "health", !.accepted = (reply["loop"].is = "ok")]
  /\ Send("loop", "GetHookHealth", {}, NoConfig)
  /\ UNCHANGED <<st, gate>> /\ LoopOnly

\* Mutant: the aggregate status is asked for, which the hook keeps degraded.
AggregateHealthOk(answer) == FALSE

\* classify_hook_health_payload
HealthOk(answer) == answer.is = "ok"

\* startup_read_only_state_from_paths: the health of the hook is asked for first.
StartAsks ==
  /\ loop.pc = "start"
  /\ loop' = [loop EXCEPT !.pc = "startHealth"]
  /\ Send("loop", "GetHookHealth", {}, NoConfig)
  /\ UNCHANGED <<st, gate>> /\ LoopOnly

\* sync_loaded_config_to_hook, whatever the health was.
StartSyncs ==
  /\ loop.pc = "startHealth" /\ Answered("loop")
  /\ st' = [st EXCEPT !.health = IF HealthOk(reply["loop"]) THEN "active" ELSE "degraded"]
  /\ loop' = [loop EXCEPT !.pc = "startConfig"]
  /\ SendConfig("loop", Payload(st))
  /\ UNCHANGED gate /\ LoopOnly

\* The claim needs the hook's answer only; then both threads run.
StartServes ==
  /\ loop.pc = "startConfig" /\ Answered("loop")
  /\ st' = [st EXCEPT !.synced = reply["loop"].is = "ok"]
  /\ loop' = SleepingLoop(st') /\ gate' = "none"
  /\ Consume("loop")
  /\ LoopOnly

\* apply_hook_health_result: the claim needs an unchanged configuration and a ready hook.
\* It ends in refresh_runtime_diagnostics, whose control_allowed needs a ready hook among
\* other facts of the device; only this iteration's pass reads it.
LoopApplies ==
  /\ loop.pc = "health" /\ Answered("loop")
  /\ LET ready == HealthOk(reply["loop"])
         current == /\ loop.accepted /\ loop.revision = st.revision
                    /\ loop.work = Payload(st)
     IN st' = [st EXCEPT !.synced = current /\ ready,
                         !.health = IF ready THEN "active" ELSE "degraded"]
  /\ \E allowed \in {FALSE, HealthOk(reply["loop"])} :
       loop' = [loop EXCEPT !.pc = "pass", !.snapshot = st', !.allowed = allowed]
  /\ Consume("loop")
  /\ UNCHANGED gate /\ LoopOnly

\* should_run_control_pass
MayRun(s) == loop.allowed /\ s.health = "active" /\ s.synced /\ Controlled(s.records) # {}

\* run_live_control_pass: the foreground is asked for first.
LoopStartsPass ==
  /\ loop.pc = "pass" /\ MayRun(loop.snapshot)
  /\ loop' = [loop EXCEPT !.pc = "foreground"]
  /\ Send("loop", "GetForeground", {}, NoConfig)
  /\ UNCHANGED <<st, gate>> /\ LoopOnly

\* thaw_disabled_control_state
LoopDisabled ==
  /\ loop.pc = "pass" /\ ~ MayRun(loop.snapshot)
  /\ loop' = [loop EXCEPT !.pc = "drain", !.passed = TRUE, !.snapshot.status = {}]
  /\ pending' = {} /\ network' = {}
  /\ UNCHANGED <<st, disk, gate, manager, inbox, reply, hook, delivered, torn, listed, edits,
                 faults>>

\* run_control_pass_with_sampling: some background apps become pending, some are
\* frozen and lose their network; apps without processes are forgotten.
LoopPasses ==
  /\ loop.pc = "foreground" /\ reply["loop"].is = "ok"
  /\ LET controlled == Controlled(loop.snapshot.records)
         background == controlled \ reply["loop"].uids
     IN /\ loop' = [loop EXCEPT !.pc = "drain", !.passed = TRUE, !.snapshot.status = background]
        /\ \E live \in SUBSET controlled, wait \in SUBSET background :
             /\ pending' = wait \cap live
             /\ \E frozen \in SUBSET ((background \cap live) \ wait) :
                  network' = (network \cap live) \cup frozen
  /\ Consume("loop")
  /\ UNCHANGED <<st, disk, gate, manager, hook, delivered, torn, listed, edits>>

\* require_foreground_uids_for_control: without the foreground there is no pass.
LoopSkipsPass ==
  /\ loop.pc = "foreground" /\ Answered("loop") /\ reply["loop"].is # "ok"
  /\ loop' = [loop EXCEPT !.pc = "drain", !.passed = FALSE]
  /\ Consume("loop")
  /\ UNCHANGED <<st, gate>> /\ LoopOnly

\* take_network_restriction_uids, then sync_hook_runtime_state if the hook is active.
LoopDrains ==
  /\ loop.pc = "drain"
  /\ network' = {} /\ delivered' = {}
  /\ IF loop.snapshot.health = "active"
     THEN /\ loop' = [loop EXCEPT !.pc = "pending", !.taken = network, !.todo = network]
          /\ Send("loop", "UpdatePending", pending, NoConfig)
     ELSE /\ loop' = [loop EXCEPT !.pc = "break", !.taken = network, !.failed = network]
          /\ UNCHANGED <<inbox, reply, faults>>
  /\ UNCHANGED <<st, disk, gate, manager, pending, hook, torn, listed, edits>>

\* A failed UpdatePending is only logged.
LoopPendingAnswered ==
  /\ loop.pc = "pending" /\ Answered("loop")
  /\ loop' = [loop EXCEPT !.pc = "break"]
  /\ Consume("loop")
  /\ UNCHANGED <<st, gate>> /\ LoopOnly

\* The uids come in order; the order does not matter here.
NextBreak == CHOOSE u \in loop.todo : TRUE

LoopBreaks ==
  /\ loop.pc = "break" /\ loop.todo # {}
  /\ loop' = [loop EXCEPT !.pc = "breaking"]
  /\ Send("loop", "BreakNetwork", {NextBreak}, NoConfig)
  /\ UNCHANGED <<st, gate>> /\ LoopOnly

LoopBreakAnswered ==
  /\ loop.pc = "breaking" /\ Answered("loop")
  /\ loop' = [loop EXCEPT !.pc = "break", !.todo = loop.todo \ {NextBreak},
                 !.failed = IF reply["loop"].is = "ok" THEN @ ELSE @ \cup {NextBreak}]
  /\ Consume("loop")
  /\ UNCHANGED <<st, gate>> /\ LoopOnly

\* Mutant: failed breaks are logged and forgotten.
Forgotten(uids) == network

\* requeue_network_restriction_uid
Requeued(uids) == network \cup uids

\* The failed breaks are queued again, the status is written back, the gate dropped.
LoopFinishes ==
  /\ loop.pc = "break" /\ loop.todo = {}
  /\ network' = Requeued(loop.failed)
  /\ st' = [st EXCEPT !.status = loop.snapshot.status]
  /\ gate' = "none"
  /\ loop' = [SleepingLoop(st') EXCEPT !.passed = loop.passed]
  /\ UNCHANGED <<disk, manager, pending, inbox, reply, hook, delivered, torn, listed, edits, faults>>

Loop ==
  \/ StartAsks \/ StartSyncs \/ StartServes
  \/ LoopPrepares \/ LoopConfigAnswered \/ LoopApplies \/ LoopStartsPass \/ LoopDisabled
  \/ LoopPasses \/ LoopSkipsPass \/ LoopDrains \/ LoopPendingAnswered \/ LoopBreaks
  \/ LoopBreakAnswered \/ LoopFinishes

-----------------------------------------------------------------------------
(* The manager server: one mutation at a time, on a copy of the state *)

ManagerOnly == UNCHANGED <<loop, pending, network, hook, delivered, listed>>

\* A requested record replaces every record of its uid, or is a new one.
Requested(rows, mode) ==
  IF rows = Blank THEN [Blank EXCEPT !.uids = <<mode>>]
  ELSE [name |-> IF rows.name = "none" THEN "none" ELSE mode, uids |-> [i \in DOMAIN rows.uids |-> mode]]

\* merge_app_config_records: the request names some apps and controls some of those.
Merged(records, uids, controlled) ==
  [a \in Apps |-> IF a \in uids
                  THEN Requested(records[a], IF a \in controlled THEN "controlled" ELSE "free")
                  ELSE records[a]]

\* SetAppCfg: the gate, the copy and the previous file's bytes.
AppConfigBegins ==
  /\ manager.pc = "idle" /\ GateFree("manager")
  /\ edits < MaxEdits /\ edits' = edits + 1
  /\ gate' = "manager"
  /\ \E uids \in SUBSET Apps : \E controlled \in SUBSET uids :
       manager' = [manager EXCEPT !.pc = "app", !.copy = st, !.file = disk.policy,
                                  !.records = Merged(st.records, uids, controlled)]
  /\ UNCHANGED <<st, disk, inbox, reply, torn, faults>> /\ ManagerOnly

\* SetSettingsVar: the same for one setting.
SettingBegins ==
  /\ manager.pc = "idle" /\ GateFree("manager")
  /\ edits < MaxEdits /\ edits' = edits + 1
  /\ gate' = "manager"
  /\ \E value \in Settings :
       manager' = [manager EXCEPT !.pc = "settings", !.copy = st, !.settings = value]
  /\ UNCHANGED <<st, disk, inbox, reply, torn, faults>> /\ ManagerOnly

\* Mutant: the handler counts a change that the commit has counted.
CommittedTwice(copy, records, settings) ==
  [copy EXCEPT !.records = records, !.settings = settings,
     !.revision = IF records = copy.records /\ settings = copy.settings THEN @ ELSE @ + 2]

\* commit_app_config and set_settings_var: a change of the configuration is a new revision.
Committed(copy, records, settings) ==
  [copy EXCEPT !.records = records, !.settings = settings,
     !.revision = IF records = copy.records /\ settings = copy.settings THEN @ ELSE @ + 1]

\* The record of an app that counts when its rows are written: the last one.
Entry(rows) == IF rows.uids = <<>> THEN rows.name ELSE rows.uids[Len(rows.uids)]
Records(rows) == (IF rows.name = "none" THEN <<>> ELSE <<rows.name>>) \o rows.uids

\* persist_app_config_with_writer, for one app.  Memory knows a row by the token it was
\* read from, or by the uid; those rows are rewritten when the record changes.  Any other
\* row stays as it is.  The records of an app without a known row are appended.
Rewritten(rows, old, new) ==
  LET named == old.uids = <<>> /\ old.name # "none" /\ rows.name # "none"
      numbered == old # Blank /\ rows.uids # <<>>
  IN IF ~ named /\ ~ numbered THEN [rows EXCEPT !.uids = @ \o Records(new)]
     ELSE IF Entry(new) = Entry(old) THEN rows
     ELSE [name |-> IF named THEN Entry(new) ELSE rows.name,
           uids |-> [i \in DOMAIN rows.uids |-> Entry(new)]]

Lines(file, old, new) == [a \in Apps |-> Rewritten(Contents(file)[a], old[a], new[a])]

\* Unchanged records over an existing file are durable without a write.
NothingToWrite == manager.file # NoFile /\ manager.records = manager.copy.records
NewLines == Lines(manager.file, manager.copy.records, manager.records)

\* Durable: the hook is asked next.
AppConfigPersists ==
  /\ manager.pc = "app"
  /\ disk' = IF NothingToWrite THEN disk ELSE [disk EXCEPT !.policy = NewLines]
  /\ manager' = [manager EXCEPT !.pc = "send"]
  /\ SendConfig("manager", [managed |-> Controlled(manager.records), settings |-> manager.copy.settings])
  /\ UNCHANGED <<st, gate, torn, edits>> /\ ManagerOnly

\* Mutant: a write that reports an error has not happened.
NeverReached(now) == manager.copy

\* The write failed: what the file holds decides whether memory follows.
AppConfigAfterError(now) ==
  IF now = NewLines THEN Committed(manager.copy, manager.records, manager.copy.settings)
  ELSE manager.copy

\* The write fails before or after the rename; the hook is not asked.
AppConfigWriteFails ==
  /\ manager.pc = "app" /\ ~ NothingToWrite /\ Fault
  /\ \E now \in Written(disk.policy, NewLines) :
       /\ disk' = [disk EXCEPT !.policy = now]
       /\ manager' = [manager EXCEPT !.pc = "commit",
                        !.copy = [AppConfigAfterError(now) EXCEPT !.synced = FALSE]]
  /\ UNCHANGED <<st, gate, inbox, reply, torn, edits>> /\ ManagerOnly

AppConfigAccepted ==
  /\ manager.pc = "send" /\ reply["manager"].is = "ok"
  /\ manager' = [manager EXCEPT !.pc = "commit",
       !.copy = [Committed(@, manager.records, @.settings) EXCEPT !.synced = TRUE]]
  /\ Consume("manager")
  /\ UNCHANGED <<st, disk, gate, torn, edits>> /\ ManagerOnly

\* rollback_failed_app_config_update: the file as it was, unless restore_file fails
\* before its rename; the old configuration is sent all the same.
AppConfigRollsBack ==
  /\ manager.pc = "send" /\ Answered("manager") /\ reply["manager"].is # "ok"
  /\ \E now \in Written(disk.policy, manager.file) :
       /\ disk' = [disk EXCEPT !.policy = now]
       /\ torn' = (torn \/ now # manager.file)
  /\ manager' = [manager EXCEPT !.pc = "rollback", !.copy.synced = FALSE]
  /\ SendConfig("manager", Payload(manager.copy))
  /\ UNCHANGED <<st, gate, edits>> /\ ManagerOnly

AppConfigRolledBack ==
  /\ manager.pc = "rollback" /\ Answered("manager")
  /\ manager' = [manager EXCEPT !.pc = "commit"]
  /\ Consume("manager")
  /\ UNCHANGED <<st, disk, gate, torn, edits>> /\ ManagerOnly

\* Mutant: the claim of a synchronised hook survives a changed setting.
SettingKeepsClaim(copy) == copy

\* handle_manager_command: the hook gets the setting with the next loop iteration.
Unclaimed(copy) == [copy EXCEPT !.synced = FALSE]

\* set_settings_var: written and committed; or it failed and the file decides.
SettingPersists ==
  /\ manager.pc = "settings"
  /\ \E now \in Written(disk.settings, manager.settings) :
       /\ now # manager.settings => Fault
       /\ now = manager.settings => UNCHANGED faults
       /\ disk' = [disk EXCEPT !.settings = now]
       /\ manager' = [manager EXCEPT !.pc = "commit",
            !.copy = Unclaimed(IF now = manager.settings
                               THEN Committed(@, @.records, now) ELSE @)]
  /\ UNCHANGED <<st, gate, inbox, reply, torn, edits>> /\ ManagerOnly

\* with_manager_state_after_request_read: the copy replaces the state.
ManagerCommits ==
  /\ manager.pc = "commit"
  /\ st' = manager.copy
  /\ gate' = "none"
  /\ manager' = IdleManager(st')
  /\ UNCHANGED <<disk, inbox, reply, torn, edits, faults>> /\ ManagerOnly

ManagerBegins == AppConfigBegins \/ SettingBegins

ManagerContinues ==
  \/ AppConfigPersists \/ AppConfigWriteFails \/ AppConfigAccepted \/ AppConfigRollsBack
  \/ AppConfigRolledBack \/ SettingPersists \/ ManagerCommits

-----------------------------------------------------------------------------
(* The daemon is killed and started again, and may be unable to read a file or to
   get the package inventory; its requests stay with the hook *)

DaemonRestarts ==
  /\ Fault
  /\ listed' \in SUBSET Apps
  /\ \E read \in Readings(disk) : st' = Fresh(read, listed') /\ torn' = (read # disk)
  /\ gate' = "loop" /\ loop' = Starting(st') /\ manager' = IdleManager(st')
  /\ pending' = {} /\ network' = {} /\ delivered' = {}
  /\ inbox' = [i \in DOMAIN inbox |-> [inbox[i] EXCEPT !.from = "gone"]]
  /\ reply' = [t \in Threads |-> Idle]
  /\ UNCHANGED <<disk, hook, edits>>

Next ==
  \/ Loop \/ ManagerBegins \/ ManagerContinues
  \/ HookServes \/ HookFails \/ HookRestarts \/ DaemonRestarts
  \/ \E t \in Threads : RequestTimesOut(t)

Spec == Init /\ [][Next]_vars

\* The daemon's threads run and the hook's thread serves.
FairSpec == Spec /\ WF_vars(Loop) /\ WF_vars(ManagerContinues) /\ WF_vars(HookServes)

-----------------------------------------------------------------------------
(* Properties *)

ConfigsInFlight == {[managed |-> r.uids, settings |-> r.settings] :
                      r \in {inbox[i] : i \in {j \in DOMAIN inbox : inbox[j].cmd = "SetConfig"}}}

\* While nobody holds the gate, a claimed synchronisation is true: the hook has the
\* configuration in memory, unless it restarted since, and no request that timed out
\* can still bring it another one (apply_hook_health_result, rollback, SetSettingsVar).
SyncedMeansHookAgrees ==
  gate = "none" /\ st.synced =>
    /\ hook.cfg \in {NoConfig, Payload(st)}
    /\ ConfigsInFlight \subseteq {Payload(st)}

\* From its snapshot on, a pass that may run acts on the policy in memory and scans a
\* hook that has this policy: a mutation finishes before it or waits for its end
\* (the comment of spawn_control_loop on the gate).
PassUsesOnePolicy ==
  loop.pc \notin {"sleep", "config", "health"} /\ MayRun(loop.snapshot) =>
    /\ Payload(loop.snapshot) = Payload(st)
    /\ hook.cfg \in {NoConfig, Payload(st)}
    /\ ConfigsInFlight \subseteq {Payload(st)}

\* Memory and files agree between commands, whatever write, request or inventory failed,
\* unless a file could not be restored or, at the last start, not be read: the settings are
\* those of the file, and for every app the rows that the last inventory could resolve are
\* as many as the records, the last of both says the same, and one row is the policy.
DiskIsMemory ==
  gate = "none" /\ ~ torn =>
    /\ disk.settings = st.settings
    /\ \A a \in Apps :
         LET rows == Loaded(disk.policy, listed)[a]
             records == st.records[a]
         IN /\ Len(Records(rows)) = Len(Records(records)) /\ Entry(rows) = Entry(records)
            /\ Len(Records(rows)) = 1 => rows = records

\* Replacing the whole state by the manager's copy undoes nothing that the control
\* loop wrote since the copy was taken.
NothingLost ==
  [][ManagerCommits => st'.health = st.health /\ st'.status = st.status]_vars

\* A break taken from the queue is carried out by the hook or queued again.
BreaksAreKept ==
  [][LoopFinishes => loop.taken \subseteq delivered \cup network']_vars

\* What the hook does about background work matches what the daemon last found: a
\* suppressed app was in the background in the last pass.  Only a pass that ended
\* without its foreground is left out.
SuppressesOnlyBackground ==
  gate = "none" /\ st.synced /\ inbox = <<>> /\ loop.passed =>
    \A u \in Apps : Suppresses(u) => u \in st.status

\* The same with every pass counted, as publishForegroundSnapshot has it: the hook
\* fails open until UPDATE_PENDING confirms the complete state of this cycle.
SuppressesOnlyConfirmed ==
  gate = "none" /\ st.synced /\ inbox = <<>> =>
    \A u \in Apps : Suppresses(u) => u \in st.status

\* Once failures and commands stop, hook and memory agree and the claim stays.
Resynchronises == <>[](st.synced /\ hook.cfg = Payload(st))
=============================================================================
