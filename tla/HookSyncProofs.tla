--------------------------- MODULE HookSyncProofs ---------------------------
(* Proofs about HookSync, for any apps, any settings and any bounds.         *)
(*                                                                           *)
(* RevisionInv bounds the revision by the commands counted so far, which     *)
(* makes TypeOK inductive.  GateInv is the discipline of the policy gate: a  *)
(* thread in the middle of something holds it, so the copy a command works   *)
(* on still agrees with what only the control loop writes.  MergeInv: a      *)
(* command keeps the records it finds, so their rows stay rows of policies.  *)
EXTENDS HookSync, SequenceTheorems, TLAPS

\* A command commits at most one revision, and it was counted when it began.
RevisionInv ==
  /\ st.revision <= edits /\ manager.copy.revision <= edits
  /\ manager.pc \in {"app", "settings", "send", "rollback"} => manager.copy.revision < edits

\* Who is in the middle of something holds the gate.
GateInv ==
  /\ loop.pc # "sleep" => gate = "loop"
  /\ manager.pc # "idle" =>
       /\ gate = "manager"
       /\ manager.copy.health = st.health /\ manager.copy.status = st.status

\* A break is being asked for only while some are left.
BreakingInv == loop.pc = "breaking" => loop.todo # {}

\* A command keeps the records of every app it finds, so it never writes an empty row.
Extends(new, old) == \A a \in Apps : old[a] # Blank => new[a] # Blank
MergeInv == manager.pc = "app" => Extends(manager.records, manager.copy.records)

Inv == TypeOK /\ RevisionInv /\ GateInv /\ BreakingInv /\ MergeInv

-----------------------------------------------------------------------------
(* The bridge and the hook keep the types of what they share with the daemon. *)

LEMMA SendTypes ==
  ASSUME TypeOK, NEW t \in Threads, NEW cmd, NEW uids \in SUBSET Apps, NEW settings,
         \/ cmd = "SetConfig" /\ settings \in Settings
         \/ cmd \in Commands \ {"SetConfig"} /\ settings = NoConfig,
         Send(t, cmd, uids, settings)
  PROVE  inbox' \in Seq(Requests) /\ reply' \in [Threads -> Replies] /\ faults' \in 0..MaxFaults
<1>1. [cmd |-> cmd, uids |-> uids, settings |-> settings, from |-> t] \in Requests
  BY DEF Requests
<1>2. Waiting \in Replies /\ Answer("error", {}) \in Replies
  BY DEF Waiting, Answer, Replies
<1>3. faults' \in 0..MaxFaults
  BY BoundsAssumption DEF Send, CannotConnect, Fault, TypeOK
<1>4. inbox' \in Seq(Requests)
  <2> DEFINE r == [cmd |-> cmd, uids |-> uids, settings |-> settings, from |-> t]
  <2>1. inbox \in Seq(Requests) /\ (inbox' = Append(inbox, r) \/ inbox' = inbox)
    BY DEF Send, CannotConnect, TypeOK
  <2> HIDE DEF r
  <2>2. r \in Requests
    BY <1>1 DEF r
  <2>3. QED
    BY <2>1, <2>2
<1>5. reply' \in [Threads -> Replies]
  BY <1>2 DEF Send, CannotConnect, TypeOK
<1>6. QED
  BY <1>3, <1>4, <1>5

LEMMA ConsumeTypes ==
  ASSUME TypeOK, NEW t \in Threads, Consume(t)
  PROVE  inbox' \in Seq(Requests) /\ reply' \in [Threads -> Replies] /\ faults' \in 0..MaxFaults
<1>1. Idle \in Replies
  BY DEF Idle, Replies
<1>2. QED
  BY <1>1 DEF Consume, TypeOK

LEMMA ControlledTypes == ASSUME NEW records PROVE Controlled(records) \in SUBSET Apps
  BY DEF Controlled

LEMMA PayloadTypes ==
  ASSUME NEW s \in States
  PROVE  /\ Payload(s) \in Payloads
         /\ Payload(s).managed \in SUBSET Apps
         /\ Payload(s).settings \in Settings
  BY ControlledTypes DEF Payload, Payloads, States

LEMMA ServesTypes ==
  ASSUME TypeOK, NEW cmd, NEW answer \in Replies, Serves(cmd, answer)
  PROVE  inbox' \in Seq(Requests) /\ reply' \in [Threads -> Replies] /\ Request \in Requests
  BY DEF TypeOK, Serves, Request

LEMMA HeadTypes == ASSUME TypeOK, inbox # <<>> PROVE Request \in Requests
  BY DEF TypeOK, Request

LEMMA OrphanTypes ==
  ASSUME TypeOK, NEW t
  PROVE  Orphaned(t) \in Seq(Requests)
<1>1. DOMAIN inbox = 1..Len(inbox) /\ Len(inbox) \in Nat
  BY DEF TypeOK
<1>2. ASSUME NEW i \in 1..Len(inbox) PROVE Orphaned(t)[i] \in Requests
  <2>1. inbox[i] \in Requests
    BY DEF TypeOK
  <2>2. [inbox[i] EXCEPT !.from = "gone"] \in Requests
    BY <2>1 DEF Requests
  <2>3. QED
    BY <1>1, <2>1, <2>2 DEF Orphaned
<1>3. Orphaned(t) \in [1..Len(inbox) -> Requests]
  BY <1>1, <1>2 DEF Orphaned
<1>4. QED
  BY <1>1, <1>3, SeqDef

-----------------------------------------------------------------------------
(* What leaves the daemon's threads alone leaves the gate's discipline alone. *)
LEMMA OthersKeepInv ==
  ASSUME Inv, UNCHANGED <<st, disk, gate, loop, manager, pending, network, listed, edits>>,
         inbox' \in Seq(Requests), reply' \in [Threads -> Replies], hook' \in HookStates,
         delivered' \in SUBSET Apps, torn' \in BOOLEAN, faults' \in 0..MaxFaults
  PROVE  Inv'
  BY DEF Inv, TypeOK, RevisionInv, GateInv, BreakingInv, MergeInv

-----------------------------------------------------------------------------
(* The rows of a policy: loading, merging and rewriting give rows again. *)
LEMMA BlankRows == Blank \in Rows
  BY DEF Blank, Rows

LEMMA ContentsTypes ==
  ASSUME NEW file \in {NoFile} \cup Policies
  PROVE  Contents(file) \in Policies
  BY BlankRows DEF Contents, Policies

LEMMA LoadedTypes ==
  ASSUME NEW file \in {NoFile} \cup Policies, NEW inventory
  PROVE  Loaded(file, inventory) \in Policies
<1>1. \A a \in Apps : Contents(file)[a] \in Rows
  BY ContentsTypes DEF Policies
<1>2. \A a \in Apps : [Contents(file)[a] EXCEPT !.name = "none"] \in Rows
  BY <1>1 DEF Rows
<1>3. QED
  BY <1>1, <1>2 DEF Loaded, Policies

\* As many rows of one app as before, all with the same mode.
LEMMA SameModes ==
  ASSUME NEW uids \in Seq(Modes), NEW mode \in Modes
  PROVE  /\ [i \in DOMAIN uids |-> mode] \in Seq(Modes)
         /\ Len([i \in DOMAIN uids |-> mode]) = Len(uids)
<1>1. DOMAIN uids = 1..Len(uids) /\ Len(uids) \in Nat
  OBVIOUS
<1>2. [i \in DOMAIN uids |-> mode] \in [1..Len(uids) -> Modes]
  BY <1>1
<1>3. [i \in DOMAIN uids |-> mode] \in Seq(Modes)
  BY <1>1, <1>2, SeqDef
<1>4. QED
  BY <1>1, <1>3, LenProperties

LEMMA RequestedTypes ==
  ASSUME NEW rows \in Rows, NEW mode \in Modes
  PROVE  Requested(rows, mode) \in Rows
<1>1. <<mode>> \in Seq(Modes) /\ [i \in DOMAIN rows.uids |-> mode] \in Seq(Modes)
  BY SameModes DEF Rows
<1>2. QED
  BY <1>1 DEF Requested, Blank, Rows

LEMMA MergedTypes ==
  ASSUME NEW records \in Policies, NEW uids, NEW controlled
  PROVE  Merged(records, uids, controlled) \in Policies
<1>1. \A a \in Apps : \A mode \in Modes : Requested(records[a], mode) \in Rows
  BY RequestedTypes DEF Policies
<1>2. {"free", "controlled"} \subseteq Modes
  BY DEF Modes
<1>3. QED
  BY <1>1, <1>2 DEF Merged, Policies

LEMMA RecordsTypes ==
  ASSUME NEW rows \in Rows
  PROVE  Records(rows) \in Seq(Modes)
<1>1. CASE rows.name = "none"
  BY <1>1 DEF Records, Rows
<1>2. CASE rows.name # "none"
  <2>1. <<rows.name>> \in Seq(Modes) /\ rows.uids \in Seq(Modes)
    BY <1>2 DEF Rows
  <2>2. QED
    BY <1>2, <2>1 DEF Records
<1>3. QED
  BY <1>1, <1>2

LEMMA EntryTypes ==
  ASSUME NEW rows \in Rows
  PROVE  /\ Entry(rows) \in {"none"} \cup Modes
         /\ Entry(rows) = "none" <=> rows = Blank
<1>1. CASE rows.uids = <<>>
  BY <1>1 DEF Entry, Rows, Blank
<1>2. CASE rows.uids # <<>>
  <2>1. rows.uids[Len(rows.uids)] \in Modes
    BY <1>2 DEF Rows
  <2>2. QED
    BY <1>2, <2>1 DEF Entry, Modes, Blank
<1>3. QED
  BY <1>1, <1>2

LEMMA RewrittenTypes ==
  ASSUME NEW rows \in Rows, NEW old \in Rows, NEW new \in Rows,
         old # Blank => new # Blank
  PROVE  Rewritten(rows, old, new) \in Rows
<1> DEFINE named == old.uids = <<>> /\ old.name # "none" /\ rows.name # "none"
           numbered == old # Blank /\ rows.uids # <<>>
<1>1. CASE ~ named /\ ~ numbered
  <2>1. rows.uids \o Records(new) \in Seq(Modes)
    BY RecordsTypes DEF Rows
  <2>2. Rewritten(rows, old, new) = [rows EXCEPT !.uids = rows.uids \o Records(new)]
    BY <1>1 DEF Rewritten, Rows
  <2>3. QED
    BY <2>1, <2>2 DEF Rows
<1>2. CASE named \/ numbered
  <2>1. new # Blank
    BY <1>2 DEF Blank
  <2>2. Entry(new) \in Modes
    BY <2>1, EntryTypes
  <2>3. [i \in DOMAIN rows.uids |-> Entry(new)] \in Seq(Modes)
    BY <2>2, SameModes DEF Rows
  <2>4. QED
    BY <1>2, <2>2, <2>3 DEF Rewritten, Rows
<1>3. QED
  BY <1>1, <1>2

LEMMA MergedExtends ==
  ASSUME NEW records \in Policies, NEW uids, NEW controlled
  PROVE  Extends(Merged(records, uids, controlled), records)
<1> SUFFICES ASSUME NEW a \in Apps, records[a] # Blank
             PROVE  Merged(records, uids, controlled)[a] # Blank
  BY DEF Extends
<1> DEFINE mode == IF a \in controlled THEN "controlled" ELSE "free"
<1>1. CASE a \in uids
  <2>1. Merged(records, uids, controlled)[a] = Requested(records[a], mode)
    BY <1>1 DEF Merged
  <2>2. records[a] \in Rows /\ mode \in Modes /\ mode # "none"
    BY DEF Policies, Modes
  <2>3. records[a].name # "none" \/ records[a].uids # <<>>
    BY <2>2 DEF Rows, Blank
  <2> HIDE DEF mode
  <2>4. CASE records[a].name # "none"
    BY <2>1, <2>2, <2>4 DEF Requested, Blank
  <2>5. CASE records[a].uids # <<>>
    <3>1. [i \in DOMAIN records[a].uids |-> mode] # <<>>
      <4>1. /\ Len([i \in DOMAIN records[a].uids |-> mode]) = Len(records[a].uids)
            /\ records[a].uids \in Seq(Modes)
        BY <2>2, SameModes DEF Rows
      <4>2. Len(records[a].uids) # 0
        BY <2>5, <4>1, EmptySeq
      <4>3. QED
        BY <4>1, <4>2
    <3>2. QED
      BY <2>1, <2>5, <3>1 DEF Requested, Blank
  <2>6. QED
    BY <2>3, <2>4, <2>5
<1>2. CASE a \notin uids
  BY <1>2 DEF Merged
<1>3. QED
  BY <1>1, <1>2

LEMMA LinesTypes ==
  ASSUME NEW file \in {NoFile} \cup Policies, NEW old \in Policies, NEW new \in Policies,
         Extends(new, old)
  PROVE  Lines(file, old, new) \in Policies
<1>1. ASSUME NEW a \in Apps PROVE Rewritten(Contents(file)[a], old[a], new[a]) \in Rows
  <2>1. Contents(file)[a] \in Rows /\ old[a] \in Rows /\ new[a] \in Rows
    BY ContentsTypes DEF Policies
  <2>2. QED
    BY <2>1, RewrittenTypes DEF Extends
<1>2. QED
  BY <1>1 DEF Lines, Policies

-----------------------------------------------------------------------------
(* A state that the daemon starts or rests in. *)
LEMMA FreshTypes ==
  ASSUME NEW files \in Files, NEW inventory
  PROVE  /\ Fresh(files, inventory) \in States /\ Fresh(files, inventory).revision = 0
<1>1. Loaded(files.policy, inventory) \in Policies
  BY LoadedTypes DEF Files
<1>2. QED
  BY <1>1, BoundsAssumption DEF Fresh, States, Files

LEMMA RestingTypes ==
  ASSUME NEW s \in States
  PROVE  /\ SleepingLoop(s) \in LoopLocals /\ IdleManager(s) \in ManagerLocals
         /\ Starting(s) \in LoopLocals /\ Starting(s).pc = "start"
<1>1. SleepingLoop(s) \in LoopLocals /\ IdleManager(s) \in ManagerLocals
  BY PayloadTypes, BoundsAssumption DEF SleepingLoop, IdleManager, LoopLocals, ManagerLocals, States
<1>2. QED
  BY <1>1 DEF Starting, LoopLocals

LEMMA BlankTypes == BlankHook \in HookStates /\ Idle \in Replies
  BY DEF BlankHook, HookStates, Idle, Replies

LEMMA InitInv == Init => Inv
<1> SUFFICES ASSUME Init PROVE Inv
  OBVIOUS
<1>1. st \in States /\ st.revision = 0
  BY FreshTypes, InstalledAssumption DEF Init
<1>2. loop \in LoopLocals /\ manager \in ManagerLocals
  BY <1>1, RestingTypes DEF Init
<1>3. TypeOK
  <2>1. inbox \in Seq(Requests) /\ reply \in [Threads -> Replies] /\ hook \in HookStates
    BY BlankTypes DEF Init
  <2>2. gate \in Threads \cup {"none"} /\ torn \in BOOLEAN /\ listed \subseteq Apps
    BY DEF Init, Threads
  <2>3. edits \in 0..MaxEdits /\ faults \in 0..MaxFaults
    BY BoundsAssumption DEF Init
  <2>0. disk \in Files
    BY InstalledAssumption DEF Init
  <2>4. QED
    BY <1>1, <1>2, <2>0, <2>1, <2>2, <2>3 DEF Init, TypeOK
<1>4. /\ loop.pc = "start" /\ gate = "loop"
      /\ manager.pc = "idle" /\ manager.copy = st
  BY <1>1, RestingTypes DEF Init, IdleManager
<1>5. RevisionInv /\ GateInv /\ BreakingInv /\ MergeInv
  BY <1>1, <1>4 DEF Init, RevisionInv, GateInv, BreakingInv, MergeInv
<1>6. QED
  BY <1>3, <1>5 DEF Inv

-----------------------------------------------------------------------------
(* The hook, its restarts and the deadlines of the bridge. *)
LEMMA HookInv ==
  ASSUME Inv, HookServes \/ HookFails \/ HookRestarts \/ \E t \in Threads : RequestTimesOut(t)
  PROVE  Inv'
<1> USE DEF Inv
<1>1. \A is \in {"ok", "rejected", "error"} : \A uids \in SUBSET Apps : Answer(is, uids) \in Replies
  BY DEF Answer, Replies
<1>2. Managed \subseteq Apps
  BY DEF Managed, TypeOK, HookStates, Payloads
<1>3. hook \in HookStates /\ delivered \in SUBSET Apps /\ torn \in BOOLEAN /\ faults \in 0..MaxFaults
  BY DEF TypeOK
<1>4. {} \in SUBSET Apps
  OBVIOUS
<1>5. CASE HookConfigures
  <2>1. Request \in Requests /\ Request.cmd = "SetConfig"
    BY <1>5, HeadTypes DEF HookConfigures, Serves
  <2>2. inbox' \in Seq(Requests) /\ reply' \in [Threads -> Replies]
    BY <1>1, <1>4, <1>5, ServesTypes DEF HookConfigures
  <2>3. [managed |-> Request.uids, settings |-> Request.settings] \in Payloads
    BY <2>1 DEF Requests, Payloads
  <2>4. hook' \in HookStates
    BY <1>5, <2>3, BlankTypes DEF HookConfigures, Configured, BlankHook, HookStates
  <2>5. QED
    BY <1>3, <1>5, <2>2, <2>4, OthersKeepInv DEF HookConfigures, DaemonUnchanged
<1>6. CASE HookReportsHealth
  <2>1. PICK is \in {"ok", "rejected"} : Serves("GetHookHealth", Answer(is, {}))
    BY <1>6 DEF HookReportsHealth
  <2>2. inbox' \in Seq(Requests) /\ reply' \in [Threads -> Replies]
    BY <1>1, <1>4, <2>1, ServesTypes
  <2>3. QED
    BY <1>3, <1>6, <2>2, OthersKeepInv DEF HookReportsHealth, DaemonUnchanged
<1>7. CASE HookScansForeground
  <2>1. PICK uids \in SUBSET Managed :
          /\ Serves("GetForeground", Answer("ok", uids))
          /\ hook' = [hook EXCEPT !.foreground = uids, !.foregroundFresh = TRUE,
                                  !.pendingFresh = FALSE]
    BY <1>7 DEF HookScansForeground
  <2>2. inbox' \in Seq(Requests) /\ reply' \in [Threads -> Replies]
    BY <1>1, <1>2, <2>1, ServesTypes
  <2>3. hook' \in HookStates
    BY <1>2, <1>3, <2>1 DEF HookStates
  <2>4. QED
    BY <1>3, <1>7, <2>2, <2>3, OthersKeepInv DEF HookScansForeground, DaemonUnchanged
<1>8. CASE HookCannotScan
  <2>1. inbox' \in Seq(Requests) /\ reply' \in [Threads -> Replies]
    BY <1>1, <1>4, <1>8, ServesTypes DEF HookCannotScan
  <2>2. QED
    BY <1>3, <1>8, <2>1, OthersKeepInv DEF HookCannotScan, DaemonUnchanged
<1>9. CASE HookTakesPending
  <2>1. inbox' \in Seq(Requests) /\ reply' \in [Threads -> Replies] /\ Request \in Requests
    BY <1>1, <1>4, <1>9, ServesTypes DEF HookTakesPending
  <2>2. hook' \in HookStates
    BY <1>3, <1>9, <2>1 DEF HookTakesPending, HookStates, Requests
  <2>3. QED
    BY <1>3, <1>9, <2>1, <2>2, OthersKeepInv DEF HookTakesPending, DaemonUnchanged
<1>10. CASE HookRefusesPending
  <2>1. inbox' \in Seq(Requests) /\ reply' \in [Threads -> Replies]
    BY <1>1, <1>4, <1>10, ServesTypes DEF HookRefusesPending
  <2>2. QED
    BY <1>3, <1>10, <2>1, OthersKeepInv DEF HookRefusesPending, DaemonUnchanged
<1>11. CASE HookBreaksNetwork
  <2>1. PICK is \in {"ok", "rejected"} : Serves("BreakNetwork", Answer(is, {}))
    BY <1>11 DEF HookBreaksNetwork
  <2>2. inbox' \in Seq(Requests) /\ reply' \in [Threads -> Replies]
    BY <1>1, <1>4, <2>1, ServesTypes
  <2>3. delivered' \in SUBSET Apps
    BY <1>2, <1>3, <1>11 DEF HookBreaksNetwork
  <2>4. QED
    BY <1>3, <1>11, <2>2, <2>3, OthersKeepInv DEF HookBreaksNetwork, DaemonUnchanged
<1>12. CASE HookFails
  <2>1. PICK cmd \in Commands : Serves(cmd, Answer("rejected", {}))
    BY <1>12 DEF HookFails
  <2>2. inbox' \in Seq(Requests) /\ reply' \in [Threads -> Replies]
    BY <1>1, <1>4, <2>1, ServesTypes
  <2>3. faults' \in 0..MaxFaults
    BY <1>3, <1>12, BoundsAssumption DEF HookFails, Fault
  <2>4. QED
    BY <1>3, <1>12, <2>2, <2>3, OthersKeepInv DEF HookFails, DaemonUnchanged
<1>13. CASE HookRestarts
  <2>1. Answer("error", {}) \in Replies
    BY <1>1
  <2>2. inbox' \in Seq(Requests) /\ reply' \in [Threads -> Replies]
    BY <1>13, <2>1 DEF HookRestarts, TypeOK
  <2>3. faults' \in 0..MaxFaults
    BY <1>3, <1>13, BoundsAssumption DEF HookRestarts, Fault
  <2>4. QED
    BY <1>3, <1>13, <2>2, <2>3, BlankTypes, OthersKeepInv DEF HookRestarts, DaemonUnchanged
<1>14. ASSUME NEW t \in Threads, RequestTimesOut(t) PROVE Inv'
  <2>1. Answer("error", {}) \in Replies
    BY <1>1
  <2>2. reply' \in [Threads -> Replies]
    BY <1>14, <2>1 DEF RequestTimesOut, TypeOK
  <2>3. inbox' \in Seq(Requests)
    BY <1>14, OrphanTypes DEF RequestTimesOut
  <2>4. faults' \in 0..MaxFaults
    BY <1>3, <1>14, BoundsAssumption DEF RequestTimesOut, Fault
  <2>5. QED
    BY <1>3, <1>14, <2>2, <2>3, <2>4, OthersKeepInv DEF RequestTimesOut
<1>15. QED
  BY <1>5, <1>6, <1>7, <1>8, <1>9, <1>10, <1>11, <1>12, <1>13, <1>14 DEF HookServes

-----------------------------------------------------------------------------
(* The control loop: it runs under the gate, so no command is in progress. *)
LEMMA LoopStepInv ==
  ASSUME Inv, UNCHANGED <<disk, manager, hook, torn, listed, edits>>,
         gate = "loop" \/ gate = "none",
         gate' = "loop" \/ (gate' = "none" /\ loop'.pc = "sleep"),
         st' \in States, st'.revision = st.revision, loop' \in LoopLocals,
         BreakingInv',
         pending' \in SUBSET Apps, network' \in SUBSET Apps, delivered' \in SUBSET Apps,
         inbox' \in Seq(Requests), reply' \in [Threads -> Replies], faults' \in 0..MaxFaults
  PROVE  Inv'
<1>1. manager.pc = "idle"
  BY DEF Inv, GateInv
<1>2. GateInv'
  BY <1>1 DEF GateInv
<1>3. TypeOK' /\ RevisionInv' /\ MergeInv'
  BY DEF Inv, TypeOK, RevisionInv, MergeInv, Threads
<1>4. QED
  BY <1>2, <1>3 DEF Inv

(* The fields of the iteration keep their types, one action after the other. *)
LEMMA LoopInv == ASSUME Inv, Loop PROVE Inv'
<1>1. /\ TypeOK /\ st \in States /\ loop \in LoopLocals
      /\ loop.snapshot \in States
      /\ network \in SUBSET Apps /\ pending \in SUBSET Apps /\ delivered \in SUBSET Apps
      /\ gate \in {"loop", "manager", "none"}
      /\ inbox \in Seq(Requests) /\ reply \in [Threads -> Replies] /\ faults \in 0..MaxFaults
  BY DEF Inv, TypeOK, Threads, LoopLocals
<1>2. loop.pc # "sleep" => gate = "loop"
  BY DEF Inv, GateInv
<1>3. "loop" \in Threads /\ {} \in SUBSET Apps
  BY DEF Threads
<1>4. reply["loop"] \in Replies /\ reply["loop"].uids \in SUBSET Apps
  BY <1>1, <1>3 DEF Replies
<1>0. BreakingInv'
  <2>1. CASE StartAsks \/ StartSyncs \/ StartServes
    <3>1. loop'.pc \in {"startHealth", "startConfig", "sleep"}
      BY <1>1, <2>1 DEF LoopLocals, SleepingLoop, StartAsks, StartSyncs, StartServes
    <3>2. QED
      BY <3>1 DEF BreakingInv
  <2>2. CASE LoopBreaks
    BY <1>1, <2>2 DEF LoopLocals, BreakingInv, LoopBreaks
  <2>3. CASE ~ (StartAsks \/ StartSyncs \/ StartServes \/ LoopBreaks)
    <3>1. loop'.pc # "breaking"
      BY <1>1, <2>3, Loop DEF Loop, LoopLocals, SleepingLoop, LoopPrepares, LoopConfigAnswered,
         LoopApplies, LoopStartsPass, LoopDisabled, LoopPasses, LoopSkipsPass, LoopDrains,
         LoopPendingAnswered, LoopBreakAnswered, LoopFinishes
    <3>2. QED
      BY <3>1 DEF BreakingInv
  <2>4. QED
    BY <2>1, <2>2, <2>3
<1>5. CASE LoopPrepares
  <2>1. inbox' \in Seq(Requests) /\ reply' \in [Threads -> Replies] /\ faults' \in 0..MaxFaults
    BY <1>1, <1>3, <1>5, PayloadTypes, SendTypes DEF LoopPrepares, SendConfig
  <2>2. loop' \in LoopLocals
    <3>1. Payload(st) \in Payloads /\ st.revision \in 0..MaxEdits
      BY <1>1, PayloadTypes DEF States
    <3>2. QED
      BY <1>1, <1>5, <3>1 DEF LoopPrepares, LoopLocals
  <2>3. QED
    BY <1>1, <1>5, <2>1, <2>2, <1>0, LoopStepInv DEF LoopPrepares, LoopOnly, GateFree
<1>6. CASE LoopConfigAnswered
  <2>1. inbox' \in Seq(Requests) /\ reply' \in [Threads -> Replies] /\ faults' \in 0..MaxFaults
    BY <1>1, <1>3, <1>6, SendTypes DEF LoopConfigAnswered, Commands
  <2>2. loop' \in LoopLocals
    BY <1>1, <1>6 DEF LoopConfigAnswered, LoopLocals
  <2>3. QED
    BY <1>1, <1>2, <1>6, <2>1, <2>2, <1>0, LoopStepInv DEF LoopConfigAnswered, LoopOnly
<1>7. CASE LoopApplies
  <2>1. inbox' \in Seq(Requests) /\ reply' \in [Threads -> Replies] /\ faults' \in 0..MaxFaults
    BY <1>1, <1>3, <1>7, ConsumeTypes DEF LoopApplies
  <2>2. st' \in States /\ st'.revision = st.revision
    BY <1>1, <1>7 DEF LoopApplies, States
  <2>3. loop' \in LoopLocals
    <3>1. PICK allowed \in {FALSE, HealthOk(reply["loop"])} :
            loop' = [loop EXCEPT !.pc = "pass", !.snapshot = st', !.allowed = allowed]
      BY <1>7 DEF LoopApplies
    <3>2. allowed \in BOOLEAN
      BY DEF HealthOk
    <3>3. QED
      BY <1>1, <2>2, <3>1, <3>2 DEF LoopLocals
  <2>4. QED
    BY <1>1, <1>2, <1>7, <2>1, <2>2, <2>3, <1>0, LoopStepInv DEF LoopApplies, LoopOnly
<1>8. CASE LoopStartsPass
  <2>1. inbox' \in Seq(Requests) /\ reply' \in [Threads -> Replies] /\ faults' \in 0..MaxFaults
    BY <1>1, <1>3, <1>8, SendTypes DEF LoopStartsPass, Commands
  <2>2. loop' \in LoopLocals
    BY <1>1, <1>8 DEF LoopStartsPass, LoopLocals
  <2>3. QED
    BY <1>1, <1>2, <1>8, <2>1, <2>2, <1>0, LoopStepInv DEF LoopStartsPass, LoopOnly
<1>9. CASE LoopDisabled
  <2>1. [loop.snapshot EXCEPT !.status = {}] \in States
    BY <1>1 DEF States
  <2>2. loop' \in LoopLocals
    BY <1>1, <1>9, <2>1 DEF LoopDisabled, LoopLocals
  <2>3. QED
    BY <1>1, <1>2, <1>9, <2>2, <1>0, LoopStepInv DEF LoopDisabled
<1>10. CASE LoopPasses
  <2>1. inbox' \in Seq(Requests) /\ reply' \in [Threads -> Replies] /\ faults' \in 0..MaxFaults
    BY <1>1, <1>3, <1>10, ConsumeTypes DEF LoopPasses
  <2> DEFINE controlled == Controlled(loop.snapshot.records)
             background == controlled \ reply["loop"].uids
  <2>2. controlled \in SUBSET Apps /\ background \in SUBSET Apps
    BY ControlledTypes
  <2>3. pending' \in SUBSET Apps /\ network' \in SUBSET Apps
    BY <1>1, <1>10, <2>2 DEF LoopPasses
  <2>4. [loop.snapshot EXCEPT !.status = background] \in States
    BY <1>1, <2>2 DEF States
  <2>5. loop' \in LoopLocals
    BY <1>1, <1>10, <2>4 DEF LoopPasses, LoopLocals
  <2>6. QED
    BY <1>1, <1>2, <1>10, <2>1, <2>3, <2>5, <1>0, LoopStepInv DEF LoopPasses
<1>11. CASE LoopSkipsPass
  <2>1. inbox' \in Seq(Requests) /\ reply' \in [Threads -> Replies] /\ faults' \in 0..MaxFaults
    BY <1>1, <1>3, <1>11, ConsumeTypes DEF LoopSkipsPass
  <2>2. loop' \in LoopLocals
    BY <1>1, <1>11 DEF LoopSkipsPass, LoopLocals
  <2>3. QED
    BY <1>1, <1>2, <1>11, <2>1, <2>2, <1>0, LoopStepInv DEF LoopSkipsPass, LoopOnly
<1>12. CASE LoopDrains
  <2>1. inbox' \in Seq(Requests) /\ reply' \in [Threads -> Replies] /\ faults' \in 0..MaxFaults
    BY <1>1, <1>3, <1>12, SendTypes DEF LoopDrains, Commands
  <2>2. loop' \in LoopLocals
    <3>1. \/ loop' = [loop EXCEPT !.pc = "pending", !.taken = network, !.todo = network]
          \/ loop' = [loop EXCEPT !.pc = "break", !.taken = network, !.failed = network]
      BY <1>12 DEF LoopDrains
    <3>2. network \subseteq Apps /\ loop \in LoopLocals
      BY <1>1
    <3>3. CASE loop' = [loop EXCEPT !.pc = "pending", !.taken = network, !.todo = network]
      BY <3>2, <3>3 DEF LoopLocals
    <3>4. CASE loop' = [loop EXCEPT !.pc = "break", !.taken = network, !.failed = network]
      BY <3>2, <3>4 DEF LoopLocals
    <3> QED
      BY <3>1, <3>3, <3>4
  <2>3. QED
    BY <1>1, <1>2, <1>12, <2>1, <2>2, <1>0, LoopStepInv DEF LoopDrains
<1>13. CASE LoopPendingAnswered
  <2>1. inbox' \in Seq(Requests) /\ reply' \in [Threads -> Replies] /\ faults' \in 0..MaxFaults
    BY <1>1, <1>3, <1>13, ConsumeTypes DEF LoopPendingAnswered
  <2>2. loop' \in LoopLocals
    BY <1>1, <1>13 DEF LoopPendingAnswered, LoopLocals
  <2>3. QED
    BY <1>1, <1>2, <1>13, <2>1, <2>2, <1>0, LoopStepInv DEF LoopPendingAnswered, LoopOnly
<1>14. ASSUME loop.todo # {} PROVE NextBreak \in loop.todo /\ {NextBreak} \in SUBSET Apps
  <2>1. NextBreak \in loop.todo
    BY <1>14 DEF NextBreak
  <2>2. QED
    BY <1>1, <2>1 DEF LoopLocals
<1>15. CASE LoopBreaks
  <2>1. inbox' \in Seq(Requests) /\ reply' \in [Threads -> Replies] /\ faults' \in 0..MaxFaults
    BY <1>1, <1>3, <1>14, <1>15, SendTypes DEF LoopBreaks, Commands
  <2>2. loop' \in LoopLocals
    BY <1>1, <1>15 DEF LoopBreaks, LoopLocals
  <2>3. QED
    BY <1>1, <1>2, <1>15, <2>1, <2>2, <1>0, LoopStepInv DEF LoopBreaks, LoopOnly
<1>16. CASE LoopBreakAnswered
  <2>1. inbox' \in Seq(Requests) /\ reply' \in [Threads -> Replies] /\ faults' \in 0..MaxFaults
    BY <1>1, <1>3, <1>16, ConsumeTypes DEF LoopBreakAnswered
  <2>2. loop.todo # {}
    BY <1>16 DEF LoopBreakAnswered, Inv, BreakingInv
  <2>3. loop' \in LoopLocals
    BY <1>1, <1>14, <1>16, <2>2 DEF LoopBreakAnswered, LoopLocals
  <2>4. QED
    BY <1>1, <1>2, <1>16, <2>1, <2>3, <1>0, LoopStepInv DEF LoopBreakAnswered, LoopOnly
<1>17. CASE LoopFinishes
  <2>1. st' \in States /\ st'.revision = st.revision
    BY <1>1, <1>17 DEF LoopFinishes, States, LoopLocals
  <2>2. loop' \in LoopLocals /\ loop'.pc = "sleep"
    <3>1. SleepingLoop(st') \in LoopLocals /\ SleepingLoop(st').pc = "sleep"
      BY <2>1, RestingTypes DEF SleepingLoop
    <3>2. QED
      BY <1>1, <1>17, <3>1 DEF LoopFinishes, LoopLocals
  <2>3. network' \in SUBSET Apps
    BY <1>1, <1>17 DEF LoopFinishes, Requeued, LoopLocals
  <2>4. QED
    BY <1>1, <1>2, <1>17, <2>1, <2>2, <2>3, <1>0, LoopStepInv DEF LoopFinishes
<1>18. CASE StartAsks
  <2>1. inbox' \in Seq(Requests) /\ reply' \in [Threads -> Replies] /\ faults' \in 0..MaxFaults
    BY <1>1, <1>3, <1>18, SendTypes DEF StartAsks, Commands
  <2>2. loop' \in LoopLocals
    BY <1>1, <1>18 DEF StartAsks, LoopLocals
  <2>3. QED
    BY <1>1, <1>2, <1>18, <2>1, <2>2, <1>0, LoopStepInv DEF StartAsks, LoopOnly
<1>19. CASE StartSyncs
  <2>1. inbox' \in Seq(Requests) /\ reply' \in [Threads -> Replies] /\ faults' \in 0..MaxFaults
    BY <1>1, <1>3, <1>19, PayloadTypes, SendTypes DEF StartSyncs, SendConfig
  <2>2. st' \in States /\ st'.revision = st.revision
    BY <1>1, <1>19 DEF StartSyncs, States
  <2>3. loop' \in LoopLocals
    BY <1>1, <1>19 DEF StartSyncs, LoopLocals
  <2>4. QED
    BY <1>1, <1>2, <1>19, <2>1, <2>2, <2>3, <1>0, LoopStepInv DEF StartSyncs, LoopOnly
<1>20. CASE StartServes
  <2>1. inbox' \in Seq(Requests) /\ reply' \in [Threads -> Replies] /\ faults' \in 0..MaxFaults
    BY <1>1, <1>3, <1>20, ConsumeTypes DEF StartServes
  <2>2. st' \in States /\ st'.revision = st.revision
    BY <1>1, <1>20 DEF StartServes, States
  <2>3. loop' \in LoopLocals /\ loop'.pc = "sleep"
    <3>1. SleepingLoop(st').pc = "sleep"
      BY DEF SleepingLoop
    <3>2. QED
      BY <1>20, <2>2, <3>1, RestingTypes DEF StartServes
  <2>4. gate = "loop" /\ gate' = "none"
    BY <1>2, <1>20 DEF StartServes
  <2>5. QED
    BY <1>1, <1>20, <2>1, <2>2, <2>3, <2>4, <1>0, LoopStepInv DEF StartServes, LoopOnly
<1>21. QED
  BY <1>5, <1>6, <1>7, <1>8, <1>9, <1>10, <1>11, <1>12, <1>13, <1>15, <1>16, <1>17,
     <1>18, <1>19, <1>20 DEF Loop

-----------------------------------------------------------------------------
(* A command: it runs under the gate, so the loop is asleep. *)
LEMMA CommandStepInv ==
  ASSUME Inv, UNCHANGED <<st, loop, pending, network, hook, delivered, listed>>,
         gate = "manager" \/ gate = "none", gate' = "manager",
         manager' \in ManagerLocals, MergeInv',
         manager'.copy.health = st.health, manager'.copy.status = st.status,
         edits' \in 0..MaxEdits, edits <= edits', manager'.copy.revision <= edits',
         manager'.pc # "commit" => manager'.copy.revision < edits',
         disk' \in Files, torn' \in BOOLEAN,
         inbox' \in Seq(Requests), reply' \in [Threads -> Replies], faults' \in 0..MaxFaults
  PROVE  Inv'
<1>1. loop.pc = "sleep"
  BY DEF Inv, GateInv
<1>2. GateInv' /\ BreakingInv'
  BY <1>1 DEF GateInv, BreakingInv
<1>3. TypeOK'
  BY DEF Inv, TypeOK, Threads
<1>4. RevisionInv'
  <2>1. st.revision \in Nat /\ edits \in Nat /\ edits' \in Nat /\ st.revision <= edits
    BY BoundsAssumption DEF Inv, TypeOK, States, RevisionInv
  <2>2. QED
    BY <2>1 DEF RevisionInv
<1>5. QED
  BY <1>2, <1>3, <1>4 DEF Inv

LEMMA BeginInv == ASSUME Inv, AppConfigBegins \/ SettingBegins PROVE Inv'
<1>1. /\ st \in States /\ manager \in ManagerLocals /\ st.revision <= edits /\ st.revision \in Nat
      /\ disk \in Files /\ torn \in BOOLEAN
      /\ edits \in 0..MaxEdits
      /\ inbox \in Seq(Requests) /\ reply \in [Threads -> Replies] /\ faults \in 0..MaxFaults
  BY DEF Inv, TypeOK, RevisionInv, States
<1>2. /\ edits < MaxEdits /\ edits' = edits + 1 /\ gate' = "manager" /\ gate = "none" /\ ManagerOnly
      /\ UNCHANGED <<st, disk, inbox, reply, torn, faults>>
  BY DEF AppConfigBegins, SettingBegins, GateFree
<1>3. edits' \in 0..MaxEdits /\ edits <= edits' /\ st.revision < edits'
  BY <1>1, <1>2, BoundsAssumption
<1>4. manager' \in ManagerLocals /\ manager'.copy = st
  <2>1. CASE AppConfigBegins
    <3>1. PICK uids \in SUBSET Apps, controlled \in SUBSET Apps :
            manager' = [manager EXCEPT !.pc = "app", !.copy = st, !.file = disk.policy,
                                       !.records = Merged(st.records, uids, controlled)]
      BY <2>1 DEF AppConfigBegins
    <3>2. Merged(st.records, uids, controlled) \in Policies
      BY <1>1, MergedTypes DEF States
    <3>3. QED
      BY <1>1, <3>1, <3>2 DEF ManagerLocals, Files
  <2>2. CASE SettingBegins
    BY <1>1, <2>2 DEF SettingBegins, ManagerLocals
  <2>3. QED
    BY <2>1, <2>2
<1>5. MergeInv'
  <2>1. CASE AppConfigBegins
    <3>1. PICK uids \in SUBSET Apps, controlled \in SUBSET Apps :
            manager' = [manager EXCEPT !.pc = "app", !.copy = st, !.file = disk.policy,
                                       !.records = Merged(st.records, uids, controlled)]
      BY <2>1 DEF AppConfigBegins
    <3>2. manager'.records = Merged(st.records, uids, controlled)
      BY <1>1, <3>1 DEF ManagerLocals
    <3>3. QED
      BY <1>1, <1>4, <3>2, MergedExtends DEF MergeInv, States
  <2>2. CASE SettingBegins
    <3>1. manager'.pc = "settings"
      BY <1>1, <2>2 DEF SettingBegins, ManagerLocals
    <3>2. QED
      BY <3>1 DEF MergeInv
  <2>3. QED
    BY <2>1, <2>2
<1>6. QED
  BY <1>1, <1>2, <1>3, <1>4, <1>5, CommandStepInv DEF ManagerOnly

(* Committing counts at most one revision. *)
LEMMA CommittedTypes ==
  ASSUME NEW copy \in States, NEW records \in Policies, NEW settings \in Settings,
         edits \in 0..MaxEdits, copy.revision < edits
  PROVE  /\ Committed(copy, records, settings) \in States
         /\ Committed(copy, records, settings).revision <= edits
         /\ Committed(copy, records, settings).health = copy.health
         /\ Committed(copy, records, settings).status = copy.status
<1>1. copy.revision \in Nat /\ copy.revision + 1 \in 0..MaxEdits /\ copy.revision + 1 <= edits
  BY BoundsAssumption DEF States
<1> DEFINE kept == records = copy.records /\ settings = copy.settings
           revision == IF kept THEN copy.revision ELSE copy.revision + 1
<1>2. revision \in 0..MaxEdits /\ revision <= edits
  BY <1>1 DEF States
<1>3. Committed(copy, records, settings) =
        [copy EXCEPT !.records = records, !.settings = settings, !.revision = revision]
  BY DEF Committed, States
<1> HIDE DEF revision
<1>4. QED
  BY <1>2, <1>3 DEF States

LEMMA ClaimTypes ==
  ASSUME NEW copy \in States, NEW claim \in BOOLEAN
  PROVE  /\ [copy EXCEPT !.synced = claim] \in States
         /\ [copy EXCEPT !.synced = claim].revision = copy.revision
         /\ [copy EXCEPT !.synced = claim].health = copy.health
         /\ [copy EXCEPT !.synced = claim].status = copy.status
  BY DEF States

LEMMA CommandInv == ASSUME Inv, ManagerContinues PROVE Inv'
<1>1. /\ TypeOK /\ st \in States /\ manager \in ManagerLocals
      /\ manager.copy \in States /\ manager.records \in Policies /\ manager.settings \in Settings
      /\ disk \in Files /\ torn \in BOOLEAN
      /\ edits \in 0..MaxEdits /\ edits <= edits
      /\ inbox \in Seq(Requests) /\ reply \in [Threads -> Replies] /\ faults \in 0..MaxFaults
      /\ "manager" \in Threads
  BY DEF Inv, TypeOK, ManagerLocals, Threads
<1>2. /\ gate = "manager"
      /\ manager.copy.health = st.health /\ manager.copy.status = st.status
      /\ manager.copy.revision <= edits
      /\ manager.pc # "commit" => manager.copy.revision < edits
  BY <1>1 DEF Inv, GateInv, RevisionInv, ManagerContinues, AppConfigPersists, AppConfigWriteFails,
     AppConfigAccepted, AppConfigRollsBack, AppConfigRolledBack, SettingPersists, ManagerCommits,
     ManagerLocals
<1>3. manager.pc = "app" => NewLines \in Policies
  <2>1. manager.file \in {NoFile} \cup Policies /\ manager.copy.records \in Policies
    BY <1>1 DEF ManagerLocals, States
  <2>2. QED
    BY <1>1, <2>1, LinesTypes DEF NewLines, Inv, MergeInv
<1>0. MergeInv'
  <2>1. manager'.pc # "app"
    <3>1. ASSUME AppConfigPersists \/ AppConfigRolledBack PROVE manager'.pc \in {"send", "commit"}
      BY <1>1, <3>1 DEF AppConfigPersists, AppConfigRolledBack, ManagerLocals
    <3>2. ASSUME AppConfigWriteFails \/ AppConfigAccepted PROVE manager'.pc = "commit"
      BY <1>1, <3>2 DEF AppConfigWriteFails, AppConfigAccepted, ManagerLocals
    <3>3. ASSUME AppConfigRollsBack PROVE manager'.pc = "rollback"
      BY <1>1, <3>3 DEF AppConfigRollsBack, ManagerLocals
    <3>4. ASSUME SettingPersists PROVE manager'.pc = "commit"
      BY <1>1, <3>4 DEF SettingPersists, ManagerLocals
    <3>5. ASSUME ManagerCommits PROVE manager'.pc = "idle"
      BY <3>5 DEF ManagerCommits, IdleManager
    <3>6. QED
      BY <3>1, <3>2, <3>3, <3>4, <3>5 DEF ManagerContinues
  <2>2. QED
    BY <2>1 DEF MergeInv
<1>4. CASE AppConfigPersists
  <2>1. manager.copy.settings \in Settings
    BY <1>1 DEF States
  <2>2. inbox' \in Seq(Requests) /\ reply' \in [Threads -> Replies] /\ faults' \in 0..MaxFaults
    BY <1>1, <1>4, <2>1, ControlledTypes, SendTypes DEF AppConfigPersists, SendConfig
  <2>3. disk' \in Files
    BY <1>1, <1>3, <1>4 DEF AppConfigPersists, Files
  <2>4. manager' \in ManagerLocals /\ manager'.copy = manager.copy
    BY <1>1, <1>4 DEF AppConfigPersists, ManagerLocals
  <2>5. manager.pc # "commit"
    BY <1>4 DEF AppConfigPersists
  <2>6. QED
    BY <1>1, <1>2, <1>4, <2>2, <2>3, <2>4, <2>5, <1>0, CommandStepInv DEF AppConfigPersists, ManagerOnly
<1>5. CASE AppConfigWriteFails
  <2>1. PICK now \in Written(disk.policy, NewLines) :
          /\ disk' = [disk EXCEPT !.policy = now]
          /\ manager' = [manager EXCEPT !.pc = "commit",
                           !.copy = [AppConfigAfterError(now) EXCEPT !.synced = FALSE]]
    BY <1>5 DEF AppConfigWriteFails
  <2>2. disk' \in Files
    BY <1>1, <1>3, <1>5, <2>1 DEF AppConfigWriteFails, Written, Files
  <2> DEFINE copy == AppConfigAfterError(now)
  <2>3. /\ copy \in States /\ copy.revision <= edits
        /\ copy.health = st.health /\ copy.status = st.status
    <3>1. manager.copy.settings \in Settings /\ manager.copy.revision < edits
      BY <1>1, <1>2, <1>5 DEF AppConfigWriteFails, States
    <3>2. QED
      BY <1>1, <1>2, <3>1, CommittedTypes DEF AppConfigAfterError
  <2>4. manager' \in ManagerLocals /\ manager'.copy = [copy EXCEPT !.synced = FALSE]
        /\ manager'.pc = "commit"
    <3>1. [copy EXCEPT !.synced = FALSE] \in States
      BY <2>3, ClaimTypes
    <3>2. QED
      BY <1>1, <2>1, <3>1 DEF ManagerLocals
  <2>5. /\ manager'.copy.revision <= edits
        /\ manager'.copy.health = st.health /\ manager'.copy.status = st.status
    BY <2>3, <2>4, ClaimTypes
  <2>6. faults' \in 0..MaxFaults
    BY <1>1, <1>5, BoundsAssumption DEF AppConfigWriteFails, Fault
  <2>7. QED
    BY <1>1, <1>2, <1>5, <2>2, <2>4, <2>5, <2>6, <1>0, CommandStepInv DEF AppConfigWriteFails, ManagerOnly
<1>6. CASE AppConfigAccepted
  <2>1. inbox' \in Seq(Requests) /\ reply' \in [Threads -> Replies] /\ faults' \in 0..MaxFaults
    BY <1>1, <1>6, ConsumeTypes DEF AppConfigAccepted
  <2> DEFINE copy == Committed(manager.copy, manager.records, manager.copy.settings)
  <2>2. /\ copy \in States /\ copy.revision <= edits
        /\ copy.health = st.health /\ copy.status = st.status
    <3>1. manager.copy.settings \in Settings /\ manager.copy.revision < edits
      BY <1>1, <1>2, <1>6 DEF AppConfigAccepted, States
    <3>2. QED
      BY <1>1, <1>2, <3>1, CommittedTypes
  <2>3. manager' = [manager EXCEPT !.pc = "commit", !.copy = [copy EXCEPT !.synced = TRUE]]
    BY <1>1, <1>6 DEF AppConfigAccepted, ManagerLocals
  <2> HIDE DEF copy
  <2>4. manager' \in ManagerLocals /\ manager'.copy = [copy EXCEPT !.synced = TRUE]
        /\ manager'.pc = "commit"
    <3>1. [copy EXCEPT !.synced = TRUE] \in States
      BY <2>2, ClaimTypes
    <3>2. QED
      BY <1>1, <2>3, <3>1 DEF ManagerLocals
  <2>5. /\ manager'.copy.revision <= edits
        /\ manager'.copy.health = st.health /\ manager'.copy.status = st.status
    BY <2>2, <2>4, ClaimTypes
  <2>6. QED
    BY <1>1, <1>2, <1>6, <2>1, <2>4, <2>5, <1>0, CommandStepInv DEF AppConfigAccepted, ManagerOnly
<1>7. CASE AppConfigRollsBack
  <2>1. inbox' \in Seq(Requests) /\ reply' \in [Threads -> Replies] /\ faults' \in 0..MaxFaults
    BY <1>1, <1>7, PayloadTypes, SendTypes DEF AppConfigRollsBack, SendConfig
  <2>2. disk' \in Files /\ torn' \in BOOLEAN
    BY <1>1, <1>7 DEF AppConfigRollsBack, ManagerLocals, Written, Files
  <2>3. manager' = [manager EXCEPT !.pc = "rollback",
                                   !.copy = [manager.copy EXCEPT !.synced = FALSE]]
    BY <1>1, <1>7 DEF AppConfigRollsBack, ManagerLocals
  <2>4. [manager.copy EXCEPT !.synced = FALSE] \in States
    BY <1>1, ClaimTypes
  <2>5. manager' \in ManagerLocals /\ manager'.copy = [manager.copy EXCEPT !.synced = FALSE]
    BY <1>1, <2>3, <2>4 DEF ManagerLocals
  <2>6. manager.pc # "commit"
    BY <1>7 DEF AppConfigRollsBack
  <2>7. /\ manager'.copy.revision < edits
        /\ manager'.copy.health = st.health /\ manager'.copy.status = st.status
    BY <1>1, <1>2, <2>5, <2>6, ClaimTypes
  <2>8. manager'.copy.revision <= edits
    BY <1>1, <1>2, <2>5, ClaimTypes
  <2>9. QED
    BY <1>1, <1>2, <1>7, <2>1, <2>2, <2>5, <2>7, <2>8, <1>0, CommandStepInv
    DEF AppConfigRollsBack, ManagerOnly
<1>8. CASE AppConfigRolledBack
  <2>1. inbox' \in Seq(Requests) /\ reply' \in [Threads -> Replies] /\ faults' \in 0..MaxFaults
    BY <1>1, <1>8, ConsumeTypes DEF AppConfigRolledBack
  <2>2. manager' \in ManagerLocals /\ manager'.copy = manager.copy /\ manager'.pc = "commit"
    BY <1>1, <1>8 DEF AppConfigRolledBack, ManagerLocals
  <2>3. QED
    BY <1>1, <1>2, <1>8, <2>1, <2>2, <1>0, CommandStepInv DEF AppConfigRolledBack, ManagerOnly
<1>9. CASE SettingPersists
  <2>1. PICK now \in Written(disk.settings, manager.settings) :
          /\ now # manager.settings => Fault
          /\ now = manager.settings => UNCHANGED faults
          /\ disk' = [disk EXCEPT !.settings = now]
          /\ manager' = [manager EXCEPT !.pc = "commit",
               !.copy = Unclaimed(IF now = manager.settings
                                  THEN Committed(@, @.records, now) ELSE @)]
    BY <1>9 DEF SettingPersists
  <2>2. now \in Settings /\ disk' \in Files
    BY <1>1, <2>1 DEF Written, Files
  <2>3. faults' \in 0..MaxFaults
    BY <1>1, <2>1, BoundsAssumption DEF Fault
  <2> DEFINE copy == IF now = manager.settings
                     THEN Committed(manager.copy, manager.copy.records, now) ELSE manager.copy
  <2>4. /\ copy \in States /\ copy.revision <= edits
        /\ copy.health = st.health /\ copy.status = st.status
    <3>1. manager.copy.records \in Policies /\ manager.copy.revision < edits
      BY <1>1, <1>2, <1>9 DEF SettingPersists, States
    <3>2. QED
      BY <1>1, <1>2, <2>2, <3>1, CommittedTypes
  <2>5. manager' = [manager EXCEPT !.pc = "commit", !.copy = [copy EXCEPT !.synced = FALSE]]
    BY <1>1, <2>1 DEF ManagerLocals, Unclaimed
  <2> HIDE DEF copy
  <2>6. manager' \in ManagerLocals /\ manager'.copy = [copy EXCEPT !.synced = FALSE]
        /\ manager'.pc = "commit"
    <3>1. [copy EXCEPT !.synced = FALSE] \in States
      BY <2>4, ClaimTypes
    <3>2. QED
      BY <1>1, <2>5, <3>1 DEF ManagerLocals
  <2>7. /\ manager'.copy.revision <= edits
        /\ manager'.copy.health = st.health /\ manager'.copy.status = st.status
    BY <2>4, <2>6, ClaimTypes
  <2>8. QED
    BY <1>1, <1>2, <1>9, <2>2, <2>3, <2>6, <2>7, <1>0, CommandStepInv DEF SettingPersists, ManagerOnly
<1>10. CASE ManagerCommits
  <2>1. st' \in States /\ st'.revision <= edits /\ manager' = IdleManager(st')
    BY <1>1, <1>2, <1>10 DEF ManagerCommits
  <2>2. manager' \in ManagerLocals /\ manager'.pc = "idle" /\ manager'.copy = st'
    <3>1. IdleManager(st').pc = "idle" /\ IdleManager(st').copy = st'
      BY DEF IdleManager
    <3>2. QED
      BY <2>1, <3>1, RestingTypes
  <2>3. loop.pc = "sleep" /\ loop' = loop
    BY <1>2, <1>10 DEF Inv, GateInv, ManagerCommits, ManagerOnly
  <2>4. TypeOK'
    BY <1>10, <2>1, <2>2 DEF Inv, TypeOK, ManagerCommits, ManagerOnly
  <2>5. QED
    BY <1>10, <2>1, <2>2, <2>3, <2>4 DEF Inv, RevisionInv, GateInv, BreakingInv, MergeInv, ManagerCommits
<1>11. QED
  BY <1>4, <1>5, <1>6, <1>7, <1>8, <1>9, <1>10 DEF ManagerContinues

-----------------------------------------------------------------------------
(* A restart loads the files; requests under way are answered to nobody. *)
LEMMA RestartInv == ASSUME Inv, DaemonRestarts PROVE Inv'
<1>1. st' \in States /\ st'.revision = 0 /\ torn' \in BOOLEAN
  <2>1. PICK read \in Readings(disk) : st' = Fresh(read, listed') /\ torn' = (read # disk)
    BY DEF DaemonRestarts
  <2>2. read \in Files
    BY DefaultAssumption DEF Inv, TypeOK, Files, Readings, Read
  <2>3. QED
    BY <2>1, <2>2, FreshTypes
<1>2. loop' \in LoopLocals /\ manager' \in ManagerLocals
  BY <1>1, RestingTypes DEF DaemonRestarts
<1>3. loop'.pc = "start" /\ gate' = "loop" /\ manager'.pc = "idle" /\ manager'.copy = st'
  <2>1. IdleManager(st').pc = "idle" /\ IdleManager(st').copy = st'
    BY DEF IdleManager
  <2>2. QED
    BY <1>1, <2>1, RestingTypes DEF DaemonRestarts
<1>4. inbox' \in Seq(Requests)
  <2>1. DOMAIN inbox = 1..Len(inbox) /\ Len(inbox) \in Nat
    BY DEF Inv, TypeOK
  <2>2. ASSUME NEW i \in 1..Len(inbox) PROVE [inbox[i] EXCEPT !.from = "gone"] \in Requests
    <3>1. inbox[i] \in Requests
      BY DEF Inv, TypeOK
    <3>2. QED
      BY <3>1 DEF Requests
  <2>3. inbox' \in [1..Len(inbox) -> Requests]
    BY <2>1, <2>2 DEF DaemonRestarts
  <2>4. QED
    BY <2>1, <2>3, SeqDef
<1>5. reply' \in [Threads -> Replies] /\ faults' \in 0..MaxFaults
  BY BlankTypes, BoundsAssumption DEF Inv, TypeOK, DaemonRestarts, Fault
<1>6. TypeOK'
  BY <1>1, <1>2, <1>3, <1>4, <1>5 DEF Inv, TypeOK, Threads, DaemonRestarts
<1>7. RevisionInv' /\ GateInv' /\ BreakingInv' /\ MergeInv'
  BY <1>1, <1>3 DEF Inv, TypeOK, RevisionInv, GateInv, BreakingInv, MergeInv, DaemonRestarts
<1>8. QED
  BY <1>6, <1>7 DEF Inv

LEMMA NextInv == Inv /\ [Next]_vars => Inv'
<1> SUFFICES ASSUME Inv, [Next]_vars PROVE Inv'
  OBVIOUS
<1>1. CASE UNCHANGED vars
  BY <1>1 DEF Inv, TypeOK, RevisionInv, GateInv, BreakingInv, MergeInv, vars
<1>2. QED
  BY <1>1, LoopInv, BeginInv, CommandInv, HookInv, RestartInv DEF Next, ManagerBegins

LEMMA Invariance == Spec => []Inv
  BY InitInv, NextInv, PTL DEF Spec

-----------------------------------------------------------------------------
(* Every variable keeps its type, for any number of apps, commands and       *)
(* failures (the states of sys/socket.rs, manager_v1.rs and the hook).       *)
THEOREM TypeCorrect == Spec => []TypeOK
<1>1. Inv => TypeOK
  BY DEF Inv
<1>2. QED
  BY <1>1, Invariance, PTL

(* The whole state a command writes back undoes nothing the control loop has *)
(* written since the command took its copy: the policy gate keeps the loop   *)
(* asleep in between (with_manager_state_after_request_read).                *)
THEOREM NothingLostCorrect == Spec => NothingLost
<1>1. Inv /\ ManagerCommits => st'.health = st.health /\ st'.status = st.status
  BY DEF Inv, GateInv, ManagerCommits
<1>2. Inv /\ [Next]_vars =>
        [ManagerCommits => st'.health = st.health /\ st'.status = st.status]_vars
  BY <1>1
<1>3. QED
  BY <1>2, Invariance, PTL DEF Spec, NothingLost

-----------------------------------------------------------------------------
(* Breaks of networks.  The loop waits for at most one request, the one it   *)
(* is about; a break answered "ok" has been carried out; whatever was taken  *)
(* from the queue has been carried out, has failed or is still to be asked.  *)

FromLoop(i) == inbox[i].from = "loop"

AskInv ==
  /\ reply["loop"].is = "waiting" =>
       loop.pc \in {"startHealth", "startConfig", "config", "health", "foreground", "pending",
                   "breaking"}
  /\ \A i \in DOMAIN inbox : FromLoop(i) =>
       /\ reply["loop"].is = "waiting"
       /\ \A j \in DOMAIN inbox : FromLoop(j) => i = j
       /\ loop.pc = "breaking" => inbox[i].cmd = "BreakNetwork" /\ inbox[i].uids = {NextBreak}

DeliveryInv ==
  /\ loop.pc = "breaking" /\ reply["loop"].is = "ok" => NextBreak \in delivered
  /\ loop.pc \in {"pending", "break", "breaking"} =>
       loop.taken \subseteq delivered \cup loop.todo \cup loop.failed

BreakInv == AskInv /\ DeliveryInv

LEMMA AppendFacts ==
  ASSUME TypeOK, NEW r \in Requests, inbox' = Append(inbox, r)
  PROVE  /\ DOMAIN inbox' = DOMAIN inbox \cup {Len(inbox) + 1}
         /\ Len(inbox) + 1 \notin DOMAIN inbox
         /\ inbox'[Len(inbox) + 1] = r
         /\ \A i \in DOMAIN inbox : inbox'[i] = inbox[i]
  BY DEF TypeOK

LEMMA TailFacts ==
  ASSUME TypeOK, inbox # <<>>, inbox' = Tail(inbox)
  PROVE  /\ 1 \in DOMAIN inbox /\ Request = inbox[1]
         /\ \A i \in DOMAIN inbox' : /\ i \in Nat /\ i # 0
                                     /\ i + 1 \in DOMAIN inbox /\ inbox'[i] = inbox[i + 1]
  BY DEF TypeOK, Request

(* The loop asks when nothing of its own is under way. *)
LEMMA LoopSends ==
  ASSUME TypeOK, AskInv, reply["loop"].is # "waiting",
         NEW cmd, NEW uids \in SUBSET Apps, NEW settings,
         \/ cmd = "SetConfig" /\ settings \in Settings
         \/ cmd \in Commands \ {"SetConfig"} /\ settings = NoConfig,
         Send("loop", cmd, uids, settings),
         loop'.pc \in {"startHealth", "startConfig", "config", "health", "foreground", "pending",
                       "breaking"},
         loop'.pc = "breaking" => cmd = "BreakNetwork" /\ uids = {NextBreak'}
  PROVE  AskInv' /\ reply'["loop"].is # "ok"
<1> DEFINE r == [cmd |-> cmd, uids |-> uids, settings |-> settings, from |-> "loop"]
<1>1. r \in Requests
  BY DEF Requests, Threads
<1>2. \A i \in DOMAIN inbox : ~ FromLoop(i)
  BY DEF AskInv
<1>3. reply \in [Threads -> Replies] /\ "loop" \in Threads
  BY DEF TypeOK, Threads
<1>4. CASE inbox' = Append(inbox, r) /\ reply' = [reply EXCEPT !["loop"] = Waiting]
  <2>1. reply'["loop"].is = "waiting"
    BY <1>3, <1>4 DEF Waiting
  <2>2. \A i \in DOMAIN inbox' : inbox'[i].from = "loop" => i = Len(inbox) + 1
    BY <1>1, <1>2, <1>4, AppendFacts DEF FromLoop
  <2>3. inbox'[Len(inbox) + 1] = r
    BY <1>1, <1>4, AppendFacts
  <2>4. QED
    BY <2>1, <2>2, <2>3 DEF AskInv, FromLoop
<1>5. CASE inbox' = inbox /\ reply' = [reply EXCEPT !["loop"] = Answer("error", {})]
  <2>1. reply'["loop"].is = "error"
    BY <1>3, <1>5 DEF Answer
  <2>2. QED
    BY <1>2, <1>5, <2>1 DEF AskInv, FromLoop
<1>6. QED
  BY <1>4, <1>5 DEF Send, CannotConnect

(* The loop goes on without a request of its own under way. *)
LEMMA LoopRests ==
  ASSUME TypeOK, AskInv, reply["loop"].is # "waiting",
         Consume("loop") \/ UNCHANGED <<inbox, reply>>
  PROVE  AskInv' /\ (Consume("loop") => reply'["loop"].is = "idle")
<1>1. reply \in [Threads -> Replies] /\ "loop" \in Threads
  BY DEF TypeOK, Threads
<1>2. inbox' = inbox /\ reply'["loop"].is # "waiting"
      /\ (Consume("loop") => reply'["loop"].is = "idle")
  BY <1>1 DEF Consume, Idle
<1>3. QED
  BY <1>2 DEF AskInv, FromLoop

LEMMA LoopBreakInv == ASSUME Inv, BreakInv, Loop PROVE BreakInv'
<1>1. /\ TypeOK /\ AskInv /\ DeliveryInv /\ loop \in LoopLocals /\ st \in States
      /\ network \in SUBSET Apps /\ pending \in SUBSET Apps
      /\ {} \in SUBSET Apps
  BY DEF Inv, TypeOK, BreakInv
<1>2. Answered("loop") => reply["loop"].is # "waiting"
  BY DEF Answered
<1>3. loop.pc \in {"start", "sleep", "pass", "drain", "break"} => reply["loop"].is # "waiting"
  BY <1>1 DEF AskInv
<1>4. CASE LoopPrepares
  <2>1. AskInv' /\ reply'["loop"].is # "ok"
    BY <1>1, <1>3, <1>4, PayloadTypes, LoopSends DEF LoopPrepares, SendConfig, LoopLocals
  <2>2. loop'.pc = "config"
    BY <1>1, <1>4 DEF LoopPrepares, LoopLocals
  <2>3. QED
    BY <2>1, <2>2 DEF BreakInv, DeliveryInv
<1>5. CASE LoopConfigAnswered
  <2>1. loop'.pc = "health"
    BY <1>1, <1>5 DEF LoopConfigAnswered, LoopLocals
  <2>2. AskInv' /\ reply'["loop"].is # "ok"
    BY <1>1, <1>2, <1>5, <2>1, LoopSends DEF LoopConfigAnswered, Commands
  <2>3. QED
    BY <2>1, <2>2 DEF BreakInv, DeliveryInv
<1>6. CASE LoopApplies
  <2>1. AskInv'
    BY <1>1, <1>2, <1>6, LoopRests DEF LoopApplies
  <2>2. loop'.pc = "pass"
    BY <1>1, <1>6 DEF LoopApplies, LoopLocals
  <2>3. QED
    BY <2>1, <2>2 DEF BreakInv, DeliveryInv
<1>7. CASE LoopStartsPass
  <2>1. loop'.pc = "foreground"
    BY <1>1, <1>7 DEF LoopStartsPass, LoopLocals
  <2>2. AskInv' /\ reply'["loop"].is # "ok"
    BY <1>1, <1>3, <1>7, <2>1, LoopSends DEF LoopStartsPass, Commands
  <2>3. QED
    BY <2>1, <2>2 DEF BreakInv, DeliveryInv
<1>8. CASE LoopDisabled
  <2>1. AskInv'
    BY <1>1, <1>3, <1>8, LoopRests DEF LoopDisabled
  <2>2. loop'.pc = "drain"
    BY <1>1, <1>8 DEF LoopDisabled, LoopLocals
  <2>3. QED
    BY <2>1, <2>2 DEF BreakInv, DeliveryInv
<1>9. CASE LoopPasses
  <2>1. AskInv'
    BY <1>1, <1>9, LoopRests DEF LoopPasses
  <2>2. loop'.pc = "drain"
    BY <1>1, <1>9 DEF LoopPasses, LoopLocals
  <2>3. QED
    BY <2>1, <2>2 DEF BreakInv, DeliveryInv
<1>10. CASE LoopSkipsPass
  <2>1. AskInv'
    BY <1>1, <1>2, <1>10, LoopRests DEF LoopSkipsPass
  <2>2. loop'.pc = "drain"
    BY <1>1, <1>10 DEF LoopSkipsPass, LoopLocals
  <2>3. QED
    BY <2>1, <2>2 DEF BreakInv, DeliveryInv
<1>11. CASE LoopDrains
  <2>1. CASE loop.snapshot.health = "active"
    <3>1. loop'.pc = "pending" /\ loop'.taken = network /\ loop'.todo = network
      BY <1>1, <1>11, <2>1 DEF LoopDrains, LoopLocals
    <3>2. AskInv' /\ reply'["loop"].is # "ok"
      BY <1>1, <1>3, <1>11, <2>1, <3>1, LoopSends DEF LoopDrains, Commands
    <3>3. QED
      BY <3>1, <3>2 DEF BreakInv, DeliveryInv
  <2>2. CASE loop.snapshot.health # "active"
    <3>1. loop'.pc = "break" /\ loop'.taken = network /\ loop'.failed = network
      BY <1>1, <1>11, <2>2 DEF LoopDrains, LoopLocals
    <3>2. AskInv'
      BY <1>1, <1>3, <1>11, <2>2, LoopRests DEF LoopDrains
    <3>3. QED
      BY <3>1, <3>2 DEF BreakInv, DeliveryInv
  <2>3. QED
    BY <2>1, <2>2
<1>12. CASE LoopPendingAnswered
  <2>1. AskInv'
    BY <1>1, <1>2, <1>12, LoopRests DEF LoopPendingAnswered
  <2>2. loop' = [loop EXCEPT !.pc = "break"] /\ delivered' = delivered /\ loop.pc = "pending"
    BY <1>12 DEF LoopPendingAnswered, LoopOnly
  <2>3. QED
    BY <1>1, <2>1, <2>2 DEF BreakInv, DeliveryInv, LoopLocals
<1>13. CASE LoopBreaks
  <2>1. loop' = [loop EXCEPT !.pc = "breaking"] /\ delivered' = delivered /\ loop.pc = "break"
    BY <1>13 DEF LoopBreaks, LoopOnly
  <2>2. loop'.pc = "breaking" /\ loop'.todo = loop.todo /\ loop'.taken = loop.taken
        /\ loop'.failed = loop.failed
    BY <1>1, <2>1 DEF LoopLocals
  <2>3. NextBreak' = NextBreak /\ {NextBreak} \in SUBSET Apps
    <3>1. NextBreak \in loop.todo
      BY <1>13 DEF LoopBreaks, NextBreak
    <3>2. QED
      BY <1>1, <2>2, <3>1 DEF NextBreak, LoopLocals
  <2>4. AskInv' /\ reply'["loop"].is # "ok"
    BY <1>1, <1>3, <1>13, <2>1, <2>2, <2>3, LoopSends DEF LoopBreaks, Commands
  <2>5. QED
    BY <1>1, <2>1, <2>2, <2>4 DEF BreakInv, DeliveryInv
<1>14. CASE LoopBreakAnswered
  <2>1. AskInv'
    BY <1>1, <1>2, <1>14, LoopRests DEF LoopBreakAnswered
  <2>2. /\ loop.pc = "breaking" /\ delivered' = delivered /\ loop'.pc = "break"
        /\ loop'.taken = loop.taken /\ loop'.todo = loop.todo \ {NextBreak}
        /\ loop'.failed = IF reply["loop"].is = "ok" THEN loop.failed
                          ELSE loop.failed \cup {NextBreak}
    BY <1>1, <1>14 DEF LoopBreakAnswered, LoopOnly, LoopLocals
  <2>3. QED
    BY <1>1, <2>1, <2>2 DEF BreakInv, DeliveryInv
<1>15. CASE LoopFinishes
  <2>1. AskInv'
    BY <1>1, <1>3, <1>15, LoopRests DEF LoopFinishes
  <2>2. loop'.pc = "sleep"
    BY <1>15 DEF LoopFinishes, SleepingLoop
  <2>3. QED
    BY <2>1, <2>2 DEF BreakInv, DeliveryInv
<1>16. CASE StartAsks
  <2>1. loop'.pc = "startHealth"
    BY <1>1, <1>16 DEF StartAsks, LoopLocals
  <2>2. AskInv' /\ reply'["loop"].is # "ok"
    BY <1>1, <1>3, <1>16, <2>1, LoopSends DEF StartAsks, Commands
  <2>3. QED
    BY <2>1, <2>2 DEF BreakInv, DeliveryInv
<1>17. CASE StartSyncs
  <2>1. loop'.pc = "startConfig"
    BY <1>1, <1>17 DEF StartSyncs, LoopLocals
  <2>2. AskInv' /\ reply'["loop"].is # "ok"
    BY <1>1, <1>2, <1>17, <2>1, PayloadTypes, LoopSends DEF StartSyncs, SendConfig
  <2>3. QED
    BY <2>1, <2>2 DEF BreakInv, DeliveryInv
<1>18. CASE StartServes
  <2>1. AskInv'
    BY <1>1, <1>2, <1>18, LoopRests DEF StartServes
  <2>2. loop'.pc = "sleep"
    BY <1>18 DEF StartServes, SleepingLoop
  <2>3. QED
    BY <2>1, <2>2 DEF BreakInv, DeliveryInv
<1>19. QED
  BY <1>4, <1>5, <1>6, <1>7, <1>8, <1>9, <1>10, <1>11, <1>12, <1>13, <1>14, <1>15,
     <1>16, <1>17, <1>18 DEF Loop

(* A command asks for itself: the loop's part of the bridge is as it was. *)
LEMMA CommandBreakInv ==
  ASSUME Inv, BreakInv, AppConfigBegins \/ SettingBegins \/ ManagerContinues
  PROVE  BreakInv'
<1>1. loop' = loop /\ delivered' = delivered
  BY DEF ManagerOnly, AppConfigBegins, SettingBegins, ManagerContinues, AppConfigPersists,
     AppConfigWriteFails, AppConfigAccepted, AppConfigRollsBack, AppConfigRolledBack,
     SettingPersists, ManagerCommits
<1>2. \/ inbox' = inbox
      \/ \E r \in Requests : r.from = "manager" /\ inbox' = Append(inbox, r)
  <2>1. \/ inbox' = inbox
        \/ \E payload \in Payloads :
             inbox' = Append(inbox, [cmd |-> "SetConfig", uids |-> payload.managed,
                                     settings |-> payload.settings, from |-> "manager"])
    <3>1. manager.copy \in States /\ Controlled(manager.records) \in SUBSET Apps
      BY ControlledTypes DEF Inv, TypeOK, ManagerLocals
    <3>2. [managed |-> Controlled(manager.records), settings |-> manager.copy.settings] \in Payloads
      BY <3>1 DEF States, Payloads
    <3>3. CASE AppConfigPersists
      BY <3>2, <3>3 DEF AppConfigPersists, SendConfig, Send, CannotConnect
    <3>4. CASE AppConfigRollsBack
      BY <3>1, <3>4, PayloadTypes DEF AppConfigRollsBack, SendConfig, Send, CannotConnect
    <3>5. QED
      BY <3>3, <3>4 DEF AppConfigBegins, SettingBegins, ManagerContinues, AppConfigWriteFails,
         AppConfigAccepted, AppConfigRolledBack, SettingPersists, ManagerCommits, Consume
  <2>2. \A payload \in Payloads :
          [cmd |-> "SetConfig", uids |-> payload.managed, settings |-> payload.settings,
           from |-> "manager"] \in Requests
    BY DEF Payloads, Requests, Threads
  <2>3. QED
    BY <2>1, <2>2
<1>3. reply'["loop"] = reply["loop"]
  <2>1. reply \in [Threads -> Replies] /\ "loop" \in Threads
    BY DEF Inv, TypeOK, Threads
  <2>2. reply' = reply \/ \E answer : reply' = [reply EXCEPT !["manager"] = answer]
    BY DEF AppConfigBegins, SettingBegins, ManagerContinues, AppConfigPersists, AppConfigWriteFails,
       AppConfigAccepted, AppConfigRollsBack, AppConfigRolledBack, SettingPersists, ManagerCommits,
       Consume, SendConfig, Send, CannotConnect
  <2>3. QED
    BY <2>1, <2>2
<1>4. DeliveryInv' /\ NextBreak' = NextBreak
  BY <1>1, <1>3 DEF BreakInv, DeliveryInv, NextBreak
<1>5. AskInv'
  <2>1. CASE inbox' = inbox
    BY <1>1, <1>3, <1>4, <2>1 DEF BreakInv, AskInv, FromLoop
  <2>2. CASE \E r \in Requests : r.from = "manager" /\ inbox' = Append(inbox, r)
    <3>1. PICK r \in Requests : r.from = "manager" /\ inbox' = Append(inbox, r)
      BY <2>2
    <3>2. \A i \in DOMAIN inbox' :
            inbox'[i].from = "loop" => i \in DOMAIN inbox /\ inbox'[i] = inbox[i]
      BY <3>1, AppendFacts DEF Inv
    <3>3. QED
      BY <1>1, <1>3, <1>4, <3>2 DEF BreakInv, AskInv, FromLoop
  <2>3. QED
    BY <1>2, <2>1, <2>2
<1>6. QED
  BY <1>4, <1>5 DEF BreakInv

(* The hook answers the request it has served and no other. *)
LEMMA ServesAsk ==
  ASSUME TypeOK, AskInv, NEW cmd, NEW answer, answer.is # "waiting", Serves(cmd, answer),
         loop' = loop
  PROVE  /\ AskInv'
         /\ \/ reply'["loop"] = reply["loop"]
            \/ /\ reply'["loop"] = answer
               /\ loop.pc = "breaking" => cmd = "BreakNetwork" /\ Request.uids = {NextBreak}
<1>1. /\ inbox # <<>> /\ inbox' = Tail(inbox) /\ Request.cmd = cmd
      /\ reply'["loop"] = IF Request.from = "loop" THEN answer ELSE reply["loop"]
  BY DEF Serves, Threads
<1>2. NextBreak' = NextBreak
  BY DEF NextBreak
<1>3. CASE Request.from = "loop"
  <2>1. \A i \in DOMAIN inbox : FromLoop(i) => i = 1
    BY <1>1, <1>3, TailFacts DEF AskInv, FromLoop
  <2>2. \A i \in DOMAIN inbox' : inbox'[i].from # "loop"
    <3>1. SUFFICES ASSUME NEW i \in DOMAIN inbox', inbox'[i].from = "loop" PROVE FALSE
      OBVIOUS
    <3>2. i \in Nat /\ i # 0 /\ i + 1 \in DOMAIN inbox /\ FromLoop(i + 1)
      BY <1>1, <3>1, TailFacts DEF FromLoop
    <3>3. QED
      BY <2>1, <3>2
  <2>3. loop.pc = "breaking" => cmd = "BreakNetwork" /\ Request.uids = {NextBreak}
    BY <1>1, <1>3, TailFacts DEF AskInv, FromLoop
  <2>4. QED
    BY <1>1, <1>3, <2>2, <2>3 DEF AskInv, FromLoop
<1>4. CASE Request.from # "loop"
  <2>1. \A i \in DOMAIN inbox' : i \in Nat /\ i + 1 \in DOMAIN inbox /\ inbox'[i] = inbox[i + 1]
    BY <1>1, TailFacts
  <2>2. ASSUME NEW i \in DOMAIN inbox', inbox'[i].from = "loop",
               NEW j \in DOMAIN inbox', inbox'[j].from = "loop"
        PROVE  i = j
    <3>1. i + 1 = j + 1
      BY <2>1, <2>2 DEF AskInv, FromLoop
    <3>2. QED
      BY <2>1, <3>1
  <2>3. ASSUME NEW i \in DOMAIN inbox', inbox'[i].from = "loop"
        PROVE  /\ reply["loop"].is = "waiting"
               /\ loop.pc = "breaking" => inbox'[i].cmd = "BreakNetwork" /\ inbox'[i].uids = {NextBreak}
    BY <2>1, <2>3 DEF AskInv, FromLoop
  <2>4. QED
    BY <1>1, <1>2, <1>4, <2>2, <2>3 DEF AskInv, FromLoop
<1>5. QED
  BY <1>3, <1>4

LEMMA HookBreakInv ==
  ASSUME Inv, BreakInv, HookServes \/ HookFails
  PROVE  BreakInv'
<1>1. TypeOK /\ AskInv /\ DeliveryInv
  BY DEF Inv, BreakInv
<1>2. loop' = loop /\ NextBreak' = NextBreak
  BY DEF HookServes, HookFails, HookConfigures, HookReportsHealth, HookScansForeground,
     HookCannotScan, HookTakesPending, HookRefusesPending, HookBreaksNetwork, DaemonUnchanged,
     NextBreak
<1>3. \A is, uids : Answer(is, uids).is = is
  BY DEF Answer
<1>4. CASE HookBreaksNetwork
  <2>1. PICK is \in {"ok", "rejected"} :
          /\ Serves("BreakNetwork", Answer(is, {}))
          /\ (is = "ok") <=> (Request.uids \subseteq Managed)
    BY <1>4 DEF HookBreaksNetwork
  <2>2. delivered' = delivered \cup (Request.uids \cap Managed)
    BY <1>4 DEF HookBreaksNetwork
  <2>3. /\ AskInv'
        /\ \/ reply'["loop"] = reply["loop"]
           \/ /\ reply'["loop"] = Answer(is, {})
              /\ loop.pc = "breaking" => Request.uids = {NextBreak}
    BY <1>1, <1>2, <1>3, <2>1, ServesAsk
  <2>4. QED
    BY <1>1, <1>2, <1>3, <2>1, <2>2, <2>3 DEF BreakInv, DeliveryInv
<1>5. ASSUME NEW cmd, NEW answer, Serves(cmd, answer), answer.is # "waiting",
             cmd = "BreakNetwork" => answer.is # "ok", delivered' = delivered
      PROVE  BreakInv'
  <2>1. /\ AskInv'
        /\ \/ reply'["loop"] = reply["loop"]
           \/ reply'["loop"] = answer /\ (loop.pc = "breaking" => cmd = "BreakNetwork")
    BY <1>1, <1>2, <1>5, ServesAsk
  <2>2. QED
    BY <1>1, <1>2, <1>5, <2>1 DEF BreakInv, DeliveryInv
<1>6. CASE HookConfigures
  BY <1>3, <1>5, <1>6 DEF HookConfigures
<1>7. CASE HookReportsHealth
  BY <1>3, <1>5, <1>7 DEF HookReportsHealth
<1>8. CASE HookScansForeground
  BY <1>3, <1>5, <1>8 DEF HookScansForeground
<1>9. CASE HookCannotScan
  BY <1>3, <1>5, <1>9 DEF HookCannotScan
<1>10. CASE HookTakesPending
  BY <1>3, <1>5, <1>10 DEF HookTakesPending
<1>11. CASE HookRefusesPending
  BY <1>3, <1>5, <1>11 DEF HookRefusesPending
<1>12. CASE HookFails
  BY <1>3, <1>5, <1>12 DEF HookFails
<1>13. QED
  BY <1>4, <1>6, <1>7, <1>8, <1>9, <1>10, <1>11, <1>12 DEF HookServes

(* A deadline or a restart: nothing of the loop's is under way any more. *)
LEMMA FaultBreakInv ==
  ASSUME Inv, BreakInv, HookRestarts \/ DaemonRestarts \/ \E t \in Threads : RequestTimesOut(t)
  PROVE  BreakInv'
<1>1. /\ TypeOK /\ AskInv /\ DeliveryInv
      /\ reply \in [Threads -> Replies] /\ "loop" \in Threads
  BY DEF Inv, BreakInv, TypeOK, Threads
<1>2. CASE HookRestarts
  <2>1. /\ loop' = loop /\ delivered' = delivered /\ inbox' = <<>>
        /\ reply'["loop"] = reply["loop"] \/ reply'["loop"].is = "error"
        /\ reply'["loop"].is # "waiting"
    BY <1>1, <1>2 DEF HookRestarts, DaemonUnchanged, Answer
  <2>2. QED
    BY <1>1, <2>1 DEF BreakInv, AskInv, DeliveryInv, NextBreak
<1>3. CASE DaemonRestarts
  <2>1. loop'.pc = "start" /\ reply'["loop"].is = "idle"
    BY <1>1, <1>3 DEF DaemonRestarts, Starting, SleepingLoop, Idle
  <2>2. \A i \in DOMAIN inbox' : inbox'[i].from = "gone"
    <3>1. \A i \in DOMAIN inbox : inbox[i] \in Requests
      BY <1>1 DEF TypeOK
    <3>2. QED
      BY <1>3, <3>1 DEF DaemonRestarts, Requests
  <2>3. QED
    BY <2>1, <2>2 DEF BreakInv, AskInv, DeliveryInv, FromLoop
<1>4. ASSUME NEW t \in Threads, RequestTimesOut(t) PROVE BreakInv'
  <2>1. /\ loop' = loop /\ delivered' = delivered /\ NextBreak' = NextBreak
        /\ inbox' = Orphaned(t) /\ reply' = [reply EXCEPT ![t] = Answer("error", {})]
    BY <1>4 DEF RequestTimesOut, NextBreak
  <2>2. /\ DOMAIN inbox' = DOMAIN inbox
        /\ \A i \in DOMAIN inbox : /\ inbox[i].from # t => inbox'[i] = inbox[i]
                                   /\ inbox[i].from = t => inbox'[i].from = "gone"
    <3>1. \A i \in DOMAIN inbox : inbox[i] \in Requests
      BY <1>1 DEF TypeOK
    <3>2. QED
      BY <2>1, <3>1 DEF Orphaned, Requests
  <2>3. CASE t = "loop"
    <3>1. reply'["loop"].is = "error"
      BY <1>1, <2>1, <2>3 DEF Answer
    <3>2. \A i \in DOMAIN inbox' : inbox'[i].from # "loop"
      BY <2>2, <2>3
    <3>3. QED
      BY <1>1, <2>1, <3>1, <3>2 DEF BreakInv, AskInv, DeliveryInv, FromLoop
  <2>4. CASE t # "loop"
    <3>1. reply'["loop"] = reply["loop"]
      BY <1>1, <2>1, <2>4
    <3>2. \A i \in DOMAIN inbox : inbox'[i].from = "loop" => inbox'[i] = inbox[i]
      BY <2>2
    <3>3. QED
      BY <1>1, <2>1, <2>2, <3>1, <3>2 DEF BreakInv, AskInv, DeliveryInv, FromLoop
  <2>5. QED
    BY <2>3, <2>4
<1>5. QED
  BY <1>2, <1>3, <1>4

LEMMA BreakInvariance == Spec => []BreakInv
<1>1. Init => BreakInv
  <2> SUFFICES ASSUME Init PROVE BreakInv
    OBVIOUS
  <2>1. reply["loop"].is = "idle" /\ loop.pc = "start" /\ DOMAIN inbox = {}
    BY DEF Init, Idle, Starting, SleepingLoop, Threads
  <2>2. QED
    BY <2>1 DEF BreakInv, AskInv, DeliveryInv
<1>2. Inv /\ BreakInv /\ [Next]_vars => BreakInv'
  <2> SUFFICES ASSUME Inv, BreakInv, [Next]_vars PROVE BreakInv'
    OBVIOUS
  <2>1. CASE UNCHANGED vars
    BY <2>1 DEF BreakInv, AskInv, DeliveryInv, FromLoop, NextBreak, vars
  <2>2. QED
    BY <2>1, LoopBreakInv, CommandBreakInv, HookBreakInv, FaultBreakInv DEF Next, ManagerBegins
<1>3. QED
  BY <1>1, <1>2, Invariance, PTL DEF Spec

(* A network break taken from the queue has been carried out by the hook, or *)
(* is in the queue again, when the iteration ends, whatever request failed   *)
(* or timed out (spawn_control_loop, requeue_network_restriction_uid).       *)
THEOREM BreaksAreKeptCorrect == Spec => BreaksAreKept
<1>1. BreakInv /\ LoopFinishes => loop.taken \subseteq delivered \cup network'
  BY DEF BreakInv, DeliveryInv, LoopFinishes, Requeued
<1>2. BreakInv /\ [Next]_vars => [LoopFinishes => loop.taken \subseteq delivered \cup network']_vars
  BY <1>1
<1>3. QED
  BY <1>2, BreakInvariance, PTL DEF Spec, BreaksAreKept
=============================================================================
