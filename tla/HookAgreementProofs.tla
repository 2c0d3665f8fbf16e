------------------------ MODULE HookAgreementProofs ------------------------
(* Proofs that memory, files and hook agree, for any apps, settings and      *)
(* bounds.                                                                   *)
(*                                                                           *)
(* Agrees(p) speaks of the hook and of the requests that are still to reach  *)
(* it: nothing but p is in force or under way.  A thread may conclude it     *)
(* from the answer to its own request only, because its request is the last  *)
(* that arrived (LastInv): what timed out before has been served by then.    *)
(* MemoryInv carries the conclusion from the answer to the claim in memory,  *)
(* DiskInv follows the files through a command, and StatusInv what the hook  *)
(* has published since the daemon's last pass.                               *)
(*                                                                           *)
(* A file need not be the memory row by row: an inventory may not resolve    *)
(* all of its rows, and only the last record of an app counts when they are  *)
(* written.  Agree is what survives a rewrite (RewrittenAgrees).             *)
EXTENDS HookSyncProofs

Config(r) == [managed |-> r.uids, settings |-> r.settings]

\* A hook with configuration cfg, or with none, that is to be sent no other than p.
Brings(cfg, requests, p) ==
  /\ cfg \in {NoConfig, p}
  /\ \A i \in DOMAIN requests : requests[i].cmd = "SetConfig" => Config(requests[i]) = p

Agrees(p) == Brings(hook.cfg, inbox, p)

StartPcs == {"start", "startHealth", "startConfig"}
PassPcs == {"pass", "foreground", "drain", "pending", "break", "breaking"}

\* Only who has asked something has an answer to come or at hand.
RestInv ==
  /\ loop.pc \in {"start", "sleep", "pass", "drain", "break"} => reply["loop"].is = "idle"
  /\ manager.pc \notin {"send", "rollback"} => reply["manager"].is = "idle"

\* The request somebody waits for arrived last, and it is the one of his step.
LastInv ==
  \A i \in DOMAIN inbox :
    /\ inbox[i].from # "gone" => i = Len(inbox) /\ reply[inbox[i].from].is = "waiting"
    /\ inbox[i].from = "loop" /\ loop.pc \in {"config", "startConfig"} => inbox[i].cmd = "SetConfig"
    /\ inbox[i].from = "loop" /\ loop.pc = "config" => Config(inbox[i]) = loop.work
    /\ inbox[i].from = "loop" /\ loop.pc = "startConfig" => Config(inbox[i]) = Payload(st)
    /\ inbox[i].from = "manager" => inbox[i].cmd = "SetConfig"
    /\ inbox[i].from = "manager" /\ manager.pc = "send" =>
         Config(inbox[i]) = [managed |-> Controlled(manager.records), settings |-> manager.copy.settings]

\* What an accepted configuration allows its sender to conclude.
AnswerInv ==
  /\ loop.pc = "config" /\ reply["loop"].is = "ok" => Agrees(loop.work)
  /\ loop.pc = "startConfig" /\ reply["loop"].is = "ok" => Agrees(Payload(st))
  /\ manager.pc = "send" /\ reply["manager"].is = "ok" =>
       Agrees([managed |-> Controlled(manager.records), settings |-> manager.copy.settings])

\* The claim in memory, in the loop's snapshot and in the copy of a command.
MemoryInv ==
  /\ gate # "manager" /\ st.synced => Agrees(Payload(st))
  /\ loop.pc \in StartPcs => ~ st.synced /\ ~ loop.snapshot.synced
  /\ loop.pc \in {"config", "health"} => loop.work = Payload(st)
  /\ loop.pc = "health" /\ loop.accepted => Agrees(loop.work)
  /\ loop.pc \in PassPcs =>
       /\ Payload(loop.snapshot) = Payload(st)
       /\ loop.snapshot.synced => st.synced
  /\ manager.pc = "rollback" => ~ manager.copy.synced
  /\ manager.pc = "commit" /\ manager.copy.synced => Agrees(Payload(manager.copy))

AgreeInv == RestInv /\ LastInv /\ AnswerInv /\ MemoryInv

-----------------------------------------------------------------------------
\* The rows of an app that were loaded and its records: as many of each kind, and the
\* last of them says the same.
Agree(rows, records) ==
  /\ rows.name = "none" <=> records.name = "none"
  /\ Len(rows.uids) = Len(records.uids) /\ Entry(rows) = Entry(records)

\* A file whose resolved rows stand for the records, for every app.
Resolves(file, records) == \A a \in Apps : Agree(Loaded(file, listed)[a], records[a])
OnDisk(records, settings) == Resolves(disk.policy, records) /\ disk.settings = settings

\* A record of a command is the one it found or one with the mode it asks for.
Changes(new, old) == new = old \/ \E mode \in Modes : new = Requested(old, mode)

\* The files follow a command step by step: what it has written so far and, until
\* the hook has accepted, the file it can go back to.
DiskInv ==
  /\ manager.pc = "app" =>
       /\ manager.file = disk.policy
       /\ \A a \in Apps : Changes(manager.records[a], manager.copy.records[a])
  /\ ~ torn =>
       /\ gate # "manager" => OnDisk(st.records, st.settings)
       /\ manager.pc \in {"app", "settings", "rollback", "commit"} =>
            OnDisk(manager.copy.records, manager.copy.settings)
       /\ manager.pc = "send" =>
            /\ OnDisk(manager.records, manager.copy.settings)
            /\ Resolves(manager.file, manager.copy.records)
-----------------------------------------------------------------------------
(* The bridge.  A thread that asks does so alone.                            *)

Abandoned(requests) == \A i \in DOMAIN requests : requests[i].from = "gone"

\* Only r, which arrived last, is somebody's; is tells what its sender has got.
Alone(requests, r, is) ==
  \A i \in DOMAIN requests : requests[i].from # "gone" =>
    i = Len(requests) /\ requests[i] = r /\ is = "waiting"

\* Every configuration that agrees before agrees after.
Keeps(before, after) == \A cfg, p : Brings(cfg, before, p) => Brings(cfg, after, p)

LEMMA NobodyAsks ==
  ASSUME Inv, RestInv, LastInv,
         \/ gate # "manager" /\ reply["loop"].is # "waiting"
         \/ gate # "loop" /\ reply["manager"].is # "waiting"
  PROVE  Abandoned(inbox)
<1>1. \A i \in DOMAIN inbox : inbox[i].from \in {"loop", "manager", "gone"}
  BY DEF Inv, TypeOK, Requests, Threads
<1>2. reply["loop"].is # "waiting" /\ reply["manager"].is # "waiting"
  BY DEF Inv, GateInv, RestInv
<1>3. QED
  BY <1>1, <1>2 DEF LastInv, Abandoned

LEMMA Asks ==
  ASSUME TypeOK, Abandoned(inbox), NEW t \in Threads, NEW r \in Requests, r.from = t,
         Send(t, r.cmd, r.uids, r.settings)
  PROVE  /\ reply'[t].is \in {"waiting", "error"}
         /\ \A u \in Threads : u # t => reply'[u] = reply[u]
         /\ Alone(inbox', r, reply'[t].is)
         /\ r.cmd # "SetConfig" => Keeps(inbox, inbox')
         /\ \A cfg : Brings(cfg, inbox, Config(r)) => Brings(cfg, inbox', Config(r))
<1>1. r = [cmd |-> r.cmd, uids |-> r.uids, settings |-> r.settings, from |-> t]
  BY DEF Requests
<1>2. reply \in [Threads -> Replies] /\ inbox \in Seq(Requests)
  BY DEF TypeOK
<1>3. CASE inbox' = Append(inbox, r) /\ reply' = [reply EXCEPT ![t] = Waiting]
  <2>1. reply'[t].is = "waiting" /\ \A u \in Threads : u # t => reply'[u] = reply[u]
    BY <1>2, <1>3 DEF Waiting
  <2>2. /\ DOMAIN inbox' = DOMAIN inbox \cup {Len(inbox) + 1}
        /\ inbox'[Len(inbox) + 1] = r
        /\ \A i \in DOMAIN inbox : inbox'[i] = inbox[i]
    BY <1>3, AppendFacts
  <2>3. Len(inbox') = Len(inbox) + 1
    BY <1>2, <1>3
  <2>4. Alone(inbox', r, reply'[t].is)
    BY <2>1, <2>2, <2>3 DEF Abandoned, Alone
  <2>5. ASSUME NEW cfg, NEW p, Brings(cfg, inbox, p), r.cmd = "SetConfig" => p = Config(r)
        PROVE  Brings(cfg, inbox', p)
    BY <2>2, <2>5 DEF Brings
  <2>6. r.cmd # "SetConfig" => Keeps(inbox, inbox')
    BY <2>5 DEF Keeps
  <2>7. QED
    BY <2>1, <2>4, <2>5, <2>6
<1>4. CASE inbox' = inbox /\ reply' = [reply EXCEPT ![t] = Answer("error", {})]
  <2>1. reply'[t].is = "error" /\ \A u \in Threads : u # t => reply'[u] = reply[u]
    BY <1>2, <1>4 DEF Answer
  <2>2. QED
    BY <1>4, <2>1 DEF Abandoned, Alone, Keeps
<1>5. QED
  BY <1>1, <1>3, <1>4 DEF Send, CannotConnect

LEMMA Consumed ==
  ASSUME TypeOK, NEW t \in Threads, Consume(t)
  PROVE  /\ reply'[t].is = "idle" /\ inbox' = inbox
         /\ \A u \in Threads : u # t => reply'[u] = reply[u]
  BY DEF Consume, TypeOK, Idle

-----------------------------------------------------------------------------
(* The control loop: no command is in progress.                              *)

LEMMA LoopAlone ==
  ASSUME Inv, AgreeInv, Loop
  PROVE  /\ gate # "manager" /\ manager.pc = "idle" /\ reply["manager"].is = "idle"
         /\ reply["loop"].is # "waiting" => Abandoned(inbox)
<1>1. loop.pc = "sleep" => gate = "none"
  BY DEF Loop, StartAsks, StartSyncs, StartServes, LoopPrepares, LoopConfigAnswered,
         LoopApplies, LoopStartsPass, LoopDisabled, LoopPasses, LoopSkipsPass, LoopDrains,
         LoopPendingAnswered, LoopBreaks, LoopBreakAnswered, LoopFinishes, GateFree
<1>2. gate # "manager" /\ manager.pc = "idle"
  BY <1>1 DEF Inv, GateInv
<1>3. reply["manager"].is = "idle"
  BY <1>2 DEF AgreeInv, RestInv
<1>4. QED
  BY <1>2, <1>3, NobodyAsks DEF AgreeInv

(* From the health check on the configuration is not touched.                *)
LEMMA PassAgrees ==
  ASSUME Inv, AgreeInv, Loop, loop.pc \in PassPcs, reply["loop"].is # "waiting",
         UNCHANGED <<manager, hook>>, gate' # "manager",
         Payload(st') = Payload(st), st'.synced = st.synced,
         \/ loop'.pc = "sleep"
         \/ /\ loop'.pc \in PassPcs
            /\ Payload(loop'.snapshot) = Payload(loop.snapshot)
            /\ loop'.snapshot.synced = loop.snapshot.synced,
         \/ /\ loop'.pc \in {"foreground", "pending", "breaking"}
            /\ \E cmd \in Commands \ {"SetConfig"}, uids \in SUBSET Apps :
                  Send("loop", cmd, uids, NoConfig)
         \/ UNCHANGED <<inbox, reply>> /\ reply["loop"].is = "idle"
         \/ Consume("loop")
  PROVE  AgreeInv'
<1>1. /\ manager.pc = "idle" /\ gate # "manager" /\ Abandoned(inbox)
      /\ reply["manager"].is = "idle"
  BY LoopAlone
<1>2. "loop" \in Threads /\ "manager" \in Threads /\ TypeOK
  BY DEF Threads, Inv
<1>3. /\ \/ loop'.pc \in {"foreground", "pending", "breaking"}
         \/ reply'["loop"].is = "idle"
      /\ reply'["manager"] = reply["manager"]
      /\ Keeps(inbox, inbox')
      /\ Abandoned(inbox') \/ \E r : r.from = "loop" /\ Alone(inbox', r, reply'["loop"].is)
  <2>1. CASE /\ loop'.pc \in {"foreground", "pending", "breaking"}
             /\ \E cmd \in Commands \ {"SetConfig"}, uids \in SUBSET Apps :
                  Send("loop", cmd, uids, NoConfig)
    <3>1. PICK cmd \in Commands \ {"SetConfig"}, uids \in SUBSET Apps :
            Send("loop", cmd, uids, NoConfig)
      BY <2>1
    <3> DEFINE r == [cmd |-> cmd, uids |-> uids, settings |-> NoConfig, from |-> "loop"]
    <3>2. r \in Requests /\ r.from = "loop" /\ r.cmd # "SetConfig"
          /\ Send("loop", r.cmd, r.uids, r.settings)
      BY <1>2, <3>1 DEF Requests
    <3> HIDE DEF r
    <3>3. QED
      BY <1>1, <1>2, <2>1, <3>2, Asks
  <2>2. CASE UNCHANGED <<inbox, reply>> /\ reply["loop"].is = "idle"
    BY <1>1, <2>2 DEF Keeps
  <2>3. CASE Consume("loop")
    BY <1>1, <1>2, <2>3, Consumed DEF Keeps
  <2>4. QED
    BY <2>1, <2>2, <2>3
<1>4. loop'.pc \notin {"config", "startConfig", "health", "start", "startHealth"}
  BY DEF PassPcs
<1>5. RestInv'
  BY <1>1, <1>3, <1>4 DEF RestInv
<1>6. LastInv'
  BY <1>3, <1>4 DEF LastInv, Alone, Abandoned
<1>7. AnswerInv'
  BY <1>1, <1>4 DEF AnswerInv
<1>8. MemoryInv'
  <2>1. st'.synced => Brings(hook'.cfg, inbox', Payload(st'))
    BY <1>1, <1>3 DEF AgreeInv, MemoryInv, Agrees, Keeps
  <2>2. loop'.pc \in PassPcs =>
          /\ Payload(loop'.snapshot) = Payload(st')
          /\ loop'.snapshot.synced => st'.synced
    BY DEF AgreeInv, MemoryInv, PassPcs
  <2>3. QED
    BY <1>1, <1>4, <2>1, <2>2 DEF MemoryInv, Agrees, StartPcs
<1>9. QED
  BY <1>5, <1>6, <1>7, <1>8 DEF AgreeInv

LEMMA LoopTypes ==
  ASSUME Inv
  PROVE  /\ TypeOK /\ st \in States /\ loop \in LoopLocals /\ loop.snapshot \in States
         /\ Payload(st).managed \in SUBSET Apps /\ Payload(st).settings \in Settings
         /\ pending \in SUBSET Apps /\ "loop" \in Threads /\ "manager" \in Threads
  BY PayloadTypes DEF Inv, TypeOK, LoopLocals, Threads

LEMMA LoopPassAgrees ==
  ASSUME Inv, AgreeInv,
         \/ LoopStartsPass \/ LoopDisabled \/ LoopPasses \/ LoopSkipsPass \/ LoopDrains
         \/ LoopPendingAnswered \/ LoopBreaks \/ LoopBreakAnswered \/ LoopFinishes
  PROVE  AgreeInv'
<1>1. /\ TypeOK /\ st \in States /\ loop \in LoopLocals /\ loop.snapshot \in States
      /\ pending \in SUBSET Apps /\ {} \in SUBSET Apps
  BY LoopTypes
<1>2. /\ Loop /\ UNCHANGED <<manager, hook>>
  BY DEF Loop, LoopStartsPass, LoopDisabled, LoopPasses, LoopSkipsPass, LoopDrains,
         LoopPendingAnswered, LoopBreaks, LoopBreakAnswered, LoopFinishes, LoopOnly
<1>3. gate # "manager" /\ (loop.pc \in {"pass", "drain", "break"} => reply["loop"].is = "idle")
  BY <1>2, LoopAlone DEF AgreeInv, RestInv
<1>4. {"GetForeground", "UpdatePending", "BreakNetwork"} \subseteq Commands \ {"SetConfig"}
  BY DEF Commands
<1>5. CASE LoopStartsPass
  <2>1. /\ loop'.pc = "foreground" /\ loop'.snapshot = loop.snapshot /\ st' = st /\ gate' = gate
        /\ loop.pc = "pass" /\ Send("loop", "GetForeground", {}, NoConfig)
    BY <1>1, <1>5 DEF LoopStartsPass, LoopLocals
  <2>2. QED
    BY <1>1, <1>2, <1>3, <1>4, <2>1, PassAgrees DEF PassPcs
<1>6. CASE LoopDisabled
  <2>1. /\ loop'.pc = "drain" /\ loop'.snapshot = [loop.snapshot EXCEPT !.status = {}]
        /\ st' = st /\ gate' = gate /\ loop.pc = "pass" /\ UNCHANGED <<inbox, reply>>
    BY <1>1, <1>6 DEF LoopDisabled, LoopLocals
  <2>2. Payload(loop'.snapshot) = Payload(loop.snapshot)
        /\ loop'.snapshot.synced = loop.snapshot.synced
    BY <1>1, <2>1 DEF Payload, States
  <2>3. QED
    BY <1>2, <1>3, <2>1, <2>2, PassAgrees DEF PassPcs
<1>7. CASE LoopPasses
  <2>1. /\ loop'.pc = "drain" /\ st' = st /\ gate' = gate /\ loop.pc = "foreground"
        /\ Consume("loop") /\ reply["loop"].is = "ok"
        /\ \E background : loop'.snapshot = [loop.snapshot EXCEPT !.status = background]
    BY <1>1, <1>7 DEF LoopPasses, LoopLocals
  <2>2. Payload(loop'.snapshot) = Payload(loop.snapshot)
        /\ loop'.snapshot.synced = loop.snapshot.synced
    BY <1>1, <2>1 DEF Payload, States
  <2>3. QED
    BY <1>2, <1>3, <2>1, <2>2, PassAgrees DEF PassPcs
<1>8. CASE LoopSkipsPass
  <2>1. /\ loop'.pc = "drain" /\ loop'.snapshot = loop.snapshot /\ st' = st /\ gate' = gate
        /\ loop.pc = "foreground" /\ Consume("loop") /\ Answered("loop")
    BY <1>1, <1>8 DEF LoopSkipsPass, LoopLocals
  <2>2. QED
    BY <1>2, <1>3, <2>1, PassAgrees DEF PassPcs, Answered
<1>9. CASE LoopDrains
  <2>1. /\ loop'.snapshot = loop.snapshot /\ st' = st /\ gate' = gate /\ loop.pc = "drain"
        /\ \/ loop'.pc = "pending" /\ Send("loop", "UpdatePending", pending, NoConfig)
           \/ loop'.pc = "break" /\ UNCHANGED <<inbox, reply>>
    BY <1>1, <1>9 DEF LoopDrains, LoopLocals
  <2>2. QED
    BY <1>1, <1>2, <1>3, <1>4, <2>1, PassAgrees DEF PassPcs
<1>10. CASE LoopPendingAnswered
  <2>1. /\ loop'.pc = "break" /\ loop'.snapshot = loop.snapshot /\ st' = st /\ gate' = gate
        /\ loop.pc = "pending" /\ Consume("loop") /\ Answered("loop")
    BY <1>1, <1>10 DEF LoopPendingAnswered, LoopLocals
  <2>2. QED
    BY <1>2, <1>3, <2>1, PassAgrees DEF PassPcs, Answered
<1>11. CASE LoopBreaks
  <2>1. /\ loop'.pc = "breaking" /\ loop'.snapshot = loop.snapshot /\ st' = st /\ gate' = gate
        /\ loop.pc = "break" /\ Send("loop", "BreakNetwork", {NextBreak}, NoConfig)
    BY <1>1, <1>11 DEF LoopBreaks, LoopLocals
  <2>2. {NextBreak} \in SUBSET Apps
    BY <1>1, <1>11 DEF LoopBreaks, LoopLocals, NextBreak
  <2>3. QED
    BY <1>1, <1>2, <1>3, <1>4, <2>1, <2>2, PassAgrees DEF PassPcs
<1>12. CASE LoopBreakAnswered
  <2>1. /\ loop'.pc = "break" /\ loop'.snapshot = loop.snapshot /\ st' = st /\ gate' = gate
        /\ loop.pc = "breaking" /\ Consume("loop") /\ Answered("loop")
    BY <1>1, <1>12 DEF LoopBreakAnswered, LoopLocals
  <2>2. QED
    BY <1>2, <1>3, <2>1, PassAgrees DEF PassPcs, Answered
<1>13. CASE LoopFinishes
  <2>1. /\ loop'.pc = "sleep" /\ gate' = "none" /\ loop.pc = "break"
        /\ UNCHANGED <<inbox, reply>> /\ st' = [st EXCEPT !.status = loop.snapshot.status]
    BY <1>1, <1>13 DEF LoopFinishes, SleepingLoop, LoopLocals
  <2>2. Payload(st') = Payload(st) /\ st'.synced = st.synced
    BY <1>1, <2>1 DEF Payload, States
  <2>3. QED
    BY <1>2, <1>3, <2>1, <2>2, PassAgrees DEF PassPcs
<1>14. QED
  BY <1>5, <1>6, <1>7, <1>8, <1>9, <1>10, <1>11, <1>12, <1>13

LEMMA LoopSendsConfig ==
  ASSUME Inv, AgreeInv, Loop, reply["loop"].is # "waiting", SendConfig("loop", Payload(st))
  PROVE  /\ reply'["loop"].is \in {"waiting", "error"} /\ reply'["manager"].is = "idle"
         /\ \E r : /\ r.from = "loop" /\ r.cmd = "SetConfig" /\ Config(r) = Payload(st)
                  /\ Alone(inbox', r, reply'["loop"].is)
         /\ \A cfg : Brings(cfg, inbox, Payload(st)) => Brings(cfg, inbox', Payload(st))
<1> DEFINE r == [cmd |-> "SetConfig", uids |-> Payload(st).managed,
                 settings |-> Payload(st).settings, from |-> "loop"]
<1>1. /\ r \in Requests /\ r.from = "loop" /\ r.cmd = "SetConfig"
      /\ Send("loop", r.cmd, r.uids, r.settings)
  BY LoopTypes DEF SendConfig, Requests
<1>2. Config(r) = Payload(st)
  BY DEF Config, Payload
<1>3. TypeOK /\ Abandoned(inbox) /\ reply["manager"].is = "idle"
      /\ "loop" \in Threads /\ "manager" \in Threads
  BY LoopAlone DEF Inv, Threads
<1> HIDE DEF r
<1>4. QED
  BY <1>1, <1>2, <1>3, Asks

LEMMA LoopSendsHealth ==
  ASSUME Inv, AgreeInv, Loop, reply["loop"].is # "waiting",
         Send("loop", "GetHookHealth", {}, NoConfig)
  PROVE  /\ reply'["manager"].is = "idle" /\ Keeps(inbox, inbox')
         /\ \E r : r.from = "loop" /\ Alone(inbox', r, reply'["loop"].is)
<1> DEFINE r == [cmd |-> "GetHookHealth", uids |-> {}, settings |-> NoConfig, from |-> "loop"]
<1>1. /\ r \in Requests /\ r.from = "loop" /\ r.cmd # "SetConfig"
      /\ Send("loop", r.cmd, r.uids, r.settings)
  BY DEF Requests, Commands, Threads
<1>2. TypeOK /\ Abandoned(inbox) /\ reply["manager"].is = "idle"
      /\ "loop" \in Threads /\ "manager" \in Threads
  BY LoopAlone DEF Inv, Threads
<1> HIDE DEF r
<1>3. QED
  BY <1>1, <1>2, Asks

(* The start, the configuration and the health check.                        *)
LEMMA LoopConfigAgrees ==
  ASSUME Inv, AgreeInv,
         \/ StartAsks \/ StartSyncs \/ StartServes
         \/ LoopPrepares \/ LoopConfigAnswered \/ LoopApplies
  PROVE  AgreeInv'
<1>1. /\ TypeOK /\ st \in States /\ loop \in LoopLocals
      /\ Payload(st).managed \in SUBSET Apps /\ Payload(st).settings \in Settings
      /\ "loop" \in Threads /\ "manager" \in Threads /\ {} \in SUBSET Apps
  BY LoopTypes
<1>2. Loop /\ UNCHANGED <<manager, hook>> /\ reply["loop"].is # "waiting"
  <2>1. Loop
    BY DEF Loop
  <2>2. UNCHANGED <<manager, hook>>
    BY DEF StartAsks, StartSyncs, StartServes, LoopPrepares, LoopConfigAnswered, LoopApplies, LoopOnly
  <2>3. loop.pc \in {"start", "sleep"} \/ Answered("loop")
    BY DEF StartAsks, StartSyncs, StartServes, LoopPrepares, LoopConfigAnswered, LoopApplies
  <2>4. QED
    BY <2>1, <2>2, <2>3 DEF Answered, AgreeInv, RestInv
<1>3. /\ manager.pc = "idle" /\ manager'.pc = "idle" /\ gate # "manager" /\ Abandoned(inbox)
      /\ reply["manager"].is = "idle"
  BY <1>2, LoopAlone
<1>4. CASE StartAsks
  <2>1. loop'.pc = "startHealth" /\ st' = st /\ loop.pc = "start" /\ gate' = gate
        /\ loop'.snapshot = loop.snapshot /\ Send("loop", "GetHookHealth", {}, NoConfig)
    BY <1>1, <1>4 DEF StartAsks, LoopLocals
  <2>2. /\ reply'["manager"].is = "idle" /\ Keeps(inbox, inbox')
        /\ \E r : r.from = "loop" /\ Alone(inbox', r, reply'["loop"].is)
    BY <1>2, <2>1, LoopSendsHealth
  <2>3. ~ st.synced /\ ~ loop.snapshot.synced
    BY <2>1 DEF AgreeInv, MemoryInv, StartPcs
  <2>4. QED
    BY <1>3, <2>1, <2>2, <2>3 DEF AgreeInv, RestInv, LastInv, AnswerInv, MemoryInv, StartPcs, PassPcs, Alone
<1>5. CASE StartSyncs
  <2>1. loop'.pc = "startConfig" /\ loop.pc = "startHealth" /\ gate' = gate
        /\ loop'.snapshot = loop.snapshot
        /\ SendConfig("loop", Payload(st))
    BY <1>1, <1>5 DEF StartSyncs, LoopLocals
  <2>2. Payload(st') = Payload(st) /\ st'.synced = st.synced
    BY <1>1, <1>5 DEF StartSyncs, Payload, States
  <2>3. /\ reply'["loop"].is \in {"waiting", "error"} /\ reply'["manager"].is = "idle"
        /\ \E r : /\ r.from = "loop" /\ r.cmd = "SetConfig" /\ Config(r) = Payload(st)
                 /\ Alone(inbox', r, reply'["loop"].is)
    BY <1>2, <2>1, LoopSendsConfig
  <2>4. ~ st.synced /\ ~ loop.snapshot.synced
    BY <2>1 DEF AgreeInv, MemoryInv, StartPcs
  <2>5. QED
    BY <1>3, <2>1, <2>2, <2>3, <2>4
    DEF AgreeInv, RestInv, LastInv, AnswerInv, MemoryInv, StartPcs, PassPcs, Alone
<1>6. CASE StartServes
  <2>1. /\ loop.pc = "startConfig" /\ loop'.pc = "sleep" /\ Consume("loop") /\ gate' = "none"
        /\ st' = [st EXCEPT !.synced = reply["loop"].is = "ok"]
    BY <1>6 DEF StartServes, SleepingLoop
  <2>2. Payload(st') = Payload(st) /\ (st'.synced <=> reply["loop"].is = "ok")
    BY <1>1, <2>1 DEF Payload, States
  <2>3. inbox' = inbox /\ reply'["loop"].is = "idle" /\ reply'["manager"].is = "idle"
    BY <1>1, <1>3, <2>1, Consumed
  <2>4. st'.synced => Brings(hook'.cfg, inbox', Payload(st'))
    BY <1>2, <2>1, <2>2, <2>3 DEF AgreeInv, AnswerInv, Agrees
  <2>5. QED
    BY <1>3, <2>1, <2>3, <2>4
    DEF AgreeInv, RestInv, LastInv, AnswerInv, MemoryInv, Agrees, StartPcs, PassPcs, Abandoned
<1>7. CASE LoopPrepares
  <2>1. /\ loop'.pc = "config" /\ loop'.work = Payload(st) /\ st' = st /\ gate' = "loop"
        /\ SendConfig("loop", Payload(st))
    BY <1>1, <1>7 DEF LoopPrepares, LoopLocals
  <2>2. /\ reply'["loop"].is \in {"waiting", "error"} /\ reply'["manager"].is = "idle"
        /\ \E r : /\ r.from = "loop" /\ r.cmd = "SetConfig" /\ Config(r) = Payload(st)
                 /\ Alone(inbox', r, reply'["loop"].is)
        /\ \A cfg : Brings(cfg, inbox, Payload(st)) => Brings(cfg, inbox', Payload(st))
    BY <1>2, <2>1, LoopSendsConfig
  <2>3. st'.synced => Brings(hook'.cfg, inbox', Payload(st'))
    BY <1>2, <1>3, <2>1, <2>2 DEF AgreeInv, MemoryInv, Agrees, Keeps
  <2>4. QED
    BY <1>3, <2>1, <2>2, <2>3
    DEF AgreeInv, RestInv, LastInv, AnswerInv, MemoryInv, Agrees, StartPcs, PassPcs, Alone
<1>8. CASE LoopConfigAnswered
  <2>1. /\ loop.pc = "config" /\ loop'.pc = "health" /\ loop'.work = loop.work /\ st' = st
        /\ loop'.accepted = (reply["loop"].is = "ok") /\ gate' = gate
        /\ Send("loop", "GetHookHealth", {}, NoConfig)
    BY <1>1, <1>8 DEF LoopConfigAnswered, LoopLocals
  <2>2. /\ reply'["manager"].is = "idle" /\ Keeps(inbox, inbox')
        /\ \E r : r.from = "loop" /\ Alone(inbox', r, reply'["loop"].is)
    BY <1>2, <2>1, LoopSendsHealth
  <2>3. loop.work = Payload(st) /\ (st.synced => Brings(hook'.cfg, inbox', Payload(st)))
    BY <1>2, <1>3, <2>1, <2>2 DEF AgreeInv, MemoryInv, Agrees, Keeps
  <2>4. loop'.accepted => Brings(hook'.cfg, inbox', loop.work)
    BY <1>2, <2>1, <2>2 DEF AgreeInv, AnswerInv, Agrees, Keeps
  <2>5. QED
    BY <1>3, <2>1, <2>2, <2>3, <2>4
    DEF AgreeInv, RestInv, LastInv, AnswerInv, MemoryInv, Agrees, StartPcs, PassPcs, Alone
<1>9. CASE LoopApplies
  <2>1. /\ loop.pc = "health" /\ loop'.pc = "pass" /\ loop'.snapshot = st' /\ Consume("loop")
        /\ gate' = gate
    BY <1>1, <1>9 DEF LoopApplies, LoopLocals
  <2>2. Payload(st') = Payload(st)
    BY <1>1, <1>9 DEF LoopApplies, Payload, States
  <2>3. st'.synced => loop.accepted /\ loop.work = Payload(st)
    BY <1>1, <1>9 DEF LoopApplies, States
  <2>4. inbox' = inbox /\ reply'["loop"].is = "idle" /\ reply'["manager"].is = "idle"
    BY <1>1, <1>3, <2>1, Consumed
  <2>5. st'.synced => Brings(hook'.cfg, inbox', Payload(st'))
    BY <1>2, <2>1, <2>2, <2>3, <2>4 DEF AgreeInv, MemoryInv, Agrees
  <2>6. QED
    BY <1>3, <2>1, <2>4, <2>5
    DEF AgreeInv, RestInv, LastInv, AnswerInv, MemoryInv, Agrees, StartPcs, PassPcs, Abandoned
<1>10. QED
  BY <1>4, <1>5, <1>6, <1>7, <1>8, <1>9

-----------------------------------------------------------------------------
(* The hook answers whoever still waits, and his request was the last one.   *)
LEMMA ServesAgree ==
  ASSUME Inv, AgreeInv, NEW cmd, NEW answer, Serves(cmd, answer), answer.is # "waiting",
         UNCHANGED <<st, gate, loop, manager>>,
         hook'.cfg = IF cmd = "SetConfig" /\ answer.is = "ok" THEN Config(Request) ELSE hook.cfg
  PROVE  AgreeInv'
<1>1. /\ inbox # <<>> /\ inbox \in Seq(Requests) /\ inbox' = Tail(inbox) /\ Request.cmd = cmd
      /\ Request = inbox[1] /\ 1 \in DOMAIN inbox
      /\ \A i \in DOMAIN inbox' : i \in Nat /\ i # 0 /\ i + 1 \in DOMAIN inbox /\ inbox'[i] = inbox[i + 1]
      /\ Len(inbox) \in Nat /\ Len(inbox') = Len(inbox) - 1
  BY TailFacts DEF Serves, Inv, TypeOK
<1>2. \A t \in Threads : reply'[t] = IF t = Request.from THEN answer ELSE reply[t]
  BY DEF Serves
<1>3. "loop" \in Threads /\ "manager" \in Threads
      /\ \A i \in DOMAIN inbox : inbox[i].from \in Threads \cup {"gone"}
  BY <1>1 DEF Threads, Requests
<1>4. ASSUME NEW p, Agrees(p) PROVE Brings(hook'.cfg, inbox', p)
  BY <1>1, <1>4 DEF Agrees, Brings
<1>5. ASSUME NEW t \in Threads, Request.from = t
      PROVE  /\ DOMAIN inbox' = {} /\ reply[t].is = "waiting"
             /\ cmd = "SetConfig" /\ answer.is = "ok" => Brings(hook'.cfg, inbox', Config(Request))
  <2>1. 1 = Len(inbox) /\ reply[t].is = "waiting"
    BY <1>1, <1>5 DEF AgreeInv, LastInv, Threads
  <2>2. DOMAIN inbox' = {}
    BY <1>1, <2>1
  <2>3. QED
    BY <2>1, <2>2 DEF Brings
<1>6. RestInv'
  BY <1>2, <1>3, <1>5 DEF AgreeInv, RestInv
<1>7. LastInv'
  <2> SUFFICES ASSUME NEW i \in DOMAIN inbox'
               PROVE  /\ i + 1 \in DOMAIN inbox /\ inbox'[i] = inbox[i + 1]
                      /\ inbox'[i].from # "gone" =>
                           i = Len(inbox') /\ reply'[inbox'[i].from].is = "waiting"
    BY DEF AgreeInv, LastInv
  <2>1. inbox'[i].from # "gone" => i + 1 = Len(inbox) /\ reply[inbox'[i].from].is = "waiting"
    BY <1>1 DEF AgreeInv, LastInv
  <2>2. inbox'[i].from # "gone" => inbox'[i].from \in Threads
    BY <1>1, <1>3
  <2>3. Request.from \notin Threads
    BY <1>5
  <2>4. QED
    BY <1>1, <1>2, <2>1, <2>2, <2>3
<1>8. AnswerInv'
  <2>1. ASSUME NEW t \in Threads, reply'[t].is = "ok", NEW p, reply[t].is = "ok" => Agrees(p),
               Request.from = t => cmd = "SetConfig" /\ Config(Request) = p
        PROVE  Brings(hook'.cfg, inbox', p)
    BY <1>2, <1>4, <1>5, <2>1
  <2>2. loop.pc = "config" /\ reply'["loop"].is = "ok" => Brings(hook'.cfg, inbox', loop.work)
    BY <1>1, <1>3, <2>1 DEF AgreeInv, LastInv, AnswerInv
  <2>3. loop.pc = "startConfig" /\ reply'["loop"].is = "ok" => Brings(hook'.cfg, inbox', Payload(st))
    BY <1>1, <1>3, <2>1 DEF AgreeInv, LastInv, AnswerInv
  <2>4. manager.pc = "send" /\ reply'["manager"].is = "ok" =>
          Brings(hook'.cfg, inbox', [managed |-> Controlled(manager.records), settings |-> manager.copy.settings])
    BY <1>1, <1>3, <2>1 DEF AgreeInv, LastInv, AnswerInv
  <2>5. QED
    BY <2>2, <2>3, <2>4 DEF AnswerInv, Agrees
<1>9. MemoryInv'
  BY <1>4 DEF AgreeInv, MemoryInv, Agrees
<1>10. QED
  BY <1>6, <1>7, <1>8, <1>9 DEF AgreeInv

LEMMA HookAgrees ==
  ASSUME Inv, AgreeInv, HookServes \/ HookFails
  PROVE  AgreeInv'
<1>1. UNCHANGED <<st, gate, loop, manager>>
  BY DEF HookServes, HookFails, HookConfigures, HookReportsHealth, HookScansForeground,
     HookCannotScan, HookTakesPending, HookRefusesPending, HookBreaksNetwork, DaemonUnchanged
<1>2. \A is, uids : Answer(is, uids).is = is
  BY DEF Answer
<1>3. hook \in HookStates
  BY DEF Inv, TypeOK
<1>4. CASE HookConfigures
  <2>1. Serves("SetConfig", Answer("ok", {})) /\ hook'.cfg = Config(Request)
    BY <1>4 DEF HookConfigures, Configured, BlankHook, Config
  <2>2. QED
    BY <1>1, <1>2, <2>1, ServesAgree
<1>5. ASSUME NEW cmd, NEW answer, Serves(cmd, answer), answer.is # "waiting",
             cmd = "SetConfig" => answer.is # "ok", hook'.cfg = hook.cfg
      PROVE  AgreeInv'
  BY <1>1, <1>5, ServesAgree
<1>6. CASE HookReportsHealth
  BY <1>2, <1>5, <1>6 DEF HookReportsHealth
<1>7. CASE HookScansForeground
  <2>1. hook'.cfg = hook.cfg
    BY <1>3, <1>7 DEF HookScansForeground, HookStates
  <2>2. QED
    BY <1>2, <1>5, <1>7, <2>1 DEF HookScansForeground
<1>8. CASE HookCannotScan
  BY <1>2, <1>5, <1>8 DEF HookCannotScan
<1>9. CASE HookTakesPending
  <2>1. hook'.cfg = hook.cfg
    BY <1>3, <1>9 DEF HookTakesPending, HookStates
  <2>2. QED
    BY <1>2, <1>5, <1>9, <2>1 DEF HookTakesPending
<1>10. CASE HookRefusesPending
  BY <1>2, <1>5, <1>10 DEF HookRefusesPending
<1>11. CASE HookBreaksNetwork
  BY <1>2, <1>5, <1>11 DEF HookBreaksNetwork
<1>12. CASE HookFails
  BY <1>2, <1>5, <1>12 DEF HookFails
<1>13. QED
  BY <1>4, <1>6, <1>7, <1>8, <1>9, <1>10, <1>11, <1>12 DEF HookServes

(* A deadline, or a restart of either side: who asked no longer waits.       *)
LEMMA FaultAgrees ==
  ASSUME Inv, AgreeInv, HookRestarts \/ DaemonRestarts \/ \E t \in Threads : RequestTimesOut(t)
  PROVE  AgreeInv'
<1>1. /\ inbox \in Seq(Requests) /\ reply \in [Threads -> Replies]
      /\ "loop" \in Threads /\ "manager" \in Threads
  BY DEF Inv, TypeOK, Threads
<1>2. CASE HookRestarts
  <2>1. /\ UNCHANGED <<st, gate, loop, manager>> /\ inbox' = <<>> /\ hook'.cfg = NoConfig
        /\ \A t \in Threads :
             reply'[t] = IF reply[t].is = "waiting" THEN Answer("error", {}) ELSE reply[t]
    BY <1>1, <1>2 DEF HookRestarts, DaemonUnchanged, BlankHook
  <2>2. \A p : Brings(hook'.cfg, inbox', p)
    BY <2>1 DEF Brings
  <2>3. RestInv' /\ LastInv'
    BY <1>1, <2>1 DEF AgreeInv, RestInv, LastInv, Answer
  <2>4. AnswerInv' /\ MemoryInv'
    BY <2>1, <2>2 DEF AgreeInv, AnswerInv, MemoryInv, Agrees
  <2>5. QED
    BY <2>3, <2>4 DEF AgreeInv
<1>3. CASE DaemonRestarts
  <2>1. /\ loop'.pc = "start" /\ loop'.snapshot = st' /\ gate' = "loop" /\ manager'.pc = "idle"
        /\ ~ st'.synced
    BY <1>3 DEF DaemonRestarts, Starting, SleepingLoop, IdleManager, Fresh
  <2>2. reply'["loop"].is = "idle" /\ reply'["manager"].is = "idle"
    BY <1>1, <1>3 DEF DaemonRestarts, Idle
  <2>3. \A i \in DOMAIN inbox' : inbox'[i].from = "gone"
    <3>1. \A i \in DOMAIN inbox : inbox[i] \in Requests
      BY <1>1
    <3>2. QED
      BY <1>3, <3>1 DEF DaemonRestarts, Requests
  <2>4. QED
    BY <2>1, <2>2, <2>3
    DEF AgreeInv, RestInv, LastInv, AnswerInv, MemoryInv, StartPcs, PassPcs
<1>4. ASSUME NEW t \in Threads, RequestTimesOut(t) PROVE AgreeInv'
  <2>1. /\ UNCHANGED <<st, gate, loop, manager, hook>> /\ reply[t].is = "waiting"
        /\ inbox' = Orphaned(t) /\ reply' = [reply EXCEPT ![t] = Answer("error", {})]
    BY <1>4 DEF RequestTimesOut
  <2>2. /\ reply'[t].is = "error" /\ \A u \in Threads : u # t => reply'[u] = reply[u]
    BY <1>1, <2>1 DEF Answer
  <2>3. /\ DOMAIN inbox' = DOMAIN inbox /\ Len(inbox') = Len(inbox)
        /\ \A i \in DOMAIN inbox :
             /\ inbox'[i].cmd = inbox[i].cmd /\ Config(inbox'[i]) = Config(inbox[i])
             /\ inbox'[i].from \in {inbox[i].from, "gone"} \ {t}
             /\ inbox[i].from \in Threads \cup {"gone"}
    <3>1. \A i \in DOMAIN inbox : inbox[i] \in Requests
      BY <1>1
    <3>2. DOMAIN inbox' = DOMAIN inbox
      BY <2>1 DEF Orphaned
    <3>3. Len(inbox') = Len(inbox)
      BY <1>1, <2>1, <3>2, OrphanTypes DEF Inv
    <3>4. QED
      BY <2>1, <3>1, <3>2, <3>3 DEF Orphaned, Requests, Config, Threads
  <2>4. \A p : Agrees(p) => Brings(hook'.cfg, inbox', p)
    BY <2>1, <2>3 DEF Agrees, Brings
  <2>5. RestInv'
    BY <1>1, <2>1, <2>2 DEF AgreeInv, RestInv
  <2>6. LastInv'
    BY <2>1, <2>2, <2>3 DEF AgreeInv, LastInv
  <2>7. AnswerInv'
    BY <1>1, <2>1, <2>2, <2>4 DEF AgreeInv, AnswerInv, Agrees
  <2>8. MemoryInv'
    BY <2>1, <2>4 DEF AgreeInv, MemoryInv, Agrees
  <2>9. QED
    BY <2>5, <2>6, <2>7, <2>8 DEF AgreeInv
<1>5. QED
  BY <1>2, <1>3, <1>4

-----------------------------------------------------------------------------
(* A command: the loop is asleep.                                            *)

LEMMA CommandAlone ==
  ASSUME Inv, AgreeInv, AppConfigBegins \/ SettingBegins \/ ManagerContinues
  PROVE  /\ gate # "loop" /\ loop.pc = "sleep" /\ reply["loop"].is = "idle"
         /\ UNCHANGED <<loop, hook>>
         /\ reply["manager"].is # "waiting" => Abandoned(inbox)
<1>1. manager.pc = "idle" => gate = "none"
  BY DEF AppConfigBegins, SettingBegins, GateFree, ManagerContinues, AppConfigPersists,
     AppConfigWriteFails, AppConfigAccepted, AppConfigRollsBack, AppConfigRolledBack,
     SettingPersists, ManagerCommits
<1>2. gate # "loop" /\ loop.pc = "sleep"
  BY <1>1 DEF Inv, GateInv
<1>3. reply["loop"].is = "idle"
  BY <1>2 DEF AgreeInv, RestInv
<1>4. UNCHANGED <<loop, hook>>
  BY DEF ManagerOnly, AppConfigBegins, SettingBegins, ManagerContinues, AppConfigPersists,
     AppConfigWriteFails, AppConfigAccepted, AppConfigRollsBack, AppConfigRolledBack,
     SettingPersists, ManagerCommits
<1>5. QED
  BY <1>2, <1>3, <1>4, NobodyAsks DEF AgreeInv

LEMMA ManagerSends ==
  ASSUME Inv, AgreeInv, ManagerContinues, reply["manager"].is # "waiting",
         NEW payload \in Payloads, SendConfig("manager", payload)
  PROVE  /\ reply'["manager"].is \in {"waiting", "error"} /\ reply'["loop"].is = "idle"
         /\ \E r : /\ r.from = "manager" /\ r.cmd = "SetConfig" /\ Config(r) = payload
                  /\ Alone(inbox', r, reply'["manager"].is)
<1> DEFINE r == [cmd |-> "SetConfig", uids |-> payload.managed,
                 settings |-> payload.settings, from |-> "manager"]
<1>1. /\ r \in Requests /\ r.from = "manager" /\ r.cmd = "SetConfig"
      /\ Send("manager", r.cmd, r.uids, r.settings)
  BY DEF SendConfig, Requests, Payloads, Threads
<1>2. Config(r) = payload
  BY DEF Config, Payloads
<1>3. TypeOK /\ Abandoned(inbox) /\ reply["loop"].is = "idle"
      /\ "loop" \in Threads /\ "manager" \in Threads
  BY CommandAlone DEF Inv, Threads
<1> HIDE DEF r
<1>4. QED
  BY <1>1, <1>2, <1>3, Asks

LEMMA CommandAgrees ==
  ASSUME Inv, AgreeInv, AppConfigBegins \/ SettingBegins \/ ManagerContinues
  PROVE  AgreeInv'
<1>1. /\ gate # "loop" /\ loop.pc = "sleep" /\ reply["loop"].is = "idle"
      /\ UNCHANGED <<loop, hook>>
  BY CommandAlone
<1>2. /\ TypeOK /\ st \in States /\ manager \in ManagerLocals /\ manager.copy \in States
      /\ manager.records \in Policies /\ manager.copy.settings \in Settings
      /\ "loop" \in Threads /\ "manager" \in Threads
  BY DEF Inv, TypeOK, ManagerLocals, States, Threads
<1>3. /\ manager.pc # "idle" => gate = "manager"
      /\ manager.pc \in {"app", "settings", "commit", "idle"} => reply["manager"].is = "idle"
  BY DEF Inv, GateInv, AgreeInv, RestInv
<1>4. CASE AppConfigBegins \/ SettingBegins
  <2>1. /\ manager.pc = "idle" /\ gate' = "manager" /\ manager'.pc \in {"app", "settings"}
        /\ UNCHANGED <<inbox, reply>>
    BY <1>2, <1>4 DEF AppConfigBegins, SettingBegins, ManagerLocals
  <2>2. Abandoned(inbox)
    BY <1>3, <1>4, <2>1, CommandAlone
  <2>3. QED
    BY <1>1, <1>3, <2>1, <2>2
    DEF AgreeInv, RestInv, LastInv, AnswerInv, MemoryInv, StartPcs, PassPcs, Abandoned
<1>5. CASE AppConfigPersists
  <2> DEFINE payload == [managed |-> Controlled(manager.records), settings |-> manager.copy.settings]
  <2>1. /\ manager.pc = "app" /\ manager'.pc = "send" /\ gate' = gate
        /\ manager'.records = manager.records /\ manager'.copy = manager.copy
        /\ SendConfig("manager", payload)
    BY <1>2, <1>5 DEF AppConfigPersists, ManagerLocals
  <2>2. payload \in Payloads
    BY <1>2, ControlledTypes DEF Payloads
  <2>3. payload = [managed |-> Controlled(manager'.records), settings |-> manager'.copy.settings]
    BY <2>1
  <2>4. ManagerContinues /\ reply["manager"].is # "waiting"
    BY <1>3, <1>5, <2>1 DEF ManagerContinues
  <2> HIDE DEF payload
  <2>5. /\ reply'["manager"].is \in {"waiting", "error"} /\ reply'["loop"].is = "idle"
        /\ \E r : /\ r.from = "manager" /\ r.cmd = "SetConfig" /\ Config(r) = payload
                 /\ Alone(inbox', r, reply'["manager"].is)
    BY <2>1, <2>2, <2>4, ManagerSends
  <2>6. QED
    BY <1>1, <1>3, <2>1, <2>3, <2>5
    DEF AgreeInv, RestInv, LastInv, AnswerInv, MemoryInv, StartPcs, PassPcs, Alone
<1>6. CASE AppConfigRollsBack
  <2>1. /\ manager.pc = "send" /\ Answered("manager") /\ gate' = gate
        /\ SendConfig("manager", Payload(manager.copy))
        /\ manager' = [manager EXCEPT !.pc = "rollback",
                                      !.copy = [manager.copy EXCEPT !.synced = FALSE]]
    BY <1>2, <1>6 DEF AppConfigRollsBack, ManagerLocals
  <2>2. manager'.pc = "rollback" /\ ~ manager'.copy.synced
    BY <1>2, <2>1 DEF ManagerLocals, States
  <2>3. /\ reply'["loop"].is = "idle"
        /\ \E r : /\ r.from = "manager" /\ r.cmd = "SetConfig"
                 /\ Alone(inbox', r, reply'["manager"].is)
    BY <1>2, <1>6, <2>1, PayloadTypes, ManagerSends DEF ManagerContinues, Answered
  <2>4. QED
    BY <1>1, <1>3, <2>1, <2>2, <2>3
    DEF AgreeInv, RestInv, LastInv, AnswerInv, MemoryInv, StartPcs, PassPcs, Alone
<1>7. CASE AppConfigAccepted
  <2> DEFINE copy == Committed(manager.copy, manager.records, manager.copy.settings)
  <2>1. /\ manager.pc = "send" /\ reply["manager"].is = "ok" /\ gate' = gate /\ Consume("manager")
        /\ manager' = [manager EXCEPT !.pc = "commit", !.copy = [copy EXCEPT !.synced = TRUE]]
    BY <1>2, <1>7 DEF AppConfigAccepted, ManagerLocals
  <2>2. /\ manager'.pc = "commit"
        /\ Payload(manager'.copy) = [managed |-> Controlled(manager.records), settings |-> manager.copy.settings]
    BY <1>2, <2>1 DEF ManagerLocals, States, Committed, Payload
  <2>3. inbox' = inbox /\ reply'["manager"].is = "idle" /\ reply'["loop"].is = "idle"
    BY <1>1, <1>2, <2>1, Consumed
  <2>4. Brings(hook'.cfg, inbox', Payload(manager'.copy))
    BY <1>1, <2>1, <2>2, <2>3 DEF AgreeInv, AnswerInv, Agrees
  <2>5. Abandoned(inbox)
    BY <1>7, <2>1, CommandAlone DEF ManagerContinues
  <2>6. QED
    BY <1>1, <1>3, <2>1, <2>2, <2>3, <2>4, <2>5
    DEF AgreeInv, RestInv, LastInv, AnswerInv, MemoryInv, Agrees, StartPcs, PassPcs, Abandoned
<1>8. CASE AppConfigRolledBack
  <2>1. /\ manager.pc = "rollback" /\ Answered("manager") /\ gate' = gate /\ Consume("manager")
        /\ manager'.pc = "commit" /\ manager'.copy = manager.copy
    BY <1>2, <1>8 DEF AppConfigRolledBack, ManagerLocals
  <2>2. inbox' = inbox /\ reply'["manager"].is = "idle" /\ reply'["loop"].is = "idle"
    BY <1>1, <1>2, <2>1, Consumed
  <2>3. Abandoned(inbox)
    BY <1>8, <2>1, CommandAlone DEF ManagerContinues, Answered
  <2>4. ~ manager.copy.synced
    BY <2>1 DEF AgreeInv, MemoryInv
  <2>5. QED
    BY <1>1, <1>3, <2>1, <2>2, <2>3, <2>4
    DEF AgreeInv, RestInv, LastInv, AnswerInv, MemoryInv, StartPcs, PassPcs, Abandoned
<1>9. ASSUME NEW copy \in States, manager.pc \in {"app", "settings"}, UNCHANGED <<inbox, reply, gate>>,
             manager' = [manager EXCEPT !.pc = "commit", !.copy = [copy EXCEPT !.synced = FALSE]],
             ManagerContinues
      PROVE  AgreeInv'
  <2>1. manager'.pc = "commit" /\ ~ manager'.copy.synced
    BY <1>2, <1>9 DEF ManagerLocals, States
  <2>2. Abandoned(inbox)
    BY <1>3, <1>9, CommandAlone
  <2>3. QED
    BY <1>1, <1>3, <1>9, <2>1, <2>2
    DEF AgreeInv, RestInv, LastInv, AnswerInv, MemoryInv, StartPcs, PassPcs, Abandoned
<1>10. CASE AppConfigWriteFails
  <2>1. PICK now : /\ manager.pc = "app" /\ UNCHANGED <<inbox, reply, gate>>
                   /\ manager' = [manager EXCEPT !.pc = "commit",
                        !.copy = [AppConfigAfterError(now) EXCEPT !.synced = FALSE]]
    BY <1>10 DEF AppConfigWriteFails
  <2>2. edits \in 0..MaxEdits /\ manager.copy.revision < edits
    BY <1>2, <2>1 DEF TypeOK, Inv, RevisionInv
  <2>3. AppConfigAfterError(now) \in States
    BY <1>2, <2>2, CommittedTypes DEF AppConfigAfterError
  <2>4. QED
    BY <1>9, <1>10, <2>1, <2>3 DEF ManagerContinues
<1>11. CASE SettingPersists
  <2>1. PICK now \in Settings :
          /\ manager.pc = "settings" /\ UNCHANGED <<inbox, reply, gate>>
          /\ manager' = [manager EXCEPT !.pc = "commit", !.copy =
               [(IF now = manager.settings THEN Committed(manager.copy, manager.copy.records, now)
                 ELSE manager.copy) EXCEPT !.synced = FALSE]]
    BY <1>2, <1>11 DEF SettingPersists, Written, Unclaimed, ManagerLocals, TypeOK, Files
  <2>2. /\ manager.copy.records \in Policies
        /\ edits \in 0..MaxEdits /\ manager.copy.revision < edits
    BY <1>2, <2>1 DEF States, TypeOK, Inv, RevisionInv
  <2>3. (IF now = manager.settings THEN Committed(manager.copy, manager.copy.records, now)
         ELSE manager.copy) \in States
    BY <1>2, <2>1, <2>2, CommittedTypes
  <2>4. QED
    BY <1>9, <1>11, <2>1, <2>3 DEF ManagerContinues
<1>12. CASE ManagerCommits
  <2>1. /\ manager.pc = "commit" /\ st' = manager.copy /\ gate' = "none" /\ manager'.pc = "idle"
        /\ UNCHANGED <<inbox, reply>>
    BY <1>12 DEF ManagerCommits, IdleManager
  <2>2. Abandoned(inbox)
    BY <1>3, <1>12, <2>1, CommandAlone DEF ManagerContinues
  <2>3. st'.synced => Brings(hook'.cfg, inbox', Payload(st'))
    BY <1>1, <2>1 DEF AgreeInv, MemoryInv, Agrees
  <2>4. QED
    BY <1>1, <1>3, <2>1, <2>2, <2>3
    DEF AgreeInv, RestInv, LastInv, AnswerInv, MemoryInv, Agrees, StartPcs, PassPcs, Abandoned
<1>13. QED
  BY <1>4, <1>5, <1>6, <1>7, <1>8, <1>10, <1>11, <1>12 DEF ManagerContinues

-----------------------------------------------------------------------------
LEMMA InitAgrees == Init => AgreeInv
<1> SUFFICES ASSUME Init PROVE AgreeInv
  OBVIOUS
<1>1. /\ loop.pc = "start" /\ loop.snapshot = st /\ gate = "loop" /\ manager.pc = "idle"
      /\ ~ st.synced
  BY DEF Init, Starting, SleepingLoop, IdleManager, Fresh
<1>2. reply["loop"].is = "idle" /\ reply["manager"].is = "idle" /\ DOMAIN inbox = {}
  BY DEF Init, Idle, Threads
<1>3. QED
  BY <1>1, <1>2 DEF AgreeInv, RestInv, LastInv, AnswerInv, MemoryInv, StartPcs, PassPcs

LEMMA AgreeInvariance == Spec => []AgreeInv
<1>1. Inv /\ AgreeInv /\ [Next]_vars => AgreeInv'
  <2> SUFFICES ASSUME Inv, AgreeInv, [Next]_vars PROVE AgreeInv'
    OBVIOUS
  <2>1. CASE UNCHANGED vars
    BY <2>1 DEF AgreeInv, RestInv, LastInv, AnswerInv, MemoryInv, Agrees, vars
  <2>2. CASE Loop
    BY <2>2, LoopConfigAgrees, LoopPassAgrees DEF Loop
  <2>3. QED
    BY <2>1, <2>2, CommandAgrees, HookAgrees, FaultAgrees DEF Next, ManagerBegins
<1>2. QED
  BY <1>1, InitAgrees, Invariance, PTL DEF Spec

(* While nobody holds the policy gate, a claimed synchronisation is true:    *)
(* the hook has the configuration in memory, or has restarted and has none,  *)
(* and no request that timed out will bring it another one                   *)
(* (apply_hook_health_result, rollback_failed_app_config_update,             *)
(* handle_manager_command).                                                  *)
THEOREM SyncedMeansHookAgreesCorrect == Spec => []SyncedMeansHookAgrees
<1>1. AgreeInv => SyncedMeansHookAgrees
  BY DEF AgreeInv, MemoryInv, Agrees, Brings, Config, SyncedMeansHookAgrees, ConfigsInFlight
<1>2. QED
  BY <1>1, AgreeInvariance, PTL

(* From its snapshot on, a pass that may run acts on the policy in memory    *)
(* and on a hook that has this policy (spawn_control_loop, which keeps the   *)
(* gate through the pass).                                                   *)
THEOREM PassUsesOnePolicyCorrect == Spec => []PassUsesOnePolicy
<1>1. Inv /\ AgreeInv => PassUsesOnePolicy
  <2> SUFFICES ASSUME Inv, AgreeInv, loop.pc \notin {"sleep", "config", "health"},
                      MayRun(loop.snapshot)
               PROVE  /\ Payload(loop.snapshot) = Payload(st)
                      /\ Brings(hook.cfg, inbox, Payload(st))
    BY DEF PassUsesOnePolicy, Brings, Config, ConfigsInFlight
  <2>1. loop.snapshot.synced /\ gate = "loop"
    BY DEF MayRun, Inv, GateInv
  <2>2. loop.pc \in PassPcs
    BY <2>1 DEF AgreeInv, MemoryInv, Inv, TypeOK, LoopLocals, StartPcs, PassPcs
  <2>3. QED
    BY <2>1, <2>2 DEF AgreeInv, MemoryInv, Agrees
<1>2. QED
  BY <1>1, Invariance, AgreeInvariance, PTL

-----------------------------------------------------------------------------
(* The files.                                                                *)

(* Rewriting the rows of an app keeps them in step with its records, whether *)
(* its package is in the inventory or not.                                   *)
LEMMA RewrittenAgrees ==
  ASSUME NEW rows \in Rows, NEW old \in Rows, NEW new \in Rows, NEW resolved \in BOOLEAN,
         Changes(new, old),
         Agree(IF resolved THEN rows ELSE [rows EXCEPT !.name = "none"], old)
  PROVE  Agree(IF resolved THEN Rewritten(rows, old, new)
               ELSE [Rewritten(rows, old, new) EXCEPT !.name = "none"], new)
<1>1. /\ rows = [name |-> rows.name, uids |-> rows.uids] /\ rows.uids \in Seq(Modes)
      /\ old = [name |-> old.name, uids |-> old.uids] /\ old.uids \in Seq(Modes)
      /\ new = [name |-> new.name, uids |-> new.uids] /\ new.uids \in Seq(Modes)
  BY DEF Rows
<1>2. ASSUME NEW r \in Rows
      PROVE  [r EXCEPT !.name = "none"] = [name |-> "none", uids |-> r.uids]
  BY <1>2 DEF Rows
<1>3. /\ Len(rows.uids) = Len(old.uids)
      /\ (resolved => rows.name = "none" <=> old.name = "none")
      /\ (~ resolved => old.name = "none")
  BY <1>1, <1>2 DEF Agree
<1>4. CASE old = Blank
  <2>1. rows.uids = <<>> /\ (resolved => rows.name = "none")
    BY <1>1, <1>3, <1>4, EmptySeq DEF Blank
  <2>2. Rewritten(rows, old, new) = [rows EXCEPT !.uids = rows.uids \o Records(new)]
    BY <1>4, <2>1 DEF Rewritten, Blank
  <2>3. new.name = "none"
    BY <1>4 DEF Changes, Requested, Blank
  <2>4. Rewritten(rows, old, new) = [name |-> rows.name, uids |-> new.uids]
    BY <1>1, <2>1, <2>2, <2>3 DEF Records
  <2>5. QED
    BY <1>1, <2>1, <2>3, <2>4 DEF Agree, Entry
<1>5. CASE old # Blank
  <2>1. /\ Len(new.uids) = Len(old.uids) /\ (new.name = "none" <=> old.name = "none")
    <3>1. CASE new = old
      BY <3>1
    <3>2. ASSUME NEW mode \in Modes, new = Requested(old, mode)
          PROVE  Len(new.uids) = Len(old.uids) /\ (new.name = "none" <=> old.name = "none")
      <4>1. /\ new.uids = [i \in DOMAIN old.uids |-> mode]
            /\ new.name = IF old.name = "none" THEN "none" ELSE mode
        BY <1>5, <3>2 DEF Requested
      <4>2. QED
        BY <1>1, <4>1, SameModes DEF Modes
    <3>3. QED
      BY <3>1, <3>2 DEF Changes
  <2>2. new # Blank /\ Entry(new) \in Modes
    <3>1. Entry(old) # "none" /\ (old.name # "none" \/ Len(old.uids) # 0)
      BY <1>1, <1>5, EntryTypes, EmptySeq DEF Blank
    <3>2. new.name # "none" \/ Len(new.uids) # 0
      BY <2>1, <3>1
    <3>3. new # Blank
      BY <3>2 DEF Blank
    <3>4. QED
      BY <3>3, EntryTypes
  <2>3. CASE Entry(new) = Entry(old)
    <3>1. Rewritten(rows, old, new) = rows
      <4>1. old.uids = <<>> => old.name # "none" /\ rows.name # "none"
        BY <1>1, <1>3, <1>5 DEF Blank
      <4>2. old.uids # <<>> => rows.uids # <<>>
        BY <1>1, <1>3, EmptySeq
      <4>3. QED
        BY <1>5, <2>3, <4>1, <4>2 DEF Rewritten
    <3>2. QED
      BY <1>1, <1>2, <2>1, <2>3, <3>1 DEF Agree
  <2>4. CASE Entry(new) # Entry(old) /\ old.uids # <<>>
    <3> DEFINE uids == [i \in DOMAIN rows.uids |-> Entry(new)]
    <3>1. rows.uids # <<>> /\ Len(rows.uids) \in Nat \ {0}
      BY <1>1, <1>3, <2>4, EmptySeq
    <3>2. Rewritten(rows, old, new) = [name |-> rows.name, uids |-> uids]
      BY <1>5, <2>4, <3>1 DEF Rewritten
    <3>3. uids \in Seq(Modes) /\ Len(uids) = Len(rows.uids)
      BY <1>1, <2>2, SameModes
    <3>4. uids[Len(uids)] = Entry(new) /\ uids # <<>>
      BY <1>1, <3>1, <3>3, EmptySeq
    <3> HIDE DEF uids
    <3>5. \A name : Entry([name |-> name, uids |-> uids]) = Entry(new)
      BY <3>4 DEF Entry
    <3>6. QED
      BY <1>3, <2>1, <3>2, <3>3, <3>5 DEF Agree
  <2>5. CASE Entry(new) # Entry(old) /\ old.uids = <<>>
    <3>1. resolved /\ old.name # "none" /\ rows.name # "none"
      BY <1>1, <1>3, <1>5, <2>5 DEF Blank
    <3>2. rows.uids = <<>> /\ new.uids = <<>>
      BY <1>1, <1>3, <2>1, <2>5, EmptySeq
    <3>3. Rewritten(rows, old, new) = [name |-> Entry(new), uids |-> [i \in DOMAIN rows.uids |-> Entry(new)]]
      BY <2>5, <3>1 DEF Rewritten
    <3>4. [i \in DOMAIN rows.uids |-> Entry(new)] = <<>>
      BY <3>2
    <3>5. Rewritten(rows, old, new) = [name |-> Entry(new), uids |-> <<>>]
      BY <3>3, <3>4
    <3>6. new.name # "none" /\ Entry(new) # "none"
      BY <2>1, <2>2, <3>1 DEF Modes
    <3>7. QED
      BY <3>1, <3>2, <3>5, <3>6 DEF Agree, Entry
  <2>6. QED
    BY <2>3, <2>4, <2>5
<1>6. QED
  BY <1>4, <1>5

\* persist_app_config_with_writer writes the records of the command, given that the
\* file resolves to the records in memory.
LEMMA NewLinesResolve ==
  ASSUME Inv, DiskInv, manager.pc = "app", Resolves(manager.file, manager.copy.records)
  PROVE  Resolves(NewLines, manager.records)
<1>1. /\ manager.file \in {NoFile} \cup Policies
      /\ manager.records \in Policies /\ manager.copy.records \in Policies
      /\ Contents(manager.file) \in Policies
  BY ContentsTypes DEF Inv, TypeOK, ManagerLocals, States
<1>2. NewLines \in Policies
  BY <1>1, LinesTypes DEF NewLines, Inv, MergeInv
<1>3. Contents(NewLines) = NewLines
  BY <1>2, NoFileAssumption DEF Contents
<1> SUFFICES ASSUME NEW a \in Apps PROVE Agree(Loaded(NewLines, listed)[a], manager.records[a])
  BY DEF Resolves
<1> DEFINE rows == Contents(manager.file)[a]
           old == manager.copy.records[a]
           new == manager.records[a]
           resolved == a \in listed
<1>4. rows \in Rows /\ old \in Rows /\ new \in Rows /\ resolved \in BOOLEAN
  BY <1>1 DEF Policies
<1>5. Loaded(manager.file, listed)[a] = IF resolved THEN rows ELSE [rows EXCEPT !.name = "none"]
  BY DEF Loaded
<1>6. Loaded(NewLines, listed)[a] = IF resolved THEN Rewritten(rows, old, new)
                                    ELSE [Rewritten(rows, old, new) EXCEPT !.name = "none"]
  BY <1>3 DEF Loaded, NewLines, Lines
<1>7. Changes(new, old) /\ Agree(Loaded(manager.file, listed)[a], old)
  BY DEF DiskInv, Resolves
<1> HIDE DEF rows, old, new, resolved
<1>8. Agree(Loaded(NewLines, listed)[a], new)
  BY <1>4, <1>5, <1>6, <1>7, RewrittenAgrees
<1>9. QED
  BY <1>8 DEF new

LEMMA MergedChanges ==
  ASSUME NEW records \in Policies, NEW uids, NEW controlled, NEW a \in Apps
  PROVE  Changes(Merged(records, uids, controlled)[a], records[a])
  BY DEF Merged, Changes, Modes

\* Rows that agree are as many, and a single one is the same.
LEMMA AgreeingRows ==
  ASSUME NEW rows \in Rows, NEW records \in Rows, Agree(rows, records)
  PROVE  /\ Len(Records(rows)) = Len(Records(records)) /\ Entry(rows) = Entry(records)
         /\ Len(Records(rows)) = 1 => rows = records
<1>1. /\ rows = [name |-> rows.name, uids |-> rows.uids] /\ rows.uids \in Seq(Modes)
      /\ records = [name |-> records.name, uids |-> records.uids] /\ records.uids \in Seq(Modes)
  BY DEF Rows
<1>2. \A r \in Rows : Len(Records(r)) = IF r.name = "none" THEN Len(r.uids) ELSE Len(r.uids) + 1
  BY DEF Rows, Records
<1>3. Len(Records(rows)) = Len(Records(records)) /\ Entry(rows) = Entry(records)
  BY <1>1, <1>2 DEF Agree
<1>4. ASSUME Len(Records(rows)) = 1 PROVE rows = records
  <2>1. CASE rows.name = "none"
    <3>1. Len(rows.uids) = 1 /\ Len(records.uids) = 1 /\ records.name = "none"
      BY <1>1, <1>2, <1>4, <2>1 DEF Agree
    <3>2. rows.uids[1] = records.uids[1]
      BY <1>1, <1>3, <3>1 DEF Entry
    <3>3. rows.uids = records.uids
      BY <1>1, <3>1, <3>2
    <3>4. QED
      BY <1>1, <2>1, <3>1, <3>3
  <2>2. CASE rows.name # "none"
    <3>1. Len(rows.uids) = 0 /\ Len(records.uids) = 0
      <4>1. Len(rows.uids) \in Nat /\ Len(records.uids) = Len(rows.uids)
        BY <1>1 DEF Agree
      <4>2. Len(Records(rows)) = Len(rows.uids) + 1
        BY <1>2, <2>2
      <4>3. Len(rows.uids) + 1 = 1
        BY ONLY <1>4, <4>2
      <4>4. QED
        BY ONLY <4>1, <4>3
    <3>2. rows.uids = <<>> /\ records.uids = <<>>
      BY <1>1, <3>1, EmptySeq
    <3>3. QED
      BY <1>1, <1>3, <3>2 DEF Entry
  <2>3. QED
    BY <2>1, <2>2
<1>5. QED
  BY <1>3, <1>4

LEMMA InitDisk == Init => DiskInv
  BY DEF Init, DiskInv, OnDisk, Resolves, Agree, Fresh, IdleManager

LEMMA RestartDisk == ASSUME Inv, DaemonRestarts PROVE DiskInv'
<1>1. PICK read \in Readings(disk) : st' = Fresh(read, listed') /\ torn' = (read # disk)
  BY DEF DaemonRestarts
<1>2. manager'.pc = "idle" /\ disk' = disk
  BY DEF DaemonRestarts, IdleManager
<1>3. QED
  BY <1>1, <1>2 DEF DiskInv, OnDisk, Resolves, Agree, Fresh

(* The loop and the hook write no file and change no configuration.          *)
LEMMA OthersDisk ==
  ASSUME Inv, AgreeInv, DiskInv, Loop \/ HookServes \/ HookFails \/ HookRestarts
                               \/ \E t \in Threads : RequestTimesOut(t)
  PROVE  DiskInv'
<1>1. UNCHANGED <<disk, manager, torn, listed>>
  BY DEF Loop, StartAsks, StartSyncs, StartServes, LoopPrepares, LoopConfigAnswered,
     LoopApplies, LoopStartsPass, LoopDisabled, LoopPasses, LoopSkipsPass, LoopDrains,
     LoopPendingAnswered, LoopBreaks, LoopBreakAnswered, LoopFinishes, LoopOnly,
     HookServes, HookFails, HookConfigures, HookReportsHealth, HookScansForeground,
     HookCannotScan, HookTakesPending, HookRefusesPending, HookBreaksNetwork,
     DaemonUnchanged, HookRestarts, RequestTimesOut
<1>2. st'.records = st.records /\ st'.settings = st.settings
  BY DEF Inv, TypeOK, States, Loop, StartAsks, StartSyncs, StartServes, LoopPrepares,
     LoopConfigAnswered, LoopApplies, LoopStartsPass, LoopDisabled, LoopPasses, LoopSkipsPass,
     LoopDrains, LoopPendingAnswered, LoopBreaks, LoopBreakAnswered, LoopFinishes, LoopOnly,
     HookServes, HookFails, HookConfigures, HookReportsHealth, HookScansForeground,
     HookCannotScan, HookTakesPending, HookRefusesPending, HookBreaksNetwork,
     DaemonUnchanged, HookRestarts, RequestTimesOut
<1>3. gate' # "manager" => gate # "manager"
  <2>1. CASE Loop
    BY <2>1, LoopAlone
  <2>2. CASE ~ Loop
    BY <2>2 DEF HookServes, HookFails, HookConfigures, HookReportsHealth, HookScansForeground,
     HookCannotScan, HookTakesPending, HookRefusesPending, HookBreaksNetwork,
     DaemonUnchanged, HookRestarts, RequestTimesOut
  <2>3. QED
    BY <2>1, <2>2
<1>4. QED
  BY <1>1, <1>2, <1>3 DEF DiskInv, OnDisk, Resolves

LEMMA CommandDisk ==
  ASSUME Inv, DiskInv, AppConfigBegins \/ SettingBegins \/ ManagerContinues
  PROVE  DiskInv'
<1>1. /\ st \in States /\ manager \in ManagerLocals /\ manager.copy \in States
      /\ disk \in Files /\ torn \in BOOLEAN
  BY DEF Inv, TypeOK, ManagerLocals
<1>0. listed' = listed
  BY DEF AppConfigBegins, SettingBegins, ManagerContinues, AppConfigPersists,
     AppConfigWriteFails, AppConfigAccepted, AppConfigRollsBack, AppConfigRolledBack,
     SettingPersists, ManagerCommits, ManagerOnly
<1>2. manager.pc # "idle" => gate = "manager"
  BY DEF Inv, GateInv
<1>3. CASE AppConfigBegins
  <2>1. PICK uids \in SUBSET Apps : \E controlled \in SUBSET uids :
          manager' = [manager EXCEPT !.pc = "app", !.copy = st, !.file = disk.policy,
                                     !.records = Merged(st.records, uids, controlled)]
    BY <1>3 DEF AppConfigBegins
  <2>2. PICK controlled \in SUBSET uids :
          manager' = [manager EXCEPT !.pc = "app", !.copy = st, !.file = disk.policy,
                                     !.records = Merged(st.records, uids, controlled)]
    BY <2>1
  <2>3. /\ manager'.pc = "app" /\ manager'.copy = st /\ manager'.file = disk.policy
        /\ manager'.records = Merged(st.records, uids, controlled)
    BY <1>1, <2>2 DEF ManagerLocals
  <2>4. gate = "none" /\ gate' = "manager" /\ UNCHANGED <<disk, torn, st>>
    BY <1>3 DEF AppConfigBegins, GateFree
  <2>5. \A a \in Apps : Changes(manager'.records[a], st.records[a])
    BY <1>1, <2>3, MergedChanges DEF States
  <2>6. QED
    BY <1>0, <2>3, <2>4, <2>5 DEF DiskInv, OnDisk, Resolves
<1>4. CASE SettingBegins
  <2>1. /\ gate = "none" /\ gate' = "manager" /\ UNCHANGED <<disk, torn, st>>
        /\ manager'.pc = "settings" /\ manager'.copy = st
    BY <1>1, <1>4 DEF SettingBegins, GateFree, ManagerLocals
  <2>2. QED
    BY <1>0, <2>1 DEF DiskInv, OnDisk, Resolves
<1>5. CASE AppConfigPersists
  <2>1. /\ manager.pc = "app" /\ manager'.pc = "send" /\ gate' = gate /\ torn' = torn
        /\ manager'.copy = manager.copy /\ manager'.records = manager.records
        /\ manager'.file = manager.file /\ manager.file = disk.policy
        /\ disk'.settings = disk.settings
        /\ disk'.policy = IF NothingToWrite THEN disk.policy ELSE NewLines
    BY <1>1, <1>5 DEF AppConfigPersists, ManagerLocals, DiskInv
  <2>2. ~ torn => OnDisk(manager.copy.records, manager.copy.settings)
    BY <2>1 DEF DiskInv
  <2>3. ~ torn => Resolves(manager.file, manager.copy.records)
    BY <2>1, <2>2 DEF OnDisk
  <2>4. ~ torn => Resolves(disk'.policy, manager.records)
    BY <2>1, <2>2, <2>3, NewLinesResolve DEF OnDisk, NothingToWrite
  <2>5. QED
    BY <1>0, <1>2, <2>1, <2>2, <2>3, <2>4 DEF DiskInv, OnDisk, Resolves
<1>6. CASE AppConfigWriteFails
  <2>1. PICK now \in {disk.policy, NewLines} :
          /\ disk' = [disk EXCEPT !.policy = now]
          /\ manager' = [manager EXCEPT !.pc = "commit",
                           !.copy = [AppConfigAfterError(now) EXCEPT !.synced = FALSE]]
    BY <1>6 DEF AppConfigWriteFails, Written
  <2>2. /\ manager.pc = "app" /\ gate' = gate /\ torn' = torn /\ manager'.pc = "commit"
        /\ disk'.policy = now /\ disk'.settings = disk.settings /\ manager.file = disk.policy
    BY <1>1, <1>6, <2>1 DEF AppConfigWriteFails, ManagerLocals, DiskInv, Files
  <2>3. /\ manager'.copy.settings = manager.copy.settings
        /\ manager'.copy.records = IF now = NewLines THEN manager.records ELSE manager.copy.records
    BY <1>1, <2>1 DEF ManagerLocals, AppConfigAfterError, Committed, States
  <2>4. ~ torn => OnDisk(manager.copy.records, manager.copy.settings)
    BY <2>2 DEF DiskInv
  <2>5. ~ torn => Resolves(manager.file, manager.copy.records)
    BY <2>2, <2>4 DEF OnDisk
  <2>6. ~ torn => Resolves(now, manager'.copy.records)
    BY <2>2, <2>3, <2>5, NewLinesResolve
  <2>7. QED
    BY <1>0, <1>2, <2>2, <2>3, <2>4, <2>6 DEF DiskInv, OnDisk, Resolves
<1>7. CASE AppConfigAccepted
  <2>1. /\ manager.pc = "send" /\ gate' = gate /\ disk' = disk /\ torn' = torn
        /\ manager'.pc = "commit" /\ manager'.copy.records = manager.records
        /\ manager'.copy.settings = manager.copy.settings
    BY <1>1, <1>7 DEF AppConfigAccepted, ManagerLocals, Committed, States
  <2>2. QED
    BY <1>0, <1>2, <2>1 DEF DiskInv, OnDisk, Resolves
<1>8. CASE AppConfigRollsBack
  <2>1. PICK now \in {disk.policy, manager.file} :
          disk' = [disk EXCEPT !.policy = now] /\ torn' = (torn \/ now # manager.file)
    BY <1>8 DEF AppConfigRollsBack, Written
  <2>2. /\ manager.pc = "send" /\ gate' = gate
        /\ manager' = [manager EXCEPT !.pc = "rollback",
                                      !.copy = [manager.copy EXCEPT !.synced = FALSE]]
    BY <1>1, <1>8 DEF AppConfigRollsBack, ManagerLocals
  <2>3. /\ manager'.pc = "rollback" /\ manager'.copy.records = manager.copy.records
        /\ manager'.copy.settings = manager.copy.settings
        /\ disk'.policy = now /\ disk'.settings = disk.settings
    BY <1>1, <2>1, <2>2 DEF ManagerLocals, States
  <2>4. QED
    BY <1>0, <1>2, <2>1, <2>2, <2>3 DEF DiskInv, OnDisk, Resolves
<1>9. CASE AppConfigRolledBack
  <2>1. /\ manager.pc = "rollback" /\ gate' = gate /\ disk' = disk /\ torn' = torn
        /\ manager'.pc = "commit" /\ manager'.copy = manager.copy
    BY <1>1, <1>9 DEF AppConfigRolledBack, ManagerLocals
  <2>2. QED
    BY <1>0, <1>2, <2>1 DEF DiskInv, OnDisk, Resolves
<1>10. CASE SettingPersists
  <2>1. PICK now \in {disk.settings, manager.settings} :
          /\ disk' = [disk EXCEPT !.settings = now]
          /\ manager' = [manager EXCEPT !.pc = "commit", !.copy =
               [(IF now = manager.settings THEN Committed(manager.copy, manager.copy.records, now)
                 ELSE manager.copy) EXCEPT !.synced = FALSE]]
    BY <1>1, <1>10 DEF SettingPersists, Written, Unclaimed, ManagerLocals
  <2>2. /\ manager.pc = "settings" /\ gate' = gate /\ torn' = torn /\ manager'.pc = "commit"
        /\ disk'.settings = now /\ disk'.policy = disk.policy
    BY <1>1, <1>10, <2>1 DEF SettingPersists, ManagerLocals, Files
  <2>3. /\ manager'.copy.records = manager.copy.records
        /\ manager'.copy.settings = IF now = manager.settings THEN now ELSE manager.copy.settings
    BY <1>1, <2>1 DEF ManagerLocals, Committed, States
  <2>4. QED
    BY <1>0, <1>2, <2>1, <2>2, <2>3 DEF DiskInv, OnDisk, Resolves
<1>11. CASE ManagerCommits
  <2>1. /\ manager.pc = "commit" /\ st' = manager.copy /\ manager'.pc = "idle"
        /\ disk' = disk /\ torn' = torn
    BY <1>11 DEF ManagerCommits, IdleManager
  <2>2. QED
    BY <1>0, <2>1 DEF DiskInv, OnDisk, Resolves
<1>12. QED
  BY <1>3, <1>4, <1>5, <1>6, <1>7, <1>8, <1>9, <1>10, <1>11 DEF ManagerContinues

(* Between commands the files hold the configuration in memory, whatever     *)
(* write or request has failed, unless the policy file could not be put back *)
(* or was not read at the last start (commit_app_config,                     *)
(* rollback_failed_app_config_update, set_settings_var).                     *)
THEOREM DiskIsMemoryCorrect == Spec => []DiskIsMemory
<1>1. Inv /\ AgreeInv /\ DiskInv /\ [Next]_vars => DiskInv'
  <2> SUFFICES ASSUME Inv, AgreeInv, DiskInv, [Next]_vars PROVE DiskInv'
    OBVIOUS
  <2>1. CASE UNCHANGED vars
    BY <2>1 DEF DiskInv, OnDisk, Resolves, vars
  <2>2. QED
    BY <2>1, OthersDisk, CommandDisk, RestartDisk DEF Next, ManagerBegins
<1>2. Inv /\ DiskInv => DiskIsMemory
  <2> SUFFICES ASSUME Inv, DiskInv, gate = "none", ~ torn, NEW a \in Apps
               PROVE  LET rows == Loaded(disk.policy, listed)[a]
                          records == st.records[a]
                      IN /\ Len(Records(rows)) = Len(Records(records)) /\ Entry(rows) = Entry(records)
                         /\ Len(Records(rows)) = 1 => rows = records
    BY DEF DiskInv, OnDisk, DiskIsMemory
  <2>1. Loaded(disk.policy, listed)[a] \in Rows /\ st.records[a] \in Rows
    <3>1. disk.policy \in {NoFile} \cup Policies /\ st.records \in Policies
      BY DEF Inv, TypeOK, Files, States
    <3>2. Loaded(disk.policy, listed) \in Policies
      BY <3>1, LoadedTypes
    <3>3. QED
      BY <3>1, <3>2 DEF Policies
  <2>2. Agree(Loaded(disk.policy, listed)[a], st.records[a])
    BY DEF DiskInv, OnDisk, Resolves
  <2>3. QED
    BY <2>1, <2>2, AgreeingRows
<1>3. QED
  BY <1>1, <1>2, InitDisk, Invariance, AgreeInvariance, PTL DEF Spec

-----------------------------------------------------------------------------
(* What the hook does about background work.  An answer of the hook means    *)
(* that it has served everything before: nothing late will change what it    *)
(* has published.  From the scan of a pass to the next configuration the     *)
(* apps outside the hook's foreground are those of the status, unless the    *)
(* hook was started again and has published nothing.                         *)

NoScanComing == \A i \in DOMAIN inbox : inbox[i].cmd # "GetForeground"

\* Whatever the hook takes for background the daemon has found there.
Covers(status) == hook.foregroundFresh => Controlled(st.records) \ hook.foreground \subseteq status

QuietInv ==
  /\ \A t \in Threads : reply[t].is \in {"ok", "rejected"} => inbox = <<>>
  /\ \A i \in DOMAIN inbox :
       inbox[i].from = "loop" /\ loop.pc = "foreground" => inbox[i].cmd = "GetForeground"

\* What the answers to a configuration and to a scan say of the hook's snapshot.
PublishedInv ==
  /\ loop.pc \in {"startConfig", "config"} /\ reply["loop"].is = "ok" => ~ hook.foregroundFresh
  /\ manager.pc = "send" /\ reply["manager"].is = "ok" => ~ hook.foregroundFresh
  /\ loop.pc = "foreground" /\ reply["loop"].is = "ok" =>
       (hook.foregroundFresh => hook.foreground = reply["loop"].uids)

StatusInv ==
  /\ loop.pc = "health" /\ loop.accepted => NoScanComing /\ ~ hook.foregroundFresh
  /\ loop.pc = "pass" /\ st.synced => inbox = <<>> /\ ~ hook.foregroundFresh
  /\ loop.pc \in {"drain", "pending", "break", "breaking"} /\ st.synced /\ loop.passed =>
       NoScanComing /\ Covers(loop.snapshot.status)
  /\ loop.pc = "sleep" /\ gate # "manager" /\ st.synced /\ loop.passed =>
       NoScanComing /\ Covers(st.status)
  /\ manager.pc = "commit" /\ manager.copy.synced => NoScanComing /\ ~ hook.foregroundFresh

SuppressInv == QuietInv /\ PublishedInv /\ StatusInv

LEMMA InitSuppress == Init => SuppressInv
<1> SUFFICES ASSUME Init PROVE SuppressInv
  OBVIOUS
<1>1. loop.pc = "start" /\ manager.pc = "idle" /\ inbox = <<>> /\ DOMAIN inbox = {}
      /\ \A t \in Threads : reply[t].is = "idle"
  BY DEF Init, Starting, SleepingLoop, IdleManager, Idle
<1>2. QED
  BY <1>1 DEF SuppressInv, QuietInv, PublishedInv, StatusInv

LEMMA NoScanKept ==
  ASSUME TypeOK, NoScanComing, NEW t, NEW cmd, cmd # "GetForeground", NEW uids, NEW settings,
         Send(t, cmd, uids, settings)
  PROVE  NoScanComing'
<1> DEFINE r == [cmd |-> cmd, uids |-> uids, settings |-> settings, from |-> t]
<1>1. CASE inbox' = Append(inbox, r)
  <2>1. r.cmd # "GetForeground"
    OBVIOUS
  <2> HIDE DEF r
  <2>2. DOMAIN inbox' = DOMAIN inbox \cup {Len(inbox) + 1} /\ inbox'[Len(inbox) + 1] = r
        /\ \A i \in DOMAIN inbox : inbox'[i] = inbox[i]
    BY <1>1 DEF TypeOK
  <2>3. QED
    BY <2>1, <2>2 DEF NoScanComing
<1>2. CASE inbox' = inbox
  BY <1>2 DEF NoScanComing
<1>3. QED
  BY <1>1, <1>2 DEF Send, CannotConnect

LEMMA SentReply ==
  ASSUME TypeOK, NEW t \in Threads, NEW cmd, NEW uids, NEW settings, Send(t, cmd, uids, settings)
  PROVE  reply'[t].is \notin {"ok", "rejected"} /\ \A u \in Threads : u # t => reply'[u] = reply[u]
<1>1. reply \in [Threads -> Replies]
  BY DEF TypeOK
<1>2. QED
  BY <1>1 DEF Send, CannotConnect, Waiting, Answer

(* No step of the loop leaves it with an answer it has not looked at.        *)
LEMMA LoopReplies ==
  ASSUME Inv, AgreeInv, Loop
  PROVE  /\ \A t \in Threads : reply'[t].is \notin {"ok", "rejected"}
         /\ manager'.pc = "idle" /\ hook' = hook
<1>1. TypeOK /\ Threads = {"loop", "manager"} /\ manager.pc = "idle" /\ reply["manager"].is = "idle"
  BY LoopAlone DEF Inv, Threads
<1>2. \/ \E cmd, uids, settings : Send("loop", cmd, uids, settings)
      \/ Consume("loop")
      \/ reply' = reply /\ loop.pc \in {"pass", "drain", "break"}
  <2>1. ASSUME NEW payload, SendConfig("loop", payload)
        PROVE  \E cmd, uids, settings : Send("loop", cmd, uids, settings)
    BY <2>1 DEF SendConfig
  <2>2. CASE LoopPrepares \/ StartSyncs
    BY <2>1, <2>2 DEF LoopPrepares, StartSyncs
  <2>3. CASE LoopConfigAnswered \/ StartAsks \/ LoopStartsPass \/ LoopBreaks
    BY <2>3 DEF LoopConfigAnswered, StartAsks, LoopStartsPass, LoopBreaks
  <2>4. CASE LoopDrains
    BY <2>4 DEF LoopDrains
  <2>5. CASE StartServes \/ LoopApplies \/ LoopPasses \/ LoopSkipsPass \/ LoopPendingAnswered
             \/ LoopBreakAnswered
    BY <2>5 DEF StartServes, LoopApplies, LoopPasses, LoopSkipsPass, LoopPendingAnswered,
       LoopBreakAnswered
  <2>6. CASE LoopDisabled \/ LoopFinishes
    BY <2>6 DEF LoopDisabled, LoopFinishes
  <2>7. QED
    BY <2>2, <2>3, <2>4, <2>5, <2>6 DEF Loop
<1>3. reply' = reply /\ loop.pc \in {"pass", "drain", "break"} => reply["loop"].is = "idle"
  BY DEF AgreeInv, RestInv
<1>4. \A t \in Threads : reply'[t].is \notin {"ok", "rejected"}
  BY <1>1, <1>2, <1>3, SentReply, Consumed
<1>5. UNCHANGED <<manager, hook>>
  BY DEF Loop, StartAsks, StartSyncs, StartServes, LoopPrepares, LoopConfigAnswered,
         LoopApplies, LoopStartsPass, LoopDisabled, LoopPasses, LoopSkipsPass, LoopDrains,
         LoopPendingAnswered, LoopBreaks, LoopBreakAnswered, LoopFinishes, LoopOnly
<1>6. QED
  BY <1>1, <1>4, <1>5

LEMMA LoopSuppress == ASSUME Inv, AgreeInv, SuppressInv, Loop PROVE SuppressInv'
<1>1. /\ TypeOK /\ st \in States /\ loop \in LoopLocals /\ loop.snapshot \in States
      /\ "loop" \in Threads /\ Threads = {"loop", "manager"}
  BY LoopTypes DEF Threads
<1>2. /\ \A t \in Threads : reply'[t].is \notin {"ok", "rejected"}
      /\ manager'.pc = "idle" /\ hook' = hook
  BY LoopReplies
<1>3. gate # "manager"
  BY LoopAlone
<1>4. PublishedInv'
  BY <1>1, <1>2 DEF PublishedInv
<1>5. reply["loop"].is \in {"ok", "rejected"} => inbox = <<>>
  BY <1>1 DEF SuppressInv, QuietInv
<1>6. ASSUME loop'.pc # "foreground",
             loop'.pc = "health" /\ loop'.accepted => NoScanComing' /\ ~ hook.foregroundFresh,
             loop'.pc = "pass" /\ st'.synced => inbox' = <<>> /\ ~ hook.foregroundFresh,
             loop'.pc \in {"drain", "pending", "break", "breaking"} /\ st'.synced /\ loop'.passed =>
               NoScanComing' /\ (hook.foregroundFresh => Controlled(st'.records) \ hook.foreground \subseteq loop'.snapshot.status),
             loop'.pc = "sleep" /\ st'.synced /\ loop'.passed =>
               NoScanComing' /\ (hook.foregroundFresh => Controlled(st'.records) \ hook.foreground \subseteq st'.status)
      PROVE  SuppressInv'
  <2>1. QuietInv'
    BY <1>2, <1>6 DEF QuietInv
  <2>2. StatusInv'
    BY <1>2, <1>6 DEF StatusInv, Covers
  <2>3. QED
    BY <1>4, <2>1, <2>2 DEF SuppressInv
<1>7. CASE StartAsks \/ StartSyncs \/ LoopPrepares
  <2>1. loop'.pc \in {"startHealth", "startConfig", "config"}
    BY <1>1, <1>7 DEF StartAsks, StartSyncs, LoopPrepares, LoopLocals
  <2>2. QED
    BY <1>6, <2>1
<1>8. CASE StartServes
  <2>1. loop.pc = "startConfig" /\ loop'.pc = "sleep" /\ inbox' = inbox
        /\ (st'.synced => reply["loop"].is = "ok")
    BY <1>1, <1>8 DEF StartServes, SleepingLoop, Consume, States
  <2>2. st'.synced => ~ hook.foregroundFresh /\ DOMAIN inbox' = {}
    BY <1>5, <2>1 DEF SuppressInv, PublishedInv
  <2>3. QED
    BY <1>6, <2>1, <2>2 DEF NoScanComing
<1>9. CASE LoopApplies
  <2>1. /\ loop.pc = "health" /\ loop'.pc = "pass" /\ inbox' = inbox
        /\ (st'.synced => reply["loop"].is = "ok" /\ loop.accepted)
    BY <1>1, <1>9 DEF LoopApplies, HealthOk, LoopLocals, Consume, States
  <2>2. QED
    BY <1>5, <1>6, <2>1 DEF SuppressInv, StatusInv
<1>10. CASE LoopStartsPass
  <2>1. loop'.pc = "foreground" /\ loop.pc = "pass" /\ Send("loop", "GetForeground", {}, NoConfig)
    BY <1>1, <1>10 DEF LoopStartsPass, LoopLocals
  <2> DEFINE r == [cmd |-> "GetForeground", uids |-> {}, settings |-> NoConfig, from |-> "loop"]
  <2>2. /\ r \in Requests /\ r.from = "loop" /\ r.cmd = "GetForeground"
        /\ Send("loop", r.cmd, r.uids, r.settings)
    BY <2>1 DEF Requests, Commands, Threads
  <2>3. Abandoned(inbox)
    BY <2>1, LoopAlone DEF AgreeInv, RestInv
  <2> HIDE DEF r
  <2>4. Alone(inbox', r, reply'["loop"].is)
    BY <1>1, <2>2, <2>3, Asks
  <2>5. QuietInv'
    BY <1>2, <2>2, <2>4 DEF QuietInv, Alone
  <2>6. StatusInv'
    BY <1>2, <2>1 DEF StatusInv
  <2>7. QED
    BY <1>4, <2>5, <2>6 DEF SuppressInv
<1>11. CASE LoopDisabled
  <2>1. loop'.pc = "drain" /\ loop.pc = "pass" /\ st' = st /\ inbox' = inbox
    BY <1>1, <1>11 DEF LoopDisabled, LoopLocals
  <2>2. st.synced => inbox = <<>> /\ ~ hook.foregroundFresh
    BY <2>1 DEF SuppressInv, StatusInv
  <2>3. QED
    BY <1>6, <2>1, <2>2 DEF NoScanComing
<1>12. CASE LoopPasses
  <2>1. /\ loop'.pc = "drain" /\ loop.pc = "foreground" /\ reply["loop"].is = "ok" /\ st' = st
        /\ inbox' = inbox /\ loop'.snapshot.status = Controlled(loop.snapshot.records) \ reply["loop"].uids
    BY <1>1, <1>12 DEF LoopPasses, Consume, LoopLocals, States
  <2>2. inbox = <<>> /\ (hook.foregroundFresh => hook.foreground = reply["loop"].uids)
    BY <1>5, <2>1 DEF SuppressInv, PublishedInv
  <2>3. Controlled(loop.snapshot.records) = Controlled(st.records)
    BY <2>1 DEF AgreeInv, MemoryInv, PassPcs, Payload
  <2>4. QED
    BY <1>6, <2>1, <2>2, <2>3 DEF NoScanComing
<1>13. CASE LoopSkipsPass
  <2>1. loop'.pc = "drain" /\ ~ loop'.passed
    BY <1>1, <1>13 DEF LoopSkipsPass, LoopLocals
  <2>2. QED
    BY <1>6, <2>1
<1>14. CASE LoopDrains \/ LoopPendingAnswered \/ LoopBreaks \/ LoopBreakAnswered
  <2>1. /\ loop.pc \in {"drain", "pending", "break", "breaking"} /\ loop'.pc \in {"pending", "break", "breaking"}
        /\ loop'.snapshot = loop.snapshot /\ loop'.passed = loop.passed /\ st' = st
        /\ \/ inbox' = inbox
           \/ \E uids : Send("loop", "UpdatePending", uids, NoConfig)
           \/ \E uids : Send("loop", "BreakNetwork", uids, NoConfig)
    <3>1. CASE LoopDrains
      BY <1>1, <3>1 DEF LoopDrains, LoopLocals
    <3>2. CASE LoopPendingAnswered \/ LoopBreakAnswered
      BY <1>1, <3>2 DEF LoopPendingAnswered, LoopBreakAnswered, LoopLocals, Consume
    <3>3. CASE LoopBreaks
      BY <1>1, <3>3 DEF LoopBreaks, LoopLocals
    <3> QED
      BY <1>14, <3>1, <3>2, <3>3
  <2>2. NoScanComing => NoScanComing'
    BY <1>1, <2>1, NoScanKept DEF NoScanComing
  <2>3. st.synced /\ loop.passed =>
          NoScanComing /\ (hook.foregroundFresh => Controlled(st.records) \ hook.foreground \subseteq loop.snapshot.status)
    BY <2>1 DEF SuppressInv, StatusInv, Covers
  <2>4. QED
    BY <1>6, <2>1, <2>2, <2>3
<1>15. CASE LoopFinishes
  <2>1. /\ loop.pc = "break" /\ loop'.pc = "sleep" /\ loop'.passed = loop.passed /\ inbox' = inbox
        /\ st'.status = loop.snapshot.status /\ st'.records = st.records /\ st'.synced = st.synced
    BY <1>1, <1>15 DEF LoopFinishes, SleepingLoop, States
  <2>2. st.synced /\ loop.passed =>
          NoScanComing /\ (hook.foregroundFresh => Controlled(st.records) \ hook.foreground \subseteq loop.snapshot.status)
    BY <2>1 DEF SuppressInv, StatusInv, Covers
  <2>3. QED
    BY <1>6, <2>1, <2>2 DEF NoScanComing
<1>16. CASE LoopConfigAnswered
  <2>1. /\ loop.pc = "config" /\ loop'.pc = "health" /\ Send("loop", "GetHookHealth", {}, NoConfig)
        /\ (loop'.accepted => reply["loop"].is = "ok")
    BY <1>1, <1>16 DEF LoopConfigAnswered, LoopLocals
  <2>2. loop'.accepted => NoScanComing /\ ~ hook.foregroundFresh
    BY <1>5, <2>1 DEF SuppressInv, PublishedInv, NoScanComing
  <2>3. loop'.accepted => NoScanComing'
    BY <1>1, <2>1, <2>2, NoScanKept
  <2>4. QED
    BY <1>6, <2>1, <2>2, <2>3
<1>17. QED
  BY <1>7, <1>8, <1>9, <1>10, <1>11, <1>12, <1>13, <1>14, <1>15, <1>16 DEF Loop

LEMMA CommandSuppress ==
  ASSUME Inv, AgreeInv, SuppressInv, AppConfigBegins \/ SettingBegins \/ ManagerContinues
  PROVE  SuppressInv'
<1>1. /\ loop.pc = "sleep" /\ loop' = loop /\ hook' = hook /\ reply["loop"].is = "idle"
  BY CommandAlone
<1>2. /\ TypeOK /\ st \in States /\ manager \in ManagerLocals /\ manager.copy \in States
      /\ "loop" \in Threads /\ "manager" \in Threads /\ Threads = {"loop", "manager"}
      /\ reply \in [Threads -> Replies]
  BY DEF Inv, TypeOK, ManagerLocals, Threads
<1>3. manager.pc # "idle" => gate = "manager"
  BY DEF Inv, GateInv
<1>4. /\ \/ gate' = "manager"
         \/ ManagerCommits
      /\ \/ \E payload : SendConfig("manager", payload)
         \/ Consume("manager")
         \/ inbox' = inbox /\ reply' = reply /\ reply["manager"].is = "idle"
  <2>1. CASE AppConfigBegins \/ SettingBegins
    BY <2>1 DEF AppConfigBegins, SettingBegins, AgreeInv, RestInv
  <2>2. CASE AppConfigPersists \/ AppConfigRollsBack
    BY <1>3, <2>2 DEF AppConfigPersists, AppConfigRollsBack
  <2>3. CASE AppConfigAccepted \/ AppConfigRolledBack
    BY <1>3, <2>3 DEF AppConfigAccepted, AppConfigRolledBack
  <2>4. CASE AppConfigWriteFails \/ SettingPersists
    BY <1>3, <2>4 DEF AppConfigWriteFails, SettingPersists, AgreeInv, RestInv
  <2>5. CASE ManagerCommits
    BY <2>5 DEF ManagerCommits, AgreeInv, RestInv
  <2>6. QED
    BY <2>1, <2>2, <2>3, <2>4, <2>5 DEF ManagerContinues
<1>5. \A t \in Threads : reply'[t].is \notin {"ok", "rejected"}
  BY <1>1, <1>2, <1>4, SentReply, Consumed DEF SendConfig
<1>6. QuietInv' /\ PublishedInv'
  BY <1>1, <1>2, <1>5 DEF QuietInv, PublishedInv
<1>7. StatusInv'
  <2>1. CASE AppConfigAccepted
    <3>1. manager.pc = "send" /\ reply["manager"].is = "ok" /\ inbox' = inbox
      BY <2>1 DEF AppConfigAccepted, Consume
    <3>2. inbox = <<>> /\ ~ hook.foregroundFresh
      BY <1>2, <3>1 DEF SuppressInv, QuietInv, PublishedInv
    <3>3. gate' = "manager"
      BY <1>3, <2>1, <3>1 DEF AppConfigAccepted
    <3>4. QED
      BY <1>1, <3>1, <3>2, <3>3 DEF StatusInv, NoScanComing
  <2>2. CASE ManagerCommits
    <3>1. manager.pc = "commit" /\ st' = manager.copy /\ manager'.pc = "idle" /\ inbox' = inbox
      BY <2>2 DEF ManagerCommits, IdleManager
    <3>2. st'.synced => NoScanComing /\ ~ hook.foregroundFresh
      BY <3>1 DEF SuppressInv, StatusInv
    <3>3. QED
      BY <1>1, <3>1, <3>2 DEF StatusInv, NoScanComing, Covers
  <2>3. CASE ~ AppConfigAccepted /\ ~ ManagerCommits
    <3>1. gate' = "manager"
      BY <1>4, <2>3
    <3>2. manager'.pc = "commit" => ~ manager'.copy.synced
      <4>1. CASE AppConfigBegins \/ SettingBegins \/ AppConfigPersists \/ AppConfigRollsBack
        <5>1. manager'.pc \in {"app", "settings", "send", "rollback"}
          BY <1>2, <4>1 DEF AppConfigBegins, SettingBegins, AppConfigPersists, AppConfigRollsBack,
             ManagerLocals
        <5>2. QED
          BY <5>1
      <4>2. CASE AppConfigWriteFails
        <5>1. PICK now : manager' = [manager EXCEPT !.pc = "commit",
                           !.copy = [AppConfigAfterError(now) EXCEPT !.synced = FALSE]]
          BY <4>2 DEF AppConfigWriteFails
        <5>2. ~ manager'.copy.synced
          BY <1>2, <5>1 DEF ManagerLocals, AppConfigAfterError, Committed, States
        <5>3. QED
          BY <5>2
      <4>3. CASE SettingPersists
        <5>1. PICK now : manager' = [manager EXCEPT !.pc = "commit", !.copy =
               [(IF now = manager.settings THEN Committed(manager.copy, manager.copy.records, now)
                 ELSE manager.copy) EXCEPT !.synced = FALSE]]
          BY <1>2, <4>3 DEF SettingPersists, Unclaimed, ManagerLocals
        <5>2. ~ manager'.copy.synced
          BY <1>2, <5>1 DEF ManagerLocals, Committed, States
        <5>3. QED
          BY <5>2
      <4>4. CASE AppConfigRolledBack
        <5>1. manager.pc = "rollback" /\ manager'.copy = manager.copy
          BY <1>2, <4>4 DEF AppConfigRolledBack, ManagerLocals
        <5>2. QED
          BY <5>1 DEF AgreeInv, MemoryInv
      <4>5. QED
        BY <2>3, <4>1, <4>2, <4>3, <4>4 DEF ManagerContinues
    <3>3. QED
      BY <1>1, <3>1, <3>2 DEF StatusInv
  <2>4. QED
    BY <2>1, <2>2, <2>3
<1>8. QED
  BY <1>6, <1>7 DEF SuppressInv

(* The hook publishes for the request it serves.                             *)
LEMMA ServesSuppress ==
  ASSUME Inv, AgreeInv, SuppressInv, NEW cmd, NEW answer, Serves(cmd, answer),
         UNCHANGED <<st, gate, loop, manager>>,
         \/ cmd = "SetConfig" /\ ~ hook'.foregroundFresh
         \/ cmd = "GetForeground" /\ hook'.foreground = answer.uids
         \/ /\ hook'.foreground = hook.foreground /\ hook'.foregroundFresh = hook.foregroundFresh
            /\ cmd \in {"SetConfig", "GetForeground"} => answer.is # "ok"
  PROVE  SuppressInv'
<1>1. /\ inbox # <<>> /\ inbox \in Seq(Requests) /\ inbox' = Tail(inbox) /\ Request.cmd = cmd
      /\ Request = inbox[1] /\ 1 \in DOMAIN inbox /\ Len(inbox) \in Nat
      /\ \A i \in DOMAIN inbox' : i \in Nat /\ i # 0 /\ i + 1 \in DOMAIN inbox /\ inbox'[i] = inbox[i + 1]
      /\ \A t \in Threads : reply'[t] = IF t = Request.from THEN answer ELSE reply[t]
  BY TailFacts DEF Serves, Inv, TypeOK
<1>2. \A t \in Threads : t # Request.from => reply'[t].is \notin {"ok", "rejected"}
  BY <1>1 DEF SuppressInv, QuietInv
<1>3. ASSUME NEW t \in Threads, reply'[t].is \in {"ok", "rejected"}
      PROVE  inbox' = <<>> /\ Request.from = t /\ reply'[t] = answer
  <2>1. Request.from = t
    BY <1>2, <1>3
  <2>2. Len(inbox) = 1
    BY <1>1, <2>1 DEF AgreeInv, LastInv, Threads
  <2>3. QED
    BY <1>1, <2>1, <2>2
<1>4. QuietInv'
  <2>1. \A i \in DOMAIN inbox' :
          inbox'[i].from = "loop" /\ loop.pc = "foreground" => inbox'[i].cmd = "GetForeground"
    BY <1>1 DEF SuppressInv, QuietInv
  <2>2. QED
    BY <1>3, <2>1 DEF QuietInv
<1>5. PublishedInv'
  <2>1. "loop" \in Threads /\ "manager" \in Threads
    BY DEF Threads
  <2>2. loop.pc \in {"startConfig", "config"} /\ reply'["loop"].is = "ok" => cmd = "SetConfig" /\ answer.is = "ok"
    BY <1>1, <1>3, <2>1 DEF AgreeInv, LastInv
  <2>3. manager.pc = "send" /\ reply'["manager"].is = "ok" => cmd = "SetConfig" /\ answer.is = "ok"
    BY <1>1, <1>3, <2>1 DEF AgreeInv, LastInv
  <2>4. loop.pc = "foreground" /\ reply'["loop"].is = "ok" =>
          cmd = "GetForeground" /\ answer.is = "ok" /\ reply'["loop"] = answer
    BY <1>1, <1>3, <2>1 DEF SuppressInv, QuietInv
  <2>5. QED
    BY <2>2, <2>3, <2>4 DEF PublishedInv
<1>6. StatusInv'
  <2>1. NoScanComing => NoScanComing' /\ cmd # "GetForeground"
    BY <1>1 DEF NoScanComing
  <2>2. ASSUME NEW status, NoScanComing, Covers(status)
        PROVE  hook'.foregroundFresh => Controlled(st'.records) \ hook'.foreground \subseteq status
    BY <2>1, <2>2 DEF Covers
  <2>3. NoScanComing /\ ~ hook.foregroundFresh => ~ hook'.foregroundFresh
    BY <2>1
  <2>4. QED
    BY <1>1, <2>1, <2>2, <2>3 DEF SuppressInv, StatusInv, Covers
<1>7. QED
  BY <1>4, <1>5, <1>6 DEF SuppressInv

LEMMA HookSuppress ==
  ASSUME Inv, AgreeInv, SuppressInv, HookServes \/ HookFails
  PROVE  SuppressInv'
<1>1. UNCHANGED <<st, gate, loop, manager>>
  BY DEF HookServes, HookFails, HookConfigures, HookReportsHealth, HookScansForeground,
     HookCannotScan, HookTakesPending, HookRefusesPending, HookBreaksNetwork, DaemonUnchanged
<1>2. \A is, uids : Answer(is, uids).is = is /\ Answer(is, uids).uids = uids
  BY DEF Answer
<1>3. hook \in HookStates
  BY DEF Inv, TypeOK
<1>4. CASE HookConfigures
  <2>1. Serves("SetConfig", Answer("ok", {})) /\ ~ hook'.foregroundFresh
    BY <1>4 DEF HookConfigures, Configured, BlankHook
  <2>2. QED
    BY <1>1, <2>1, ServesSuppress
<1>5. CASE HookScansForeground
  <2>1. PICK uids : Serves("GetForeground", Answer("ok", uids)) /\ hook'.foreground = uids
    BY <1>3, <1>5 DEF HookScansForeground, HookStates
  <2>2. QED
    BY <1>1, <1>2, <2>1, ServesSuppress
<1>6. ASSUME NEW cmd, NEW answer, Serves(cmd, answer),
             cmd \in {"SetConfig", "GetForeground"} => answer.is # "ok",
             hook'.foreground = hook.foreground, hook'.foregroundFresh = hook.foregroundFresh
      PROVE  SuppressInv'
  BY <1>1, <1>6, ServesSuppress
<1>7. CASE HookReportsHealth
  BY <1>6, <1>7 DEF HookReportsHealth
<1>8. CASE HookCannotScan
  BY <1>2, <1>6, <1>8 DEF HookCannotScan
<1>9. CASE HookTakesPending
  <2>1. hook'.foreground = hook.foreground /\ hook'.foregroundFresh = hook.foregroundFresh
    BY <1>3, <1>9 DEF HookTakesPending, HookStates
  <2>2. QED
    BY <1>6, <1>9, <2>1 DEF HookTakesPending
<1>10. CASE HookRefusesPending
  BY <1>6, <1>10 DEF HookRefusesPending
<1>11. CASE HookBreaksNetwork
  BY <1>6, <1>11 DEF HookBreaksNetwork
<1>12. CASE HookFails
  BY <1>2, <1>6, <1>12 DEF HookFails
<1>13. QED
  BY <1>4, <1>5, <1>7, <1>8, <1>9, <1>10, <1>11, <1>12 DEF HookServes

LEMMA FaultSuppress ==
  ASSUME Inv, AgreeInv, SuppressInv,
         HookRestarts \/ DaemonRestarts \/ \E t \in Threads : RequestTimesOut(t)
  PROVE  SuppressInv'
<1>1. /\ inbox \in Seq(Requests) /\ reply \in [Threads -> Replies]
      /\ "loop" \in Threads /\ "manager" \in Threads
  BY DEF Inv, TypeOK, Threads
<1>2. CASE HookRestarts
  <2>1. /\ UNCHANGED <<st, gate, loop, manager>> /\ inbox' = <<>> /\ DOMAIN inbox' = {}
        /\ ~ hook'.foregroundFresh
        /\ \A t \in Threads :
             reply'[t] = IF reply[t].is = "waiting" THEN Answer("error", {}) ELSE reply[t]
    BY <1>1, <1>2 DEF HookRestarts, DaemonUnchanged, BlankHook
  <2>2. QED
    BY <1>1, <2>1 DEF SuppressInv, QuietInv, PublishedInv, StatusInv, Covers, NoScanComing
<1>3. CASE DaemonRestarts
  <2>1. /\ loop'.pc = "start" /\ manager'.pc = "idle"
    BY <1>3 DEF DaemonRestarts, Starting, SleepingLoop, IdleManager
  <2>2. \A t \in Threads : reply'[t].is = "idle"
    BY <1>3 DEF DaemonRestarts, Idle
  <2>3. QED
    BY <2>1, <2>2 DEF SuppressInv, QuietInv, PublishedInv, StatusInv
<1>4. ASSUME NEW t \in Threads, RequestTimesOut(t) PROVE SuppressInv'
  <2>1. /\ UNCHANGED <<st, gate, loop, manager, hook>>
        /\ inbox' = Orphaned(t) /\ reply' = [reply EXCEPT ![t] = Answer("error", {})]
    BY <1>4 DEF RequestTimesOut
  <2>2. /\ reply'[t].is = "error" /\ \A u \in Threads : u # t => reply'[u] = reply[u]
    BY <1>1, <2>1 DEF Answer
  <2>3. /\ DOMAIN inbox' = DOMAIN inbox
        /\ \A i \in DOMAIN inbox :
             inbox'[i].cmd = inbox[i].cmd /\ inbox'[i].from \in {inbox[i].from, "gone"}
    <3>1. \A i \in DOMAIN inbox : inbox[i] \in Requests
      BY <1>1
    <3>2. QED
      BY <2>1, <3>1 DEF Orphaned, Requests
  <2>4. inbox = <<>> => inbox' = <<>>
    BY <1>1, <2>1, <2>3, OrphanTypes DEF Inv
  <2>5. QuietInv'
    BY <2>1, <2>2, <2>3, <2>4 DEF SuppressInv, QuietInv
  <2>6. PublishedInv'
    BY <1>1, <2>1, <2>2 DEF SuppressInv, PublishedInv
  <2>7. StatusInv'
    BY <2>1, <2>3, <2>4 DEF SuppressInv, StatusInv, Covers, NoScanComing
  <2>8. QED
    BY <2>5, <2>6, <2>7 DEF SuppressInv
<1>5. QED
  BY <1>2, <1>3, <1>4

(* A suppressed app was in the background in the last pass, as long as that  *)
(* pass had its foreground and nothing is under way                          *)
(* (shouldSuppressBackgroundWork against run_live_control_pass).             *)
THEOREM SuppressesOnlyBackgroundCorrect == Spec => []SuppressesOnlyBackground
<1>1. Inv /\ AgreeInv /\ SuppressInv /\ [Next]_vars => SuppressInv'
  <2> SUFFICES ASSUME Inv, AgreeInv, SuppressInv, [Next]_vars PROVE SuppressInv'
    OBVIOUS
  <2>1. CASE UNCHANGED vars
    BY <2>1 DEF SuppressInv, QuietInv, PublishedInv, StatusInv, Covers, NoScanComing, vars
  <2>2. QED
    BY <2>1, LoopSuppress, CommandSuppress, HookSuppress, FaultSuppress DEF Next, ManagerBegins
<1>2. Inv /\ AgreeInv /\ SuppressInv => SuppressesOnlyBackground
  <2> SUFFICES ASSUME Inv, AgreeInv, SuppressInv, gate = "none", st.synced, loop.passed,
                      NEW u \in Apps, Suppresses(u)
               PROVE  u \in st.status
    BY DEF SuppressesOnlyBackground
  <2>1. loop.pc = "sleep"
    BY DEF Inv, GateInv
  <2>2. hook.foregroundFresh /\ u \in Managed \ hook.foreground
    BY DEF Suppresses
  <2>3. hook.cfg # NoConfig /\ u \in hook.cfg.managed
    BY <2>2 DEF Managed
  <2>4. hook.cfg = Payload(st)
    BY <2>3 DEF AgreeInv, MemoryInv, Agrees, Brings
  <2>5. u \in Controlled(st.records) \ hook.foreground
    BY <2>2, <2>3, <2>4 DEF Payload
  <2>6. QED
    BY <2>1, <2>2, <2>5 DEF SuppressInv, StatusInv, Covers
<1>3. QED
  BY <1>1, <1>2, InitSuppress, Invariance, AgreeInvariance, PTL DEF Spec
=============================================================================
