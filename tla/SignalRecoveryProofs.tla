------------------------ MODULE SignalRecoveryProofs ------------------------
(***************************************************************************)
(* Proofs about SignalRecovery, for every set of processes and of inodes.  *)
(*                                                                         *)
(* RecoverySpec only takes steps of the ledger, so that what is proved of  *)
(* the ledger holds of it.  The argument for the recovery is that a stop   *)
(* of Freezeit is always accounted for: reported and in the ledger, the    *)
(* subject of the operation in progress, or of one that was interrupted.   *)
(***************************************************************************)
EXTENDS SignalRecovery, SignalLedgerProofs

\* The signal operation and the ledger call in it belong together.
TaskInv ==
  /\ task.at = "idle" => task = NoTask
  /\ task.at # "idle" => task.id \in Identities
  /\ call.step # "idle" => task.at \in {"recording", "taking"} /\ answer = "none"
  /\ phase = "recovering" => task.at \in {"idle", "taking"}

\* What was reported stays recorded, by the files as they are and as the call
\* in progress is going to leave them.
HeldInv ==
  /\ held \subseteq Owned
  /\ call.step # "idle" => held \subseteq call.records
  /\ call.step # "idle" /\ call.result = "recorded" => task.id \in call.records
  /\ call.step = "rebind" => call.records = Owned
  /\ task.at = "recording" /\ answer = "recorded" => task.id \in Owned

\* A process that Freezeit stopped: the stop was reported, or is in progress.
StopInv ==
  \A i \in alive \ interrupted : stopper[i] = "freezeit" => i \in held \/ task.id = i

\* A recovery without failures has all of them before it.
TodoInv ==
  phase = "recovering" /\ ~failed =>
    \A i \in alive \ interrupted : stopper[i] = "freezeit" => i \in todo

RecoveryInv == RecoveryTypeOK /\ LedgerInv /\ TaskInv /\ HeldInv /\ StopInv /\ TodoInv

-----------------------------------------------------------------------------
(* The recovery is a use of the ledger *)

LEMMA LedgerSteps ==
  ASSUME RecoveryTypeOK, TaskInv, [RecoveryNext]_recoveryVars
  PROVE  [Next]_vars
<1>1. task.at = "stopped" => task.id \in Identities
  BY DEF TaskInv
<1>2. CASE \E i \in Identities :
             \/ SendStop(i) \/ OtherStops(i) \/ OtherResumes(i) \/ Exit(i)
             \/ RecoverSkip(i) \/ RecoverUnreadable(i)
  BY <1>2 DEF SendStop, OtherStops, OtherResumes, Exit, RecoverSkip, RecoverUnreadable
<1>3. CASE \E i \in Identities : PromoteStop(i) \/ Resume(i) \/ RecoverStopped(i)
  BY <1>3 DEF PromoteStop, Resume, RecoverStopped, BeginResume, LedgerUnreadable, Next
<1>4. CASE RecordStop \/ LedgerStep \/ DaemonDies
  BY <1>1, <1>4 DEF RecordStop, LedgerStep, DaemonDies, LedgerUnreadable, Next
<1>5. CASE StopSucceeds \/ StopUndone \/ SendCont \/ ResumeFails \/ RecoveryDone
  BY <1>5 DEF StopSucceeds, StopUndone, SendCont, ResumeFails, RecoveryDone
<1>6. CASE UNCHANGED recoveryVars
  BY <1>6 DEF recoveryVars
<1> QED
  BY <1>2, <1>3, <1>4, <1>5, <1>6 DEF RecoveryNext

-----------------------------------------------------------------------------
(* The invariant *)

LEMMA RecoveryInitInv == RecoveryInit => RecoveryInv
<1> SUFFICES ASSUME RecoveryInit PROVE RecoveryInv
  OBVIOUS
<1>1. LedgerInv /\ TypeOK
  BY InitInv DEF RecoveryInit, LedgerInv
<1>2. RecoveryTypeOK
  BY <1>1 DEF RecoveryInit, RecoveryTypeOK, Owned, NoTask
<1>3. TaskInv /\ HeldInv
  BY DEF RecoveryInit, Init, TaskInv, HeldInv, NoTask, NoCall
<1>4. StopInv /\ TodoInv
  BY DEF RecoveryInit, StopInv, TodoInv
<1> QED
  BY <1>1, <1>2, <1>3, <1>4 DEF RecoveryInv

\* Steps that leave the ledger and the operation in progress alone.
LEMMA QuietInv ==
  ASSUME RecoveryInv, UNCHANGED <<vars, task>>, held' \subseteq held, RecoveryTypeOK',
         phase' = "recovering" => phase = "recovering",
         StopInv', TodoInv'
  PROVE  RecoveryInv'
<1>1. LedgerInv'
  BY NextInv DEF RecoveryInv
<1>2. UNCHANGED <<main, inode, sidecar, untrusted, call, answer, task>>
  BY DEF vars
<1>3. TaskInv' /\ HeldInv'
  BY <1>2 DEF RecoveryInv, TaskInv, HeldInv, Owned, NoTask
<1> QED
  BY <1>1, <1>3 DEF RecoveryInv

LEMMA SendStopInv ==
  ASSUME RecoveryInv, NEW i \in Identities, SendStop(i)
  PROVE  RecoveryInv'
<1>1. /\ phase = "running" /\ task = NoTask /\ task' = [at |-> "stopped", id |-> i]
      /\ stopper' = [stopper EXCEPT ![i] = "freezeit"]
      /\ UNCHANGED <<main, inode, sidecar, untrusted, call, answer>>
      /\ UNCHANGED <<vars, alive, phase, todo, failed, held, interrupted>>
  BY DEF SendStop, Running, vars, recovery
<1>2. LedgerInv' /\ TypeOK'
  BY <1>1, NextInv DEF RecoveryInv, LedgerInv
<1>3. RecoveryTypeOK'
  BY <1>1, <1>2 DEF RecoveryInv, RecoveryTypeOK
<1>4. call.step = "idle"
  BY <1>1 DEF RecoveryInv, TaskInv, NoTask
<1>5. TaskInv' /\ HeldInv'
  BY <1>1, <1>4 DEF RecoveryInv, TaskInv, HeldInv, Owned, NoTask
<1>6. \A j \in Identities : j # i => stopper'[j] = stopper[j]
  BY <1>1 DEF RecoveryInv, RecoveryTypeOK
<1>7. task.id = None
  BY <1>1 DEF NoTask
<1>8. StopInv'
  BY <1>1, <1>6, <1>7, RecoveryAssumption DEF RecoveryInv, StopInv, RecoveryTypeOK
<1>9. TodoInv'
  BY <1>1 DEF TodoInv
<1> QED
  BY <1>2, <1>3, <1>5, <1>8, <1>9 DEF RecoveryInv

LEMMA RecordStopInv ==
  ASSUME RecoveryInv, RecordStop
  PROVE  RecoveryInv'
<1>1. /\ task.at = "stopped" /\ task' = [task EXCEPT !.at = "recording"]
      /\ BeginRecord(task.id) \/ ReadFails
      /\ UNCHANGED <<alive, stopper, phase, todo, failed, held, interrupted>>
  BY DEF RecordStop, recovery, LedgerUnreadable
<1>2. task.id \in Identities /\ task'.at = "recording" /\ task'.id = task.id
  BY <1>1 DEF RecoveryInv, RecoveryTypeOK, TaskInv
<1>3. LedgerInv' /\ TypeOK'
  BY <1>1, <1>2, NextInv DEF RecoveryInv, LedgerInv, Next
<1>4. RecoveryTypeOK'
  BY <1>1, <1>2, <1>3 DEF RecoveryInv, RecoveryTypeOK
<1>5. /\ UNCHANGED main /\ call.step = "idle" /\ answer' \in {"none", "error"}
      /\ \/ call' = call
         \/ /\ call'.records = Owned \cup {task.id} /\ call'.result = "recorded"
            /\ call'.step = "sidecar" /\ answer' = "none"
  BY <1>1 DEF BeginRecord, Begin, ReadFails, Idle, disk
<1>6. Owned' = Owned
  BY <1>5 DEF Owned
<1>7. TaskInv' /\ HeldInv'
  BY <1>1, <1>2, <1>5, <1>6 DEF RecoveryInv, TaskInv, HeldInv
<1>8. StopInv' /\ TodoInv'
  BY <1>1, <1>2 DEF RecoveryInv, StopInv, TodoInv
<1> QED
  BY <1>3, <1>4, <1>7, <1>8 DEF RecoveryInv

\* A step of the call: only the replacement of the main file changes what is
\* recorded, to what the call set out to write.
LEMMA LedgerStepInv ==
  ASSUME RecoveryInv, LedgerStep
  PROVE  RecoveryInv'
<1>1. /\ RemoveSidecar \/ ReplaceMain \/ Rebind \/ WriteFails
      /\ UNCHANGED <<alive, stopper, task, phase, todo, failed, held, interrupted>>
  BY DEF LedgerStep, recovery
<1>2. LedgerInv' /\ TypeOK'
  BY <1>1, NextInv DEF RecoveryInv, LedgerInv, Next
<1>3. RecoveryTypeOK'
  BY <1>1, <1>2 DEF RecoveryInv, RecoveryTypeOK
<1>4. StopInv' /\ TodoInv'
  BY <1>1 DEF RecoveryInv, StopInv, TodoInv
<1>5. task.at \in {"recording", "taking"} /\ answer = "none" /\ call.step # "idle"
  BY <1>1 DEF RecoveryInv, TaskInv, RemoveSidecar, ReplaceMain, Rebind, WriteFails, Idle
<1>6. TaskInv' /\ HeldInv'
  <2>1. CASE RemoveSidecar
    <3>1. /\ UNCHANGED <<main, answer>>
          /\ call'.step = "main" /\ call'.records = call.records /\ call'.result = call.result
      BY <2>1 DEF RemoveSidecar, RecoveryInv, RecoveryTypeOK, TypeOK
    <3> QED
      BY <1>1, <1>5, <3>1 DEF RecoveryInv, TaskInv, HeldInv, Owned
  <2>2. CASE ReplaceMain
    <3>1. /\ main' = [i \in Identities |-> IF i \in call.records THEN "Canonical" ELSE "absent"]
          /\ call.records \subseteq Identities
      BY <2>2 DEF ReplaceMain, RecoveryInv, RecoveryTypeOK, TypeOK
    <3>2. Owned' = call.records
      BY <3>1 DEF Owned
    <3>3. \/ call'.step = "idle" /\ answer' = call.result
          \/ /\ call'.step = "rebind" /\ call'.records = call.records
             /\ call'.result = call.result /\ answer' = answer
      BY <2>2 DEF ReplaceMain, Return, NoCall, RecoveryInv, RecoveryTypeOK, TypeOK
    <3>4. HeldInv'
      BY <1>1, <1>5, <3>2, <3>3 DEF RecoveryInv, HeldInv
    <3> QED
      BY <1>1, <1>5, <3>3, <3>4 DEF RecoveryInv, TaskInv
  <2>3. CASE Rebind
    <3>1. UNCHANGED main /\ call'.step = "idle" /\ answer' = call.result /\ call.step = "rebind"
      BY <2>3 DEF Rebind, Return, NoCall
    <3> QED
      BY <1>1, <1>5, <3>1 DEF RecoveryInv, TaskInv, HeldInv, Owned
  <2>4. CASE WriteFails
    <3>1. UNCHANGED main /\ call'.step = "idle" /\ answer' = "error"
      BY <2>4 DEF WriteFails, Return, NoCall, disk
    <3> QED
      BY <1>1, <1>5, <3>1 DEF RecoveryInv, TaskInv, HeldInv, Owned
  <2> QED
    BY <1>1, <2>1, <2>2, <2>3, <2>4
<1> QED
  BY <1>2, <1>3, <1>4, <1>6 DEF RecoveryInv

-----------------------------------------------------------------------------
(* The end of an operation *)

\* The operation is over and the ledger is at rest.
LEMMA EndsInv ==
  ASSUME RecoveryInv, task.at # "idle", answer # "none",
         UNCHANGED vars, task' = NoTask, phase' = phase,
         held' \subseteq held \cup ({task.id} \cap Owned), RecoveryTypeOK', StopInv', TodoInv'
  PROVE  RecoveryInv'
<1>1. LedgerInv' /\ UNCHANGED <<main, inode, sidecar, untrusted, call, answer>>
  BY NextInv DEF RecoveryInv, vars
<1>2. call.step = "idle"
  BY DEF RecoveryInv, TaskInv
<1>3. TaskInv' /\ HeldInv'
  BY <1>1, <1>2 DEF RecoveryInv, TaskInv, HeldInv, Owned, NoTask
<1> QED
  BY <1>1, <1>3 DEF RecoveryInv

LEMMA StopSucceedsInv ==
  ASSUME RecoveryInv, StopSucceeds
  PROVE  RecoveryInv'
<1>1. /\ task.at = "recording" /\ answer = "recorded" /\ task' = NoTask
      /\ held' = held \cup {task.id} /\ interrupted' = interrupted \ {task.id}
      /\ UNCHANGED <<vars, alive, stopper, phase, todo, failed>>
      /\ UNCHANGED <<main, inode, sidecar, untrusted, call, answer>>
  BY DEF StopSucceeds, recovery, vars
<1>2. task.id \in Identities /\ task.id \in Owned /\ phase # "recovering"
  BY <1>1 DEF RecoveryInv, TaskInv, HeldInv
<1>3. RecoveryTypeOK'
  BY <1>1, <1>2 DEF RecoveryInv, RecoveryTypeOK, TypeOK, NoTask
<1>4. StopInv' /\ TodoInv'
  BY <1>1, <1>2 DEF RecoveryInv, StopInv, TodoInv
<1> QED
  BY <1>1, <1>2, <1>3, <1>4, EndsInv

LEMMA StopUndoneInv ==
  ASSUME RecoveryInv, StopUndone
  PROVE  RecoveryInv'
<1>1. /\ task.at = "recording" /\ answer = "error" /\ task' = NoTask
      /\ stopper' = [stopper EXCEPT ![task.id] = "nobody"]
      /\ held' = held \ {task.id} /\ interrupted' = interrupted \ {task.id}
      /\ UNCHANGED <<vars, alive, phase, todo, failed>>
      /\ UNCHANGED <<main, inode, sidecar, untrusted, call, answer>>
  BY DEF StopUndone, recovery, vars
<1>2. task.id \in Identities /\ phase # "recovering"
  BY <1>1 DEF RecoveryInv, TaskInv
<1>3. RecoveryTypeOK'
  BY <1>1, <1>2 DEF RecoveryInv, RecoveryTypeOK, TypeOK, NoTask
<1>4. stopper'[task.id] = "nobody" /\ \A j \in Identities : j # task.id => stopper'[j] = stopper[j]
  BY <1>1, <1>2 DEF RecoveryInv, RecoveryTypeOK
<1>5. StopInv' /\ TodoInv'
  BY <1>1, <1>2, <1>4 DEF RecoveryInv, RecoveryTypeOK, StopInv, TodoInv
<1> QED
  BY <1>1, <1>3, <1>5, EndsInv

LEMMA SendContInv ==
  ASSUME RecoveryInv, SendCont
  PROVE  RecoveryInv'
<1>1. /\ task.at = "taking" /\ answer \in {"removed", "missing"} /\ task' = NoTask
      /\ stopper' = [stopper EXCEPT ![task.id] = "nobody"]
      /\ interrupted' = interrupted \ {task.id}
      /\ \/ phase = "recovering" /\ todo' = todo \ {task.id} /\ failed' = (failed \/ task.id \notin alive)
         \/ phase # "recovering" /\ UNCHANGED <<todo, failed>>
      /\ UNCHANGED <<vars, alive, held, phase>>
      /\ UNCHANGED <<main, inode, sidecar, untrusted, call, answer>>
  BY DEF SendCont, Visited, recovery, vars
<1>2. task.id \in Identities
  BY <1>1 DEF RecoveryInv, TaskInv
<1>3. RecoveryTypeOK'
  BY <1>1, <1>2 DEF RecoveryInv, RecoveryTypeOK, TypeOK, NoTask
<1>4. stopper'[task.id] = "nobody" /\ \A j \in Identities : j # task.id => stopper'[j] = stopper[j]
  BY <1>1, <1>2 DEF RecoveryInv, RecoveryTypeOK
<1>5. StopInv'
  BY <1>1, <1>2, <1>4 DEF RecoveryInv, RecoveryTypeOK, StopInv
<1>6. TodoInv'
  BY <1>1, <1>2, <1>4 DEF RecoveryInv, RecoveryTypeOK, TodoInv
<1> QED
  BY <1>1, <1>3, <1>5, <1>6, EndsInv

LEMMA ResumeFailsInv ==
  ASSUME RecoveryInv, ResumeFails
  PROVE  RecoveryInv'
<1>1. /\ task.at = "taking" /\ answer = "error" /\ task' = NoTask
      /\ interrupted' = interrupted \cup {task.id}
      /\ \/ phase = "recovering" /\ todo' = todo \ {task.id} /\ failed'
         \/ phase # "recovering" /\ UNCHANGED <<todo, failed>>
      /\ UNCHANGED <<vars, alive, stopper, held, phase>>
      /\ UNCHANGED <<main, inode, sidecar, untrusted, call, answer>>
  BY DEF ResumeFails, Visited, recovery, vars
<1>2. task.id \in Identities
  BY <1>1 DEF RecoveryInv, TaskInv
<1>3. failed' \in BOOLEAN
  BY DEF ResumeFails, Visited, recovery, RecoveryInv, RecoveryTypeOK
<1>4. RecoveryTypeOK'
  BY <1>1, <1>2, <1>3 DEF RecoveryInv, RecoveryTypeOK, TypeOK, NoTask
<1>5. StopInv' /\ TodoInv'
  BY <1>1, <1>2 DEF RecoveryInv, RecoveryTypeOK, StopInv, TodoInv
<1> QED
  BY <1>1, <1>4, <1>5, EndsInv

-----------------------------------------------------------------------------
(* Resumes, and the visits of the recovery *)

\* A process that is to be resumed is no longer held.
LEMMA BeginResumeInv ==
  ASSUME RecoveryInv, task = NoTask, NEW i \in Identities, BeginResume(i)
  PROVE  RecoveryInv'
<1>1. /\ BeginTake(i) \/ ReadFails
      /\ task' = [at |-> "taking", id |-> i]
      /\ held' = held \ {i}
      /\ UNCHANGED <<alive, stopper, phase, todo, failed, interrupted>>
  BY DEF BeginResume, LedgerUnreadable, recovery
<1>2. LedgerInv' /\ TypeOK'
  BY <1>1, NextInv DEF RecoveryInv, LedgerInv, Next
<1>3. RecoveryTypeOK'
  BY <1>1, <1>2 DEF RecoveryInv, RecoveryTypeOK
<1>4. /\ UNCHANGED main /\ call.step = "idle" /\ answer' \in {"none", "error"}
      /\ \/ call' = call
         \/ /\ call'.records = Owned \ {i} /\ call'.result \in {"removed", "missing"}
            /\ call'.step = "sidecar" /\ answer' = "none"
  BY <1>1 DEF BeginTake, Begin, ReadFails, Idle, disk
<1>5. Owned' = Owned
  BY <1>4 DEF Owned
<1>6. TaskInv' /\ HeldInv'
  BY <1>1, <1>4, <1>5 DEF RecoveryInv, TaskInv, HeldInv
<1>7. task.id = None
  BY DEF NoTask
<1>8. StopInv' /\ TodoInv'
  BY <1>1, <1>7, RecoveryAssumption DEF RecoveryInv, RecoveryTypeOK, StopInv, TodoInv
<1> QED
  BY <1>2, <1>3, <1>6, <1>8 DEF RecoveryInv

LEMMA PromoteStopInv ==
  ASSUME RecoveryInv, NEW i \in Identities, PromoteStop(i)
  PROVE  RecoveryInv'
<1>1. /\ Promote(i) \/ PromoteRefused(i)
      /\ UNCHANGED <<main, inode, untrusted, call>>
      /\ call.step = "idle" /\ task = NoTask
      /\ UNCHANGED <<alive, stopper, task, phase, todo, failed, held, interrupted>>
  BY DEF PromoteStop, Promote, PromoteRefused, Running, recovery, disk, Idle
<1>2. LedgerInv' /\ TypeOK'
  BY <1>1, NextInv DEF RecoveryInv, LedgerInv, Next
<1>3. RecoveryTypeOK'
  BY <1>1, <1>2 DEF RecoveryInv, RecoveryTypeOK
<1>4. TaskInv' /\ HeldInv'
  BY <1>1 DEF RecoveryInv, TaskInv, HeldInv, Owned, NoTask
<1>5. StopInv' /\ TodoInv'
  BY <1>1 DEF RecoveryInv, StopInv, TodoInv
<1> QED
  BY <1>2, <1>3, <1>4, <1>5 DEF RecoveryInv

\* A process that is passed over is not one that Freezeit stopped, unless its
\* operation was interrupted: what was reported is in the ledger.
LEMMA RecoverPassesInv ==
  ASSUME RecoveryInv, NEW i \in Identities, RecoverSkip(i) \/ RecoverUnreadable(i)
  PROVE  RecoveryInv'
<1>1. /\ phase = "recovering" /\ task = NoTask /\ phase' = phase
      /\ todo' = todo \ {i}
      /\ UNCHANGED <<vars, task, alive, stopper, held, interrupted>>
      /\ \/ failed' = (failed \/ TRUE)
         \/ failed' = (failed \/ FALSE) /\ (~Stopped(i) \/ Ownership(i) = "None")
  BY DEF RecoverSkip, RecoverUnreadable, Recovering, Visited
<1>2. failed' \in BOOLEAN /\ TypeOK'
  BY DEF RecoverSkip, RecoverUnreadable, Recovering, Visited, RecoveryInv, RecoveryTypeOK,
         TypeOK, vars
<1>3. RecoveryTypeOK'
  BY <1>1, <1>2 DEF RecoveryInv, RecoveryTypeOK
<1>4. StopInv'
  BY <1>1 DEF RecoveryInv, StopInv
<1>5. task.id = None
  BY <1>1 DEF NoTask
<1>6. ASSUME i \in alive \ interrupted, stopper[i] = "freezeit"
      PROVE  Stopped(i) /\ Ownership(i) # "None"
  <2>1. i \in Owned
    BY <1>5, <1>6, RecoveryAssumption DEF RecoveryInv, StopInv, HeldInv
  <2> QED
    BY <1>6, <2>1 DEF Stopped, Ownership, Owned
<1>7. TodoInv'
  BY <1>1, <1>6 DEF RecoveryInv, TodoInv
<1> QED
  BY <1>1, <1>3, <1>4, <1>7, QuietInv

LEMMA RecoveryDoneInv ==
  ASSUME RecoveryInv, RecoveryDone
  PROVE  RecoveryInv'
<1>1. /\ todo = {} /\ phase' = "running"
      /\ UNCHANGED <<vars, alive, stopper, task, todo, failed, held, interrupted>>
  BY DEF RecoveryDone
<1>2. RecoveryTypeOK' /\ StopInv' /\ TodoInv'
  BY <1>1 DEF RecoveryInv, RecoveryTypeOK, TypeOK, vars, StopInv, TodoInv
<1> QED
  BY <1>1, <1>2, QuietInv

-----------------------------------------------------------------------------
(* The environment *)

\* The operation in progress is interrupted, what was reported is kept, and
\* the next recovery has all processes before it.
LEMMA DaemonDiesInv ==
  ASSUME RecoveryInv, DaemonDies
  PROVE  RecoveryInv'
<1>1. /\ Crash /\ UNCHANGED <<main, inode, sidecar, untrusted>> /\ call' = NoCall /\ answer' = "none"
      /\ task' = NoTask /\ phase' = "recovering" /\ todo' = alive /\ failed' = FALSE
      /\ interrupted' = interrupted \cup ({task.id} \ (held \cup {None}))
      /\ UNCHANGED <<alive, stopper, held>>
  BY DEF DaemonDies, Crash, Return, disk
<1>2. LedgerInv' /\ TypeOK'
  BY <1>1, NextInv DEF RecoveryInv, LedgerInv, Next
<1>3. task.id \in Identities \cup {None}
  BY DEF RecoveryInv, RecoveryTypeOK
<1>4. RecoveryTypeOK'
  BY <1>1, <1>2, <1>3 DEF RecoveryInv, RecoveryTypeOK, NoTask
<1>5. TaskInv' /\ HeldInv'
  BY <1>1 DEF RecoveryInv, TaskInv, HeldInv, Owned, NoTask, NoCall
<1>6. StopInv' /\ TodoInv'
  BY <1>1, RecoveryAssumption DEF RecoveryInv, RecoveryTypeOK, StopInv, TodoInv
<1> QED
  BY <1>2, <1>4, <1>5, <1>6 DEF RecoveryInv

LEMMA EnvironmentInv ==
  ASSUME RecoveryInv, NEW i \in Identities, OtherStops(i) \/ OtherResumes(i) \/ Exit(i)
  PROVE  RecoveryInv'
<1>1. UNCHANGED <<vars, task, phase, todo, failed, interrupted>>
  BY DEF OtherStops, OtherResumes, Exit, recovery
<1>2. alive' \subseteq alive /\ held' \subseteq held /\ held \ held' \subseteq {i}
  BY DEF OtherStops, OtherResumes, Exit
<1>3. /\ stopper' \in [Identities -> {"nobody", "freezeit", "other"}]
      /\ \A j \in Identities : stopper'[j] = "freezeit" => stopper[j] = "freezeit"
      /\ i \in alive' /\ stopper'[i] = "freezeit" => held' = held
  BY DEF OtherStops, OtherResumes, Exit, RecoveryInv, RecoveryTypeOK
<1>4. RecoveryTypeOK'
  BY <1>1, <1>2, <1>3 DEF RecoveryInv, RecoveryTypeOK, TypeOK, vars
<1>5. StopInv' /\ TodoInv'
  BY <1>1, <1>2, <1>3 DEF RecoveryInv, RecoveryTypeOK, StopInv, TodoInv
<1> QED
  BY <1>1, <1>2, <1>4, <1>5, QuietInv

LEMMA RecoveryStepInv == RecoveryInv /\ [RecoveryNext]_recoveryVars => RecoveryInv'
<1> SUFFICES ASSUME RecoveryInv, [RecoveryNext]_recoveryVars PROVE RecoveryInv'
  OBVIOUS
<1>1. ASSUME NEW i \in Identities, SendStop(i) \/ PromoteStop(i) PROVE RecoveryInv'
  BY <1>1, SendStopInv, PromoteStopInv
<1>2. ASSUME NEW i \in Identities, Resume(i) \/ RecoverStopped(i) PROVE RecoveryInv'
  BY <1>2, BeginResumeInv DEF Resume, RecoverStopped, Running, Recovering
<1>3. ASSUME NEW i \in Identities, RecoverSkip(i) \/ RecoverUnreadable(i) PROVE RecoveryInv'
  BY <1>3, RecoverPassesInv
<1>4. ASSUME NEW i \in Identities, OtherStops(i) \/ OtherResumes(i) \/ Exit(i) PROVE RecoveryInv'
  BY <1>4, EnvironmentInv
<1>5. CASE RecordStop \/ LedgerStep
  BY <1>5, RecordStopInv, LedgerStepInv
<1>6. CASE StopSucceeds \/ StopUndone \/ SendCont \/ ResumeFails
  BY <1>6, StopSucceedsInv, StopUndoneInv, SendContInv, ResumeFailsInv
<1>7. CASE RecoveryDone \/ DaemonDies
  BY <1>7, RecoveryDoneInv, DaemonDiesInv
<1>8. CASE UNCHANGED recoveryVars
  BY <1>8, QuietInv DEF recoveryVars, recovery, vars, RecoveryInv, RecoveryTypeOK, TypeOK,
                        StopInv, TodoInv
<1> QED
  BY <1>1, <1>2, <1>3, <1>4, <1>5, <1>6, <1>7, <1>8 DEF RecoveryNext

LEMMA RecoveryInvariance == RecoverySpec => []RecoveryInv
<1>1. RecoveryInit => RecoveryInv
  BY RecoveryInitInv
<1>2. RecoveryInv /\ [RecoveryNext]_recoveryVars => RecoveryInv'
  BY RecoveryStepInv
<1> QED
  BY <1>1, <1>2, PTL DEF RecoverySpec

-----------------------------------------------------------------------------
(* The properties *)

\* Type correctness of the signals, the recovery and the ledger under them.
THEOREM RecoveryTypeCorrect == RecoverySpec => []RecoveryTypeOK
<1>1. RecoveryInv => RecoveryTypeOK
  BY DEF RecoveryInv
<1> QED
  BY <1>1, RecoveryInvariance, PTL

\* A reported stop is in the ledger until its resume begins, whichever process
\* other calls are about and wherever they fail (send_signal, sys/signal.rs).
THEOREM HeldStaysOwnedCorrect == RecoverySpec => []HeldStaysOwned
<1>1. RecoveryInv => HeldStaysOwned
  BY DEF RecoveryInv, HeldInv, HeldStaysOwned
<1> QED
  BY <1>1, RecoveryInvariance, PTL

\* What a daemon that died had stopped, and reported, runs again after a
\* recovery without failures
\* (recover_stopped_managed_processes_after_restart, app/controller.rs).
THEOREM CompletedStopsAreResumedCorrect == RecoverySpec => CompletedStopsAreResumed
<1>1. ASSUME RecoveryInv, RecoveryNext, RecoveryEnds, NEW i \in alive \ interrupted
      PROVE  stopper[i] # "freezeit"
  <2>1. RecoveryDone
    BY <1>1 DEF RecoveryNext, RecoveryEnds, SendStop, PromoteStop, Resume, BeginResume,
                RecoverStopped, RecoverSkip, RecoverUnreadable, Visited, OtherStops, OtherResumes,
                Exit, RecordStop, LedgerStep, StopSucceeds, StopUndone, SendCont, ResumeFails,
                DaemonDies, recovery
  <2> QED
    BY <1>1, <2>1 DEF RecoveryDone, RecoveryEnds, RecoveryInv, TodoInv
<1>2. RecoveryInv /\ [RecoveryNext]_recoveryVars =>
        [RecoveryEnds => \A i \in alive \ interrupted : stopper[i] # "freezeit"]_recoveryVars
  BY <1>1
<1> QED
  BY <1>2, RecoveryInvariance, PTL DEF RecoverySpec, CompletedStopsAreResumed

\* The signals and the recovery use the ledger as SignalLedger says, so that
\* whatever is true of the ledger is true in them.
THEOREM RecoveryUsesLedger == RecoverySpec => Spec
<1>1. RecoveryInit => Init
  BY DEF RecoveryInit
<1>2. RecoveryInv /\ [RecoveryNext]_recoveryVars => [Next]_vars
  BY LedgerSteps DEF RecoveryInv
<1> QED
  BY <1>1, <1>2, RecoveryInvariance, PTL DEF RecoverySpec, Spec

\* No operation of the daemon drops the record of another process than its own,
\* and no failure or crash leaves a claim that nobody promoted.
THEOREM RecoveryKeepsOwnership == RecoverySpec => OthersStayOwned /\ ImplementsStopOwnership
BY RecoveryUsesLedger, OthersStayOwnedCorrect, Refinement, PTL
=============================================================================
