--------------------------- MODULE SignalRecovery ---------------------------
(***************************************************************************)
(* SIGSTOP and SIGCONT as sys/signal.rs sends them, with the ledger of     *)
(* SignalLedger kept beside each stop, and the recovery that a restarted   *)
(* daemon runs over the processes of managed apps before it serves anyone  *)
(* (recover_stopped_managed_processes_after_restart in app/controller.rs). *)
(*                                                                         *)
(* The signal and the ledger are changed one after the other and the       *)
(* daemon may die in between; other tools stop and resume the same         *)
(* processes.  The cgroup and Binder half of the recovery is in Control.   *)
(***************************************************************************)
EXTENDS SignalLedger

ASSUME RecoveryAssumption == None \notin Identities

VARIABLES
  alive,                \* identities of running or stopped processes
  stopper,              \* who holds the process in state T, if anyone
  task,                 \* the signal operation in progress
  phase,                \* "recovering" until the restart recovery is over
  todo,                 \* processes the recovery has discovered and not visited
  failed,               \* this recovery met a failure
  held,                 \* stops reported successful and not yet resumed
  interrupted           \* processes whose last signal operation a crash or an
                        \* error cut short

recovery == <<phase, todo, failed>>
recoveryVars == <<vars, alive, stopper, task, recovery, held, interrupted>>

NoTask == [at |-> "idle", id |-> None]

\* Nobody is served before the recovery has visited every process it discovered.
RecoveryTypeOK ==
  /\ TypeOK
  /\ alive \in SUBSET Identities
  /\ stopper \in [Identities -> {"nobody", "freezeit", "other"}]
  /\ task \in [at : {"idle", "stopped", "recording", "taking"}, id : Identities \cup {None}]
  /\ phase \in {"recovering", "running"}
  /\ todo \in SUBSET Identities /\ (phase = "running" => todo = {})
  /\ failed \in BOOLEAN
  /\ held \in SUBSET Identities
  /\ interrupted \in SUBSET Identities

\* A start over the files of this or of an earlier version; what that version
\* recorded it may still hold stopped.
RecoveryInit ==
  /\ Init
  /\ alive = Identities
  /\ held \in SUBSET Owned
  /\ stopper = [i \in Identities |-> IF i \in held THEN "freezeit" ELSE "nobody"]
  /\ task = NoTask
  /\ phase = "recovering"
  /\ todo = Identities
  /\ failed = FALSE
  /\ interrupted = {}

Running == phase = "running" /\ task = NoTask
Recovering == phase = "recovering" /\ task = NoTask
Stopped(i) == i \in alive /\ stopper[i] # "nobody"

\* A ledger call may fail to read: the process is gone from /proc, or I/O fails.
LedgerUnreadable == ReadFails

-----------------------------------------------------------------------------
(* send_signal(pid, Stop): signal first, record next, undo on failure. *)

SendStop(i) ==
  /\ Running
  /\ i \in alive
  /\ stopper' = [stopper EXCEPT ![i] = "freezeit"]
  /\ task' = [at |-> "stopped", id |-> i]
  /\ UNCHANGED <<vars, alive, recovery, held, interrupted>>

RecordStop ==
  /\ task.at = "stopped"
  /\ BeginRecord(task.id) \/ LedgerUnreadable
  /\ task' = [task EXCEPT !.at = "recording"]
  /\ UNCHANGED <<alive, stopper, recovery, held, interrupted>>

LedgerStep ==
  /\ RemoveSidecar \/ ReplaceMain \/ Rebind \/ WriteFails
  /\ UNCHANGED <<alive, stopper, task, recovery, held, interrupted>>

\* Mutant: the error of the ledger is ignored.
StopSucceedsUnrecorded ==
  /\ task.at = "recording" /\ answer \in {"recorded", "error"}
  /\ held' = held \cup {task.id} /\ interrupted' = interrupted \ {task.id}
  /\ task' = NoTask
  /\ UNCHANGED <<vars, alive, stopper, recovery>>

StopSucceeds ==
  /\ task.at = "recording" /\ answer = "recorded"
  /\ held' = held \cup {task.id} /\ interrupted' = interrupted \ {task.id}
  /\ task' = NoTask
  /\ UNCHANGED <<vars, alive, stopper, recovery>>

\* The ledger failed: SIGCONT takes the stop back and the caller gets an error.
StopUndone ==
  /\ task.at = "recording" /\ answer = "error"
  /\ stopper' = [stopper EXCEPT ![task.id] = "nobody"]
  /\ held' = held \ {task.id} /\ interrupted' = interrupted \ {task.id}
  /\ task' = NoTask
  /\ UNCHANGED <<vars, alive, recovery>>

\* The controller promotes a stop after a completed direct transaction.
PromoteStop(i) ==
  /\ Running
  /\ i \in held
  /\ Promote(i) \/ PromoteRefused(i)
  /\ UNCHANGED <<alive, stopper, task, recovery, held, interrupted>>

-----------------------------------------------------------------------------
(* send_signal(pid, Continue): take the record first, signal next. *)

BeginResume(i) ==
  /\ BeginTake(i) \/ LedgerUnreadable
  /\ task' = [at |-> "taking", id |-> i]
  /\ held' = held \ {i}
  /\ UNCHANGED <<alive, stopper, recovery, interrupted>>

Resume(i) == Running /\ BeginResume(i)

\* A process that was visited by the recovery is visited once.
Visited(id, failure) ==
  IF phase = "recovering"
    THEN /\ todo' = todo \ {id}
         /\ failed' = (failed \/ failure)
         /\ UNCHANGED phase
    ELSE UNCHANGED recovery

\* kill(2) fails for a dead process only; its record is not restored then,
\* because its start time cannot be read any more.
SendCont ==
  /\ task.at = "taking" /\ answer \in {"removed", "missing"}
  /\ stopper' = [stopper EXCEPT ![task.id] = "nobody"]
  /\ Visited(task.id, task.id \notin alive)
  /\ task' = NoTask
  /\ interrupted' = interrupted \ {task.id}
  /\ UNCHANGED <<vars, alive, held>>

\* The ledger failed: the error is returned and no SIGCONT is sent.
ResumeFails ==
  /\ task.at = "taking" /\ answer = "error"
  /\ Visited(task.id, TRUE)
  /\ task' = NoTask
  /\ interrupted' = interrupted \cup {task.id}
  /\ UNCHANGED <<vars, alive, stopper, held>>

-----------------------------------------------------------------------------
(* The restart recovery visits the processes it discovered, one by one. *)

RecoverStopped(i) ==
  /\ Recovering
  /\ i \in todo
  /\ Stopped(i)
  /\ Ownership(i) # "None"
  /\ BeginResume(i)

\* Mutant: only SignalOnly stops are recovered.
RecoverSkipResidual(i) ==
  /\ Recovering
  /\ i \in todo
  /\ ~Stopped(i) \/ Ownership(i) # "SignalOnly"
  /\ Visited(i, FALSE)
  /\ UNCHANGED <<vars, alive, stopper, task, held, interrupted>>

RecoverSkip(i) ==
  /\ Recovering
  /\ i \in todo
  /\ ~Stopped(i) \/ Ownership(i) = "None"
  /\ Visited(i, FALSE)
  /\ UNCHANGED <<vars, alive, stopper, task, held, interrupted>>

\* An unreadable ledger counts as no ownership.
RecoverUnreadable(i) ==
  /\ Recovering
  /\ i \in todo
  /\ Visited(i, TRUE)
  /\ UNCHANGED <<vars, alive, stopper, task, held, interrupted>>

\* Mutant: the recovery ends with the first process that fails.
RecoveryGivesUp ==
  /\ Recovering
  /\ todo = {} \/ failed
  /\ phase' = "running"
  /\ UNCHANGED <<vars, alive, stopper, task, todo, failed, held, interrupted>>

RecoveryDone ==
  /\ Recovering
  /\ todo = {}
  /\ phase' = "running"
  /\ UNCHANGED <<vars, alive, stopper, task, todo, failed, held, interrupted>>

-----------------------------------------------------------------------------
(* The environment *)

\* The daemon dies and is restarted; it discovers the processes alive then.
DaemonDies ==
  /\ Crash
  /\ task' = NoTask
  /\ phase' = "recovering"
  /\ todo' = alive
  /\ failed' = FALSE
  /\ interrupted' = interrupted \cup ({task.id} \ (held \cup {None}))
  /\ UNCHANGED <<alive, stopper, held>>

OtherStops(i) ==
  /\ i \in alive /\ stopper[i] = "nobody"
  /\ stopper' = [stopper EXCEPT ![i] = "other"]
  /\ UNCHANGED <<vars, alive, task, recovery, held, interrupted>>

OtherResumes(i) ==
  /\ Stopped(i)
  /\ stopper' = [stopper EXCEPT ![i] = "nobody"]
  /\ held' = held \ {i}
  /\ UNCHANGED <<vars, alive, task, recovery, interrupted>>

Exit(i) ==
  /\ i \in alive
  /\ alive' = alive \ {i}
  /\ held' = held \ {i}
  /\ UNCHANGED <<vars, stopper, task, recovery, interrupted>>

RecoveryNext ==
  \/ \E i \in Identities :
       \/ SendStop(i) \/ PromoteStop(i) \/ Resume(i)
       \/ RecoverStopped(i) \/ RecoverSkip(i) \/ RecoverUnreadable(i)
       \/ OtherStops(i) \/ OtherResumes(i) \/ Exit(i)
  \/ RecordStop \/ LedgerStep \/ StopSucceeds \/ StopUndone
  \/ SendCont \/ ResumeFails
  \/ RecoveryDone \/ DaemonDies

RecoverySpec == RecoveryInit /\ [][RecoveryNext]_recoveryVars

-----------------------------------------------------------------------------
(* Properties *)

\* A stop that was reported successful stays in the ledger until its resume
\* begins, whatever other calls fail or are cut short by a crash.
HeldStaysOwned == held \subseteq Owned

RecoveryEnds == phase = "recovering" /\ phase' = "running" /\ ~failed

\* A recovery without failures resumes every process whose last signal operation
\* was completed, whatever happened to the others.
CompletedStopsAreResumed ==
  [][RecoveryEnds => \A i \in alive \ interrupted : stopper[i] # "freezeit"]_recoveryVars
=============================================================================
