--------------------------- MODULE CommandRunner ---------------------------
(* app/command_runner.rs: one call of run_command_with_limits, the only way   *)
(* the daemon starts another program (pm list packages, getprop, settings,    *)
(* cmd appops, dumpsys ...).  The command becomes the leader of a process     *)
(* group of its own, its two output streams are read through non-blocking     *)
(* pipes until both are closed and it has been reaped, and a deadline, a      *)
(* limit on the combined output, or a failing call ends it by killing the     *)
(* group.  The command and the helpers it forks run beside the daemon: they   *)
(* write, close their streams, leave the group and exit at any moment.        *)
(*                                                                            *)
(* A byte of output is a unit in a pipe; what it says does not matter here.   *)
EXTENDS Naturals, FiniteSets

CONSTANTS
    Child,      \* the process the daemon spawns
    Helpers,    \* the processes it may fork
    Capacity,   \* what a pipe holds before a write blocks
    Buffer,     \* READ_BUFFER_SIZE
    MaxOutput,  \* max_output_bytes, both streams together
    MaxBytes    \* bound: what the command and its helpers write in all

ASSUME SizesAssumption ==
    /\ Child \notin Helpers
    /\ Capacity \in Nat \ {0}
    /\ Buffer \in Nat \ {0}
    /\ MaxOutput \in Nat
    /\ MaxBytes \in Nat

VARIABLES
    at,       \* where the runner is
    proc,     \* the life of each process
    member,   \* the processes of the command's process group
    writers,  \* who holds the write end of each stream
    pipe,     \* the bytes waiting in each stream
    sent,     \* the bytes written so far (bounds the model)
    out,      \* stdout_bytes and stderr_bytes, as counts
    open,     \* stdout_open and stderr_open
    ready,    \* the streams poll reported and that are still to be read
    status,   \* the exit status has been collected
    expired,  \* the deadline has passed
    result    \* what the call returned

childVars  == <<proc, member, writers, pipe, sent>>
readVars   == <<out, open, ready>>
vars == <<at, childVars, readVars, status, expired, result>>

Processes == {Child} \cup Helpers
Streams   == {"stdout", "stderr"}
Other(s)  == IF s = "stdout" THEN "stderr" ELSE "stdout"

(* A killed process is doomed until the kernel has torn it down; the command  *)
(* is a zombie until it is waited for, a helper is reaped by init.            *)
Lives  == {"absent", "running", "doomed", "zombie", "gone"}
Places == {"spawn", "turn", "poll", "read", "kill", "reap", "done"}

TypeOK ==
    /\ at \in Places
    /\ proc \in [Processes -> Lives]
    /\ member \subseteq Processes
    /\ writers \in [Streams -> SUBSET Processes]
    /\ pipe \in [Streams -> 0..Capacity]
    /\ sent \in 0..MaxBytes
    /\ out \in [Streams -> 0..MaxOutput]
    /\ out["stdout"] + out["stderr"] <= MaxOutput   \* the limit is shared
    /\ open \in [Streams -> BOOLEAN]
    /\ ready \subseteq Streams
    /\ status \in BOOLEAN
    /\ expired \in BOOLEAN
    /\ result \in {"none", "ok", "failed"}

Init ==
    /\ at = "spawn"
    /\ proc = [p \in Processes |-> "absent"]
    /\ member = {}
    /\ writers = [s \in Streams |-> {}]
    /\ pipe = [s \in Streams |-> 0]
    /\ sent = 0
    /\ out = [s \in Streams |-> 0]
    /\ open = [s \in Streams |-> TRUE]
    /\ ready = {}
    /\ status = FALSE
    /\ expired = FALSE
    /\ result = "none"

-----------------------------------------------------------------------------
(* The command and its helpers, and the clock.                                *)

(* A process that ends lets go of its streams; what it wrote stays in them.   *)
End(p) ==
    /\ proc' = [proc EXCEPT ![p] = IF p = Child THEN "zombie" ELSE "gone"]
    /\ writers' = [s \in Streams |-> writers[s] \ {p}]
    /\ UNCHANGED <<member, pipe, sent>>

Exits(p) == proc[p] = "running" /\ End(p)

Forks(p, h) ==
    /\ proc[p] = "running"
    /\ proc[h] = "absent"
    /\ proc' = [proc EXCEPT ![h] = "running"]
    /\ member' = IF p \in member THEN member \cup {h} ELSE member
    /\ writers' = [s \in Streams |->
                     IF p \in writers[s] THEN writers[s] \cup {h} ELSE writers[s]]
    /\ UNCHANGED <<pipe, sent>>

(* A helper that starts a session of its own (the leader of a group cannot).  *)
LeavesGroup(h) ==
    /\ proc[h] = "running"
    /\ h \in member
    /\ member' = member \ {h}
    /\ UNCHANGED <<proc, writers, pipe, sent>>

(* A write blocks while the pipe is full.                                     *)
Writes(p, s) ==
    /\ proc[p] = "running"
    /\ p \in writers[s]
    /\ pipe[s] < Capacity
    /\ sent < MaxBytes
    /\ pipe' = [pipe EXCEPT ![s] = @ + 1]
    /\ sent' = sent + 1
    /\ UNCHANGED <<proc, member, writers>>

ClosesStream(p, s) ==
    /\ proc[p] = "running"
    /\ p \in writers[s]
    /\ writers' = [writers EXCEPT ![s] = @ \ {p}]
    /\ UNCHANGED <<proc, member, pipe, sent>>

Command ==
    /\ \/ \E p \in Processes : Exits(p)
       \/ \E p \in Processes, h \in Helpers : Forks(p, h)
       \/ \E h \in Helpers : LeavesGroup(h)
       \/ \E p \in Processes, s \in Streams : Writes(p, s) \/ ClosesStream(p, s)
    /\ UNCHANGED <<at, readVars, status, expired, result>>

(* A killed process is dead once the kernel has torn it down.                 *)
KilledDies ==
    /\ \E p \in Processes : proc[p] = "doomed" /\ End(p)
    /\ UNCHANGED <<at, readVars, status, expired, result>>

DeadlinePasses ==
    /\ at \notin {"spawn", "done"}
    /\ ~expired
    /\ expired' = TRUE
    /\ UNCHANGED <<at, childVars, readVars, status, result>>

-----------------------------------------------------------------------------
(* The runner.                                                                *)

Finish(r) == at' = "done" /\ result' = r

(* spawn fails and nothing runs, or the command runs in a group of its own,   *)
(* with the write ends of both pipes.                                         *)
Spawn ==
    /\ at = "spawn"
    /\ \/ /\ Finish("failed")
          /\ UNCHANGED <<proc, member, writers>>
       \/ /\ at' = "turn"
          /\ proc' = [proc EXCEPT ![Child] = "running"]
          /\ member' = {Child}
          /\ writers' = [s \in Streams |-> {Child}]
          /\ UNCHANGED result
    /\ UNCHANGED <<pipe, sent, readVars, status, expired>>

(* child.try_wait(), asked only while there is no status.                     *)
TryWait ==
    /\ status' = (status \/ proc[Child] = "zombie")
    /\ proc' = [proc EXCEPT ![Child] = IF @ = "zombie" THEN "gone" ELSE @]

\* Mutant: one closed stream is taken for the end of both.
ClosedEither == ~open["stdout"] \/ ~open["stderr"]

Closed == ~open["stdout"] /\ ~open["stderr"]

(* The head of the loop: the status is asked for first, then a finished       *)
(* command returns even past its deadline, then the deadline is checked.      *)
Turn ==
    /\ at = "turn"
    /\ TryWait
    /\ \/ Closed /\ status' /\ Finish("ok")
       \/ ~(Closed /\ status') /\ expired  /\ at' = "kill" /\ UNCHANGED result
       \/ ~(Closed /\ status') /\ ~expired /\ at' = "poll" /\ UNCHANGED result
    /\ UNCHANGED <<member, writers, pipe, sent, readVars, expired>>

\* Mutant: stderr is left alone until stdout is closed.
ReadableInTurn ==
    {s \in Streams : /\ open[s]
                     /\ pipe[s] > 0 \/ writers[s] = {}
                     /\ s = "stderr" => ~open["stdout"]}

(* What poll reports: bytes, or the hangup of a stream nobody holds any more. *)
Readable == {s \in Streams : open[s] /\ (pipe[s] > 0 \/ writers[s] = {})}

PollReports ==
    /\ at = "poll"
    /\ Readable # {}
    /\ ready' = Readable
    /\ at' = "read"
    /\ UNCHANGED <<childVars, out, open, status, expired, result>>

\* Mutant: poll waits without a timeout.
PollsForever == FALSE /\ UNCHANGED vars

(* Nothing to read for POLL_INTERVAL.                                         *)
PollTimesOut ==
    /\ at = "poll"
    /\ Readable = {}
    /\ at' = "turn"
    /\ UNCHANGED <<childVars, readVars, status, expired, result>>

(* EINTR: the loop starts over.                                               *)
PollInterrupted ==
    /\ at = "poll"
    /\ at' = "turn"
    /\ UNCHANGED <<childVars, readVars, status, expired, result>>

Chunk(s) == IF pipe[s] < Buffer THEN pipe[s] ELSE Buffer

\* Mutant: each stream has the whole limit.
FitsAlone(s) == Chunk(s) <= MaxOutput - out[s]

(* The limit left to a stream is what the other one has not used.             *)
Fits(s) == Chunk(s) <= MaxOutput - out[Other(s)] - out[s]

(* One chunk of one stream, stdout before stderr.  The end of a stream is     *)
(* read only once it is empty; the chunk that does not fit is lost.           *)
ReadChunk(s) ==
    /\ at = "read"
    /\ s \in ready
    /\ s = "stderr" => "stdout" \notin ready
    /\ pipe' = [pipe EXCEPT ![s] = @ - Chunk(s)]
    /\ IF Fits(s)
       THEN /\ out' = [out EXCEPT ![s] = @ + Chunk(s)]
            /\ open' = [open EXCEPT ![s] = Chunk(s) > 0]
            /\ ready' = ready \ {s}
            /\ at' = IF ready' = {} THEN "turn" ELSE "read"
       ELSE at' = "kill" /\ UNCHANGED readVars
    /\ UNCHANGED <<proc, member, writers, sent, status, expired, result>>

(* set_nonblocking (before the first turn), try_wait, poll or a read fails.   *)
CallFails ==
    /\ at \in {"turn", "poll", "read"}
    /\ at' = "kill"
    /\ UNCHANGED <<childVars, readVars, status, expired, result>>

\* Mutant: only the command itself is killed.
KillChildOnly ==
    /\ at = "kill"
    /\ proc' = [proc EXCEPT ![Child] = IF @ = "running" THEN "doomed" ELSE @]
    /\ at' = "reap"
    /\ UNCHANGED <<member, writers, pipe, sent, readVars, status, expired, result>>

(* stop_child: SIGKILL to the whole group.  When the group is empty the       *)
(* command has been reaped, and the fallback to child.kill() does nothing.    *)
KillGroup ==
    /\ at = "kill"
    /\ proc' = [p \in Processes |->
                  IF p \in member /\ proc[p] = "running" THEN "doomed" ELSE proc[p]]
    /\ at' = "reap"
    /\ UNCHANGED <<member, writers, pipe, sent, readVars, status, expired, result>>

(* child.wait(): blocks until the command itself is dead.                     *)
WaitChild ==
    /\ at = "reap"
    /\ proc[Child] \in {"zombie", "gone"}
    /\ proc' = [proc EXCEPT ![Child] = "gone"]
    /\ Finish("failed")
    /\ UNCHANGED <<member, writers, pipe, sent, readVars, status, expired>>

Runner ==
    \/ Spawn \/ Turn
    \/ PollReports \/ PollTimesOut
    \/ \E s \in Streams : ReadChunk(s)
    \/ KillGroup \/ WaitChild

Faults == PollInterrupted \/ CallFails

Next == Runner \/ Faults \/ Command \/ KilledDies \/ DeadlinePasses

(* The daemon's thread is scheduled, a killed process dies, and signals do    *)
(* not interrupt every poll.  Nothing is asked of the command: it may write   *)
(* for ever, or never exit.                                                   *)
Fairness == WF_vars(Runner) /\ SF_vars(PollReports) /\ WF_vars(KilledDies)

Spec == Init /\ [][Next]_vars /\ Fairness

-----------------------------------------------------------------------------
(* A successful call has the whole output: nobody can still write to a        *)
(* stream, nothing is left in one, and the command has been reaped            *)
(* (command_runner.rs:88-96).                                                 *)
WholeOutput ==
    result = "ok" =>
        /\ \A s \in Streams : pipe[s] = 0 /\ writers[s] = {}
        /\ out["stdout"] + out["stderr"] = sent
        /\ proc[Child] = "gone"

(* A failed call leaves nothing of the command's group running, whatever it   *)
(* forked meanwhile, and no zombie (stop_child, command_runner.rs:221-229).   *)
NothingLeftRunning ==
    result = "failed" =>
        /\ \A p \in member : proc[p] # "running"
        /\ proc[Child] \in {"absent", "gone"}

(* A command never waits on a full pipe for the daemon that waits on the      *)
(* other one: only the deadline or the end of the call leaves a pipe full.    *)
(* The deadline need not come, so it does not hide a stall                    *)
(* (command_runner.rs:104-170: every readable stream, one chunk at a turn).   *)
NoStall ==
    \A s \in Streams :
        pipe[s] = Capacity ~> pipe[s] < Capacity \/ expired \/ at \in {"kill", "reap", "done"}

(* Whatever the command does, the call returns once its time is up            *)
(* (command_runner.rs:97-104): a control pass or a manager's request waits    *)
(* for it.                                                                    *)
CallReturns == WF_vars(DeadlinePasses) => <>(at = "done")

-----------------------------------------------------------------------------
=============================================================================
