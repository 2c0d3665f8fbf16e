------------------------ MODULE CommandRunnerProofs ------------------------
(***************************************************************************)
(* Proofs about CommandRunner, for any set of helpers, any capacity of the *)
(* pipes, any buffer and any limit: a call that succeeds has the whole     *)
(* output, and a call that fails leaves nothing of the group running.      *)
(***************************************************************************)
EXTENDS CommandRunner, TLAPS

\* What the runner knows about the streams: a stream poll reported has bytes
\* or nobody writes to it any more, a stream taken for closed is at its end,
\* and nothing has been lost unless the call is being given up.
StreamInv ==
  /\ at = "spawn" => \A s \in Streams : open[s]
  /\ at = "read" => \A s \in ready : open[s] /\ (pipe[s] > 0 \/ writers[s] = {})
  /\ \A s \in Streams : ~open[s] => pipe[s] = 0 /\ writers[s] = {}
  /\ at \notin {"kill", "reap", "done"} \/ result = "ok" =>
       sent = pipe["stdout"] + pipe["stderr"] + out["stdout"] + out["stderr"]

\* What the runner knows about the command: a status is that of a reaped
\* command, and a result is there at the end only.
ResultInv ==
  /\ status => proc[Child] = "gone"
  /\ result # "none" => at = "done"
  /\ result = "ok" => Closed /\ status

\* What a kill of the group settles: every member lives or has lived, and once
\* the group has been killed nothing that runs can join it.
GroupInv ==
  /\ at = "spawn" => \A p \in Processes : proc[p] = "absent"
  /\ \A p \in member : proc[p] # "absent"
  /\ at = "reap" \/ result = "failed" => \A p \in member : proc[p] # "running"
  /\ result = "failed" => proc[Child] \in {"absent", "gone"}

Inv == TypeOK /\ StreamInv /\ ResultInv /\ GroupInv

-----------------------------------------------------------------------------
(* Types *)

\* A chunk is no more than the pipe holds, and it is empty only if the pipe is.
LEMMA ChunkSize ==
  ASSUME TypeOK, NEW s \in Streams
  PROVE  /\ Chunk(s) \in Nat
         /\ Chunk(s) <= pipe[s]
         /\ pipe[s] - Chunk(s) \in 0..Capacity
         /\ Chunk(s) = 0 => pipe[s] = 0
BY SizesAssumption DEF TypeOK, Chunk

\* A chunk that fits keeps both counts within the limit, together as well.
LEMMA CountsFit ==
  ASSUME TypeOK, NEW s \in Streams, Fits(s)
  PROVE  LET out1 == [out EXCEPT ![s] = @ + Chunk(s)]
         IN  /\ out1 \in [Streams -> 0..MaxOutput]
             /\ out1["stdout"] + out1["stderr"] <= MaxOutput
             /\ out1["stdout"] + out1["stderr"] = out["stdout"] + out["stderr"] + Chunk(s)
<1>1. Chunk(s) \in Nat
  BY ChunkSize
<1>2. out[s] + Chunk(s) <= MaxOutput - out[Other(s)]
  BY <1>1, SizesAssumption DEF TypeOK, Fits, Other, Streams
<1>3. out["stdout"] \in Nat /\ out["stderr"] \in Nat
  BY SizesAssumption DEF TypeOK, Streams
<1>4. CASE s = "stdout"
  BY <1>1, <1>2, <1>3, <1>4, SizesAssumption DEF TypeOK, Streams, Other
<1>5. CASE s = "stderr"
  BY <1>1, <1>2, <1>3, <1>5, SizesAssumption DEF TypeOK, Streams, Other
<1> QED
  BY <1>4, <1>5 DEF Streams

LEMMA InitType == Init => TypeOK
<1> SUFFICES ASSUME Init PROVE TypeOK
  OBVIOUS
<1>1. /\ pipe \in [Streams -> 0..Capacity] /\ sent \in 0..MaxBytes
      /\ out \in [Streams -> 0..MaxOutput]
  BY SizesAssumption DEF Init
<1>2. out["stdout"] = 0 /\ out["stderr"] = 0
  BY DEF Init, Streams
<1>3. out["stdout"] + out["stderr"] <= MaxOutput
  BY <1>2, SizesAssumption
<1>4. proc \in [Processes -> Lives] /\ writers \in [Streams -> SUBSET Processes]
  BY DEF Init, Lives
<1> QED
  BY <1>1, <1>3, <1>4 DEF Init, TypeOK, Places

\* Types of what a process changes.
ChildTypes ==
  /\ proc \in [Processes -> Lives]
  /\ member \subseteq Processes
  /\ writers \in [Streams -> SUBSET Processes]
  /\ pipe \in [Streams -> 0..Capacity]
  /\ sent \in 0..MaxBytes

LEMMA EndTypes ==
  ASSUME ChildTypes, NEW p \in Processes, End(p)
  PROVE  ChildTypes'
BY DEF ChildTypes, End, Lives

LEMMA CommandTypes ==
  ASSUME ChildTypes, Command
  PROVE  ChildTypes'
<1>1. ASSUME NEW p \in Processes, Exits(p) PROVE ChildTypes'
  BY <1>1, EndTypes DEF Exits
<1>2. ASSUME NEW p \in Processes, NEW h \in Helpers, Forks(p, h) PROVE ChildTypes'
  BY <1>2 DEF Forks, ChildTypes, Lives, Processes
<1>3. ASSUME NEW h \in Helpers, LeavesGroup(h) PROVE ChildTypes'
  BY <1>3 DEF LeavesGroup, ChildTypes
<1>4. ASSUME NEW p \in Processes, NEW s \in Streams, Writes(p, s) PROVE ChildTypes'
  BY <1>4, SizesAssumption DEF Writes, ChildTypes
<1>5. ASSUME NEW p \in Processes, NEW s \in Streams, ClosesStream(p, s) PROVE ChildTypes'
  BY <1>5 DEF ClosesStream, ChildTypes
<1> QED
  BY <1>1, <1>2, <1>3, <1>4, <1>5 DEF Command

LEMMA TypeStep ==
  ASSUME TypeOK, [Next]_vars
  PROVE  TypeOK'
<1> USE DEF Places, Finish
<1>1. CASE Spawn
  BY <1>1 DEF Spawn, TypeOK, Processes, Lives, readVars
<1>2. CASE Turn
  <2>1. status' \in BOOLEAN /\ proc' \in [Processes -> Lives]
    BY <1>2 DEF Turn, TryWait, TypeOK, Lives
  <2> QED
    BY <1>2, <2>1 DEF Turn, TypeOK, readVars
<1>3. CASE PollReports
  BY <1>3 DEF PollReports, Readable, TypeOK, childVars
<1>4. CASE PollTimesOut \/ PollInterrupted
  BY <1>4 DEF PollTimesOut, PollInterrupted, TypeOK, childVars, readVars
<1>5. ASSUME NEW s \in Streams, ReadChunk(s) PROVE TypeOK'
  <2>1. pipe' \in [Streams -> 0..Capacity]
    BY <1>5, ChunkSize DEF ReadChunk, TypeOK
  <2>2. CASE Fits(s)
    <3>1. out' \in [Streams -> 0..MaxOutput] /\ out'["stdout"] + out'["stderr"] <= MaxOutput
      BY <1>5, <2>2, CountsFit DEF ReadChunk
    <3>2. open' \in [Streams -> BOOLEAN] /\ ready' \subseteq Streams /\ at' \in Places
      <4>1. (Chunk(s) > 0) \in BOOLEAN
        BY ChunkSize
      <4> QED
        BY <1>5, <2>2, <4>1 DEF ReadChunk, TypeOK
    <3> QED
      BY <1>5, <2>1, <3>1, <3>2 DEF ReadChunk, TypeOK
  <2>3. CASE ~Fits(s)
    BY <1>5, <2>1, <2>3 DEF ReadChunk, TypeOK, readVars
  <2> QED
    BY <2>2, <2>3
<1>6. CASE CallFails
  BY <1>6 DEF CallFails, TypeOK, childVars, readVars
<1>7. CASE KillGroup
  BY <1>7 DEF KillGroup, TypeOK, Lives, readVars
<1>8. CASE WaitChild
  BY <1>8 DEF WaitChild, TypeOK, Lives, readVars
<1>9. CASE Command \/ KilledDies
  <2>1. ChildTypes
    BY DEF TypeOK, ChildTypes
  <2>2. ChildTypes'
    BY <1>9, <2>1, CommandTypes, EndTypes DEF KilledDies
  <2> QED
    BY <1>9, <2>2 DEF ChildTypes, TypeOK, Command, KilledDies, readVars
<1>10. CASE DeadlinePasses
  BY <1>10 DEF DeadlinePasses, TypeOK, childVars, readVars
<1>11. CASE UNCHANGED vars
  BY <1>11 DEF vars, TypeOK, childVars, readVars
<1> QED
  BY <1>1, <1>2, <1>3, <1>4, <1>5, <1>6, <1>7, <1>8, <1>9, <1>10, <1>11
  DEF Next, Runner, Faults

-----------------------------------------------------------------------------
(* Streams *)

LEMMA InitInv == Init => Inv
<1> SUFFICES ASSUME Init PROVE Inv
  OBVIOUS
<1>1. StreamInv
  BY DEF Init, StreamInv, Streams
<1>2. ResultInv /\ GroupInv
  BY DEF Init, ResultInv, GroupInv
<1> QED
  BY <1>1, <1>2, InitType DEF Inv

\* What a process does on its own leaves a stream without writers alone, and
\* puts into a pipe what it says it has written.
LEMMA CommandStreams ==
  ASSUME TypeOK, StreamInv, Command \/ KilledDies
  PROVE  StreamInv'
<1>1. UNCHANGED <<at, out, open, ready, result>>
  BY DEF Command, KilledDies, readVars
<1>2. ASSUME NEW p \in Processes, End(p) PROVE StreamInv'
  BY <1>1, <1>2 DEF End, StreamInv, TypeOK
<1>3. ASSUME NEW p \in Processes, NEW h \in Helpers, Forks(p, h) PROVE StreamInv'
  BY <1>1, <1>3 DEF Forks, StreamInv, TypeOK
<1>4. ASSUME NEW h \in Helpers, LeavesGroup(h) PROVE StreamInv'
  BY <1>1, <1>4 DEF LeavesGroup, StreamInv
<1>5. ASSUME NEW p \in Processes, NEW s \in Streams, Writes(p, s) PROVE StreamInv'
  <2>1. open[s]
    BY <1>5 DEF Writes, StreamInv, TypeOK
  <2>2. ASSUME NEW r \in Streams PROVE pipe'[r] = IF r = s THEN pipe[r] + 1 ELSE pipe[r]
    BY <1>5 DEF Writes, TypeOK
  <2>3. \A r \in Streams : pipe[r] \in Nat /\ out[r] \in Nat
    BY SizesAssumption DEF TypeOK
  <2>4. at' = "read" => \A r \in ready' : open'[r] /\ (pipe'[r] > 0 \/ writers'[r] = {})
    BY <1>1, <1>5, <2>2, <2>3 DEF Writes, StreamInv, TypeOK
  <2>5. \A r \in Streams : ~open'[r] => pipe'[r] = 0 /\ writers'[r] = {}
    BY <1>1, <1>5, <2>1, <2>2 DEF Writes, StreamInv
  <2>6. pipe'["stdout"] + pipe'["stderr"] = pipe["stdout"] + pipe["stderr"] + 1
    <3>1. CASE s = "stdout"
      BY <2>2, <2>3, <3>1 DEF Streams
    <3>2. CASE s = "stderr"
      BY <2>2, <2>3, <3>2 DEF Streams
    <3> QED
      BY <3>1, <3>2 DEF Streams
  <2>7. sent' = sent + 1 /\ sent \in Nat
    BY <1>5, SizesAssumption DEF Writes, TypeOK
  <2>8. /\ pipe["stdout"] \in Nat /\ pipe["stderr"] \in Nat
        /\ pipe'["stdout"] \in Nat /\ pipe'["stderr"] \in Nat
        /\ out["stdout"] \in Nat /\ out["stderr"] \in Nat
    BY <2>2, <2>3 DEF Streams
  <2> QED
    BY <1>1, <2>4, <2>5, <2>6, <2>7, <2>8 DEF StreamInv
<1>6. ASSUME NEW p \in Processes, NEW s \in Streams, ClosesStream(p, s) PROVE StreamInv'
  BY <1>1, <1>6 DEF ClosesStream, StreamInv, TypeOK
<1> QED
  BY <1>2, <1>3, <1>4, <1>5, <1>6 DEF Command, KilledDies, Exits

\* A chunk goes from its pipe to the output, and a stream is taken for closed
\* when poll reported it and it is empty: nobody holds it then.
LEMMA ReadStreams ==
  ASSUME TypeOK, StreamInv, ResultInv, NEW s \in Streams, ReadChunk(s)
  PROVE  StreamInv'
<1>1. /\ at = "read" /\ s \in ready /\ open[s] /\ (pipe[s] > 0 \/ writers[s] = {})
      /\ result = "none" /\ UNCHANGED <<writers, sent, result>>
  BY DEF ReadChunk, StreamInv, ResultInv, TypeOK
<1>2. \A r \in Streams : pipe'[r] = IF r = s THEN pipe[r] - Chunk(s) ELSE pipe[r]
  BY DEF ReadChunk, TypeOK
<1>3. CASE ~Fits(s)
  BY <1>1, <1>2, <1>3 DEF ReadChunk, StreamInv, TypeOK, readVars
<1>4. CASE Fits(s)
  <2>1. at' \in {"turn", "read"} /\ ready' = ready \ {s}
    BY <1>4 DEF ReadChunk
  <2>2. \A r \in Streams : open'[r] <=> IF r = s THEN Chunk(s) > 0 ELSE open[r]
    BY <1>4, ChunkSize DEF ReadChunk, TypeOK
  <2>3. \A r \in ready' : open'[r] /\ (pipe'[r] > 0 \/ writers'[r] = {})
    BY <1>1, <1>2, <2>1, <2>2 DEF StreamInv, TypeOK
  <2>4. \A r \in Streams : ~open'[r] => pipe'[r] = 0 /\ writers'[r] = {}
    <3>1. Chunk(s) = 0 => pipe[s] = 0 /\ pipe[s] - Chunk(s) = 0 /\ writers[s] = {}
      BY <1>1, ChunkSize, SizesAssumption DEF TypeOK
    <3>2. Chunk(s) \in Nat
      BY ChunkSize
    <3> QED
      BY <1>1, <1>2, <2>2, <3>1, <3>2 DEF StreamInv
  <2>5. out'["stdout"] + out'["stderr"] = out["stdout"] + out["stderr"] + Chunk(s)
    BY <1>4, CountsFit DEF ReadChunk
  <2>6. pipe'["stdout"] + pipe'["stderr"] = pipe["stdout"] + pipe["stderr"] - Chunk(s)
    <3>1. pipe["stdout"] \in Nat /\ pipe["stderr"] \in Nat /\ Chunk(s) \in Nat
      BY ChunkSize, SizesAssumption DEF TypeOK, Streams
    <3>2. CASE s = "stdout"
      BY <1>2, <3>1, <3>2 DEF Streams
    <3>3. CASE s = "stderr"
      BY <1>2, <3>1, <3>3 DEF Streams
    <3> QED
      BY <3>2, <3>3 DEF Streams
  <2>7. sent = pipe["stdout"] + pipe["stderr"] + out["stdout"] + out["stderr"]
    BY <1>1 DEF StreamInv
  <2>8. /\ pipe["stdout"] \in Nat /\ pipe["stderr"] \in Nat /\ Chunk(s) \in Nat
        /\ pipe'["stdout"] \in Nat /\ pipe'["stderr"] \in Nat
        /\ out["stdout"] \in Nat /\ out["stderr"] \in Nat
        /\ out'["stdout"] \in Nat /\ out'["stderr"] \in Nat
    <3>1. \A r \in Streams : pipe[r] \in Nat /\ out[r] \in Nat /\ Chunk(s) \in Nat
      BY ChunkSize, SizesAssumption DEF TypeOK
    <3>2. \A r \in Streams : pipe'[r] \in Nat
      BY <1>2, <3>1, ChunkSize
    <3>3. out' \in [Streams -> 0..MaxOutput]
      BY <1>4, CountsFit DEF ReadChunk
    <3> QED
      BY <3>1, <3>2, <3>3, SizesAssumption DEF Streams
  <2>9. sent' = pipe'["stdout"] + pipe'["stderr"] + out'["stdout"] + out'["stderr"]
    BY <1>1, <2>5, <2>6, <2>7, <2>8
  <2> QED
    BY <2>1, <2>3, <2>4, <2>9 DEF StreamInv
<1> QED
  BY <1>3, <1>4

LEMMA StreamStep ==
  ASSUME Inv, [Next]_vars
  PROVE  StreamInv'
<1> USE DEF Inv
<1>1. CASE Spawn
  BY <1>1 DEF Spawn, Finish, StreamInv, GroupInv, ResultInv, TypeOK, readVars, Streams
<1>2. CASE Turn
  <2>1. result = "none" /\ UNCHANGED <<writers, pipe, sent, out, open, ready>>
    BY <1>2 DEF Turn, ResultInv, readVars
  <2>2. at = "turn" /\ at' \notin {"spawn", "read"}
    BY <1>2 DEF Turn, Finish
  <2> QED
    BY <2>1, <2>2 DEF StreamInv
<1>3. CASE PollReports
  BY <1>3 DEF PollReports, Readable, StreamInv, childVars
<1>4. CASE PollTimesOut \/ PollInterrupted
  BY <1>4 DEF PollTimesOut, PollInterrupted, StreamInv, childVars, readVars
<1>5. CASE \E s \in Streams : ReadChunk(s)
  BY <1>5, ReadStreams
<1>6. CASE CallFails
  BY <1>6 DEF CallFails, StreamInv, childVars, readVars
<1>7. CASE KillGroup \/ WaitChild
  <2>1. result' # "ok" /\ at' \in {"reap", "done"}
    BY <1>7 DEF KillGroup, WaitChild, Finish, ResultInv
  <2>2. UNCHANGED <<writers, pipe, sent, out, open, ready>>
    BY <1>7 DEF KillGroup, WaitChild, readVars
  <2> QED
    BY <2>1, <2>2 DEF StreamInv
<1>8. CASE Command \/ KilledDies
  BY <1>8, CommandStreams
<1>9. CASE DeadlinePasses
  BY <1>9 DEF DeadlinePasses, StreamInv, childVars, readVars
<1>10. CASE UNCHANGED vars
  BY <1>10 DEF vars, StreamInv, childVars, readVars
<1> QED
  BY <1>1, <1>2, <1>3, <1>4, <1>5, <1>6, <1>7, <1>8, <1>9, <1>10 DEF Next, Runner, Faults

-----------------------------------------------------------------------------
(* Results and the group *)

LEMMA ResultStep ==
  ASSUME Inv, [Next]_vars
  PROVE  ResultInv'
<1> USE DEF Inv, Closed, Finish
<1>1. CASE Spawn
  BY <1>1 DEF Spawn, ResultInv, GroupInv, TypeOK, readVars, Processes
<1>2. CASE Turn
  <2>1. status' => proc'[Child] = "gone"
    BY <1>2 DEF Turn, TryWait, ResultInv, TypeOK, Processes
  <2> QED
    BY <1>2, <2>1 DEF Turn, ResultInv, readVars
<1>3. CASE PollReports \/ PollTimesOut \/ PollInterrupted \/ CallFails
  BY <1>3 DEF PollReports, PollTimesOut, PollInterrupted, CallFails, ResultInv, childVars, readVars
<1>4. ASSUME NEW s \in Streams, ReadChunk(s) PROVE ResultInv'
  <2>1. result' = "none" /\ UNCHANGED <<proc, status>>
    BY <1>4 DEF ReadChunk, ResultInv
  <2> QED
    BY <2>1 DEF ResultInv
<1>5. CASE KillGroup \/ WaitChild
  BY <1>5 DEF KillGroup, WaitChild, ResultInv, TypeOK, Processes, readVars
<1>6. CASE Command \/ KilledDies
  <2>1. proc[Child] = "gone" => proc'[Child] = "gone"
    <3>1. ASSUME NEW p \in Processes, End(p), proc[p] \in {"running", "doomed"}, proc[Child] = "gone"
          PROVE  proc'[Child] = "gone"
      BY <3>1 DEF End, TypeOK, Processes
    <3>2. ASSUME NEW p \in Processes, NEW h \in Helpers, Forks(p, h) PROVE proc'[Child] = proc[Child]
      BY <3>2, SizesAssumption DEF Forks, TypeOK, Processes
    <3> QED
      BY <1>6, <3>1, <3>2 DEF Command, KilledDies, Exits, LeavesGroup, Writes, ClosesStream
  <2> QED
    BY <1>6, <2>1 DEF Command, KilledDies, ResultInv, readVars
<1>7. CASE DeadlinePasses \/ UNCHANGED vars
  BY <1>7 DEF DeadlinePasses, vars, ResultInv, childVars, readVars
<1> QED
  BY <1>1, <1>2, <1>3, <1>4, <1>5, <1>6, <1>7 DEF Next, Runner, Faults

\* A process that ends or forks leaves the group without new runners once
\* every member has been killed: who forks into it must be a running member.
LEMMA CommandGroup ==
  ASSUME TypeOK, GroupInv, Command \/ KilledDies
  PROVE  GroupInv'
<1>1. UNCHANGED <<at, result>>
  BY DEF Command, KilledDies
<1>2. ASSUME NEW p \in Processes, End(p), proc[p] \in {"running", "doomed"} PROVE GroupInv'
  BY <1>1, <1>2 DEF End, GroupInv, TypeOK, Processes
<1>3. ASSUME NEW p \in Processes, NEW h \in Helpers, Forks(p, h) PROVE GroupInv'
  <2>1. h \in Processes /\ h # Child /\ h \notin member
    BY <1>3, SizesAssumption DEF Forks, Processes, GroupInv
  <2>2. \A q \in Processes : proc'[q] = IF q = h THEN "running" ELSE proc[q]
    BY <1>3, <2>1 DEF Forks, TypeOK
  <2>3. member' = IF p \in member THEN member \cup {h} ELSE member
    BY <1>3 DEF Forks
  <2>4. at # "spawn" /\ (p \in member => ~(at = "reap" \/ result = "failed"))
    BY <1>3 DEF Forks, GroupInv
  <2> QED
    BY <1>1, <2>1, <2>2, <2>3, <2>4 DEF GroupInv, TypeOK, Processes
<1>4. ASSUME NEW h \in Helpers, LeavesGroup(h) PROVE GroupInv'
  BY <1>1, <1>4 DEF LeavesGroup, GroupInv
<1>5. ASSUME NEW p \in Processes, NEW s \in Streams, Writes(p, s) \/ ClosesStream(p, s)
      PROVE  GroupInv'
  BY <1>1, <1>5 DEF Writes, ClosesStream, GroupInv
<1> QED
  BY <1>2, <1>3, <1>4, <1>5 DEF Command, KilledDies, Exits

LEMMA GroupStep ==
  ASSUME Inv, [Next]_vars
  PROVE  GroupInv'
<1> USE DEF Inv, Finish
<1>1. CASE Spawn
  BY <1>1 DEF Spawn, GroupInv, ResultInv, TypeOK, Processes
<1>2. CASE Turn
  <2>1. result' # "failed" /\ at' \notin {"spawn", "reap"} /\ member' = member
    BY <1>2 DEF Turn, ResultInv
  <2>2. \A p \in Processes : proc[p] # "absent" => proc'[p] # "absent"
    BY <1>2 DEF Turn, TryWait, TypeOK
  <2> QED
    BY <2>1, <2>2 DEF GroupInv, TypeOK
<1>3. CASE PollReports \/ PollTimesOut \/ PollInterrupted \/ CallFails
  BY <1>3 DEF PollReports, PollTimesOut, PollInterrupted, CallFails, GroupInv, childVars
<1>4. ASSUME NEW s \in Streams, ReadChunk(s) PROVE GroupInv'
  <2>1. at' \notin {"spawn", "reap"} /\ UNCHANGED <<result, proc, member>>
    BY <1>4 DEF ReadChunk
  <2> QED
    BY <2>1 DEF GroupInv
<1>5. CASE KillGroup
  <2>1. result' # "failed" /\ at' = "reap" /\ member' = member
    BY <1>5 DEF KillGroup, ResultInv
  <2>2. \A p \in Processes : p \in member => proc'[p] # "running"
    BY <1>5 DEF KillGroup
  <2>3. \A p \in Processes : proc[p] # "absent" => proc'[p] # "absent"
    BY <1>5 DEF KillGroup
  <2> QED
    BY <2>1, <2>2, <2>3 DEF GroupInv, TypeOK
<1>6. CASE WaitChild
  BY <1>6 DEF WaitChild, GroupInv, TypeOK, Processes
<1>7. CASE Command \/ KilledDies
  BY <1>7, CommandGroup
<1>8. CASE DeadlinePasses \/ UNCHANGED vars
  BY <1>8 DEF DeadlinePasses, vars, GroupInv, childVars
<1> QED
  BY <1>1, <1>2, <1>3, <1>4, <1>5, <1>6, <1>7, <1>8 DEF Next, Runner, Faults

-----------------------------------------------------------------------------
(* Theorems *)

LEMMA Invariance == Spec => []Inv
<1>1. Inv /\ [Next]_vars => Inv'
  BY TypeStep, StreamStep, ResultStep, GroupStep DEF Inv
<1> QED
  BY <1>1, InitInv, PTL DEF Spec

\* The variables keep their types, and the two outputs together never exceed
\* the limit, whatever sizes pipes, buffer and limit have
\* (read_nonblocking_pipe, command_runner.rs:132-170).
THEOREM TypeCorrect == Spec => []TypeOK
BY Invariance, PTL DEF Inv

\* A call that succeeds has all that was ever written to either stream, from a
\* command that has been reaped (command_runner.rs:88-96).
THEOREM WholeOutputCorrect == Spec => []WholeOutput
<1>1. Inv => WholeOutput
  <2> SUFFICES ASSUME Inv, result = "ok" PROVE WholeOutput
    BY DEF WholeOutput
  <2>1. \A s \in Streams : ~open[s]
    BY DEF Inv, ResultInv, Closed, Streams
  <2>2. \A s \in Streams : pipe[s] = 0 /\ writers[s] = {}
    BY <2>1 DEF Inv, StreamInv
  <2>3. pipe["stdout"] = 0 /\ pipe["stderr"] = 0
    BY <2>2 DEF Streams
  <2>4. sent = 0 + 0 + out["stdout"] + out["stderr"]
    BY <2>3 DEF Inv, StreamInv
  <2>5. out["stdout"] \in Nat /\ out["stderr"] \in Nat
    BY SizesAssumption DEF Inv, TypeOK, Streams
  <2>6. out["stdout"] + out["stderr"] = sent
    BY <2>4, <2>5
  <2>7. proc[Child] = "gone"
    BY DEF Inv, ResultInv
  <2> QED
    BY <2>2, <2>6, <2>7 DEF WholeOutput
<1> QED
  BY <1>1, Invariance, PTL

\* A call that fails leaves nothing of the command's group running and no
\* zombie, whatever the command forked before or after the kill (stop_child,
\* command_runner.rs:221-229).
THEOREM NothingLeftRunningCorrect == Spec => []NothingLeftRunning
<1>1. Inv => NothingLeftRunning
  BY DEF Inv, GroupInv, NothingLeftRunning
<1> QED
  BY <1>1, Invariance, PTL
=============================================================================
