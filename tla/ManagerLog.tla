----------------------------- MODULE ManagerLog -----------------------------
(***************************************************************************)
(* The two logs of the daemon: the ring of operations a control pass       *)
(* writes (app/operation_log.rs) and the bounded log the manager reads and *)
(* clears (app/logging.rs).  After each pass the loop copies the whole     *)
(* ring and pushes it, old operations included, into the manager log; the  *)
(* manager may clear that log anywhere in between (sys/socket.rs).         *)
(*                                                                         *)
(* A push and the evictions it makes are steps under the state mutex, held *)
(* while anything is incoming.                                             *)
(***************************************************************************)
EXTENDS Naturals, Sequences

CONSTANTS
  None,                 \* no cut-off
  RingCapacity,         \* 128 operations
  Capacity,             \* 256 records
  MaxRetained,          \* MAX_RETAINED_LOG_BYTES, in units of a record
  Sizes,                \* sizes a record may have
  Texts,                \* texts of commands, and of the faults of the loop
  MaxOperations,        \* bound of the operations of all passes
  MaxTexts,             \* bound of the texts of all commands and passes
  MaxTime,              \* bound: the wall clock stops there
  MaxStepsBack          \* bound: how often it is stepped back

ASSUME LogAssumption ==
  /\ None \notin Nat
  /\ RingCapacity \in Nat \ {0} /\ Capacity \in Nat \ {0}
  /\ MaxRetained \in Nat \ {0} /\ Sizes \subseteq Nat \ {0} /\ 1 \in Sizes
  /\ MaxOperations \in Nat /\ MaxTexts \in Nat /\ MaxTime \in Nat \ {0} /\ MaxStepsBack \in Nat

VARIABLES
  clock, stepsBack, texts,      \* the wall clock, and what the bounds count
  loop,                 \* where the control loop is
  passTime,             \* the timestamp of the pass, None outside one
  nextId,               \* next_operation_id
  ring,                 \* RuntimeControlState.operation_log
  copy,                 \* the operations the loop has copied out of it
  incoming,             \* records that the holder of the state mutex pushes
  records,              \* ManagerLog.records, the oldest first
  retained,             \* retained_bytes
  highest,              \* highest_operation_id
  cutoff,               \* operation_timestamp_cutoff_ms
  version               \* content_version

\* History, for the properties only.
VARIABLES
  first,                \* the first operation of this pass, or of the next
  shown,                \* operations that have been in the manager log
  forgotten             \* operations that a clear has put behind

manager == <<records, retained, highest, cutoff, version>>
pass == <<loop, passTime, nextId, ring, copy, first>>
bounds == <<clock, stepsBack, texts>>
vars == <<bounds, pass, incoming, manager, shown, forgotten>>

Time == 0..MaxTime
Ids == 0..MaxOperations
Operation == [id : Ids, time : Time, size : Sizes, text : {"operation"}]
Text == [id : {0}, time : Time, size : {1}, text : Texts]
Record == Operation \cup Text

IsOperation(r) == r.text = "operation"

Total(s) ==
  LET sum[n \in 0..Len(s)] == IF n = 0 THEN 0 ELSE sum[n - 1] + s[n].size
  IN  sum[Len(s)]

\* The types, and both bounds of the manager log for the records it has,
\* whatever was evicted or cleared before (app/logging.rs:175-188).
TypeOK ==
  /\ clock \in Time /\ stepsBack \in 0..MaxStepsBack /\ texts \in 0..MaxTexts
  /\ loop \in {"asleep", "pass", "network", "publishing"}
  /\ passTime \in {None} \cup Time
  /\ nextId \in 1..(MaxOperations + 1)
  /\ first \in 1..(MaxOperations + 1)
  /\ ring \in Seq(Operation)
  /\ copy \in Seq(Operation)
  /\ incoming \in Seq(Record)
  /\ records \in Seq(Record)
  /\ Len(records) <= Capacity
  /\ Total(records) <= MaxRetained
  /\ retained \in 0..MaxRetained
  /\ highest \in Ids
  /\ cutoff \in Time \cup {None}
  /\ version \in Nat
  /\ shown \in SUBSET Ids
  /\ forgotten \in SUBSET Ids

\* Operations without an id come from the diagnostics of the start only.
Unnumbered == [id |-> 0, time |-> 1, size |-> 1, text |-> "operation"]

Line(text) == [id |-> 0, time |-> clock, size |-> 1, text |-> text]

Init ==
  /\ clock = 0 /\ stepsBack = 0 /\ texts = 0
  /\ loop = "asleep"
  /\ passTime = None
  /\ nextId = 1 /\ first = 1
  /\ ring = <<>> /\ copy = <<>>
  /\ incoming \in {<<>>, <<Unnumbered, Unnumbered>>}
  /\ records = <<>>
  /\ retained = 0
  /\ highest = 0
  /\ cutoff = None
  /\ version = 0
  /\ shown = {} /\ forgotten = {}

-----------------------------------------------------------------------------
(* ManagerLog::push and push_once, for the record at the head of incoming   *)

Free == incoming = <<>> /\ loop # "publishing"
Arriving == incoming # <<>>
New == Head(incoming)

Retains(r) == \E n \in 1..Len(records) : records[n] = r

\* push_once compares the payload and not the time.
RetainsText(r) == \E n \in 1..Len(records) : records[n].text = r.text

\* Mutant: nothing but a clear keeps a numbered operation out.
StaleByTime(r) ==
  \/ cutoff # None /\ r.time <= cutoff
  \/ r.id = 0 /\ Retains(r)

\* Mutant: the operations of the time of the clear are let in.
StaleBefore(r) ==
  \/ cutoff # None /\ r.time < cutoff
  \/ r.id # 0 /\ r.id <= highest
  \/ r.id = 0 /\ Retains(r)

\* An operation of the time before the clear, or one that was pushed before.
Stale(r) ==
  \/ cutoff # None /\ r.time <= cutoff
  \/ r.id # 0 /\ r.id <= highest
  \/ r.id = 0 /\ Retains(r)

\* A fault of the loop is pushed once.
Repeated(r) == loop = "publishing" /\ RetainsText(r)

Refused(r) ==
  \/ IsOperation(r) /\ Stale(r)
  \/ ~IsOperation(r) /\ Repeated(r)
  \/ r.size > MaxRetained

Fits(r) == Len(records) < Capacity /\ retained + r.size <= MaxRetained

Refuse ==
  /\ Arriving /\ Refused(New)
  /\ incoming' = Tail(incoming)
  /\ UNCHANGED <<bounds, pass, manager, shown, forgotten>>

\* Mutant: the size of the new record is subtracted.
EvictWrongSize ==
  /\ Arriving /\ ~Refused(New) /\ ~Fits(New) /\ records # <<>>
  /\ records' = Tail(records)
  /\ retained' = IF New.size > retained THEN 0 ELSE retained - New.size
  /\ UNCHANGED <<bounds, pass, incoming, highest, cutoff, version, shown, forgotten>>

Evict ==
  /\ Arriving /\ ~Refused(New) /\ ~Fits(New) /\ records # <<>>
  /\ records' = Tail(records)
  /\ retained' = IF Head(records).size > retained THEN 0 ELSE retained - Head(records).size
  /\ UNCHANGED <<bounds, pass, incoming, highest, cutoff, version, shown, forgotten>>

Admit ==
  /\ Arriving /\ ~Refused(New)
  /\ Fits(New) \/ records = <<>>
  /\ records' = Append(records, New)
  /\ retained' = retained + New.size
  /\ highest' = IF New.id # 0 THEN New.id ELSE highest
  /\ version' = version + 1
  /\ incoming' = Tail(incoming)
  /\ shown' = shown \cup ({New.id} \ {0})
  /\ UNCHANGED <<bounds, pass, cutoff, forgotten>>

-----------------------------------------------------------------------------
(* The control loop *)

PassBegins ==
  /\ loop = "asleep"
  /\ loop' = "pass"
  /\ passTime' = clock
  /\ UNCHANGED <<bounds, nextId, ring, copy, first, incoming, manager, shown, forgotten>>

\* OperationLog::push with the record that stamp_operation numbered: a full
\* ring drops its oldest operation.
Operates(size) ==
  /\ loop = "pass"
  /\ nextId <= MaxOperations
  /\ LET operation == [id |-> nextId, time |-> passTime, size |-> size, text |-> "operation"] IN
       ring' = Append(IF Len(ring) = RingCapacity THEN Tail(ring) ELSE ring, operation)
  /\ nextId' = nextId + 1
  /\ UNCHANGED <<bounds, loop, passTime, copy, first, incoming, manager, shown, forgotten>>

\* Mutant: the loop copies the newest operation only.
PassEndsWithNewest ==
  /\ loop = "pass"
  /\ loop' = "network"
  /\ copy' = IF ring = <<>> THEN <<>> ELSE <<ring[Len(ring)]>>
  /\ UNCHANGED <<bounds, passTime, nextId, ring, first, incoming, manager, shown, forgotten>>

\* The whole ring is copied and the loop talks to the hook without locks.
PassEnds ==
  /\ loop = "pass"
  /\ loop' = "network"
  /\ copy' = ring
  /\ UNCHANGED <<bounds, passTime, nextId, ring, first, incoming, manager, shown, forgotten>>

\* The loop takes the state mutex and pushes the copy, then the faults it met.
Publishes ==
  /\ loop = "network" /\ Free
  /\ loop' = "publishing"
  /\ \/ incoming' = copy /\ UNCHANGED texts
     \/ /\ texts < MaxTexts /\ texts' = texts + 1
        /\ \E text \in Texts : incoming' = Append(copy, Line(text))
  /\ copy' = <<>>
  /\ UNCHANGED <<clock, stepsBack, passTime, nextId, ring, first, manager, shown, forgotten>>

Published ==
  /\ loop = "publishing" /\ ~Arriving
  /\ loop' = "asleep"
  /\ passTime' = None
  /\ first' = nextId
  /\ UNCHANGED <<bounds, nextId, ring, copy, incoming, manager, shown, forgotten>>

-----------------------------------------------------------------------------
(* The manager, and the clock *)

\* GetProcState, SetAppLabel and SetSettingsVar push a line.
CommandLogs(text) ==
  /\ Free
  /\ texts < MaxTexts /\ texts' = texts + 1
  /\ incoming' = <<Line(text)>>
  /\ UNCHANGED <<clock, stepsBack, pass, manager, shown, forgotten>>

\* What a clear puts behind: what was shown, and what the ring holds of a time
\* that is not ahead of the clock.
Behind == shown \cup {ring[n].id : n \in {m \in 1..Len(ring) : ring[m].time <= clock}}

\* ManagerLog::clear
Clears ==
  /\ Free
  /\ forgotten' = Behind
  /\ records' = <<>> /\ retained' = 0
  /\ cutoff' = clock
  /\ version' = IF records = <<>> THEN version ELSE version + 1
  /\ UNCHANGED <<bounds, pass, incoming, highest, shown>>

\* Nothing reads the clock while records arrive.
Tick ==
  /\ ~Arriving
  /\ clock < MaxTime /\ clock' = clock + 1
  /\ UNCHANGED <<stepsBack, texts, pass, incoming, manager, shown, forgotten>>

ClockStepsBack ==
  /\ ~Arriving
  /\ stepsBack < MaxStepsBack /\ stepsBack' = stepsBack + 1
  /\ clock' \in {t \in Time : t < clock}
  /\ UNCHANGED <<texts, pass, incoming, manager, shown, forgotten>>

Next ==
  \/ Refuse \/ Evict \/ Admit
  \/ PassBegins \/ PassEnds \/ Publishes \/ Published
  \/ \E size \in Sizes : Operates(size)
  \/ \E text \in Texts : CommandLogs(text)
  \/ Clears \/ Tick \/ ClockStepsBack

Spec == Init /\ [][Next]_vars

-----------------------------------------------------------------------------
(* Properties *)

\* The operations in the manager log are in order, none is there twice, and
\* none is newer than the filter of old operations knows.
InOrder ==
  /\ \A m, n \in 1..Len(records) :
       m < n /\ records[m].id # 0 /\ records[n].id # 0 => records[m].id < records[n].id
  /\ \A n \in 1..Len(records) : records[n].id <= highest

\* Though every pass pushes its whole ring, an operation that was evicted from
\* the manager log does not come back, and after a clear nothing does that was
\* shown or done before it.
NothingReturns ==
  [][Admit => New.id \notin (shown \cup forgotten)]_vars

\* A pass of no more operations than the ring holds loses none of them: each is
\* pushed, unless a clear or a clock behind the last clear keeps it out, or it
\* is too large.
PassIsPublished ==
  [][Published /\ nextId - first <= RingCapacity =>
       \A id \in first..(nextId - 1) :
         \/ id \in shown
         \/ cutoff # None /\ passTime <= cutoff
         \/ \E n \in 1..Len(ring) : ring[n].id = id /\ ring[n].size > MaxRetained]_vars
=============================================================================
