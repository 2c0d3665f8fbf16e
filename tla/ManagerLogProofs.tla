-------------------------- MODULE ManagerLogProofs --------------------------
(***************************************************************************)
(* Proofs about ManagerLog, for any capacities, sizes, texts and bounds:   *)
(* the log keeps the order of the operations, nothing evicted or cleared   *)
(* comes back, no pass that fits in the ring is lost, and the log keeps    *)
(* its bounds.                                                             *)
(***************************************************************************)
EXTENDS ManagerLog, SequenceTheorems, WellFoundedInduction, TLAPS

Numbers(s) == 1..Len(s)

\* The types; the bounds of the manager log come at the end.
Types ==
  /\ clock \in Time
  /\ loop \in {"asleep", "pass", "network", "publishing"}
  /\ passTime \in {None} \cup Time
  /\ nextId \in Nat /\ first \in Nat \ {0} /\ highest \in Nat
  /\ nextId <= MaxOperations + 1
  /\ ring \in Seq(Operation) /\ copy \in Seq(Operation)
  /\ incoming \in Seq(Record) /\ records \in Seq(Record)
  /\ cutoff \in Time \cup {None}

\* The ring holds the last operations, numbered without gaps, the older ones
\* dropped only when it is full; those of the pass carry the time of the pass.
RingInv ==
  /\ \A n \in Numbers(ring) : ring[n].id + Len(ring) = nextId + n - 1
  /\ Len(ring) < nextId
  /\ Len(ring) = nextId - 1 \/ Len(ring) >= RingCapacity
  /\ \A n \in Numbers(ring) : ring[n].id >= first => ring[n].time = passTime

\* Where the loop is: nothing is new while it sleeps, its copy is the ring,
\* and between two publications no operation of the pass has been pushed.
LoopInv ==
  /\ first <= nextId
  /\ loop = "asleep" => first = nextId
  /\ loop # "asleep" => passTime \in Time
  /\ copy = IF loop = "network" THEN ring ELSE <<>>
  /\ highest < nextId
  /\ loop # "publishing" => highest < first

\* What is incoming: the end of the ring in its order, and texts.
IncomingInv ==
  /\ loop # "publishing" => \A n \in Numbers(incoming) : incoming[n].id = 0
  /\ \A n \in Numbers(incoming) :
       incoming[n].id # 0 => \E m \in Numbers(ring) : incoming[n] = ring[m]
  /\ \A m, n \in Numbers(incoming) :
       m < n /\ incoming[m].id # 0 /\ incoming[n].id # 0 => incoming[m].id < incoming[n].id
  /\ \A n \in Numbers(incoming) :
       incoming[n].id # 0 => incoming[n].id > highest \/ incoming[n].id < first

\* What a clear has put behind is kept out by its number or by its time.
ForgottenInv ==
  /\ \A id \in shown : id \in Nat \ {0} /\ id <= highest
  /\ \A id \in forgotten : id \in Nat \ {0} /\ id < nextId
  /\ \A n \in Numbers(ring) :
       ring[n].id \in forgotten =>
         ring[n].id <= highest \/ (cutoff # None /\ ring[n].time <= cutoff)

\* An operation that the manager log has, or is right not to have.
Handled(r) ==
  \/ r.id \in shown
  \/ cutoff # None /\ r.time <= cutoff
  \/ r.size > MaxRetained

\* Every operation of the pass is still incoming or has been handled.
PublishedInv ==
  loop = "publishing" =>
    \A n \in Numbers(ring) :
      ring[n].id >= first =>
        Handled(ring[n]) \/ \E m \in Numbers(incoming) : incoming[m] = ring[n]

Inv ==
  /\ Types /\ RingInv /\ LoopInv /\ IncomingInv
  /\ ForgottenInv /\ PublishedInv /\ InOrder

-----------------------------------------------------------------------------
(* Sequences *)

LEMMA TailFacts ==
  ASSUME NEW S, NEW s \in Seq(S), s # <<>>
  PROVE  /\ Tail(s) \in Seq(S)
         /\ Len(s) \in Nat \ {0}
         /\ Len(Tail(s)) = Len(s) - 1
         /\ \A n \in 1..(Len(s) - 1) : Tail(s)[n] = s[n + 1]
         /\ Head(s) = s[1] /\ Head(s) \in S
BY HeadTailProperties, EmptySeq

LEMMA AppendFacts ==
  ASSUME NEW S, NEW s \in Seq(S), NEW x \in S
  PROVE  /\ Append(s, x) \in Seq(S)
         /\ Len(s) \in Nat
         /\ Len(Append(s, x)) = Len(s) + 1
         /\ \A n \in 1..Len(s) : Append(s, x)[n] = s[n]
         /\ Append(s, x)[Len(s) + 1] = x
BY AppendProperties

LEMMA ElementFacts ==
  ASSUME NEW S, NEW s \in Seq(S)
  PROVE  Len(s) \in Nat /\ \A n \in Numbers(s) : s[n] \in S
BY ElementOfSeq, LenProperties DEF Numbers

\* Ids, times and sizes of records are numbers.
LEMMA RecordFacts ==
  ASSUME NEW r \in Record
  PROVE  /\ r.id \in Nat /\ r.time \in Time /\ r.size \in Nat
         /\ r.id # 0 => IsOperation(r)
<1>1. CASE r \in Operation
  <2>1. r.id \in Ids /\ r.time \in Time /\ r.size \in Sizes /\ r.text = "operation"
    BY <1>1 DEF Operation
  <2>2. r.id \in Nat
    BY <2>1, LogAssumption DEF Ids
  <2>3. r.size \in Nat
    BY <2>1, LogAssumption
  <2> QED
    BY <2>1, <2>2, <2>3 DEF IsOperation
<1>2. CASE r \in Text
  <2>1. r.id = 0 /\ r.time \in Time /\ r.size = 1
    BY <1>2 DEF Text
  <2> QED
    BY <2>1
<1> QED
  BY <1>1, <1>2 DEF Record

LEMMA OperationFacts ==
  ASSUME NEW r \in Operation
  PROVE  r.id \in Nat /\ r.time \in Time /\ r.size \in Nat /\ IsOperation(r) /\ r \in Record
<1>1. r \in Record
  BY DEF Record
<1>2. r.text = "operation"
  BY DEF Operation
<1> QED
  BY <1>1, <1>2, RecordFacts DEF IsOperation

LEMMA LineFacts ==
  ASSUME Types, NEW text \in Texts
  PROVE  Line(text) \in Record /\ Line(text).id = 0
BY LogAssumption DEF Types, Line, Record, Text

\* Operations of the ring with the same number are the same.
LEMMA RingIds ==
  ASSUME Types, RingInv
  PROVE  /\ Len(ring) \in Nat
         /\ \A n \in Numbers(ring) : /\ ring[n] \in Operation
                                     /\ ring[n].id \in Nat \ {0}
                                     /\ ring[n].id < nextId
         /\ \A m, n \in Numbers(ring) : ring[m].id = ring[n].id => m = n
         /\ \A m, n \in Numbers(ring) : m < n => ring[m].id < ring[n].id
<1>1. Len(ring) \in Nat /\ \A n \in Numbers(ring) : ring[n] \in Operation
  BY ElementFacts DEF Types
<1>2. \A n \in Numbers(ring) : ring[n].id \in Nat
  BY <1>1, OperationFacts
<1>3. \A n \in Numbers(ring) : n \in 1..Len(ring) /\ ring[n].id + Len(ring) = nextId + n - 1
  BY DEF RingInv, Numbers
<1>4. nextId \in Nat /\ Len(ring) < nextId
  BY DEF RingInv, Types
<1>5. \A n \in Numbers(ring) : ring[n].id = (nextId - Len(ring)) + n - 1
  BY <1>1, <1>2, <1>3, <1>4
<1>6. \A n \in Numbers(ring) : ring[n].id \in Nat \ {0} /\ ring[n].id < nextId
  BY <1>1, <1>2, <1>3, <1>4
<1>7. \A m, n \in Numbers(ring) : m < n => ring[m].id < ring[n].id
  <2>1. ASSUME NEW m \in Numbers(ring), NEW n \in Numbers(ring), m < n
        PROVE  ring[m].id < ring[n].id
    <3>1. /\ m \in Nat /\ n \in Nat /\ Len(ring) \in Nat /\ nextId \in Nat
          /\ ring[m].id \in Nat /\ ring[n].id \in Nat
      BY <1>1, <1>2, <1>3, <1>4
    <3>2. ring[m].id + Len(ring) = nextId + m - 1 /\ ring[n].id + Len(ring) = nextId + n - 1
      BY <1>3
    <3> QED
      BY <2>1, <3>1, <3>2
  <2> QED
    BY <2>1
<1>8. \A m, n \in Numbers(ring) : ring[m].id = ring[n].id => m = n
  <2>1. ASSUME NEW m \in Numbers(ring), NEW n \in Numbers(ring), ring[m].id = ring[n].id, m # n
        PROVE  FALSE
    <3>1. m \in Nat /\ n \in Nat /\ ring[m].id \in Nat
      BY <1>2, <1>3
    <3>2. m < n \/ n < m
      BY <2>1, <3>1
    <3> QED
      BY <1>7, <2>1, <3>1, <3>2
  <2> QED
    BY <2>1
<1> QED
  BY <1>1, <1>6, <1>7, <1>8

-----------------------------------------------------------------------------
(* The manager log *)

LEMMA InitInv == Init => Inv
<1> SUFFICES ASSUME Init PROVE Inv
  OBVIOUS
<1>1. Unnumbered \in Record /\ Unnumbered.id = 0
  BY LogAssumption DEF Unnumbered, Record, Operation, Ids, Time
<1>2. incoming \in Seq(Record) /\ \A n \in Numbers(incoming) : incoming[n].id = 0
  <2>1. CASE incoming = <<>>
    BY <2>1 DEF Numbers
  <2>2. CASE incoming = <<Unnumbered, Unnumbered>>
    <3>1. Len(incoming) = 2 /\ incoming[1] = Unnumbered /\ incoming[2] = Unnumbered
      BY <2>2
    <3>2. incoming \in Seq(Record)
      BY <1>1, <2>2
    <3> QED
      BY <1>1, <3>1, <3>2 DEF Numbers
  <2> QED
    BY <2>1, <2>2 DEF Init
<1>3. Types
  BY <1>2, LogAssumption DEF Init, Types, Time
<1>4. RingInv /\ LoopInv
  BY DEF Init, RingInv, LoopInv, Numbers
<1>5. IncomingInv /\ ForgottenInv /\ PublishedInv /\ InOrder
  BY <1>2 DEF Init, IncomingInv, ForgottenInv, PublishedInv, InOrder, Numbers
<1> QED
  BY <1>3, <1>4, <1>5 DEF Inv

\* The record at the head is gone, the others move up.
LEMMA TailInv ==
  ASSUME Inv, Arriving, incoming' = Tail(incoming),
         UNCHANGED <<loop, passTime, nextId, first, ring, copy>>,
         highest' = highest \/ (New.id # 0 /\ highest' = New.id)
  PROVE  /\ incoming' \in Seq(Record)
         /\ IncomingInv'
         /\ New \in Record
         /\ New.id # 0 => \E m \in Numbers(ring) : New = ring[m]
         /\ New.id # 0 => New.id > highest \/ New.id < first
         /\ New.id # 0 => loop = "publishing"
<1>1. incoming \in Seq(Record) /\ incoming # <<>>
  BY DEF Inv, Types, Arriving
<1>2. /\ Tail(incoming) \in Seq(Record)
      /\ Len(incoming) \in Nat \ {0}
      /\ Len(Tail(incoming)) = Len(incoming) - 1
      /\ \A n \in 1..(Len(incoming) - 1) : Tail(incoming)[n] = incoming[n + 1]
      /\ Head(incoming) = incoming[1] /\ Head(incoming) \in Record
  BY <1>1, TailFacts
<1>3. New = incoming[1] /\ New \in Record /\ 1 \in Numbers(incoming)
  BY <1>2 DEF New, Numbers
<1>4. \A n \in Numbers(incoming') : /\ n \in Nat \ {0}
                                    /\ n + 1 \in Numbers(incoming)
                                    /\ 1 < n + 1
                                    /\ incoming'[n] = incoming[n + 1]
  BY <1>2 DEF Numbers
<1>5. \A n \in Numbers(incoming) : incoming[n].id \in Nat
  BY <1>1, ElementFacts, RecordFacts
<1>6. highest \in Nat /\ first \in Nat
  BY DEF Inv, Types
<1>7. \A n \in Numbers(incoming') :
        incoming'[n].id # 0 => incoming'[n].id > highest' \/ incoming'[n].id < first'
  <2> SUFFICES ASSUME NEW n \in Numbers(incoming'), incoming'[n].id # 0
               PROVE  incoming'[n].id > highest' \/ incoming'[n].id < first'
    OBVIOUS
  <2>1. incoming[n + 1].id > highest \/ incoming[n + 1].id < first
    BY <1>4 DEF Inv, IncomingInv
  <2>2. CASE highest' = highest
    BY <1>4, <2>1, <2>2
  <2>3. CASE New.id # 0 /\ highest' = New.id
    <3>1. incoming[1].id < incoming[n + 1].id
      BY <1>3, <1>4, <2>3 DEF Inv, IncomingInv
    <3> QED
      BY <1>3, <1>4, <1>5, <2>3, <3>1
  <2> QED
    BY <2>2, <2>3
<1>8. \A m, n \in Numbers(incoming') :
        m < n /\ incoming'[m].id # 0 /\ incoming'[n].id # 0 => incoming'[m].id < incoming'[n].id
  <2> SUFFICES ASSUME NEW m \in Numbers(incoming'), NEW n \in Numbers(incoming'), m < n,
                      incoming'[m].id # 0, incoming'[n].id # 0
               PROVE  incoming'[m].id < incoming'[n].id
    OBVIOUS
  <2>1. m + 1 < n + 1
    BY <1>4
  <2>2. incoming[m + 1].id # 0 /\ incoming[n + 1].id # 0
    BY <1>4
  <2>3. incoming[m + 1].id < incoming[n + 1].id
    BY <1>4, <2>1, <2>2 DEF Inv, IncomingInv
  <2> QED
    BY <1>4, <2>3
<1>9. IncomingInv'
  <2>1. loop' # "publishing" => \A n \in Numbers(incoming') : incoming'[n].id = 0
    <3>1. loop # "publishing" => \A n \in Numbers(incoming) : incoming[n].id = 0
      BY DEF Inv, IncomingInv
    <3> QED
      BY <1>4, <3>1
  <2>2. ASSUME NEW n \in Numbers(incoming'), incoming'[n].id # 0
        PROVE  \E m \in Numbers(ring') : incoming'[n] = ring'[m]
    <3>1. incoming[n + 1].id # 0 /\ n + 1 \in Numbers(incoming)
      BY <1>4, <2>2
    <3>2. PICK m \in Numbers(ring) : incoming[n + 1] = ring[m]
      BY <3>1 DEF Inv, IncomingInv
    <3>3. incoming'[n] = ring[m]
      BY <1>4, <2>2, <3>2
    <3> QED
      BY <3>2, <3>3
  <2> QED
    BY <1>7, <1>8, <2>1, <2>2 DEF IncomingInv
<1>10. /\ New.id # 0 => \E m \in Numbers(ring) : New = ring[m]
       /\ New.id # 0 => New.id > highest \/ New.id < first
       /\ New.id # 0 => loop = "publishing"
  BY <1>3 DEF Inv, IncomingInv
<1> QED
  BY <1>2, <1>3, <1>9, <1>10

\* What is pushed is handled or still incoming, if what leaves is handled.
LEMMA PublishedStep ==
  ASSUME Inv, Arriving, incoming' = Tail(incoming),
         UNCHANGED <<loop, first, ring, cutoff>>,
         shown \subseteq shown',
         \A r \in Operation :
           New = r /\ loop = "publishing" /\ r.id >= first => Handled(r)'
  PROVE  PublishedInv'
<1> SUFFICES ASSUME loop = "publishing", NEW n \in Numbers(ring), ring[n].id >= first
             PROVE  Handled(ring[n])' \/ \E m \in Numbers(incoming') : incoming'[m] = ring[n]
  BY DEF PublishedInv
<1>1. CASE Handled(ring[n])
  BY <1>1 DEF Handled
<1>2. CASE \E m \in Numbers(incoming) : incoming[m] = ring[n]
  <2>1. PICK m \in Numbers(incoming) : incoming[m] = ring[n]
    BY <1>2
  <2>2. incoming \in Seq(Record) /\ incoming # <<>>
    BY DEF Inv, Types, Arriving
  <2>3. /\ Len(incoming) \in Nat \ {0}
        /\ Len(Tail(incoming)) = Len(incoming) - 1
        /\ \A k \in 1..(Len(incoming) - 1) : Tail(incoming)[k] = incoming[k + 1]
        /\ Head(incoming) = incoming[1]
    BY <2>2, TailFacts
  <2>4. CASE m = 1
    <3>1. New = ring[n]
      BY <2>1, <2>3, <2>4 DEF New
    <3>2. ring[n] \in Operation /\ ring[n]' = ring[n]
      BY ElementFacts DEF Inv, Types
    <3>3. PICK r \in Operation : r = ring[n]
      BY <3>2
    <3>4. Handled(r)'
      BY <3>1, <3>3
    <3> QED
      BY <3>2, <3>3, <3>4 DEF Handled
  <2>5. CASE m # 1
    <3>1. m - 1 \in Numbers(incoming') /\ incoming'[m - 1] = incoming[m]
      <4>1. m \in Nat /\ 1 < m /\ m <= Len(incoming) /\ m - 1 \in 1..(Len(incoming) - 1)
        BY <2>3, <2>5 DEF Numbers
      <4>2. Tail(incoming)[m - 1] = incoming[(m - 1) + 1] /\ (m - 1) + 1 = m
        BY <2>3, <4>1
      <4> QED
        BY <2>3, <4>1, <4>2 DEF Numbers
    <3> QED
      BY <2>1, <3>1
  <2> QED
    BY <2>4, <2>5
<1> QED
  BY <1>1, <1>2 DEF Inv, PublishedInv

\* A record that is refused is one the manager log has, one of the time before
\* the clear, or one too large: an operation of the pass is handled.
LEMMA RefuseInv ==
  ASSUME Inv, Refuse
  PROVE  Inv'
<1>1. /\ Arriving /\ Refused(New) /\ incoming' = Tail(incoming)
      /\ UNCHANGED <<clock, loop, passTime, nextId, first, ring, copy>>
      /\ UNCHANGED <<records, highest, cutoff, shown, forgotten>>
  BY DEF Refuse, bounds, pass, manager
<1>2. incoming' \in Seq(Record) /\ IncomingInv' /\ (New.id # 0 => New.id > highest \/ New.id < first)
  BY <1>1, TailInv
<1>3. ASSUME NEW r \in Operation, New = r, loop = "publishing", r.id >= first PROVE Handled(r)'
  <2>1. r.id \in Nat /\ IsOperation(r) /\ first \in Nat /\ highest \in Nat
    BY OperationFacts DEF Inv, Types
  <2>2. first # 0
    BY DEF Inv, Types
  <2>3. Stale(r) \/ r.size > MaxRetained
    BY <1>1, <1>3, <2>1 DEF Refused
  <2>4. CASE r.size > MaxRetained
    BY <2>4 DEF Handled
  <2>5. CASE cutoff # None /\ r.time <= cutoff
    BY <1>1, <2>5 DEF Handled
  <2>6. CASE r.id # 0 /\ r.id <= highest
    BY <1>2, <1>3, <2>1, <2>6
  <2>7. CASE r.id = 0
    BY <1>3, <2>1, <2>2, <2>7
  <2> QED
    BY <2>3, <2>4, <2>5, <2>6, <2>7 DEF Stale
<1>4. PublishedInv'
  BY <1>1, <1>3, PublishedStep
<1>5. Types' /\ RingInv' /\ LoopInv' /\ ForgottenInv' /\ InOrder'
  BY <1>1, <1>2 DEF Inv, Types, RingInv, LoopInv, ForgottenInv, InOrder
<1> QED
  BY <1>2, <1>4, <1>5 DEF Inv

LEMMA EvictInv ==
  ASSUME Inv, Evict
  PROVE  Inv'
<1>1. /\ records # <<>> /\ records' = Tail(records)
      /\ UNCHANGED <<clock, loop, passTime, nextId, first, ring, copy>>
      /\ UNCHANGED <<incoming, highest, cutoff, shown, forgotten>>
  BY DEF Evict, bounds, pass
<1>2. records \in Seq(Record)
  BY DEF Inv, Types
<1>3. /\ Tail(records) \in Seq(Record)
      /\ Len(records) \in Nat \ {0}
      /\ Len(Tail(records)) = Len(records) - 1
      /\ \A n \in 1..(Len(records) - 1) : Tail(records)[n] = records[n + 1]
  BY <1>1, <1>2, TailFacts
<1>4. \A n \in 1..Len(records') : /\ n \in Nat /\ n + 1 \in 1..Len(records)
                                  /\ records'[n] = records[n + 1]
  BY <1>1, <1>3
<1>5. InOrder'
  <2>1. ASSUME NEW m \in 1..Len(records'), NEW n \in 1..Len(records'), m < n,
               records'[m].id # 0, records'[n].id # 0
        PROVE  records'[m].id < records'[n].id
    <3>1. m + 1 < n + 1
      BY <1>4, <2>1
    <3> QED
      BY <1>4, <2>1, <3>1 DEF Inv, InOrder
  <2>2. \A n \in 1..Len(records') : records'[n].id <= highest'
    BY <1>1, <1>4 DEF Inv, InOrder
  <2> QED
    BY <2>1, <2>2 DEF InOrder
<1>6. Types' /\ RingInv' /\ LoopInv' /\ ForgottenInv' /\ IncomingInv' /\ PublishedInv'
  BY <1>1, <1>3 DEF Inv, Types, RingInv, LoopInv, ForgottenInv, IncomingInv, PublishedInv, Handled
<1> QED
  BY <1>5, <1>6 DEF Inv

\* A numbered record that is let in is an operation newer than all before it,
\* and neither shown nor put behind.
LEMMA AdmittedIsNew ==
  ASSUME Inv, Admit
  PROVE  /\ New \in Record
         /\ New.id \notin shown \cup forgotten
         /\ New.id # 0 => New.id > highest /\ New.id < nextId
<1>1. /\ Arriving /\ ~Refused(New) /\ incoming' = Tail(incoming)
      /\ UNCHANGED <<loop, passTime, nextId, first, ring, copy>>
      /\ highest' = highest \/ (New.id # 0 /\ highest' = New.id)
  BY DEF Admit, pass
<1>2. New \in Record /\ (New.id # 0 => \E m \in Numbers(ring) : New = ring[m])
  BY <1>1, TailInv
<1>3. CASE New.id = 0
  BY <1>2, <1>3 DEF Inv, ForgottenInv
<1>4. CASE New.id # 0
  <2>1. PICK m \in Numbers(ring) : New = ring[m]
    BY <1>2, <1>4
  <2>2. ring[m] \in Operation /\ ring[m].id \in Nat \ {0} /\ ring[m].id < nextId
    BY RingIds DEF Inv
  <2>3. ~Stale(New)
    BY <1>1, <2>1, <2>2, OperationFacts DEF Refused
  <2>4. highest \in Nat
    BY DEF Inv, Types
  <2>5. New.id > highest
    BY <1>4, <2>1, <2>2, <2>3, <2>4 DEF Stale
  <2>6. New.id \notin shown
    BY <2>1, <2>2, <2>4, <2>5 DEF Inv, ForgottenInv
  <2>7. New.id \notin forgotten
    <3>1. SUFFICES ASSUME ring[m].id \in forgotten PROVE FALSE
      BY <2>1
    <3>2. ring[m].id <= highest \/ (cutoff # None /\ ring[m].time <= cutoff)
      BY <3>1 DEF Inv, ForgottenInv
    <3>3. ~(cutoff # None /\ ring[m].time <= cutoff)
      BY <2>1, <2>3 DEF Stale
    <3> QED
      BY <2>1, <2>2, <2>4, <2>5, <3>2, <3>3
  <2> QED
    BY <1>2, <2>1, <2>2, <2>5, <2>6, <2>7
<1> QED
  BY <1>3, <1>4

LEMMA AdmitInv ==
  ASSUME Inv, Admit
  PROVE  Inv'
<1>1. /\ Arriving /\ incoming' = Tail(incoming) /\ records' = Append(records, New)
      /\ highest' = (IF New.id # 0 THEN New.id ELSE highest)
      /\ shown' = shown \cup ({New.id} \ {0})
      /\ UNCHANGED <<clock, loop, passTime, nextId, first, ring, copy, cutoff, forgotten>>
  BY DEF Admit, bounds, pass
<1>2. /\ incoming' \in Seq(Record) /\ IncomingInv' /\ New \in Record
      /\ New.id # 0 => loop = "publishing"
  BY <1>1, TailInv
<1>3. New.id # 0 => New.id > highest /\ New.id < nextId
  BY AdmittedIsNew
<1>4. New.id \in Nat /\ highest \in Nat /\ nextId \in Nat
  BY <1>2, RecordFacts DEF Inv, Types
<1>5. highest' \in Nat /\ highest <= highest' /\ highest' < nextId /\ New.id <= highest'
  BY <1>1, <1>3, <1>4 DEF Inv, LoopInv
<1>6. records \in Seq(Record)
  BY DEF Inv, Types
<1>7. /\ Append(records, New) \in Seq(Record)
      /\ Len(records) \in Nat
      /\ Len(Append(records, New)) = Len(records) + 1
      /\ \A n \in 1..Len(records) : Append(records, New)[n] = records[n]
      /\ Append(records, New)[Len(records) + 1] = New
  BY <1>2, <1>6, AppendFacts
<1>8. InOrder'
  <2>1. \A n \in 1..Len(records) : records[n].id \in Nat /\ records[n].id <= highest
    BY <1>6, ElementFacts, RecordFacts DEF Inv, InOrder, Numbers
  <2>2. \A n \in 1..Len(records') :
          \/ n \in 1..Len(records) /\ records'[n] = records[n]
          \/ n = Len(records) + 1 /\ records'[n] = New
    BY <1>1, <1>7
  <2>3. ASSUME NEW m \in 1..Len(records'), NEW n \in 1..Len(records'), m < n,
               records'[m].id # 0, records'[n].id # 0
        PROVE  records'[m].id < records'[n].id
    <3>1. m \in 1..Len(records) /\ records'[m] = records[m]
      BY <1>7, <2>2, <2>3
    <3>2. CASE n \in 1..Len(records) /\ records'[n] = records[n]
      BY <2>3, <3>1, <3>2 DEF Inv, InOrder
    <3>3. CASE records'[n] = New
      BY <1>3, <1>4, <2>1, <2>3, <3>1, <3>3
    <3> QED
      BY <2>2, <3>2, <3>3
  <2>4. \A n \in 1..Len(records') : records'[n].id <= highest'
    BY <1>4, <1>5, <2>1, <2>2
  <2> QED
    BY <2>3, <2>4 DEF InOrder
<1>9. ForgottenInv'
  <2>1. \A id \in shown' : id \in Nat \ {0} /\ id <= highest'
    BY <1>1, <1>4, <1>5 DEF Inv, ForgottenInv
  <2>2. \A n \in Numbers(ring) : ring[n].id \in Nat
    BY RingIds DEF Inv
  <2>3. \A n \in Numbers(ring) :
          ring[n].id \in forgotten =>
            ring[n].id <= highest' \/ (cutoff # None /\ ring[n].time <= cutoff)
    BY <1>4, <1>5, <2>2 DEF Inv, ForgottenInv
  <2> QED
    BY <1>1, <2>1, <2>3 DEF Inv, ForgottenInv
<1>10. PublishedInv'
  <2>1. ASSUME NEW r \in Operation, New = r, loop = "publishing", r.id >= first PROVE Handled(r)'
    <3>1. r.id # 0
      <4>1. first \in Nat \ {0} /\ r.id \in Nat
        BY OperationFacts DEF Inv, Types
      <4> QED
        BY <2>1, <4>1
    <3> QED
      BY <1>1, <2>1, <3>1 DEF Handled
  <2> QED
    BY <1>1, <2>1, PublishedStep
<1>11. Types' /\ RingInv' /\ LoopInv'
  <2>1. LoopInv'
    BY <1>1, <1>2, <1>5 DEF Inv, LoopInv
  <2> QED
    BY <1>1, <1>2, <1>5, <1>7, <2>1 DEF Inv, Types, RingInv
<1> QED
  BY <1>2, <1>8, <1>9, <1>10, <1>11 DEF Inv

-----------------------------------------------------------------------------
(* The loop, the manager and the clock *)

LEMMA PassBeginsInv ==
  ASSUME Inv, PassBegins
  PROVE  Inv'
<1>1. /\ loop = "asleep" /\ loop' = "pass" /\ passTime' = clock
      /\ UNCHANGED <<clock, nextId, ring, copy, first, incoming>>
      /\ UNCHANGED <<records, highest, cutoff, shown, forgotten>>
  BY DEF PassBegins, bounds, manager
<1>2. \A n \in Numbers(ring) : ~(ring[n].id >= first)
  <2>1. \A n \in Numbers(ring) : ring[n].id \in Nat \ {0} /\ ring[n].id < nextId
    BY RingIds DEF Inv
  <2>2. first = nextId /\ nextId \in Nat
    BY <1>1 DEF Inv, LoopInv, Types
  <2> QED
    BY <2>1, <2>2
<1>3. Types' /\ RingInv' /\ LoopInv'
  BY <1>1, <1>2 DEF Inv, Types, RingInv, LoopInv
<1>4. IncomingInv' /\ ForgottenInv' /\ PublishedInv' /\ InOrder'
  BY <1>1 DEF Inv, IncomingInv, ForgottenInv, PublishedInv, InOrder
<1> QED
  BY <1>3, <1>4 DEF Inv

LEMMA Shifted ==
  ASSUME NEW i \in Nat, NEW l \in Nat, NEW k \in Nat, NEW m \in Nat, NEW n \in Nat, NEW next \in Nat,
         i + l = next + m - 1, m + k = n + l + 1
  PROVE  i + k = next + n
OBVIOUS

\* A new operation has the next number; the others of the ring are those it
\* had, one fewer when it was full.
LEMMA OperatesInv ==
  ASSUME Inv, NEW size \in Sizes, Operates(size)
  PROVE  Inv'
<1> DEFINE operation == [id |-> nextId, time |-> passTime, size |-> size, text |-> "operation"]
           old == IF Len(ring) = RingCapacity THEN Tail(ring) ELSE ring
<1>1. /\ loop = "pass" /\ nextId <= MaxOperations
      /\ ring' = Append(old, operation) /\ nextId' = nextId + 1
      /\ UNCHANGED <<clock, loop, passTime, copy, first, incoming>>
      /\ UNCHANGED <<records, highest, cutoff, shown, forgotten>>
  BY DEF Operates, bounds, manager
<1>2. /\ operation.id = nextId /\ operation.time = passTime
      /\ operation \in Operation
  <2>1. passTime \in Time /\ nextId \in Ids
    BY <1>1, LogAssumption DEF Inv, LoopInv, Types, Ids
  <2> QED
    BY <2>1 DEF Operation
<1>3. /\ ring \in Seq(Operation) /\ nextId \in Nat /\ first \in Nat /\ highest \in Nat
      /\ RingCapacity \in Nat \ {0}
  BY LogAssumption DEF Inv, Types
<1>4. Len(ring) \in Nat
  BY <1>3, LenProperties
<1>5. /\ old \in Seq(Operation) /\ Len(old) \in Nat
      /\ \/ Len(old) = Len(ring) /\ \A n \in 1..Len(old) : old[n] = ring[n] /\ n \in 1..Len(ring)
         \/ /\ Len(ring) = RingCapacity
            /\ Len(old) + 1 = Len(ring)
            /\ \A n \in 1..Len(old) : old[n] = ring[n + 1] /\ n + 1 \in 1..Len(ring)
  <2>1. CASE Len(ring) = RingCapacity
    <3>1. ring # <<>>
      BY <1>3, <2>1
    <3>2. /\ Tail(ring) \in Seq(Operation)
          /\ Len(Tail(ring)) = Len(ring) - 1
          /\ \A n \in 1..(Len(ring) - 1) : Tail(ring)[n] = ring[n + 1]
      BY <1>3, <3>1, TailFacts
    <3> QED
      BY <1>3, <2>1, <3>2
  <2>2. CASE Len(ring) # RingCapacity
    BY <1>3, <1>4, <2>2
  <2> QED
    BY <2>1, <2>2
<1> HIDE DEF operation, old
<1>6. /\ ring' \in Seq(Operation)
      /\ Len(ring') = Len(old) + 1
      /\ \A n \in 1..Len(old) : ring'[n] = old[n]
      /\ ring'[Len(old) + 1] = operation
  BY <1>1, <1>2, <1>5, AppendFacts
<1>7. \A n \in Numbers(ring') :
        \/ n = Len(ring') /\ ring'[n] = operation
        \/ n \in 1..Len(old) /\ ring'[n] = old[n]
  BY <1>5, <1>6 DEF Numbers
<1>8. \A n \in Numbers(ring') :
        \/ n = Len(ring') /\ ring'[n] = operation
        \/ \E m \in Numbers(ring) :
             ring'[n] = ring[m] /\ m + Len(ring') = n + Len(ring) + 1
  <2> SUFFICES ASSUME NEW n \in Numbers(ring'), n \in 1..Len(old), ring'[n] = old[n]
               PROVE  \E m \in Numbers(ring) :
                        ring'[n] = ring[m] /\ m + Len(ring') = n + Len(ring) + 1
    BY <1>7
  <2>1. CASE /\ Len(old) = Len(ring)
             /\ \A k \in 1..Len(old) : old[k] = ring[k] /\ k \in 1..Len(ring)
    <3>1. n \in Numbers(ring) /\ ring'[n] = ring[n] /\ n + Len(ring') = n + Len(ring) + 1
      BY <1>4, <1>5, <1>6, <2>1 DEF Numbers
    <3> QED
      BY <3>1
  <2>2. CASE /\ Len(old) + 1 = Len(ring)
             /\ \A k \in 1..Len(old) : old[k] = ring[k + 1] /\ k + 1 \in 1..Len(ring)
    <3>1. n + 1 \in Numbers(ring) /\ ring'[n] = ring[n + 1]
      BY <2>2 DEF Numbers
    <3>2. n \in Nat /\ Len(ring') = Len(ring)
      BY <1>4, <1>5, <1>6, <2>2
    <3>3. (n + 1) + Len(ring') = n + Len(ring) + 1
      BY <1>4, <3>2
    <3> QED
      BY <3>1, <3>3
  <2> QED
    BY <1>5, <2>1, <2>2
<1>9. Len(ring') \in Nat /\ Len(ring') < nextId' /\ (Len(ring') = nextId' - 1 \/ Len(ring') >= RingCapacity)
  BY <1>1, <1>3, <1>4, <1>5, <1>6 DEF Inv, RingInv
<1>10. \A m \in Numbers(ring) : ring[m].id \in Nat /\ ring[m].id + Len(ring) = nextId + m - 1
  BY RingIds DEF Inv, RingInv
<1>11. RingInv'
  <2>1. ASSUME NEW n \in Numbers(ring') PROVE ring'[n].id + Len(ring') = nextId' + n - 1
    <3>1. CASE n = Len(ring') /\ ring'[n] = operation
      <4>1. ring'[n].id = nextId /\ nextId \in Nat /\ nextId' = nextId + 1 /\ n = Len(ring')
        BY <1>1, <1>2, <1>3, <3>1
      <4> QED
        BY <1>9, <4>1
    <3>2. ASSUME NEW m \in Numbers(ring), ring'[n] = ring[m],
                 m + Len(ring') = n + Len(ring) + 1
          PROVE  ring'[n].id + Len(ring') = nextId' + n - 1
      <4>1. n \in Nat /\ m \in Nat
        BY <1>4, <1>9, <2>1, <3>2 DEF Numbers
      <4>2. ring[m].id \in Nat /\ ring[m].id + Len(ring) = nextId + m - 1
        BY <1>10
      <4>3. Len(ring) \in Nat /\ Len(ring') \in Nat /\ nextId \in Nat /\ nextId' = nextId + 1
        BY <1>1, <1>3, <1>4, <1>9
      <4>6. m + Len(ring') = n + Len(ring) + 1
        BY <3>2
      <4>7. ring[m].id \in Nat
        BY <4>2
      <4>8. ring[m].id + Len(ring) = nextId + m - 1
        BY <4>2
      <4> DEFINE i == ring[m].id
                 l == Len(ring)
                 k == Len(ring')
                 next == nextId
      <4>9. i \in Nat /\ l \in Nat /\ k \in Nat /\ next \in Nat /\ i + l = next + m - 1 /\ m + k = n + l + 1
        BY <4>3, <4>6, <4>7, <4>8
      <4> HIDE DEF i, l, k, next
      <4>4. i + k = next + n
        BY <4>1, <4>9, Shifted
      <4>5. nextId + n = nextId' + n - 1
        BY <4>1, <4>3
      <4> QED
        BY <3>2, <4>4, <4>5 DEF i, k, next
    <3> QED
      BY <1>8, <3>1, <3>2
  <2>2. \A n \in Numbers(ring') : ring'[n].id >= first => ring'[n].time = passTime
    BY <1>2, <1>8 DEF Inv, RingInv
  <2> QED
    BY <1>1, <1>9, <2>1, <2>2 DEF RingInv
<1>12. Types' /\ LoopInv'
  BY <1>1, <1>3, <1>6, LogAssumption DEF Inv, Types, LoopInv
<1>13. IncomingInv' /\ InOrder'
  BY <1>1 DEF Inv, IncomingInv, InOrder
<1>14. ForgottenInv'
  <2>1. nextId \notin forgotten /\ \A id \in forgotten : id \in Nat \ {0} /\ id < nextId'
    BY <1>1, <1>3 DEF Inv, ForgottenInv
  <2>2. \A n \in Numbers(ring') :
          ring'[n].id \in forgotten =>
            ring'[n].id <= highest \/ (cutoff # None /\ ring'[n].time <= cutoff)
    BY <1>2, <1>8, <2>1 DEF Inv, ForgottenInv
  <2> QED
    BY <1>1, <2>1, <2>2 DEF Inv, ForgottenInv
<1>15. PublishedInv'
  BY <1>1 DEF PublishedInv
<1> QED
  BY <1>11, <1>12, <1>13, <1>14, <1>15 DEF Inv

LEMMA PassEndsInv ==
  ASSUME Inv, PassEnds
  PROVE  Inv'
<1>1. /\ loop = "pass" /\ loop' = "network" /\ copy' = ring
      /\ UNCHANGED <<clock, passTime, nextId, ring, first, incoming>>
      /\ UNCHANGED <<records, highest, cutoff, shown, forgotten>>
  BY DEF PassEnds, bounds, manager
<1>2. Types' /\ RingInv' /\ LoopInv'
  BY <1>1 DEF Inv, Types, RingInv, LoopInv
<1>3. IncomingInv' /\ ForgottenInv' /\ PublishedInv' /\ InOrder'
  BY <1>1 DEF Inv, IncomingInv, ForgottenInv, PublishedInv, InOrder
<1> QED
  BY <1>2, <1>3 DEF Inv

\* The copy is the ring, in its order and with all of the pass.
LEMMA PublishesInv ==
  ASSUME Inv, Publishes
  PROVE  Inv'
<1>1. /\ loop = "network" /\ loop' = "publishing" /\ copy' = <<>>
      /\ incoming' = copy \/ \E text \in Texts : incoming' = Append(copy, Line(text))
      /\ UNCHANGED <<clock, passTime, nextId, ring, first>>
      /\ UNCHANGED <<records, highest, cutoff, shown, forgotten>>
  BY DEF Publishes, manager
<1>2. /\ copy = ring /\ ring \in Seq(Operation) /\ ring \in Seq(Record)
      /\ Len(ring) \in Nat /\ highest \in Nat /\ first \in Nat /\ highest < first
  <2>1. Operation \subseteq Record
    BY DEF Record
  <2>2. ring \in Seq(Operation)
    BY DEF Inv, Types
  <2>3. ring \in Seq(Record)
    BY <2>1, <2>2, SeqMonotonic
  <2> QED
    BY <1>1, <2>2, <2>3, LenProperties DEF Inv, Types, LoopInv
<1>3. /\ incoming' \in Seq(Record)
      /\ \A n \in Numbers(ring) : n \in Numbers(incoming') /\ incoming'[n] = ring[n]
      /\ \A n \in Numbers(incoming') :
           incoming'[n].id # 0 => n \in Numbers(ring) /\ incoming'[n] = ring[n]
  <2>1. CASE incoming' = ring
    BY <1>2, <2>1
  <2>2. ASSUME NEW text \in Texts, incoming' = Append(ring, Line(text))
        PROVE  /\ incoming' \in Seq(Record)
               /\ \A n \in Numbers(ring) : n \in Numbers(incoming') /\ incoming'[n] = ring[n]
               /\ \A n \in Numbers(incoming') :
                    incoming'[n].id # 0 => n \in Numbers(ring) /\ incoming'[n] = ring[n]
    <3>1. Line(text) \in Record /\ Line(text).id = 0
      BY LineFacts DEF Inv
    <3>2. /\ Append(ring, Line(text)) \in Seq(Record)
          /\ Len(Append(ring, Line(text))) = Len(ring) + 1
          /\ \A n \in 1..Len(ring) : Append(ring, Line(text))[n] = ring[n]
          /\ Append(ring, Line(text))[Len(ring) + 1] = Line(text)
      BY <1>2, <3>1, AppendFacts
    <3> QED
      BY <1>2, <2>2, <3>1, <3>2 DEF Numbers
  <2> QED
    BY <1>1, <1>2, <2>1, <2>2
<1>4. \A n \in Numbers(ring) : ring[n].id \in Nat \ {0}
  BY RingIds DEF Inv
<1>5. IncomingInv'
  <2>1. \A n \in Numbers(incoming') :
          incoming'[n].id # 0 => incoming'[n].id > highest \/ incoming'[n].id < first
    BY <1>2, <1>3, <1>4
  <2>2. \A m, n \in Numbers(incoming') :
          m < n /\ incoming'[m].id # 0 /\ incoming'[n].id # 0 => incoming'[m].id < incoming'[n].id
    BY <1>3, RingIds DEF Inv
  <2> QED
    BY <1>1, <1>3, <2>1, <2>2 DEF IncomingInv
<1>6. PublishedInv'
  BY <1>1, <1>3 DEF PublishedInv
<1>7. Types' /\ RingInv' /\ LoopInv'
  BY <1>1, <1>2, <1>3 DEF Inv, Types, RingInv, LoopInv
<1>8. ForgottenInv' /\ InOrder'
  BY <1>1 DEF Inv, ForgottenInv, InOrder
<1> QED
  BY <1>5, <1>6, <1>7, <1>8 DEF Inv


\* A pass that is published leaves nothing incoming: all of it is handled.
LEMMA PublishedKeepsInv ==
  ASSUME Inv, Published
  PROVE  Inv'
<1>1. /\ loop = "publishing" /\ loop' = "asleep" /\ passTime' = None /\ first' = nextId
      /\ incoming = <<>>
      /\ UNCHANGED <<clock, nextId, ring, copy, incoming>>
      /\ UNCHANGED <<records, highest, cutoff, shown, forgotten>>
  BY DEF Published, Arriving, bounds, manager
<1>2. \A n \in Numbers(ring) : ~(ring[n].id >= nextId)
  BY RingIds DEF Inv, Types
<1>3. nextId \in Nat \ {0} /\ highest \in Nat /\ highest < nextId
  BY DEF Inv, Types, LoopInv
<1>4. Types' /\ RingInv' /\ LoopInv'
  BY <1>1, <1>2, <1>3 DEF Inv, Types, RingInv, LoopInv
<1>5. IncomingInv' /\ ForgottenInv' /\ PublishedInv' /\ InOrder'
  BY <1>1 DEF Inv, IncomingInv, ForgottenInv, PublishedInv, InOrder, Numbers
<1> QED
  BY <1>4, <1>5 DEF Inv

LEMMA CommandLogsInv ==
  ASSUME Inv, NEW text \in Texts, CommandLogs(text)
  PROVE  Inv'
<1>1. /\ loop # "publishing" /\ incoming' = <<Line(text)>>
      /\ UNCHANGED <<clock, loop, passTime, nextId, ring, copy, first>>
      /\ UNCHANGED <<records, highest, cutoff, shown, forgotten>>
  BY DEF CommandLogs, Free, pass, manager
<1>2. Line(text) \in Record /\ Line(text).id = 0
  BY LineFacts DEF Inv
<1>3. incoming' \in Seq(Record) /\ \A n \in Numbers(incoming') : incoming'[n].id = 0
  BY <1>1, <1>2 DEF Numbers
<1>4. Types' /\ RingInv' /\ LoopInv'
  BY <1>1, <1>3 DEF Inv, Types, RingInv, LoopInv
<1>5. IncomingInv' /\ ForgottenInv' /\ PublishedInv' /\ InOrder'
  BY <1>1, <1>3 DEF Inv, IncomingInv, ForgottenInv, PublishedInv, InOrder
<1> QED
  BY <1>4, <1>5 DEF Inv

\* What was shown is put behind by its number, the ring by its time.
LEMMA ClearsInv ==
  ASSUME Inv, Clears
  PROVE  Inv'
<1>1. /\ forgotten' = Behind /\ records' = <<>> /\ cutoff' = clock
      /\ loop # "publishing"
      /\ UNCHANGED <<clock, loop, passTime, nextId, ring, copy, first>>
      /\ UNCHANGED <<incoming, highest, shown>>
  BY DEF Clears, Free, bounds, pass
<1>2. clock \in Time /\ clock \in Nat /\ clock # None
  BY LogAssumption DEF Inv, Types, Time
<1>3. ForgottenInv'
  <2>1. \A id \in shown : id \in Nat \ {0} /\ id <= highest /\ id < nextId
    BY DEF Inv, Types, ForgottenInv, LoopInv
  <2>2. \A n \in Numbers(ring) : ring[n].id \in Nat \ {0} /\ ring[n].id < nextId
    BY RingIds DEF Inv
  <2>3. \A id \in forgotten' : id \in Nat \ {0} /\ id < nextId
    BY <1>1, <2>1, <2>2 DEF Behind, Numbers
  <2>4. ASSUME NEW n \in Numbers(ring), ring[n].id \in forgotten'
        PROVE  ring[n].id <= highest \/ ring[n].time <= clock
    <3>1. CASE ring[n].id \in shown
      BY <2>1, <3>1
    <3>2. CASE \E m \in Numbers(ring) : ring[m].time <= clock /\ ring[n].id = ring[m].id
      <4>1. PICK m \in Numbers(ring) : ring[m].time <= clock /\ ring[n].id = ring[m].id
        BY <3>2
      <4>2. m = n
        BY <4>1, RingIds DEF Inv
      <4> QED
        BY <4>1, <4>2
    <3> QED
      BY <1>1, <2>4, <3>1, <3>2 DEF Behind, Numbers
  <2> QED
    BY <1>1, <1>2, <2>1, <2>3, <2>4 DEF ForgottenInv
<1>4. Types' /\ RingInv' /\ LoopInv'
  BY <1>1, <1>2 DEF Inv, Types, RingInv, LoopInv
<1>5. IncomingInv' /\ PublishedInv' /\ InOrder'
  BY <1>1 DEF Inv, IncomingInv, PublishedInv, InOrder
<1> QED
  BY <1>3, <1>4, <1>5 DEF Inv

\* No invariant reads the clock but its type.
LEMMA ClockInv ==
  ASSUME Inv, clock' \in Time,
         UNCHANGED <<pass, incoming, manager, shown, forgotten>>
  PROVE  Inv'
BY DEF Inv, Types, RingInv, LoopInv, IncomingInv, ForgottenInv, PublishedInv, Handled,
       InOrder, pass, manager

LEMMA StepInv == Inv /\ [Next]_vars => Inv'
<1> SUFFICES ASSUME Inv, [Next]_vars PROVE Inv'
  OBVIOUS
<1>1. CASE Refuse \/ Evict \/ Admit
  BY <1>1, RefuseInv, EvictInv, AdmitInv
<1>2. CASE PassBegins \/ PassEnds \/ Publishes \/ Published
  BY <1>2, PassBeginsInv, PassEndsInv, PublishesInv, PublishedKeepsInv
<1>3. CASE \E size \in Sizes : Operates(size)
  BY <1>3, OperatesInv
<1>4. CASE \E text \in Texts : CommandLogs(text)
  BY <1>4, CommandLogsInv
<1>5. CASE Clears
  BY <1>5, ClearsInv
<1>6. CASE Tick \/ ClockStepsBack
  <2>1. clock \in Nat /\ clock' \in Time
    BY <1>6, LogAssumption DEF Inv, Types, Time, Tick, ClockStepsBack
  <2> QED
    BY <1>6, <2>1, ClockInv DEF Tick, ClockStepsBack
<1>7. CASE UNCHANGED vars
  BY <1>7, ClockInv DEF vars, bounds, Inv, Types
<1> QED
  BY <1>1, <1>2, <1>3, <1>4, <1>5, <1>6, <1>7 DEF Next

LEMMA Invariance == Spec => []Inv
<1>1. Init => Inv
  BY InitInv
<1>2. Inv /\ [Next]_vars => Inv'
  BY StepInv
<1> QED
  BY <1>1, <1>2, PTL DEF Spec

-----------------------------------------------------------------------------
(* The properties *)

\* The manager reads the operations in the order in which they were done, each
\* of them once (ManagerLog::push, app/logging.rs).
THEOREM InOrderCorrect == Spec => []InOrder
<1>1. Inv => InOrder
  BY DEF Inv
<1> QED
  BY <1>1, Invariance, PTL

\* The ring is pushed again after each pass, but what was shown and evicted, or
\* was there when the log was cleared, stays away (app/logging.rs, push).
THEOREM NothingReturnsCorrect == Spec => NothingReturns
<1>1. Inv /\ [Next]_vars => [Admit => New.id \notin (shown \cup forgotten)]_vars
  BY AdmittedIsNew
<1> QED
  BY <1>1, Invariance, PTL DEF Spec, NothingReturns

\* An operation of a pass that is still in the ring when the pass is published.
LEMMA PassInRing ==
  ASSUME Inv, nextId - first <= RingCapacity, NEW id \in first..(nextId - 1)
  PROVE  \E n \in Numbers(ring) : ring[n].id = id
<1>1. /\ nextId \in Nat /\ first \in Nat \ {0} /\ id \in Nat
      /\ first <= id /\ id < nextId
  BY DEF Inv, Types
<1>2. Len(ring) \in Nat /\ Len(ring) < nextId
      /\ (Len(ring) = nextId - 1 \/ Len(ring) >= RingCapacity)
  BY RingIds DEF Inv, RingInv
<1>3. RingCapacity \in Nat
  BY LogAssumption
<1>4. nextId - first <= Len(ring)
  BY <1>1, <1>2, <1>3
<1> DEFINE n == id + Len(ring) + 1 - nextId
<1>5. n \in 1..Len(ring)
  BY <1>1, <1>2, <1>4
<1>6. ring[n].id \in Nat /\ ring[n].id + Len(ring) = nextId + n - 1
  BY <1>5, RingIds DEF Inv, RingInv, Numbers
<1>7. nextId + n - 1 = id + Len(ring)
  BY <1>1, <1>2
<1> HIDE DEF n
<1>8. ring[n].id = id
  BY <1>1, <1>2, <1>6, <1>7
<1> QED
  BY <1>5, <1>8 DEF Numbers

\* No operation of a pass that the ring holds is lost on the way to the manager
\* log (reconcile_live_state and the publication in sys/socket.rs).
THEOREM PassIsPublishedCorrect == Spec => PassIsPublished
<1>1. ASSUME Inv, Published, nextId - first <= RingCapacity, NEW id \in first..(nextId - 1)
      PROVE  \/ id \in shown
             \/ cutoff # None /\ passTime <= cutoff
             \/ \E n \in 1..Len(ring) : ring[n].id = id /\ ring[n].size > MaxRetained
  <2>1. PICK n \in Numbers(ring) : ring[n].id = id
    BY <1>1, PassInRing
  <2>2. id >= first
    BY <1>1 DEF Inv, Types
  <2>3. ring[n].time = passTime
    BY <1>1, <2>1, <2>2 DEF Inv, RingInv
  <2>4. loop = "publishing" /\ incoming = <<>>
    BY <1>1 DEF Published, Arriving
  <2>5. Handled(ring[n])
    BY <1>1, <2>1, <2>2, <2>4 DEF Inv, PublishedInv, Numbers
  <2> QED
    BY <2>1, <2>3, <2>5 DEF Handled, Numbers
<1>2. Inv /\ [Next]_vars =>
        [Published /\ nextId - first <= RingCapacity =>
           \A id \in first..(nextId - 1) :
             \/ id \in shown
             \/ cutoff # None /\ passTime <= cutoff
             \/ \E n \in 1..Len(ring) : ring[n].id = id /\ ring[n].size > MaxRetained]_vars
  BY <1>1
<1> QED
  BY <1>2, Invariance, PTL DEF Spec, PassIsPublished

-----------------------------------------------------------------------------
(* The bytes of the manager log                                            *)
(*                                                                         *)
(* Total is a recursive function.  What holds of a number and of the one   *)
(* after each holds of all: the least exception would be a contradiction.  *)

LEMMA Least ==
  ASSUME NEW S \in SUBSET Nat, S # {}
  PROVE  \E x \in S : \A y \in S : x <= y
<1> DEFINE R == OpToRel(<, Nat)
<1>1. IsWellFoundedOn(R, Nat)
  BY NatLessThanWellFounded
<1>2. \A a, b \in Nat : <<a, b>> \in R <=> a < b
  BY DEF OpToRel
<1> HIDE DEF R
<1>3. PICK x \in S : \A y \in S : ~ (<<y, x>> \in R)
  BY <1>1, WFMin
<1>4. ASSUME NEW y \in S PROVE x <= y
  <2>1. x \in Nat /\ y \in Nat
    OBVIOUS
  <2>2. ~ (y < x)
    BY <1>2, <1>3, <2>1
  <2> QED
    BY <2>1, <2>2
<1> QED
  BY <1>3, <1>4

\* Induction up to N, on a set.
LEMMA UpTo ==
  ASSUME NEW N \in Nat, NEW T, 0 \in T,
         \A n \in 0..N : n # 0 /\ n - 1 \in T => n \in T
  PROVE  0..N \subseteq T
<1> SUFFICES ASSUME (0..N) \ T # {} PROVE FALSE
  OBVIOUS
<1>1. PICK x \in (0..N) \ T : \A y \in (0..N) \ T : x <= y
  <2>1. (0..N) \ T \in SUBSET Nat
    OBVIOUS
  <2> QED
    BY <2>1, Least
<1>2. x \in Nat /\ x # 0 /\ x - 1 \in 0..N /\ ~ (x <= x - 1)
  BY <1>1
<1>3. x - 1 \in T
  BY <1>1, <1>2
<1> QED
  BY <1>1, <1>2, <1>3

IsSum(f, s, m) == f = [n \in 0..m |-> IF n = 0 THEN 0 ELSE f[n - 1] + s[n].size]

\* The sums of the first records of a sequence exist.
LEMMA SumExists ==
  ASSUME NEW s \in Seq(Record)
  PROVE  \E f : IsSum(f, s, Len(s))
<1> DEFINE T == {m \in 0..Len(s) : \E f : IsSum(f, s, m)}
<1>1. Len(s) \in Nat
  BY LenProperties
<1>2. 0 \in T
  <2> DEFINE f == [n \in 0..0 |-> 0]
  <2>1. f = [n \in 0..0 |-> IF n = 0 THEN 0 ELSE f[n - 1] + s[n].size]
    OBVIOUS
  <2>2. IsSum(f, s, 0)
    BY <2>1 DEF IsSum
  <2> QED
    BY <1>1, <2>2
<1>3. ASSUME NEW m \in 0..Len(s), m # 0, m - 1 \in T PROVE m \in T
  <2>1. PICK f : IsSum(f, s, m - 1)
    BY <1>3
  <2> DEFINE g == [n \in 0..m |-> IF n = m THEN f[m - 1] + s[m].size ELSE f[n]]
  <2>2. f = [n \in 0..(m - 1) |-> IF n = 0 THEN 0 ELSE f[n - 1] + s[n].size]
    BY <2>1 DEF IsSum
  <2> HIDE DEF T
  <2>3. m \in Nat /\ m > 0
    BY <1>1, <1>3
  <2>4. ASSUME NEW n \in 0..m PROVE g[n] = IF n = 0 THEN 0 ELSE g[n - 1] + s[n].size
    <3>1. CASE n = m
      <4>1. m - 1 \in 0..m /\ m - 1 # m
        BY <2>3
      <4> QED
        BY <2>3, <3>1, <4>1
    <3>2. CASE n # m /\ n # 0
      <4>1. n \in 0..(m - 1) /\ n - 1 \in 0..m /\ n - 1 # m
        BY <2>3, <3>2
      <4>2. f[n] = f[n - 1] + s[n].size
        BY <2>2, <3>2, <4>1
      <4> QED
        BY <3>2, <4>1, <4>2
    <3>3. CASE n = 0
      <4>1. 0 \in 0..(m - 1) /\ 0 # m
        BY <2>3
      <4>2. f[0] = 0
        BY <2>2, <4>1
      <4> QED
        BY <3>3, <4>1, <4>2
    <3> QED
      BY <3>1, <3>2, <3>3
  <2>5. g = [n \in 0..m |-> IF n = 0 THEN 0 ELSE g[n - 1] + s[n].size]
    <3> DEFINE h == [n \in 0..m |-> IF n = 0 THEN 0 ELSE g[n - 1] + s[n].size]
    <3>1. \A n \in 0..m : g[n] = h[n]
      BY <2>4
    <3>2. DOMAIN g = 0..m /\ DOMAIN h = 0..m /\ g = [n \in DOMAIN g |-> g[n]] /\ h = [n \in DOMAIN h |-> h[n]]
      OBVIOUS
    <3> HIDE DEF g, h
    <3>3. g = h
      BY <3>1, <3>2
    <3> QED
      BY <3>3 DEF h
  <2>6. IsSum(g, s, m)
    BY <2>5 DEF IsSum
  <2> HIDE DEF g
  <2> QED
    BY <2>6 DEF T
<1> HIDE DEF T
<1>4. 0..Len(s) \subseteq T
  BY <1>1, <1>2, <1>3, UpTo
<1>5. Len(s) \in T
  BY <1>1, <1>4
<1> QED
  BY <1>5 DEF T

\* Total is the last of sums that begin with zero and grow by each record.
LEMMA TotalIs ==
  ASSUME NEW s \in Seq(Record)
  PROVE  \E f : /\ f[0] = 0 /\ Total(s) = f[Len(s)]
                /\ \A n \in 1..Len(s) : f[n] = f[n - 1] + s[n].size
<1> DEFINE sum == CHOOSE f : IsSum(f, s, Len(s))
<1>1. IsSum(sum, s, Len(s))
  BY SumExists
<1>2. Total(s) = sum[Len(s)]
  BY DEF Total, IsSum
<1> HIDE DEF sum
<1>3. Len(s) \in Nat
  BY LenProperties
<1>4. sum = [n \in 0..Len(s) |-> IF n = 0 THEN 0 ELSE sum[n - 1] + s[n].size]
  BY <1>1 DEF IsSum
<1>5. sum[0] = 0 /\ \A n \in 1..Len(s) : sum[n] = sum[n - 1] + s[n].size
  BY <1>3, <1>4
<1> QED
  BY <1>2, <1>5

LEMMA TotalEmpty == Total(<<>>) = 0
<1>1. <<>> \in Seq(Record) /\ Len(<<>>) = 0
  OBVIOUS
<1> QED
  BY <1>1, TotalIs

\* The sums of sizes are numbers.
LEMMA SumsAreNumbers ==
  ASSUME NEW s \in Seq(Record), NEW f, f[0] = 0,
         \A n \in 1..Len(s) : f[n] = f[n - 1] + s[n].size
  PROVE  \A n \in 0..Len(s) : f[n] \in Nat
<1> DEFINE T == {n \in 0..Len(s) : f[n] \in Nat}
<1>1. Len(s) \in Nat
  BY LenProperties
<1>2. \A n \in 1..Len(s) : s[n].size \in Nat
  BY ElementFacts, RecordFacts DEF Numbers
<1>3. \A n \in 0..Len(s) : n # 0 /\ n - 1 \in T => n \in T
  BY <1>1, <1>2
<1>4. 0 \in T
  BY <1>1
<1> HIDE DEF T
<1>5. 0..Len(s) \subseteq T
  BY <1>1, <1>3, <1>4, UpTo
<1> QED
  BY <1>5 DEF T

LEMMA TotalIsNumber ==
  ASSUME NEW s \in Seq(Record)
  PROVE  Total(s) \in Nat
<1>1. PICK f : /\ f[0] = 0 /\ Total(s) = f[Len(s)]
               /\ \A n \in 1..Len(s) : f[n] = f[n - 1] + s[n].size
  BY TotalIs
<1>2. Len(s) \in 0..Len(s)
  BY LenProperties
<1> QED
  BY <1>1, <1>2, SumsAreNumbers

LEMMA TotalAppend ==
  ASSUME NEW s \in Seq(Record), NEW r \in Record
  PROVE  Total(Append(s, r)) = Total(s) + r.size
<1> DEFINE t == Append(s, r)
<1>1. /\ t \in Seq(Record) /\ Len(s) \in Nat /\ Len(t) = Len(s) + 1
      /\ \A n \in 1..Len(s) : t[n] = s[n]
      /\ t[Len(s) + 1] = r
  BY AppendFacts
<1> HIDE DEF t
<1>2. PICK f : /\ f[0] = 0 /\ Total(s) = f[Len(s)]
               /\ \A n \in 1..Len(s) : f[n] = f[n - 1] + s[n].size
  BY TotalIs
<1>3. PICK g : /\ g[0] = 0 /\ Total(t) = g[Len(t)]
               /\ \A n \in 1..Len(t) : g[n] = g[n - 1] + t[n].size
  BY <1>1, TotalIs
<1> DEFINE T == {n \in 0..Len(s) : f[n] = g[n]}
<1>4. 0 \in T
  BY <1>1, <1>2, <1>3
<1>5. \A n \in 0..Len(s) : n # 0 /\ n - 1 \in T => n \in T
  BY <1>1, <1>2, <1>3
<1> HIDE DEF T
<1>6. Len(s) \in T
  <2>1. Len(s) \in Nat /\ Len(s) \in 0..Len(s)
    BY <1>1
  <2>2. 0..Len(s) \subseteq T
    BY <2>1, <1>4, <1>5, UpTo
  <2> QED
    BY <2>1, <2>2
<1>7. f[Len(s)] = g[Len(s)]
  BY <1>6 DEF T
<1>8. Len(t) \in 1..Len(t) /\ Len(t) - 1 = Len(s)
  BY <1>1
<1>9. Total(t) = g[Len(s)] + r.size
  BY <1>1, <1>3, <1>8
<1> QED
  BY <1>2, <1>7, <1>9 DEF t

\* The first record counts for what its size is.
LEMMA TotalTail ==
  ASSUME NEW s \in Seq(Record), s # <<>>
  PROVE  Total(s) = Head(s).size + Total(Tail(s))
<1> DEFINE t == Tail(s)
<1>1. /\ t \in Seq(Record) /\ Len(s) \in Nat \ {0} /\ Len(t) = Len(s) - 1
      /\ \A n \in 1..(Len(s) - 1) : t[n] = s[n + 1]
      /\ Head(s) = s[1] /\ Head(s) \in Record
  BY TailFacts
<1> HIDE DEF t
<1>2. PICK f : /\ f[0] = 0 /\ Total(s) = f[Len(s)]
               /\ \A n \in 1..Len(s) : f[n] = f[n - 1] + s[n].size
  BY TotalIs
<1>3. PICK g : /\ g[0] = 0 /\ Total(t) = g[Len(t)]
               /\ \A n \in 1..Len(t) : g[n] = g[n - 1] + t[n].size
  BY <1>1, TotalIs
<1>4. \A n \in 0..Len(t) : g[n] \in Nat
  BY <1>1, <1>3, SumsAreNumbers
<1>5. \A n \in 1..Len(s) : s[n].size \in Nat
  BY ElementFacts, RecordFacts DEF Numbers
<1> DEFINE T == {n \in 0..Len(t) : f[n + 1] = s[1].size + g[n]}
<1>6. 0 \in T
  <2>1. 1 \in 1..Len(s)
    BY <1>1
  <2>2. f[1] = s[1].size
    BY <1>2, <1>5, <2>1
  <2> QED
    BY <1>1, <1>3, <1>5, <2>1, <2>2
<1>7. ASSUME NEW n \in 0..Len(t), n # 0, n - 1 \in T PROVE n \in T
  <2>1. n \in 1..Len(t) /\ n + 1 \in 1..Len(s) /\ n - 1 \in 0..Len(t) /\ 1 \in 1..Len(s)
    BY <1>1, <1>7
  <2>2. f[n] = s[1].size + g[n - 1]
    BY <1>1, <1>7
  <2>3. f[n + 1] = f[n] + s[n + 1].size
    BY <1>1, <1>2, <2>1
  <2>4. g[n] = g[n - 1] + s[n + 1].size
    BY <1>1, <1>3, <2>1
  <2> QED
    BY <1>4, <1>5, <2>1, <2>2, <2>3, <2>4
<1> HIDE DEF T
<1>8. Len(t) \in T
  <2>1. Len(t) \in Nat /\ Len(t) \in 0..Len(t)
    BY <1>1
  <2>2. 0..Len(t) \subseteq T
    BY <2>1, <1>6, <1>7, UpTo
  <2> QED
    BY <2>1, <2>2
<1>9. f[Len(s)] = s[1].size + g[Len(t)]
  BY <1>1, <1>8 DEF T
<1> QED
  BY <1>1, <1>2, <1>3, <1>9 DEF t

\* The bytes are counted right, whatever was evicted, refused or cleared, and
\* the subtraction of an eviction never stops at zero.
BytesInv ==
  /\ retained = Total(records) /\ retained <= MaxRetained
  /\ Len(records) <= Capacity

BoundsInv ==
  /\ stepsBack \in 0..MaxStepsBack /\ texts \in 0..MaxTexts /\ version \in Nat

LEMMA EvictBytes ==
  ASSUME Inv, BytesInv, Evict
  PROVE  BytesInv'
<1>1. /\ records # <<>> /\ records' = Tail(records) /\ records \in Seq(Record)
      /\ retained' = IF Head(records).size > retained THEN 0 ELSE retained - Head(records).size
  BY DEF Evict, Inv, Types
<1>2. /\ Head(records).size \in Nat /\ Total(Tail(records)) \in Nat
      /\ Len(records) \in Nat /\ Len(Tail(records)) = Len(records) - 1
  BY <1>1, TailFacts, RecordFacts, TotalIsNumber
<1>3. retained = Head(records).size + Total(Tail(records))
  BY <1>1, TotalTail DEF BytesInv
<1>4. retained' = Total(records') /\ retained' <= retained
  BY <1>1, <1>2, <1>3
<1>5. Len(records') <= Capacity /\ MaxRetained \in Nat
  BY <1>1, <1>2, LogAssumption DEF BytesInv
<1> QED
  BY <1>2, <1>3, <1>4, <1>5, <1>1 DEF BytesInv

\* A record that fits nowhere was refused; an empty log takes any other.
LEMMA AdmitBytes ==
  ASSUME Inv, BytesInv, Admit
  PROVE  BytesInv'
<1>1. /\ records' = Append(records, New) /\ retained' = retained + New.size
      /\ Fits(New) \/ records = <<>>
      /\ ~ Refused(New) /\ records \in Seq(Record)
  BY DEF Admit, Inv, Types
<1>2. New \in Record
  BY AdmittedIsNew
<1>3. New.size \in Nat /\ Total(records) \in Nat
  BY <1>1, <1>2, RecordFacts, TotalIsNumber
<1>4. retained' = Total(records')
  BY <1>1, <1>2, TotalAppend DEF BytesInv
<1>5. Len(records) \in Nat /\ Len(records') = Len(records) + 1
  BY <1>1, <1>2, AppendFacts
<1>6. MaxRetained \in Nat /\ Capacity \in Nat \ {0}
  BY LogAssumption
<1>7. retained' <= MaxRetained /\ Len(records') <= Capacity
  <2>1. CASE Fits(New)
    BY <1>1, <1>5, <1>6, <2>1 DEF Fits
  <2>2. CASE records = <<>>
    <3>1. retained = 0 /\ Len(records) = 0
      BY <2>2, TotalEmpty DEF BytesInv
    <3>2. New.size <= MaxRetained
      BY <1>1, <1>3, <1>6 DEF Refused
    <3> QED
      BY <1>1, <1>3, <1>5, <1>6, <3>1, <3>2
  <2> QED
    BY <1>1, <2>1, <2>2
<1> QED
  BY <1>4, <1>7 DEF BytesInv

LEMMA BytesStep == Inv /\ BytesInv /\ [Next]_vars => BytesInv'
<1> SUFFICES ASSUME Inv, BytesInv, [Next]_vars PROVE BytesInv'
  OBVIOUS
<1>1. CASE Evict \/ Admit
  BY <1>1, EvictBytes, AdmitBytes
<1>2. CASE Clears
  <2>1. records' = <<>> /\ retained' = 0
    BY <1>2 DEF Clears
  <2>2. Len(records') = 0 /\ Total(records') = 0
    BY <2>1, TotalEmpty
  <2> QED
    BY <2>1, <2>2, LogAssumption DEF BytesInv
<1>3. CASE UNCHANGED manager
  BY <1>3 DEF manager, BytesInv
<1>4. CASE Refuse \/ PassBegins \/ PassEnds \/ Publishes \/ Published \/ Tick \/ ClockStepsBack
  BY <1>3, <1>4 DEF Refuse, PassBegins, PassEnds, Publishes, Published, Tick, ClockStepsBack
<1>5. CASE (\E size \in Sizes : Operates(size)) \/ \E text \in Texts : CommandLogs(text)
  BY <1>3, <1>5 DEF Operates, CommandLogs
<1> QED
  BY <1>1, <1>2, <1>3, <1>4, <1>5 DEF Next, vars

LEMMA BoundsStep == Inv /\ BoundsInv /\ [Next]_vars => BoundsInv'
<1> SUFFICES ASSUME Inv, BoundsInv, [Next]_vars PROVE BoundsInv'
  OBVIOUS
<1> USE DEF BoundsInv
<1>1. MaxTexts \in Nat /\ MaxStepsBack \in Nat
  BY LogAssumption
<1>2. CASE Refuse \/ Evict \/ Admit
  BY <1>2 DEF Refuse, Evict, Admit, bounds, manager
<1>3. CASE PassBegins \/ PassEnds \/ Published
  BY <1>3 DEF PassBegins, PassEnds, Published, bounds, manager
<1>4. CASE Publishes \/ \E text \in Texts : CommandLogs(text)
  BY <1>1, <1>4 DEF Publishes, CommandLogs, manager
<1>5. CASE \E size \in Sizes : Operates(size)
  BY <1>5 DEF Operates, bounds, manager
<1>6. CASE Clears
  BY <1>6 DEF Clears, bounds
<1>7. CASE Tick \/ ClockStepsBack
  BY <1>1, <1>7 DEF Tick, ClockStepsBack, manager
<1>8. CASE UNCHANGED vars
  BY <1>8 DEF vars, bounds, manager
<1> QED
  BY <1>2, <1>3, <1>4, <1>5, <1>6, <1>7, <1>8 DEF Next

LEMMA TypesTogether ==
  ASSUME Inv, BytesInv, BoundsInv
  PROVE  TypeOK
<1>1. MaxOperations \in Nat /\ MaxRetained \in Nat
  BY LogAssumption
<1>2. nextId \in 1..(MaxOperations + 1) /\ first \in 1..(MaxOperations + 1) /\ highest \in Ids
  BY <1>1 DEF Inv, Types, LoopInv, Ids
<1>3. shown \in SUBSET Ids /\ forgotten \in SUBSET Ids
  <2>1. \A id \in shown \cup forgotten : id \in Nat /\ id <= MaxOperations
    BY <1>1, <1>2 DEF Inv, Types, ForgottenInv, LoopInv
  <2> QED
    BY <1>1, <2>1 DEF Ids
<1>4. retained \in 0..MaxRetained /\ Total(records) <= MaxRetained
  BY <1>1, TotalIsNumber DEF BytesInv, Inv, Types
<1> QED
  BY <1>2, <1>3, <1>4 DEF TypeOK, Inv, Types, BytesInv, BoundsInv

\* The log keeps both of its bounds, for the records it has and not only by its
\* counter: no history of pushes, evictions and clears makes the two differ
\* (ManagerLog::push, app/logging.rs).
THEOREM TypeCorrect == Spec => []TypeOK
<1>1. Init => BytesInv /\ BoundsInv
  <2> SUFFICES ASSUME Init PROVE BytesInv /\ BoundsInv
    OBVIOUS
  <2>1. records = <<>> /\ retained = 0 /\ Total(<<>>) = 0 /\ Len(<<>>) = 0
    BY TotalEmpty DEF Init
  <2> QED
    BY <2>1, LogAssumption DEF Init, BytesInv, BoundsInv
<1>2. Inv /\ BytesInv /\ BoundsInv /\ [Next]_vars => BytesInv' /\ BoundsInv'
  BY BytesStep, BoundsStep
<1>3. Inv /\ BytesInv /\ BoundsInv => TypeOK
  BY TypesTogether
<1> QED
  BY <1>1, <1>2, <1>3, Invariance, PTL DEF Spec

=============================================================================
