-------------------------- MODULE PassTimersProofs --------------------------
(***************************************************************************)
(* Proofs about PassTimers, for all settings, bounds and retry intervals.  *)
(*                                                                         *)
(* A deadline is kept in the daemon as a time of the wall clock, and what  *)
(* was promised as a span of real time.  The invariant compares the two:   *)
(* what is left of the promise is never more than what is left to the      *)
(* deadline, and a step back of the clock only moves deadlines away.       *)
(***************************************************************************)
EXTENDS PassTimers, TLAPS

Samples == {None} \cup [bytes : 0..MaxBytes, at : Time]

\* A pending freeze stands for a promise and covers what is left of it; a
\* frozen app is owed nothing.
DelayInv ==
  /\ pending # None => wait # None
  /\ wait # None /\ settings.delay = 0 => wait = 0
  /\ wait # None /\ pending = None => wait <= settings.delay
  /\ wait # None /\ pending # None /\ settings.delay > 0 => wait <= Remaining(pending)
  /\ frozen /\ wait # None => wait = 0

\* The wakeup of a frozen app covers what is left of its interval.
HoldInv == frozenSince # None /\ settings.wake # 0 => hold <= Remaining(frozenSince + settings.wake)

\* So does the next audit.
RestInv ==
  /\ nextAudit # None => rest <= Remaining(nextAudit)
  /\ nextAudit = None => rest = 0

\* A failed sample leaves none.
SampleInv == gap => sample = None

Inv == TypeOK /\ DeadlinesAgree /\ DelayInv /\ HoldInv /\ RestInv /\ SampleInv

-----------------------------------------------------------------------------
LEMMA Difference ==
  ASSUME NEW a \in Nat, NEW b \in Nat, a > b
  PROVE  a - b \in Nat
OBVIOUS

LEMMA SettingsFacts ==
  ASSUME NEW s \in Settings
  PROVE  s.delay \in Nat /\ s.wake \in Nat /\ s.audit \in Nat
BY TimersAssumption

LEMMA TimeFacts ==
  ASSUME TypeOK
  PROVE  /\ clock \in Nat /\ None \notin Nat /\ None \notin Time
         /\ settings.delay \in Nat /\ settings.wake \in Nat /\ settings.audit \in Nat
         /\ pending # None => pending \in Nat
         /\ wait # None => wait \in Nat
         /\ frozenSince # None => frozenSince \in Nat
         /\ nextAudit # None => nextAudit \in Nat
         /\ hold \in Nat /\ rest \in Nat
BY TimersAssumption, SettingsFacts DEF TypeOK, Time, Deadline

LEMMA InitInv == Init => Inv
<1> SUFFICES ASSUME Init PROVE Inv
  OBVIOUS
<1>1. TypeOK
  <2>1. 0 \in Time /\ 0 \in 0..MaxBytes /\ 0 \in 0..MaxStepsBack /\ 0 \in Nat
    BY TimersAssumption DEF Time
  <2> QED
    BY <2>1 DEF Init, TypeOK, Deadline
<1>2. DeadlinesAgree /\ DelayInv /\ HoldInv /\ RestInv /\ SampleInv
  BY DEF Init, DeadlinesAgree, DelayInv, HoldInv, RestInv, SampleInv
<1> QED
  BY <1>1, <1>2 DEF Inv

\* The audit deadline moves on only when it has been reached.
LEMMA AuditStep ==
  ASSUME Inv, Audit, UNCHANGED <<clock, settings>>
  PROVE  /\ auditStarted' \in {None} \cup Time /\ nextAudit' \in Deadline /\ rest' \in Nat
         /\ RestInv'
         /\ AuditWaits
<1>1. /\ clock \in Time /\ clock \in Nat /\ settings.audit \in Nat /\ rest \in Nat
      /\ None \notin Nat /\ StartInterval \in Nat
      /\ nextAudit # None => nextAudit \in Nat
      /\ nextAudit # None => rest <= Remaining(nextAudit)
      /\ nextAudit = None => rest = 0
  BY TimeFacts, TimersAssumption DEF Inv, TypeOK, RestInv
<1>2. AuditStart \in Time /\ AuditStart \in Nat
  BY <1>1, TimersAssumption DEF AuditStart, Inv, TypeOK, Time
<1>3. AuditInterval \in Nat
  BY <1>1 DEF AuditInterval
<1>4. AuditDeadline \in Nat /\ (nextAudit # None => AuditDeadline = nextAudit)
  BY <1>1, <1>2 DEF AuditDeadline
<1>5. /\ auditStarted' = AuditStart
      /\ nextAudit' = IF AuditInterval = 0 THEN None
                      ELSE IF AuditDue THEN clock + AuditInterval ELSE AuditDeadline
      /\ rest' = IF AuditInterval = 0 THEN 0 ELSE IF AuditDue THEN AuditInterval ELSE rest
  BY DEF Audit
<1>6. AuditDue <=> AuditInterval # 0 /\ clock >= AuditDeadline
  BY DEF AuditDue
<1>7. clock' = clock
  OBVIOUS
<1> HIDE DEF AuditInterval, AuditDeadline
<1>8. CASE AuditInterval = 0
  BY <1>1, <1>2, <1>5, <1>8 DEF RestInv, AuditWaits, Deadline
<1>9. CASE AuditInterval # 0 /\ AuditDue
  <2>1. nextAudit' = clock + AuditInterval /\ rest' = AuditInterval
    BY <1>5, <1>9
  <2>2. nextAudit' \in Nat /\ rest' <= Remaining(nextAudit)'
    BY <1>1, <1>3, <1>7, <2>1 DEF Remaining
  <2>3. nextAudit # None => rest = 0
    BY <1>1, <1>4, <1>6, <1>9 DEF Remaining
  <2> QED
    BY <1>1, <1>2, <1>3, <1>5, <2>1, <2>2, <2>3 DEF RestInv, AuditWaits, Deadline
<1>10. CASE AuditInterval # 0 /\ ~AuditDue
  <2>1. nextAudit' = AuditDeadline /\ rest' = rest
    BY <1>5, <1>10
  <2>2. nextAudit' \in Nat /\ rest' <= Remaining(nextAudit)'
    BY <1>1, <1>4, <1>7, <2>1 DEF Remaining
  <2> QED
    BY <1>1, <1>2, <1>4, <1>5, <2>1, <2>2 DEF RestInv, AuditWaits, Deadline
<1> QED
  BY <1>8, <1>9, <1>10

\* What a pass has to keep, its audit set apart.
LEMMA PassInv ==
  ASSUME Inv, UNCHANGED <<clocks, settings, app, bytes, candidate>>,
         Audit \/ UNCHANGED audits,
         pending' \in Deadline, frozen' \in BOOLEAN, loose' \in BOOLEAN,
         frozenSince' \in {None} \cup Time, sample' \in Samples,
         wait' \in Deadline, hold' \in Nat, gap' \in BOOLEAN,
         DeadlinesAgree', DelayInv', HoldInv', SampleInv'
  PROVE  Inv'
<1>1. UNCHANGED <<clock, stepsBack, settings, app, bytes, candidate>>
  BY DEF clocks
<1>2. /\ auditStarted' \in {None} \cup Time /\ nextAudit' \in Deadline /\ rest' \in Nat
      /\ RestInv'
  <2>1. CASE Audit
    BY <1>1, <2>1, AuditStep
  <2>2. CASE UNCHANGED audits
    BY <1>1, <2>2 DEF audits, Inv, TypeOK, RestInv, Remaining
  <2> QED
    BY <2>1, <2>2
<1>3. TypeOK'
  BY <1>1, <1>2 DEF Inv, TypeOK, Samples
<1> QED
  BY <1>2, <1>3 DEF Inv

\* The interval of a wakeup goes on, or the app is not frozen any more.
LEMMA HoldKept ==
  ASSUME Inv, UNCHANGED <<clock, settings, hold>>, frozenSince' \in {frozenSince, None}
  PROVE  HoldInv'
BY DEF Inv, HoldInv, Remaining

LEMMA PromiseFacts ==
  ASSUME Inv, UNCHANGED <<clock, settings>>, app # "foreground",
         pending' \in Deadline, NEW owed \in Nat
  PROVE  /\ Promise(owed) \in Nat
         /\ settings.delay = 0 \/ pending' = None => Promise(owed) = owed
         /\ settings.delay > 0 /\ pending' # None /\ owed <= Remaining(pending)' =>
              Promise(owed) = Remaining(pending)'
<1>1. clock \in Nat /\ None \notin Nat /\ settings.delay \in Nat /\ clock' = clock
  BY TimeFacts DEF Inv
<1>2. owed # None
  BY <1>1
<1>3. CASE pending' = None
  <2>1. Countdown = 0
    BY <1>3 DEF Countdown
  <2> QED
    BY <1>1, <1>3, <2>1 DEF Promise
<1>4. CASE pending' \in Nat
  <2>1. pending' # None
    BY <1>1, <1>4
  <2>2. Countdown = IF pending' > clock THEN pending' - clock ELSE 0
    BY <2>1 DEF Countdown, Remaining
  <2>3. Countdown = Remaining(pending)'
    BY <1>1, <2>2 DEF Remaining
  <2>4. Countdown \in Nat
    <3>1. CASE pending' > clock
      <4>1. pending' - clock \in Nat
        BY <1>1, <1>4, <3>1, Difference
      <4> QED
        BY <2>2, <3>1, <4>1
    <3>2. CASE ~(pending' > clock)
      BY <2>2, <3>2
    <3> QED
      BY <3>1, <3>2
  <2>5. /\ settings.delay > 0 /\ Countdown > owed => Promise(owed) = Countdown
        /\ ~(settings.delay > 0 /\ Countdown > owed) => Promise(owed) = owed
    BY <1>2 DEF Promise
  <2> QED
    BY <1>1, <2>1, <2>3, <2>4, <2>5
<1> QED
  BY <1>3, <1>4 DEF Deadline

\* An app that is ready to be frozen is owed nothing any more.
LEMMA ReadyIsOwedNothing ==
  ASSUME Inv, Ready
  PROVE  /\ Owed = 0
         /\ ~frozen => IF wait = None THEN settings.delay = 0 ELSE wait = 0
         /\ wait # None => wait = 0
<1>1. /\ clock \in Nat /\ settings.delay \in Nat
      /\ pending # None => pending \in Nat
      /\ wait # None => wait \in Nat
  BY TimeFacts DEF Inv
<1>2. CASE Abnormal
  BY <1>2 DEF Abnormal, Owed, Inv, DelayInv
<1>3. CASE ~frozen /\ settings.delay = 0
  BY <1>3 DEF Abnormal, Owed, Inv, DelayInv
<1>4. CASE ~frozen /\ settings.delay # 0 /\ pending # None /\ clock >= pending
  <2>1. Remaining(pending) = 0
    BY <1>1, <1>4 DEF Remaining
  <2>2. wait # None /\ wait <= 0
    BY <1>1, <1>4, <2>1 DEF Inv, DelayInv
  <2>3. wait = 0
    BY <1>1, <2>2
  <2> QED
    BY <1>4, <2>2, <2>3 DEF Owed
<1> QED
  BY <1>2, <1>3, <1>4 DEF Ready, DelayOver

-----------------------------------------------------------------------------
(* The branches of a pass *)

\* The app is gone, in the foreground or no longer controlled: no freeze is
\* pending and no delay is promised, but a failed thaw leaves it frozen.
LEMMA ForgetsInv ==
  ASSUME Inv, PassGone \/ PassForeground \/ PassDisabled
  PROVE  Inv'
<1>1. /\ UNCHANGED <<clocks, settings, app, bytes, candidate, hold, gap>>
      /\ Audit \/ UNCHANGED audits
      /\ pending' = None /\ wait' = None /\ sample' \in {sample, None}
      /\ \/ frozen' = FALSE /\ frozenSince' = None
         \/ UNCHANGED <<frozen, frozenSince>>
      /\ loose' \in {loose, FALSE} \cup BOOLEAN
      /\ ~frozen => UNCHANGED <<frozen, frozenSince>> \/ frozen' = FALSE
  BY DEF PassGone, PassForeground, PassDisabled, Clear, ThawFails
<1>2. UNCHANGED <<clock, settings, hold>>
  BY <1>1 DEF clocks
<1>3. /\ frozen \in BOOLEAN /\ loose \in BOOLEAN /\ frozenSince \in {None} \cup Time
      /\ sample \in Samples /\ hold \in Nat /\ gap \in BOOLEAN
  BY DEF Inv, TypeOK, Samples
<1>4. /\ pending' \in Deadline /\ frozen' \in BOOLEAN /\ loose' \in BOOLEAN
      /\ frozenSince' \in {None} \cup Time /\ sample' \in Samples
      /\ wait' \in Deadline /\ hold' \in Nat /\ gap' \in BOOLEAN
  BY <1>1, <1>3 DEF Deadline, Samples
<1>5. DeadlinesAgree' /\ DelayInv' /\ SampleInv'
  BY <1>1, <1>3 DEF Inv, DeadlinesAgree, DelayInv, SampleInv
<1>6. HoldInv'
  BY <1>1, <1>2, HoldKept
<1> QED
  BY <1>1, <1>4, <1>5, <1>6, PassInv

LEMMA PassWakesInv ==
  ASSUME Inv, PassWakes
  PROVE  Inv'
<1>1. /\ UNCHANGED <<clocks, settings, app, bytes, candidate, sample, hold, gap>>
      /\ Audit /\ app = "background" /\ frozen
      /\ loose' \in BOOLEAN
      /\ \/ /\ frozen' = FALSE /\ frozenSince' = None
            /\ pending' = clock + settings.delay /\ wait' = Promise(settings.delay)
         \/ UNCHANGED <<frozen, frozenSince, pending, wait>>
  BY DEF PassWakes, Clear, ThawFails
<1>2. UNCHANGED <<clock, settings, hold>> /\ clock \in Nat /\ settings.delay \in Nat /\ None \notin Nat
  BY <1>1, TimeFacts DEF clocks, Inv
<1>3. HoldInv'
  BY <1>1, <1>2, HoldKept
<1>4. /\ frozen \in BOOLEAN /\ frozenSince \in {None} \cup Time /\ pending \in Deadline /\ wait \in Deadline
      /\ sample' \in Samples /\ hold' \in Nat /\ gap' \in BOOLEAN
  BY <1>1 DEF Inv, TypeOK, Samples
<1>5. SampleInv'
  BY <1>1 DEF Inv, SampleInv
<1>6. CASE UNCHANGED <<frozen, frozenSince, pending, wait>>
  <2>1. DeadlinesAgree' /\ DelayInv'
    BY <1>2, <1>6 DEF Inv, DeadlinesAgree, DelayInv, Remaining
  <2> QED
    BY <1>1, <1>3, <1>4, <1>5, <1>6, <2>1, PassInv
<1>7. CASE /\ frozen' = FALSE /\ frozenSince' = None
           /\ pending' = clock + settings.delay /\ wait' = Promise(settings.delay)
  <2>1. pending' \in Nat /\ pending' \in Deadline
    BY <1>2, <1>7 DEF Deadline
  <2>2. Remaining(pending)' = settings.delay
    BY <1>2, <1>7 DEF Remaining
  <2>3. wait' = settings.delay
    BY <1>1, <1>2, <1>7, <2>1, <2>2, PromiseFacts
  <2>4. DeadlinesAgree' /\ DelayInv'
    BY <1>2, <1>7, <2>1, <2>2, <2>3 DEF DeadlinesAgree, DelayInv
  <2> QED
    BY <1>1, <1>2, <1>3, <1>4, <1>5, <1>7, <2>1, <2>3, <2>4, PassInv DEF Deadline
<1> QED
  BY <1>1, <1>6, <1>7

LEMMA PassLeavesFrozenInv ==
  ASSUME Inv, PassLeavesFrozen
  PROVE  Inv'
<1>1. /\ UNCHANGED <<clocks, settings, app, loose, bytes, candidate, deadlines, wait, hold, gap>>
      /\ UNCHANGED <<clock, pending, frozen, frozenSince, sample>>
      /\ Audit
  BY DEF PassLeavesFrozen, deadlines, clocks
<1>2. HoldInv'
  BY <1>1, HoldKept
<1>3. DeadlinesAgree' /\ DelayInv' /\ SampleInv'
  BY <1>1 DEF Inv, DeadlinesAgree, DelayInv, SampleInv, Remaining
<1> QED
  BY <1>1, <1>2, <1>3, PassInv DEF Inv, TypeOK, Samples

\* The delay begins: what is owed is no more than the delay.
LEMMA PassDelaysInv ==
  ASSUME Inv, PassDelays
  PROVE  Inv'
<1>1. /\ UNCHANGED <<clocks, settings, app, bytes, candidate, hold, gap>>
      /\ UNCHANGED <<clock, frozen, loose, sample>>
      /\ Audit /\ app = "background" /\ ~frozen
      /\ settings.delay > 0 /\ pending = None
      /\ pending' = clock + settings.delay /\ frozenSince' = None
      /\ wait' = Promise(Owed)
  BY DEF PassDelays, clocks
<1>2. clock \in Nat /\ settings.delay \in Nat /\ None \notin Nat /\ (wait # None => wait \in Nat)
  BY TimeFacts DEF Inv
<1>3. Owed \in Nat /\ Owed <= settings.delay
  BY <1>1, <1>2 DEF Owed, Abnormal, Inv, DelayInv
<1>4. pending' \in Nat /\ pending' \in Deadline /\ Remaining(pending)' = settings.delay
  BY <1>1, <1>2 DEF Deadline, Remaining
<1> HIDE DEF Owed
<1>5. wait' = settings.delay
  BY <1>1, <1>2, <1>3, <1>4, PromiseFacts
<1>6. HoldInv'
  BY <1>1, HoldKept
<1>7. DeadlinesAgree' /\ DelayInv' /\ SampleInv'
  BY <1>1, <1>2, <1>4, <1>5 DEF Inv, DeadlinesAgree, DelayInv, SampleInv
<1> QED
  BY <1>1, <1>2, <1>4, <1>5, <1>6, <1>7, PassInv DEF Inv, TypeOK, Samples, Deadline

LEMMA PassWaitsInv ==
  ASSUME Inv, PassWaits
  PROVE  Inv'
<1>1. /\ UNCHANGED <<clocks, settings, app, loose, bytes, candidate, hold, gap>>
      /\ UNCHANGED <<clock, pending, frozen, frozenSince, sample>>
      /\ Audit /\ app = "background" /\ ~frozen
      /\ settings.delay > 0 /\ pending # None
      /\ wait' = Promise(Owed)
  BY DEF PassWaits, clocks, deadlines
<1>2. /\ clock \in Nat /\ settings.delay \in Nat /\ None \notin Nat
      /\ pending \in Nat /\ wait \in Nat /\ wait # None
  BY <1>1, TimeFacts DEF Inv, DelayInv
<1>3. Owed = wait /\ wait <= Remaining(pending)
  BY <1>1, <1>2 DEF Owed, Inv, DelayInv
<1>4. pending' \in Deadline /\ Remaining(pending)' = Remaining(pending) /\ Remaining(pending) \in Nat
  BY <1>1, <1>2 DEF Deadline, Remaining
<1> HIDE DEF Owed
<1>5. wait' = Remaining(pending)'
  BY <1>1, <1>2, <1>3, <1>4, PromiseFacts
<1>6. HoldInv'
  BY <1>1, HoldKept
<1>7. DeadlinesAgree' /\ DelayInv' /\ SampleInv'
  BY <1>1, <1>2, <1>4, <1>5 DEF Inv, DeadlinesAgree, DelayInv, SampleInv
<1> QED
  BY <1>1, <1>2, <1>4, <1>5, <1>6, <1>7, PassInv DEF Inv, TypeOK, Samples, Deadline

-----------------------------------------------------------------------------
(* The sample and the decision *)

\* The app is left for a later pass and is owed what the countdown shows.
LEMMA PutOffInv ==
  ASSUME Inv, Ready, Audit, Clear,
         UNCHANGED <<clocks, settings, app, bytes, candidate, hold>>,
         pending' \in Deadline, wait' = Promise(Owed),
         sample' \in Samples, gap' \in BOOLEAN, SampleInv'
  PROVE  Inv'
<1>1. UNCHANGED <<clock, settings, hold>> /\ app = "background"
  BY DEF clocks, Ready
<1>2. Owed = 0 /\ clock \in Nat /\ None \notin Nat /\ 0 \in Nat /\ settings.delay \in Nat
  BY ReadyIsOwedNothing, TimeFacts DEF Inv
<1>3. frozen' = FALSE /\ frozenSince' = None /\ loose' = FALSE
  BY DEF Clear
<1>4. pending' # None => pending' \in Nat
  BY DEF Deadline
<1>5. pending' # None => Remaining(pending)' \in Nat
  BY <1>1, <1>2, <1>4, Difference DEF Remaining
<1>6. /\ wait' \in Nat
      /\ settings.delay = 0 \/ pending' = None => wait' = 0
      /\ settings.delay > 0 /\ pending' # None => wait' = Remaining(pending)'
  <2>1. /\ Promise(0) \in Nat
        /\ settings.delay = 0 \/ pending' = None => Promise(0) = 0
        /\ settings.delay > 0 /\ pending' # None /\ 0 <= Remaining(pending)' =>
             Promise(0) = Remaining(pending)'
    BY <1>1, <1>2, PromiseFacts
  <2>2. wait' = Promise(0)
    BY <1>2
  <2> QED
    BY <1>5, <2>1, <2>2
<1>7. DelayInv'
  BY <1>1, <1>2, <1>3, <1>5, <1>6 DEF DelayInv
<1>8. DeadlinesAgree'
  BY <1>3 DEF DeadlinesAgree
<1>9. HoldInv'
  BY <1>1, <1>3, HoldKept
<1>10. hold' \in Nat /\ wait' \in Deadline /\ frozen' \in BOOLEAN /\ loose' \in BOOLEAN
       /\ frozenSince' \in {None} \cup Time
  BY <1>1, <1>3, <1>6, TimeFacts DEF Inv, Deadline
<1> QED
  BY <1>7, <1>8, <1>9, <1>10, PassInv

LEMMA SampledInv ==
  ASSUME Inv, PassSeesDownload \/ PassMissesSample \/ PassCannotSample
  PROVE  Inv'
<1>1. PICK retry \in Nat : Postponed(retry)
  BY TimersAssumption DEF PassSeesDownload, PassMissesSample, PassCannotSample
<1>2. /\ Ready /\ Audit /\ Clear /\ pending' = clock + retry /\ wait' = Promise(Owed)
      /\ UNCHANGED <<clocks, settings, app, bytes, candidate, hold>>
  BY <1>1 DEF Postponed, PassSeesDownload, PassMissesSample, PassCannotSample
<1>3. pending' \in Deadline
  BY <1>2, TimeFacts DEF Inv, Deadline
<1>4. NewSample \in Samples
  BY DEF NewSample, Samples, Inv, TypeOK
<1>5. sample' \in Samples /\ gap' \in BOOLEAN /\ SampleInv'
  BY <1>4 DEF PassSeesDownload, PassMissesSample, PassCannotSample, Samples, SampleInv
<1> QED
  BY <1>2, <1>3, <1>5, PutOffInv

LEMMA DecidesFacts ==
  ASSUME Inv, Decides
  PROVE  /\ Ready /\ Audit
         /\ UNCHANGED <<clocks, settings, app, bytes, candidate>>
         /\ UNCHANGED <<clock, settings, app>>
         /\ sample' \in Samples /\ gap' \in BOOLEAN /\ SampleInv'
<1>1. NewSample \in Samples
  BY DEF NewSample, Samples, Inv, TypeOK
<1> QED
  BY <1>1 DEF Decides, Samples, SampleInv, clocks

\* The wakeup of an app that is frozen is a whole interval away.
LEMMA PassFreezesInv ==
  ASSUME Inv, PassFreezes
  PROVE  Inv'
<1>1. /\ Ready /\ Audit
      /\ UNCHANGED <<clocks, settings, app, bytes, candidate>>
      /\ UNCHANGED <<clock, settings, app>>
      /\ sample' \in Samples /\ gap' \in BOOLEAN /\ SampleInv'
  BY DecidesFacts DEF PassFreezes
<1>2. /\ frozen' = TRUE /\ loose' \in BOOLEAN /\ pending' = None /\ wait' = 0
      /\ hold' = settings.wake
      /\ frozenSince' = IF SinceBefore = None THEN clock ELSE SinceBefore
  BY DEF PassFreezes, Track
<1>3. SinceBefore = None
  BY <1>1 DEF SinceBefore, Ready, Inv, DeadlinesAgree
<1>4. frozenSince' = clock
  BY <1>2, <1>3
<1>5. clock \in Nat /\ clock \in Time /\ settings.wake \in Nat /\ settings.delay \in Nat /\ None \notin Nat
  BY TimeFacts DEF Inv, TypeOK
<1>6. HoldInv'
  <2>1. Remaining(frozenSince + settings.wake)' = IF clock + settings.wake > clock
                                                  THEN (clock + settings.wake) - clock ELSE 0
    BY <1>1, <1>4 DEF Remaining
  <2>2. hold' <= Remaining(frozenSince + settings.wake)'
    BY <1>2, <1>5, <2>1
  <2> QED
    BY <2>2 DEF HoldInv
<1>7. DeadlinesAgree' /\ DelayInv'
  BY <1>1, <1>2, <1>4, <1>5 DEF DeadlinesAgree, DelayInv
<1>8. /\ hold' \in Nat /\ wait' \in Deadline /\ pending' \in Deadline
      /\ frozen' \in BOOLEAN /\ frozenSince' \in {None} \cup Time
  BY <1>2, <1>4, <1>5 DEF Deadline
<1> QED
  BY <1>1, <1>2, <1>6, <1>7, <1>8, PassInv

LEMMA PassFailsToFreezeInv ==
  ASSUME Inv, PassFailsToFreeze
  PROVE  Inv'
<1>1. /\ Audit
      /\ UNCHANGED <<clocks, settings, app, bytes, candidate>>
      /\ UNCHANGED <<clock, settings, app, hold>>
      /\ sample' \in Samples /\ gap' \in BOOLEAN /\ SampleInv'
  BY DecidesFacts DEF PassFailsToFreeze
<1>2. frozen' = FALSE /\ frozenSince' = None /\ loose' = FALSE /\ pending' = None /\ wait' = None
  BY DEF PassFailsToFreeze, Clear
<1>3. DeadlinesAgree' /\ DelayInv'
  BY <1>2 DEF DeadlinesAgree, DelayInv
<1>4. HoldInv'
  BY <1>1, <1>2, HoldKept
<1>5. hold' \in Nat /\ wait' \in Deadline /\ pending' \in Deadline
  BY <1>1, <1>2, TimeFacts DEF Inv, Deadline
<1> QED
  BY <1>1, <1>2, <1>3, <1>4, <1>5, PassInv

LEMMA PassPostponesInv ==
  ASSUME Inv, PassPostpones
  PROVE  Inv'
<1>1. /\ Ready /\ Audit
      /\ UNCHANGED <<clocks, settings, app, bytes, candidate>>
      /\ sample' \in Samples /\ gap' \in BOOLEAN /\ SampleInv'
  BY DecidesFacts DEF PassPostpones
<1>2. Clear /\ UNCHANGED <<pending, hold>> /\ wait' = Promise(Owed)
  BY DEF PassPostpones
<1>3. pending' \in Deadline
  BY <1>2 DEF Inv, TypeOK
<1> QED
  BY <1>1, <1>2, <1>3, PutOffInv

-----------------------------------------------------------------------------
(* The environment *)

\* A second more on the clock is a second less to every deadline and of every
\* promise.
LEMMA TickInv ==
  ASSUME Inv, Tick
  PROVE  Inv'
<1>1. /\ clock < MaxTime /\ clock' = clock + 1
      /\ bytes' \in {bytes} \cup ({bytes + 2} \cap 0..MaxBytes)
      /\ wait' = Earlier(wait) /\ hold' = Earlier(hold) /\ rest' = Earlier(rest)
      /\ UNCHANGED <<stepsBack, settings, app, loose, candidate, auditStarted, nextAudit, gap>>
      /\ UNCHANGED <<pending, frozen, frozenSince, sample>>
  BY DEF Tick, deadlines
<1>2. /\ clock \in Nat /\ None \notin Nat
      /\ settings.delay \in Nat /\ settings.wake \in Nat
      /\ pending # None => pending \in Nat
      /\ wait # None => wait \in Nat
      /\ frozenSince # None => frozenSince \in Nat
      /\ nextAudit # None => nextAudit \in Nat
      /\ hold \in Nat /\ rest \in Nat
  BY TimeFacts DEF Inv
<1>3. ASSUME NEW left \in Nat
      PROVE  /\ Earlier(left) \in Nat /\ Earlier(left) # None /\ Earlier(left) <= left
             /\ left = 0 => Earlier(left) = 0
             /\ \A due \in Nat : left <= Remaining(due) => Earlier(left) <= (IF due > clock + 1 THEN due - (clock + 1) ELSE 0)
  <2>1. Earlier(left) = IF left = 0 THEN 0 ELSE left - 1
    BY <1>2 DEF Earlier
  <2>2. Earlier(left) \in Nat /\ Earlier(left) <= left /\ (left = 0 => Earlier(left) = 0)
    BY <2>1
  <2>3. ASSUME NEW due \in Nat, left <= Remaining(due)
        PROVE  Earlier(left) <= (IF due > clock + 1 THEN due - (clock + 1) ELSE 0)
    BY <1>2, <2>1, <2>3 DEF Remaining
  <2> QED
    BY <1>2, <2>2, <2>3
<1>4. TypeOK'
  <2>1. clock' \in Time
    BY <1>1, <1>2, TimersAssumption DEF Time
  <2>2. bytes' \in 0..MaxBytes
    BY <1>1 DEF Inv, TypeOK
  <2>3. hold' \in Nat /\ rest' \in Nat
    BY <1>1, <1>2, <1>3
  <2>4. wait' \in Deadline
    <3>1. CASE wait = None
      BY <1>1, <3>1 DEF Earlier, Deadline
    <3>2. CASE wait # None
      BY <1>1, <1>2, <1>3, <3>2 DEF Deadline
    <3> QED
      BY <3>1, <3>2
  <2> QED
    BY <1>1, <2>1, <2>2, <2>3, <2>4 DEF Inv, TypeOK
<1>5. ASSUME NEW due \in Nat
      PROVE  (IF due > clock + 1 THEN due - (clock + 1) ELSE 0) = (IF due > clock' THEN due - clock' ELSE 0)
  BY <1>1
<1>6. DelayInv'
  <2>1. CASE wait = None
    <3>1. wait' = None
      BY <1>1, <2>1 DEF Earlier
    <3> QED
      BY <1>1, <2>1, <3>1 DEF Inv, DelayInv
  <2>2. CASE wait # None
    <3>1. wait' \in Nat /\ wait' # None /\ wait' <= wait /\ (wait = 0 => wait' = 0)
      BY <1>1, <1>2, <1>3, <2>2
    <3>2. pending # None /\ settings.delay > 0 => wait' <= Remaining(pending)'
      <4>1. SUFFICES ASSUME pending # None, settings.delay > 0 PROVE wait' <= Remaining(pending)'
        OBVIOUS
      <4>2. pending \in Nat /\ wait \in Nat /\ wait <= Remaining(pending)
        BY <1>2, <2>2, <4>1 DEF Inv, DelayInv
      <4>3. wait' <= (IF pending > clock + 1 THEN pending - (clock + 1) ELSE 0)
        BY <1>1, <1>3, <4>2
      <4> QED
        BY <1>1, <4>3 DEF Remaining
    <3>3. pending = None => wait' <= settings.delay
      BY <1>2, <2>2, <3>1 DEF Inv, DelayInv
    <3> QED
      BY <1>1, <2>2, <3>1, <3>2, <3>3 DEF Inv, DelayInv
  <2> QED
    BY <2>1, <2>2
<1>7. HoldInv'
  <2> SUFFICES ASSUME frozenSince # None, settings.wake # 0
               PROVE  hold' <= Remaining(frozenSince + settings.wake)'
    BY <1>1 DEF HoldInv
  <2>1. frozenSince + settings.wake \in Nat /\ hold <= Remaining(frozenSince + settings.wake)
    BY <1>2 DEF Inv, HoldInv
  <2>2. hold' <= (IF frozenSince + settings.wake > clock + 1
                  THEN (frozenSince + settings.wake) - (clock + 1) ELSE 0)
    BY <1>1, <1>2, <1>3, <2>1
  <2> QED
    BY <1>1, <2>2 DEF Remaining
<1>8. RestInv'
  <2>1. nextAudit = None => rest' = 0
    BY <1>1, <1>2, <1>3 DEF Inv, RestInv
  <2>2. ASSUME nextAudit # None PROVE rest' <= Remaining(nextAudit)'
    <3>1. nextAudit \in Nat /\ rest <= Remaining(nextAudit)
      BY <1>2, <2>2 DEF Inv, RestInv
    <3>2. rest' <= (IF nextAudit > clock + 1 THEN nextAudit - (clock + 1) ELSE 0)
      BY <1>1, <1>2, <1>3, <3>1
    <3> QED
      BY <1>1, <3>2 DEF Remaining
  <2> QED
    BY <1>1, <2>1, <2>2 DEF RestInv
<1>9. DeadlinesAgree' /\ SampleInv'
  BY <1>1 DEF Inv, DeadlinesAgree, SampleInv
<1> QED
  BY <1>4, <1>6, <1>7, <1>8, <1>9 DEF Inv

\* A step back of the clock leaves more to every deadline.
LEMMA ClockStepsBackInv ==
  ASSUME Inv, ClockStepsBack
  PROVE  Inv'
<1>1. /\ stepsBack < MaxStepsBack /\ stepsBack' = stepsBack + 1
      /\ clock' \in Time /\ clock' < clock
      /\ UNCHANGED <<settings, app, loose, bytes, candidate, wait, hold, gap>>
      /\ UNCHANGED <<pending, frozen, frozenSince, sample, auditStarted, nextAudit, rest>>
  BY DEF ClockStepsBack, deadlines, audits
<1>2. /\ clock \in Nat /\ None \notin Nat
      /\ settings.delay \in Nat /\ settings.wake \in Nat
      /\ pending # None => pending \in Nat
      /\ wait # None => wait \in Nat
      /\ frozenSince # None => frozenSince \in Nat
      /\ nextAudit # None => nextAudit \in Nat
      /\ hold \in Nat /\ rest \in Nat
  BY TimeFacts DEF Inv
<1>3. clock' \in Nat
  BY <1>1, TimersAssumption DEF Time
<1>4. ASSUME NEW left \in Nat, NEW due \in Nat, NEW now \in Nat, now < clock, left <= Remaining(due)
      PROVE  left <= (IF due > now THEN due - now ELSE 0)
  BY <1>2, <1>4 DEF Remaining
<1>5. ASSUME NEW left \in Nat, NEW due \in Nat, left <= Remaining(due)
      PROVE  left <= (IF due > clock' THEN due - clock' ELSE 0)
  BY <1>1, <1>3, <1>4, <1>5
<1>6. TypeOK'
  <2>1. stepsBack' \in 0..MaxStepsBack
    BY <1>1, TimersAssumption DEF Inv, TypeOK
  <2> QED
    BY <1>1, <2>1 DEF Inv, TypeOK
<1>7. DelayInv'
  <2>1. ASSUME wait # None, pending # None, settings.delay > 0
        PROVE  wait <= (IF pending > clock' THEN pending - clock' ELSE 0)
    BY <1>2, <1>5, <2>1 DEF Inv, DelayInv
  <2> QED
    BY <1>1, <2>1 DEF Inv, DelayInv, Remaining
<1>8. HoldInv'
  <2>1. ASSUME frozenSince # None, settings.wake # 0
        PROVE  hold <= (IF frozenSince + settings.wake > clock'
                        THEN (frozenSince + settings.wake) - clock' ELSE 0)
    <3>1. frozenSince + settings.wake \in Nat /\ hold <= Remaining(frozenSince + settings.wake)
      BY <1>2, <2>1 DEF Inv, HoldInv
    <3> QED
      BY <1>2, <1>5, <3>1
  <2> QED
    BY <1>1, <2>1 DEF HoldInv, Remaining
<1>9. RestInv'
  <2>1. ASSUME nextAudit # None
        PROVE  rest <= (IF nextAudit > clock' THEN nextAudit - clock' ELSE 0)
    BY <1>2, <1>5, <2>1 DEF Inv, RestInv
  <2> QED
    BY <1>1, <2>1 DEF Inv, RestInv, Remaining
<1>10. DeadlinesAgree' /\ SampleInv'
  BY <1>1 DEF Inv, DeadlinesAgree, SampleInv
<1> QED
  BY <1>6, <1>7, <1>8, <1>9, <1>10 DEF Inv

\* An edit ends what was promised under the setting it changes.
LEMMA SettingsChangeInv ==
  ASSUME Inv, SettingsChange
  PROVE  Inv'
<1>1. /\ settings' \in Settings
      /\ wait' = (IF settings'.delay = settings.delay \/ wait = None THEN wait ELSE 0)
      /\ hold' = (IF settings'.wake = settings.wake THEN hold ELSE 0)
      /\ rest' = (IF settings'.audit = settings.audit THEN rest ELSE 0)
      /\ UNCHANGED <<clock, stepsBack, app, loose, bytes, candidate, auditStarted, nextAudit, gap>>
      /\ UNCHANGED <<pending, frozen, frozenSince, sample>>
  BY DEF SettingsChange, deadlines, clocks
<1>2. settings'.delay \in Nat /\ settings'.wake \in Nat
  BY <1>1, SettingsFacts
<1>3. /\ clock \in Nat /\ None \notin Nat /\ hold \in Nat /\ rest \in Nat
      /\ pending # None => pending \in Nat
      /\ frozenSince # None => frozenSince \in Nat
      /\ nextAudit # None => nextAudit \in Nat
  BY TimeFacts DEF Inv
<1>4. ASSUME NEW due \in Nat PROVE 0 <= Remaining(due)
  <2>1. due > clock => due - clock \in Nat
    BY <1>3, Difference
  <2> QED
    BY <2>1 DEF Remaining
<1>5. TypeOK'
  BY <1>1, <1>3 DEF Inv, TypeOK, Deadline
<1>6. DelayInv'
  <2>1. CASE settings'.delay = settings.delay \/ wait = None
    BY <1>1, <2>1 DEF Inv, DelayInv, Remaining
  <2>2. CASE settings'.delay # settings.delay /\ wait # None
    <3>1. wait' = 0 /\ 0 # None
      BY <1>1, <1>3, <2>2
    <3>2. pending # None => 0 <= Remaining(pending)
      BY <1>3, <1>4
    <3>3. Remaining(pending)' = Remaining(pending)
      BY <1>1 DEF Remaining
    <3> QED
      BY <1>1, <1>2, <3>1, <3>2, <3>3 DEF DelayInv
  <2> QED
    BY <2>1, <2>2
<1>7. HoldInv'
  <2>1. CASE settings'.wake = settings.wake
    BY <1>1, <2>1 DEF Inv, HoldInv, Remaining
  <2>2. CASE settings'.wake # settings.wake
    <3>1. frozenSince # None => 0 <= Remaining(frozenSince + settings'.wake)
      BY <1>2, <1>3, <1>4
    <3>2. Remaining(frozenSince + settings.wake)' = Remaining(frozenSince + settings'.wake)
      BY <1>1 DEF Remaining
    <3> QED
      BY <1>1, <2>2, <3>1, <3>2 DEF HoldInv
  <2> QED
    BY <2>1, <2>2
<1>8. RestInv'
  <2>1. nextAudit # None => 0 <= Remaining(nextAudit)
    BY <1>3, <1>4
  <2> QED
    BY <1>1, <2>1 DEF Inv, RestInv, Remaining
<1>9. DeadlinesAgree' /\ SampleInv'
  BY <1>1 DEF Inv, DeadlinesAgree, SampleInv
<1> QED
  BY <1>5, <1>6, <1>7, <1>8, <1>9 DEF Inv

\* What does not touch the deadlines.
LEMMA AloneInv ==
  ASSUME Inv, CounterRestarts \/ AppMoves \/ ComesLoose \/ UNCHANGED vars
  PROVE  Inv'
<1>1. /\ UNCHANGED <<clock, stepsBack, settings, candidate, auditStarted, nextAudit, rest>>
      /\ UNCHANGED <<pending, frozen, frozenSince, sample, wait, hold, gap>>
  BY DEF CounterRestarts, AppMoves, ComesLoose, vars, clocks, deadlines, audits
<1>2. app' \in {"gone", "foreground", "background"} /\ loose' \in BOOLEAN
  BY DEF CounterRestarts, AppMoves, ComesLoose, vars, Inv, TypeOK
<1>3. bytes' \in 0..MaxBytes
  BY TimersAssumption DEF CounterRestarts, AppMoves, ComesLoose, vars, Inv, TypeOK
<1>4. TypeOK'
  BY <1>1, <1>2, <1>3 DEF Inv, TypeOK
<1>5. DeadlinesAgree' /\ DelayInv' /\ HoldInv' /\ RestInv' /\ SampleInv'
  BY <1>1 DEF Inv, DeadlinesAgree, DelayInv, HoldInv, RestInv, SampleInv, Remaining
<1> QED
  BY <1>4, <1>5 DEF Inv

LEMMA StepInv == Inv /\ [Next]_vars => Inv'
<1> SUFFICES ASSUME Inv, [Next]_vars PROVE Inv'
  OBVIOUS
<1>1. CASE PassGone \/ PassForeground \/ PassDisabled
  BY <1>1, ForgetsInv
<1>2. CASE PassWakes \/ PassLeavesFrozen \/ PassDelays \/ PassWaits
  BY <1>2, PassWakesInv, PassLeavesFrozenInv, PassDelaysInv, PassWaitsInv
<1>3. CASE PassSeesDownload \/ PassMissesSample \/ PassCannotSample
  BY <1>3, SampledInv
<1>4. CASE PassFreezes \/ PassFailsToFreeze \/ PassPostpones
  BY <1>4, PassFreezesInv, PassFailsToFreezeInv, PassPostponesInv
<1>5. CASE Tick \/ ClockStepsBack \/ SettingsChange
  BY <1>5, TickInv, ClockStepsBackInv, SettingsChangeInv
<1>6. CASE CounterRestarts \/ AppMoves \/ ComesLoose \/ UNCHANGED vars
  BY <1>6, AloneInv
<1> QED
  BY <1>1, <1>2, <1>3, <1>4, <1>5, <1>6 DEF Next

LEMMA Invariance == Spec => []Inv
<1>1. Init => Inv
  BY InitInv
<1>2. Inv /\ [Next]_vars => Inv'
  BY StepInv
<1> QED
  BY <1>1, <1>2, PTL DEF Spec

-----------------------------------------------------------------------------
(* The properties *)

\* Type correctness of the deadlines and of what is promised.
THEOREM TypeCorrect == Spec => []TypeOK
<1>1. Inv => TypeOK
  BY DEF Inv
<1> QED
  BY <1>1, Invariance, PTL

\* frozen_apps, frozen_since_ms and pending_freezes agree about every app
\* between two passes (track_frozen and untrack_frozen in app/controller.rs).
THEOREM DeadlinesAgreeCorrect == Spec => []DeadlinesAgree
<1>1. Inv => DeadlinesAgree
  BY DEF Inv
<1> QED
  BY <1>1, Invariance, PTL

\* Whatever the settings, no pass freezes an app before its delay is over,
\* though the wall clock is stepped back (process_control_targets).
THEOREM NoEarlyFreezeCorrect == Spec => NoEarlyFreeze
<1>1. ASSUME Inv, Next PROVE FreezeWaits
  <2>1. CASE PassFreezes
    <3>1. Ready
      BY <2>1 DEF PassFreezes, Decides
    <3> QED
      BY <1>1, <3>1, ReadyIsOwedNothing DEF FreezeWaits
  <2>2. CASE ~PassFreezes
    <3>1. ~frozen' \/ frozen' = frozen
      BY <1>1, <2>2
      DEF Next, PassGone, PassForeground, PassDisabled, PassWakes, PassLeavesFrozen, PassDelays,
          PassWaits, PassSeesDownload, PassMissesSample, PassCannotSample, Postponed,
          PassFailsToFreeze, PassPostpones, Clear, ThawFails, deadlines, Tick, ClockStepsBack,
          CounterRestarts, AppMoves, ComesLoose, SettingsChange
    <3> QED
      BY <3>1 DEF FreezeWaits
  <2> QED
    BY <2>1, <2>2
<1>2. Inv /\ [Next]_vars => [FreezeWaits]_vars
  BY <1>1
<1> QED
  BY <1>2, Invariance, PTL DEF Spec, NoEarlyFreeze

\* Whatever the settings, a frozen app sleeps through its wakeup interval,
\* counted from its last freeze (periodic_wakeup_due).
THEOREM NoEarlyWakeupCorrect == Spec => NoEarlyWakeup
<1>1. ASSUME Inv, PassWakes PROVE hold = 0
  <2>1. frozenSince # None /\ settings.wake # 0 /\ clock >= frozenSince + settings.wake
    BY <1>1 DEF PassWakes, WakeupDue
  <2>2. /\ clock \in Nat /\ hold \in Nat /\ frozenSince + settings.wake \in Nat
        /\ hold <= Remaining(frozenSince + settings.wake)
    BY <1>1, <2>1, TimeFacts DEF Inv, HoldInv
  <2>3. Remaining(frozenSince + settings.wake) = 0
    BY <2>1, <2>2 DEF Remaining
  <2> QED
    BY <2>2, <2>3
<1>2. Inv /\ [Next]_vars => [WakeWaits]_vars
  BY <1>1 DEF WakeWaits
<1> QED
  BY <1>2, Invariance, PTL DEF Spec, NoEarlyWakeup

\* The audits of frozen apps keep their interval in the first minutes and
\* after them (refreeze_audit_due).
THEOREM AuditsKeepApartCorrect == Spec => AuditsKeepApart
<1>1. ASSUME Inv, Next PROVE AuditWaits
  <2>1. CASE Audit /\ UNCHANGED <<clock, settings>>
    BY <1>1, <2>1, AuditStep
  <2>2. CASE nextAudit' = nextAudit
    BY <2>2 DEF AuditWaits
  <2>3. (Audit /\ UNCHANGED <<clock, settings>>) \/ nextAudit' = nextAudit
    BY <1>1
    DEF Next, PassGone, PassForeground, PassDisabled, PassWakes, PassLeavesFrozen, PassDelays,
        PassWaits, PassSeesDownload, PassMissesSample, PassCannotSample, Postponed, PassFreezes,
        PassFailsToFreeze, PassPostpones, Decides, clocks, audits, Tick, ClockStepsBack,
        CounterRestarts, AppMoves, ComesLoose, SettingsChange
  <2> QED
    BY <2>1, <2>2, <2>3
<1>2. Inv /\ [Next]_vars => [AuditWaits]_vars
  BY <1>1
<1> QED
  BY <1>2, Invariance, PTL DEF Spec, AuditsKeepApart

\* A download candidate is frozen on samples without a failure in between
\* (DownloadDeferral::evaluate).
THEOREM FreezesOnMeasuredRateCorrect == Spec => FreezesOnMeasuredRate
<1>1. ASSUME Inv, PassFreezes, candidate PROVE ~gap
  BY <1>1 DEF PassFreezes, Decides, Quiet, Inv, SampleInv
<1>2. Inv /\ [Next]_vars => [MeasuredFreeze]_vars
  BY <1>1 DEF MeasuredFreeze
<1> QED
  BY <1>2, Invariance, PTL DEF Spec, FreezesOnMeasuredRate
=============================================================================
