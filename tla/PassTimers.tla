----------------------------- MODULE PassTimers -----------------------------
(***************************************************************************)
(* The deadlines a control pass keeps for one app (app/controller.rs and   *)
(* app/download_deferral.rs): the delay before a freeze, the periodic      *)
(* wakeup and the window it opens, the audit of frozen apps, the two       *)
(* samples of a download and the countdown the manager shows.              *)
(*                                                                         *)
(* Deadlines are read and set on the wall clock, which may be stepped      *)
(* back; "elapsed" is the time that really passes.  A pass is one step:    *)
(* what happens inside its transactions is in Control, and only their      *)
(* outcome matters here.                                                   *)
(***************************************************************************)
EXTENDS Naturals

CONSTANTS
  None,                 \* no deadline, no sample
  MaxTime,              \* bound: the wall clock stops there
  MaxBytes,             \* bound of the download counter, in units of the threshold
  MaxStepsBack,         \* bound: how often the wall clock is stepped back
  Settings,             \* freeze delay, wakeup interval and regular audit
                        \* interval that may be set, 0 for none
  StartPhase,           \* 15 minutes in which audits are frequent
  StartInterval,        \* their interval, one minute
  SampleRetry,          \* INITIAL_SAMPLE_DELAY_MS
  FailureRetry          \* DOWNLOAD_RETRY_DELAY_MS

ASSUME TimersAssumption ==
  /\ None \notin Nat
  /\ MaxTime \in Nat /\ MaxBytes \in Nat /\ MaxStepsBack \in Nat
  /\ Settings \subseteq [delay : Nat, wake : Nat, audit : Nat]
  /\ StartPhase \in Nat /\ StartInterval \in Nat \ {0}
  /\ SampleRetry \in Nat /\ FailureRetry \in Nat

VARIABLES
  clock,                \* the wall clock
  stepsBack,            \* how often it was stepped back
  settings,             \* what the passes read of the settings
  app,                  \* where the app is
  loose,                \* a process of the app runs although the app is frozen
  bytes,                \* its download counter
  candidate,            \* its package is on the download list
  pending,              \* pending_freezes: when a freeze falls due
  frozen,               \* the identity is in frozen_apps
  frozenSince,          \* frozen_since_ms
  sample,               \* download_deferral: the previous sample
  auditStarted,         \* audit_started_at_ms
  nextAudit             \* next_refreeze_audit_at_ms

\* History, for the properties only.
VARIABLES
  wait,                 \* what is left of the delay promised to this background
                        \* stretch, None before a pass has seen it
  hold,                 \* what is left of the wakeup interval
  rest,                 \* what is left of the interval between two audits
  gap                   \* a sample failed after the previous good one

deadlines == <<pending, frozen, frozenSince, sample>>
audits == <<auditStarted, nextAudit, rest>>
clocks == <<clock, stepsBack>>
vars == <<clocks, settings, app, loose, bytes, candidate, deadlines, audits, wait, hold, gap>>

Time == 0..MaxTime
Deadline == Nat \cup {None}

TypeOK ==
  /\ clock \in Time
  /\ stepsBack \in 0..MaxStepsBack
  /\ settings \in Settings
  /\ app \in {"gone", "foreground", "background"}
  /\ loose \in BOOLEAN
  /\ bytes \in 0..MaxBytes
  /\ candidate \in BOOLEAN
  /\ pending \in Deadline
  /\ frozen \in BOOLEAN
  /\ frozenSince \in {None} \cup Time
  /\ sample \in {None} \cup [bytes : 0..MaxBytes, at : Time]
  /\ auditStarted \in {None} \cup Time
  /\ nextAudit \in Deadline
  /\ wait \in Deadline
  /\ hold \in Nat
  /\ rest \in Nat
  /\ gap \in BOOLEAN

\* The daemon has just started; the restart recovery has thawed the app.
Init ==
  /\ clock = 0
  /\ stepsBack = 0
  /\ settings \in Settings
  /\ app = "background"
  /\ loose = FALSE
  /\ bytes = 0
  /\ candidate \in BOOLEAN
  /\ pending = None
  /\ frozen = FALSE
  /\ frozenSince = None
  /\ sample = None
  /\ auditStarted = None
  /\ nextAudit = None
  /\ wait = None
  /\ hold = 0
  /\ rest = 0
  /\ gap = FALSE

Remaining(due) == IF due > clock THEN due - clock ELSE 0
Earlier(t) == IF t = None \/ t = 0 THEN t ELSE t - 1

-----------------------------------------------------------------------------
(* refreeze_audit_due: every enabled pass moves the audit deadlines first.  *)

AuditStart == IF auditStarted = None THEN clock ELSE auditStarted

\* A clock before the start counts as no time elapsed.
AuditInterval ==
  IF clock < AuditStart + StartPhase THEN StartInterval ELSE settings.audit

AuditDeadline == IF nextAudit = None THEN AuditStart + StartInterval ELSE nextAudit

AuditDue == AuditInterval # 0 /\ clock >= AuditDeadline

\* Mutant: the next audit is planned from the missed deadline, not from now.
AuditFromDeadline ==
  /\ auditStarted' = AuditStart
  /\ nextAudit' = IF AuditInterval = 0 THEN None
                  ELSE IF AuditDue THEN AuditDeadline + AuditInterval
                  ELSE AuditDeadline
  /\ rest' = IF AuditInterval = 0 THEN 0 ELSE IF AuditDue THEN AuditInterval ELSE rest

\* Without a regular interval the deadline is forgotten.
Audit ==
  /\ auditStarted' = AuditStart
  /\ nextAudit' = IF AuditInterval = 0 THEN None
                  ELSE IF AuditDue THEN clock + AuditInterval
                  ELSE AuditDeadline
  /\ rest' = IF AuditInterval = 0 THEN 0 ELSE IF AuditDue THEN AuditInterval ELSE rest

-----------------------------------------------------------------------------
(* One pass over the app: one action per branch of the pass. *)

\* freeze_status_records, at the end of each enabled pass: the seconds of a
\* pending freeze count down to it.
Countdown == IF app # "foreground" /\ pending' # None THEN Remaining(pending') ELSE 0

\* A countdown that was shown is a promise too, but with the delay off, when
\* the pass ignores what is pending.
Promise(owed) ==
  IF settings.delay > 0 /\ owed # None /\ Countdown > owed THEN Countdown ELSE owed

Clear == frozen' = FALSE /\ frozenSince' = None /\ loose' = FALSE

\* What is tracked although the thaw failed; some processes may run.
ThawFails == UNCHANGED <<frozen, frozenSince>> /\ loose' \in BOOLEAN

PassGone ==
  /\ app = "gone"
  /\ Audit
  /\ pending' = None /\ sample' = None
  /\ Clear
  /\ wait' = None
  /\ UNCHANGED <<clocks, settings, app, bytes, candidate, hold, gap>>

\* Mutant: the pending freeze survives the foreground.
PassForegroundPending ==
  /\ app = "foreground"
  /\ Audit
  /\ IF frozen THEN Clear \/ ThawFails ELSE UNCHANGED <<frozen, frozenSince, loose>>
  /\ wait' = None
  /\ UNCHANGED <<clocks, settings, app, bytes, candidate, pending, sample, hold, gap>>

\* The sample of the download survives the foreground.
PassForeground ==
  /\ app = "foreground"
  /\ Audit
  /\ pending' = None
  /\ IF frozen THEN Clear \/ ThawFails ELSE UNCHANGED <<frozen, frozenSince, loose>>
  /\ wait' = None
  /\ UNCHANGED <<clocks, settings, app, bytes, candidate, sample, hold, gap>>

\* periodic_wakeup_due
WakeupDue ==
  /\ settings.wake # 0
  /\ frozenSince # None
  /\ clock >= frozenSince + settings.wake

PassWakes ==
  /\ app = "background" /\ frozen
  /\ WakeupDue
  /\ Audit
  /\ \/ Clear /\ pending' = clock + settings.delay /\ wait' = Promise(settings.delay)
     \/ ThawFails /\ UNCHANGED <<pending, wait>>
  /\ UNCHANGED <<clocks, settings, app, bytes, candidate, sample, hold, gap>>

StaysFrozen == frozen /\ ~WakeupDue /\ ~(AuditDue /\ loose)

PassLeavesFrozen ==
  /\ app = "background"
  /\ StaysFrozen
  /\ Audit
  /\ UNCHANGED <<clocks, settings, app, loose, bytes, candidate, deadlines, wait, hold, gap>>

\* The audit found a frozen app running: it is detached and frozen again
\* without a delay.
Abnormal == frozen /\ ~WakeupDue /\ AuditDue /\ loose

\* An app that the audit detached is owed no delay.
Owed == IF wait # None THEN wait ELSE IF Abnormal THEN 0 ELSE settings.delay

PassDelays ==
  /\ app = "background" /\ ~frozen
  /\ settings.delay > 0
  /\ pending = None
  /\ Audit
  /\ pending' = clock + settings.delay
  /\ frozenSince' = None
  /\ wait' = Promise(Owed)
  /\ UNCHANGED <<clocks, settings, app, loose, bytes, candidate, frozen, sample, hold, gap>>

PassWaits ==
  /\ app = "background" /\ ~frozen
  /\ settings.delay > 0
  /\ pending # None /\ clock < pending
  /\ Audit
  /\ UNCHANGED deadlines
  /\ wait' = Promise(Owed)
  /\ UNCHANGED <<clocks, settings, app, loose, bytes, candidate, hold, gap>>

\* No delay is set or the pending freeze has fallen due.
DelayOver == settings.delay = 0 \/ (pending # None /\ clock >= pending)

Ready == app = "background" /\ (Abnormal \/ (~frozen /\ DelayOver))

-----------------------------------------------------------------------------
(* DownloadDeferral::evaluate *)

\* Mutant: the sample carries the time of the next one.
SampleOfRetry == [bytes |-> bytes, at |-> clock + SampleRetry]

NewSample == [bytes |-> bytes, at |-> clock]

\* Two samples in order, and no more than the threshold between them.
Quiet ==
  /\ sample # None
  /\ clock > sample.at
  /\ bytes >= sample.bytes
  /\ bytes - sample.bytes <= clock - sample.at

Postponed(retry) ==
  /\ pending' = clock + retry
  /\ Clear
  /\ wait' = Promise(Owed)
  /\ UNCHANGED <<clocks, settings, app, bytes, candidate, hold>>

\* The counter was read and the app is loading, or may be.
PassSeesDownload ==
  /\ Ready /\ candidate /\ ~Quiet
  /\ Audit
  /\ sample' = NewSample /\ gap' = FALSE
  /\ Postponed(SampleRetry)

\* netstats has no line for the uid.
PassMissesSample ==
  /\ Ready /\ candidate
  /\ Audit
  /\ sample' = None /\ gap' = TRUE
  /\ Postponed(SampleRetry)

\* Mutant: a failed read keeps the sample before it.
PassKeepsSample ==
  /\ Ready /\ candidate
  /\ Audit
  /\ UNCHANGED sample /\ gap' = TRUE
  /\ Postponed(FailureRetry)

\* netstats failed.
PassCannotSample ==
  /\ Ready /\ candidate
  /\ Audit
  /\ sample' = None /\ gap' = TRUE
  /\ Postponed(FailureRetry)

-----------------------------------------------------------------------------
(* The decision and its transaction *)

Decides ==
  /\ Ready /\ (candidate => Quiet)
  /\ Audit
  /\ sample' = IF candidate THEN NewSample ELSE None
  /\ gap' = FALSE
  /\ UNCHANGED <<clocks, settings, app, bytes, candidate>>

\* mark_abnormal_thaw_for_refreeze forgets when the app was frozen.
SinceBefore == IF Abnormal THEN None ELSE frozenSince

\* Mutant: a refreeze counts from the first freeze.
TrackKeepsSince ==
  /\ frozen' = TRUE
  /\ frozenSince' = IF frozenSince = None THEN clock ELSE frozenSince

\* track_frozen
Track ==
  /\ frozen' = TRUE
  /\ frozenSince' = IF SinceBefore = None THEN clock ELSE SinceBefore

\* Mutant: the pending freeze is not removed.
FreezesStillPending ==
  /\ Decides
  /\ Track
  /\ loose' \in BOOLEAN
  /\ wait' = 0 /\ hold' = settings.wake
  /\ UNCHANGED pending

\* The app is frozen or stopped, or a failed roll back leaves part of it so.
PassFreezes ==
  /\ Decides
  /\ Track
  /\ loose' \in BOOLEAN
  /\ pending' = None
  /\ wait' = 0 /\ hold' = settings.wake

\* The transaction failed and was rolled back.
PassFailsToFreeze ==
  /\ Decides
  /\ Clear
  /\ pending' = None
  /\ wait' = None /\ UNCHANGED hold

\* The backend postpones or skips the app: the pending freeze stays due.
PassPostpones ==
  /\ Decides
  /\ Clear
  /\ UNCHANGED pending
  /\ wait' = Promise(Owed) /\ UNCHANGED hold

\* Control is switched off: everything tracked is thawed and every deadline
\* of the app goes, those of the audit excepted.
PassDisabled ==
  /\ IF frozen THEN Clear \/ ThawFails ELSE UNCHANGED <<frozen, frozenSince, loose>>
  /\ pending' = None /\ sample' = None
  /\ wait' = None
  /\ UNCHANGED <<clocks, settings, app, bytes, candidate, audits, hold, gap>>

-----------------------------------------------------------------------------
(* The environment *)

Tick ==
  /\ clock < MaxTime
  /\ clock' = clock + 1
  /\ bytes' \in {bytes} \cup ({bytes + 2} \cap 0..MaxBytes)
  /\ wait' = Earlier(wait) /\ hold' = Earlier(hold) /\ rest' = Earlier(rest)
  /\ UNCHANGED <<stepsBack, settings, app, loose, candidate, deadlines, auditStarted, nextAudit, gap>>

ClockStepsBack ==
  /\ stepsBack < MaxStepsBack
  /\ stepsBack' = stepsBack + 1
  /\ clock' \in {t \in Time : t < clock}
  /\ UNCHANGED <<settings, app, loose, bytes, candidate, deadlines, audits, wait, hold, gap>>

\* The counters of netstats start again.
CounterRestarts ==
  /\ bytes > 0 /\ bytes' = 0
  /\ UNCHANGED <<clocks, settings, app, loose, candidate, deadlines, audits, wait, hold, gap>>

AppMoves ==
  /\ app' \in {"gone", "foreground", "background"} \ {app}
  /\ loose' = (loose /\ app' # "gone")
  /\ UNCHANGED <<clocks, settings, bytes, candidate, deadlines, audits, wait, hold, gap>>

\* A process of a frozen app starts, or something else thaws one.
ComesLoose ==
  /\ frozen /\ app # "gone" /\ ~loose
  /\ loose' = TRUE
  /\ UNCHANGED <<clocks, settings, app, bytes, candidate, deadlines, audits, wait, hold, gap>>

\* What was promised under the old settings ends.
SettingsChange ==
  /\ settings' \in Settings \ {settings}
  /\ wait' = IF settings'.delay = settings.delay \/ wait = None THEN wait ELSE 0
  /\ hold' = IF settings'.wake = settings.wake THEN hold ELSE 0
  /\ rest' = IF settings'.audit = settings.audit THEN rest ELSE 0
  /\ UNCHANGED <<clocks, app, loose, bytes, candidate, deadlines, auditStarted, nextAudit, gap>>

Next ==
  \/ PassGone \/ PassForeground \/ PassWakes \/ PassLeavesFrozen \/ PassDelays \/ PassWaits
  \/ PassSeesDownload \/ PassMissesSample \/ PassCannotSample
  \/ PassFreezes \/ PassFailsToFreeze \/ PassPostpones
  \/ PassDisabled
  \/ Tick \/ ClockStepsBack \/ CounterRestarts \/ AppMoves \/ ComesLoose \/ SettingsChange

Spec == Init /\ [][Next]_vars

-----------------------------------------------------------------------------
(* Properties *)

\* An app is frozen only after the whole delay, counted from the pass that saw
\* it leave the foreground, start or wake up, or from the countdown shown
\* later, has really passed.
FreezeWaits == ~frozen /\ frozen' => IF wait = None THEN settings.delay = 0 ELSE wait = 0
NoEarlyFreeze == [][FreezeWaits]_vars

\* A frozen app is woken only after a whole wakeup interval since it was frozen
\* last, a refreeze by the audit included.
WakeWaits == PassWakes => hold = 0
NoEarlyWakeup == [][WakeWaits]_vars

\* Two audits are an interval apart, late passes and a clock stepped back
\* included, as long as there is an interval: the deadline is forgotten with it,
\* and a new interval begins with an audit.
AuditWaits == nextAudit' # None /\ nextAudit' # nextAudit /\ nextAudit # None => rest = 0
AuditsKeepApart == [][AuditWaits]_vars

\* A download candidate is frozen on two good samples with no failed one in
\* between (comment of DownloadDeferral::evaluate).
MeasuredFreeze == PassFreezes /\ candidate => ~gap
FreezesOnMeasuredRate == [][MeasuredFreeze]_vars

\* The three deadlines agree: a frozen app has a wakeup time and no pending
\* freeze, any other has no wakeup time.
DeadlinesAgree == (frozen <=> frozenSince # None) /\ (frozen => pending = None)
=============================================================================
